------------------------------ MODULE DeckProofs ------------------------------
(***************************************************************************)
(* Theorems about Portfolio: what every section reads as, and the deck     *)
(* that is derived from it.                                                *)
(***************************************************************************)
EXTENDS PortfolioProofs, Ranks

-----------------------------------------------------------------------------
(* What every section reads as.                                             *)

\* All the fields of its type, and none null that may not be.
ReadsWell(section, content) ==
  \A x \in FieldsIn(section, content) :
    Conforms(Layers[x.layer].nullable, HydratedFields(x.layer, x.fields))

\* What may be left out the mapper and the schema know of, and the type expects null
\* where they put it.
LEMMA LayersAgree ==
  ASSUME NEW layer \in ListLayers
  PROVE  /\ Layers[layer].dto.may \subseteq Layers[layer].mapper.fills \cup Layers[layer].mapper.nulls
         /\ Layers[layer].mapper.nulls \subseteq Layers[layer].nullable
         /\ Layers[layer].dto.may \subseteq Layers[layer].schema.fills \cup Layers[layer].schema.nulls
         /\ Layers[layer].schema.nulls \subseteq Layers[layer].nullable
<1>1. Layers[layer].dto.may \subseteq Layers[layer].mapper.fills \cup Layers[layer].mapper.nulls
  BY SMTT(30) DEF ListLayers, ListSections, KEYED_ARRAY_SECTIONS, Layers, Layer, Dto, Mapper,
         WorkEntryDto, StageEntryDto, ScreenshotDto, HotspotDto, TimelineEntryDto,
         CapabilityEntryDto, OfferingEntryDto, MetricEntryDto, TestimonialEntryDto,
         TeamMemberEntryDto, MediaEntryDto, ContentEntryDto,
         toWorks, toStages, toScreenshots, toHotspots, toTimeline, toCapabilities,
         toOfferings, toMetrics, toTestimonials, toTeam, toMedia, toContent
<1>2. Layers[layer].mapper.nulls \subseteq Layers[layer].nullable
  BY SMTT(30) DEF ListLayers, ListSections, KEYED_ARRAY_SECTIONS, Layers, Layer, Mapper,
         toWorks, toStages, toScreenshots, toHotspots, toTimeline, toCapabilities,
         toOfferings, toMetrics, toTestimonials, toTeam, toMedia, toContent,
         WorkNullable, StageNullable, ScreenshotNullable, HotspotNullable, TimelineNullable,
         CapabilityNullable, OfferingNullable, MetricNullable, TestimonialNullable,
         TeamMemberNullable, MediaNullable, ContentNullable
<1>3. Layers[layer].dto.may \subseteq Layers[layer].schema.fills \cup Layers[layer].schema.nulls
  BY SMTT(30) DEF ListLayers, ListSections, KEYED_ARRAY_SECTIONS, Layers, Layer, Dto, Schema,
         WorkEntryDto, StageEntryDto, ScreenshotDto, HotspotDto, TimelineEntryDto,
         CapabilityEntryDto, OfferingEntryDto, MetricEntryDto, TestimonialEntryDto,
         TeamMemberEntryDto, MediaEntryDto, ContentEntryDto,
         WorkSchema, StageSchema, ScreenshotSchema, HotspotSchema, TimelineSchema,
         CapabilitySchema, OfferingSchema, MetricSchema, TestimonialSchema,
         TeamMemberSchema, MediaSchema, ContentSchema
<1>4. Layers[layer].schema.nulls \subseteq Layers[layer].nullable
  BY SMTT(30) DEF ListLayers, ListSections, KEYED_ARRAY_SECTIONS, Layers, Layer, Schema,
         WorkSchema, StageSchema, ScreenshotSchema, HotspotSchema, TimelineSchema,
         CapabilitySchema, OfferingSchema, MetricSchema, TestimonialSchema,
         TeamMemberSchema, MediaSchema, ContentSchema,
         WorkNullable, StageNullable, ScreenshotNullable, HotspotNullable, TimelineNullable,
         CapabilityNullable, OfferingNullable, MetricNullable, TestimonialNullable,
         TeamMemberNullable, MediaNullable, ContentNullable
<1> QED BY <1>1, <1>2, <1>3, <1>4

LEMMA ValuesDiffer ==
  /\ Undefined # Null /\ Undefined # Given /\ Undefined # Filled /\ Null # Given /\ Null # Filled
  /\ Absent = {Undefined, Null}
BY DEF Undefined, Null, Given, Filled, Absent

\* What the DTO accepts, the mapper fills up.
LEMMA AcceptedReadsWell ==
  ASSUME NEW layer \in ListLayers, NEW f \in Fields(layer), Accepted(Layers[layer].dto, f)
  PROVE  Conforms(Layers[layer].nullable, HydratedFields(layer, MappedFields(layer, f)))
<1> DEFINE mapped == MappedFields(layer, f)
           read == HydratedFields(layer, mapped)
<1>1. DOMAIN read = DOMAIN f /\ DOMAIN mapped = DOMAIN f
      /\ DOMAIN f = Layers[layer].dto.must \cup Layers[layer].dto.may
  BY DEF HydratedFields, Hydrated, MappedFields, Mapped, Fields, FieldsOf
<1>2. ASSUME NEW g \in DOMAIN f
      PROVE  read[g] # Undefined /\ (read[g] = Null => g \in Layers[layer].nullable)
  <2>1. mapped[g] = IF f[g] \notin Absent THEN f[g]
                    ELSE IF g \in Layers[layer].mapper.fills THEN Filled
                    ELSE IF g \in Layers[layer].mapper.nulls THEN Null
                    ELSE f[g]
    BY DEF MappedFields, Mapped
  <2>2. mapped[g] # Undefined => read[g] = mapped[g]
    BY <1>1 DEF HydratedFields, Hydrated
  <2> HIDE DEF mapped, read
  <2>3. CASE f[g] \notin Absent
    BY <2>1, <2>2, <2>3, ValuesDiffer
  <2>4. CASE f[g] \in Absent
    <3>1. g \in Layers[layer].dto.may
      BY <1>1, <2>4 DEF Accepted
    <3>2. g \in Layers[layer].mapper.fills \/ g \in Layers[layer].mapper.nulls
      BY <3>1, LayersAgree
    <3> QED BY <2>1, <2>2, <2>4, <3>2, ValuesDiffer, LayersAgree
  <2> QED BY <2>3, <2>4
<1> QED BY <1>1, <1>2 DEF Conforms

\* What was stored before most fields had been thought of, the schema fills up.
LEMMA LegacyReadsWell ==
  ASSUME NEW layer \in ListLayers
  PROVE  /\ Conforms(Layers[layer].nullable, HydratedFields(layer, Shape(layer, Undefined)))
         /\ Accepted(Layers[layer].dto, Shape(layer, Undefined))
<1> DEFINE f == Shape(layer, Undefined)
           read == HydratedFields(layer, f)
<1>1. DOMAIN read = DOMAIN f /\ DOMAIN f = Layers[layer].dto.must \cup Layers[layer].dto.may
  BY DEF HydratedFields, Hydrated, Shape, FieldsOf
<1>2. \A g \in DOMAIN f : f[g] = IF g \in Layers[layer].dto.must THEN Given ELSE Undefined
  BY DEF Shape
<1>3. \A g \in DOMAIN f : read[g] = IF f[g] # Undefined THEN f[g]
                                    ELSE IF g \in Layers[layer].schema.fills THEN Filled
                                    ELSE IF g \in Layers[layer].schema.nulls THEN Null
                                    ELSE Undefined
  BY DEF HydratedFields, Hydrated
<1> HIDE DEF f, read
<1>4. ASSUME NEW g \in DOMAIN f
      PROVE  read[g] # Undefined /\ (read[g] = Null => g \in Layers[layer].nullable)
  BY <1>1, <1>2, <1>3, LayersAgree, ValuesDiffer
<1>5. Conforms(Layers[layer].nullable, read)
  BY <1>1, <1>4 DEF Conforms
<1>6. Accepted(Layers[layer].dto, f)
  BY <1>1, <1>2, ValuesDiffer DEF Accepted
<1> QED BY <1>5, <1>6 DEF f, read

\* What is stored before any of today's code has run.
LEMMA LegacyFields ==
  ASSUME NEW section \in ListSections, NEW x \in FieldsIn(section, Legacy(section))
  PROVE  x.layer \in ListLayers /\ x.fields = Shape(x.layer, Undefined)
<1>1. CASE section # "works"
  <2> DEFINE e == Fresh(section, Undefined, 0, 1)
             l == <<e>>
  <2>1. Legacy(section) = Labelled(l)
    BY <1>1 DEF Legacy
  <2>2. e = [key |-> NoKey, of |-> e.of, fields |-> Shape(section, Undefined)]
    BY DEF Fresh
  <2> HIDE DEF e
  <2>3. \A i \in DOMAIN Labelled(l) :
          Labelled(l)[i] = e \/ Labelled(l)[i] = [e EXCEPT !.of = Append(e.of, i)]
    BY DEF Labelled
  <2>4. \A of : [e EXCEPT !.of = of].fields = e.fields
    BY <2>2
  <2>5. e.fields = Shape(section, Undefined)
    BY <2>2
  <2> HIDE DEF l
  <2>6. \A i \in DOMAIN Labelled(l) : Labelled(l)[i].fields = Shape(section, Undefined)
    BY <2>3, <2>4, <2>5
  <2>7. PICK i \in DOMAIN Labelled(l) : x = [layer |-> section, fields |-> Labelled(l)[i].fields]
    BY <1>1, <2>1, FieldsOfEntries
  <2> QED BY <2>6, <2>7 DEF ListLayers
<1>2. CASE section = "works"
  <2> DEFINE shot == FreshShot(Undefined, 0, 0)
             shots == <<shot>>
             fresh == FreshWork(Undefined, 1, 1, 0)
             e == [fresh EXCEPT !.screenshots = shots]
             l == <<e>>
  <2>1. Legacy(section) = Labelled(l)
    BY <1>2 DEF Legacy
  <2>2. shot = [key |-> NoKey, of |-> shot.of, fields |-> Shape("screenshots", Undefined),
                hotspots |-> shot.hotspots]
        /\ DOMAIN shot.hotspots = {}
    BY DEF FreshShot
  <2>3. fresh = [key |-> NoKey, of |-> fresh.of, fields |-> Shape("works", Undefined),
                 stages |-> fresh.stages, screenshots |-> fresh.screenshots]
        /\ \A j \in DOMAIN fresh.stages : fresh.stages[j].fields = Shape("stages", Undefined)
    BY DEF FreshWork, Fresh
  <2>4. DOMAIN shots = {1} /\ shots[1] = shot
    OBVIOUS
  <2> HIDE DEF shot, shots, fresh
  <2>5. e = [key |-> NoKey, of |-> e.of, fields |-> Shape("works", Undefined),
             stages |-> fresh.stages, screenshots |-> shots]
    BY <2>3
  <2> HIDE DEF e
  <2>6. \A i \in DOMAIN Labelled(l) :
          Labelled(l)[i] = e \/ Labelled(l)[i] = [e EXCEPT !.of = Append(e.of, i)]
    BY DEF Labelled
  <2> HIDE DEF l
  <2>7. \A of : /\ [e EXCEPT !.of = of].fields = e.fields
                /\ [e EXCEPT !.of = of].stages = e.stages
                /\ [e EXCEPT !.of = of].screenshots = e.screenshots
    BY <2>5
  <2>8. PICK i \in DOMAIN Labelled(l) : OfWork(Labelled(l)[i], x)
    BY <1>2, <2>1, FieldsOfWorks
  <2>9. /\ Labelled(l)[i].fields = Shape("works", Undefined)
        /\ Labelled(l)[i].stages = fresh.stages /\ Labelled(l)[i].screenshots = shots
    BY <2>5, <2>6, <2>7
  <2>10. {"works", "stages", "screenshots", "hotspots"} \subseteq ListLayers
    BY DEF ListLayers, ListSections, KEYED_ARRAY_SECTIONS
  <2>11. shot.fields = Shape("screenshots", Undefined)
    BY <2>2
  <2> QED BY <2>2, <2>3, <2>4, <2>8, <2>9, <2>10, <2>11 DEF OfWork
<1> QED BY <1>1, <1>2

LEMMA FirstReadsWell ==
  ASSUME NEW section \in ListSections, NEW age \in Ages
  PROVE  ReadsWell(section, FirstEntries(section, age))
<1> DEFINE l == Legacy(section)
           mapped == MappedEntries(section, l)
<1>0. 0 \in Nat /\ IsContent(section, 0, l)
  BY LegacyIsContent
<1>1. ReadsWell(section, l)
  BY LegacyFields, LegacyReadsWell DEF ReadsWell
<1>2. IsContent(section, 0, mapped)
  BY <1>0, MappingKeepsContent DEF MappedEntries
<1>3. ASSUME NEW x \in FieldsIn(section, mapped)
      PROVE  Conforms(Layers[x.layer].nullable, HydratedFields(x.layer, x.fields))
  <2>1. PICK layer, f : At(layer, f) \in FieldsIn(section, l)
                        /\ x = At(layer, MappedFields(layer, f))
    BY <1>3, InsideAMadeList
  <2>2. At(layer, f).layer = layer /\ At(layer, f).fields = f
        /\ x.layer = layer /\ x.fields = MappedFields(layer, f)
    BY <2>1 DEF At
  <2>3. layer \in ListLayers /\ f \in Fields(layer) /\ f = Shape(layer, Undefined)
    BY <1>0, <2>1, <2>2, FieldsAreTyped, LegacyFields
  <2> QED BY <2>2, <2>3, LegacyReadsWell, AcceptedReadsWell
<1> HIDE DEF l, mapped
<1>4. CASE age = "unkeyed"
  <2>1. FirstEntries(section, age) = l
    BY <1>4 DEF FirstEntries, l
  <2> QED BY <1>1, <2>1
<1>5. CASE age = "unpointed"
  <2>1. FirstEntries(section, age) = EntriesAndStages(section, l, 0)
    BY <1>5 DEF FirstEntries, EntriesAndStages, l
  <2>2. FieldsIn(section, EntriesAndStages(section, l, 0)) \subseteq FieldsIn(section, l)
    BY <1>0, KeysKeepFields
  <2> QED BY <1>1, <2>1, <2>2 DEF ReadsWell
<1>6. CASE age = "created"
  <2>1. FirstEntries(section, age) = withEntryKeys(section, mapped, 0)
    BY <1>6 DEF FirstEntries, l, mapped, MappedEntries
  <2>2. FieldsIn(section, withEntryKeys(section, mapped, 0)) \subseteq FieldsIn(section, mapped)
    BY <1>0, <1>2, KeysKeepFields
  <2> QED BY <1>3, <2>1, <2>2 DEF ReadsWell
<1> QED BY <1>4, <1>5, <1>6 DEF Ages

\* What one body makes of a list.
LEMMA PatchReadsWell ==
  ASSUME NEW n \in Nat, NEW section \in ListSections, NEW body, IsContent(section, n, body),
         BodyAccepted(section, body)
  PROVE  ReadsWell(section, withEntryKeys(section, MappedEntries(section, body), n))
<1> DEFINE mapped == MappedEntries(section, body)
           out == withEntryKeys(section, mapped, n)
<1>1. IsContent(section, n, mapped)
  BY MappingKeepsContent DEF MappedEntries
<1>2. ASSUME NEW x \in FieldsIn(section, out)
      PROVE  Conforms(Layers[x.layer].nullable, HydratedFields(x.layer, x.fields))
  <2>1. x \in FieldsIn(section, mapped)
    <3> HIDE DEF mapped
    <3> QED BY <1>1, <1>2, KeysKeepFields
  <2>2. PICK layer, f : At(layer, f) \in FieldsIn(section, body)
                        /\ x = At(layer, MappedFields(layer, f))
    BY <2>1, InsideAMadeList
  <2>3. At(layer, f).layer = layer /\ At(layer, f).fields = f
        /\ x.layer = layer /\ x.fields = MappedFields(layer, f)
    BY <2>2 DEF At
  <2>4. layer \in ListLayers /\ f \in Fields(layer)
    BY <2>2, <2>3, FieldsAreTyped
  <2>5. Accepted(Layers[layer].dto, f)
    BY <2>2, <2>3 DEF BodyAccepted
  <2> QED BY <2>3, <2>4, <2>5, AcceptedReadsWell
<1> QED BY <1>2 DEF ReadsWell

LEMMA FieldsOfAnObject ==
  ASSUME NEW section \in ObjectSections, NEW content
  PROVE  FieldsIn(section, content) = {At(section, content)}
BY DEF FieldsIn, At

LEMMA ObjectsAsAWhole ==
  ASSUME NEW section \in ObjectSections, NEW c
  PROVE  /\ ReadsWell(section, c)
              <=> Conforms(Layers[section].nullable, HydratedFields(section, c))
         /\ SectionStorable(section, c) <=> Storable(Layers[section].schema, c)
<1>1. FieldsIn(section, c) = {At(section, c)}
  BY FieldsOfAnObject
<1>2. At(section, c).layer = section /\ At(section, c).fields = c
  BY DEF At
<1> QED BY <1>1, <1>2 DEF ReadsWell, SectionStorable

\* An object keeps its fields, whatever is sent.
LEMMA ObjectPatchReadsWell ==
  ASSUME NEW section \in ObjectSections, DOMAIN stored[section] = FieldsOf(Layers[section].dto),
         ReadsWell(section, stored[section]), NEW body,
         SectionStorable(section, Updated(section, body))
  PROVE  /\ DOMAIN Updated(section, body) = FieldsOf(Layers[section].dto)
         /\ ReadsWell(section, Updated(section, body))
<1> DEFINE was == stored[section]
           is == Updated(section, body)
           layer == Layers[section]
<1>1. is = [f \in DOMAIN was |->
              IF f \in DOMAIN body /\ body[f] # Undefined
              THEN Mapped(layer.mapper, body)[f] ELSE was[f]]
  BY DEF Updated, toProfileUpdateFields, ObjectSections, ListSections, KEYED_ARRAY_SECTIONS
<1>2. DOMAIN is = FieldsOf(layer.dto)
  BY <1>1
<1> HIDE DEF was, is
<1>3. \A c : /\ ReadsWell(section, c) <=> Conforms(layer.nullable, HydratedFields(section, c))
             /\ SectionStorable(section, c) <=> Storable(layer.schema, c)
  BY ObjectsAsAWhole
<1>4. Storable(layer.schema, is)
  BY <1>3 DEF is
<1>5. \A f \in FieldsOf(layer.dto) :
        /\ f \in layer.mapper.fills \/ f \in layer.mapper.nulls
        /\ f \in layer.mapper.nulls => f \in layer.nullable \/ f \in layer.schema.required
  BY DEF ObjectSections, FieldsOf, Layers, Layer, SocialDto, SocialUpdate, SocialSchema,
         SocialNullable, UpdateIdentityDto, IdentityUpdate, IdentitySchema, IdentityNullable,
         Dto, Mapper, Schema
<1>6. Conforms(layer.nullable, HydratedFields(section, was))
  BY <1>3 DEF was
<1> HIDE DEF layer
<1>7. ASSUME NEW f \in DOMAIN is
      PROVE  /\ HydratedFields(section, is)[f] # Undefined
             /\ HydratedFields(section, is)[f] = Null => f \in layer.nullable
  <2>1. CASE f \in DOMAIN body /\ body[f] # Undefined
    <3>1. is[f] = Mapped(layer.mapper, body)[f]
      BY <1>1, <1>7, <2>1
    <3>2. is[f] = IF body[f] \notin Absent THEN body[f]
                  ELSE IF f \in layer.mapper.fills THEN Filled
                  ELSE IF f \in layer.mapper.nulls THEN Null
                  ELSE body[f]
      BY <2>1, <3>1 DEF Mapped
    <3>3. is[f] # Undefined
      BY <1>2, <1>5, <1>7, <2>1, <3>2, ValuesDiffer
    <3>4. HydratedFields(section, is)[f] = is[f]
      BY <1>7, <3>3 DEF HydratedFields, Hydrated
    <3>5. is[f] = Null => f \in layer.nullable
      BY <1>2, <1>4, <1>5, <1>7, <3>2, ValuesDiffer DEF Storable
    <3> QED BY <3>3, <3>4, <3>5
  <2>2. CASE ~(f \in DOMAIN body /\ body[f] # Undefined)
    <3>1. f \in DOMAIN was /\ is[f] = was[f]
      BY <1>1, <1>7, <2>2
    <3>2. HydratedFields(section, is)[f] = HydratedFields(section, was)[f]
      BY <1>7, <3>1 DEF HydratedFields, Hydrated
    <3>3. f \in DOMAIN HydratedFields(section, was)
      BY <3>1 DEF HydratedFields, Hydrated
    <3> QED BY <1>6, <3>2, <3>3 DEF Conforms
  <2> QED BY <2>1, <2>2
<1>8. DOMAIN HydratedFields(section, is) = DOMAIN is
  BY DEF HydratedFields, Hydrated
<1>9. Conforms(layer.nullable, HydratedFields(section, is))
  BY <1>7, <1>8 DEF Conforms
<1> QED BY <1>2, <1>3, <1>9 DEF is, layer

FieldsInv ==
  /\ PortfolioInv
  /\ refused \subseteq ListSections \cup ObjectSections
  /\ \A s \in ListSections \cup ObjectSections : ReadsWell(s, stored[s])
  /\ \A s \in ObjectSections : DOMAIN stored[s] = FieldsOf(Layers[s].dto)
  /\ \A b \in backfill : \A s \in DOMAIN b.changes : ReadsWell(s, b.changes[s])

LEMMA FirstObjectsReadWell ==
  ASSUME NEW age \in Ages, NEW section \in ObjectSections
  PROVE  /\ DOMAIN Document(age)[section] = FieldsOf(Layers[section].dto)
         /\ ReadsWell(section, Document(age)[section])
<1> DEFINE content == Document(age)[section]
           layer == Layers[section]
<1>1. CASE section = "social"
  <2>1. content = IF age = "created" THEN Mapped(SocialUpdate, Shape("social", Undefined))
                  ELSE Shape("social", Undefined)
    BY <1>1 DEF Document
  <2>2. /\ DOMAIN Shape("social", Undefined) = {"links", "email", "phone", "calendarUrl"}
        /\ \A f \in DOMAIN Shape("social", Undefined) : Shape("social", Undefined)[f] = Undefined
        /\ FieldsOf(layer.dto) = {"links", "email", "phone", "calendarUrl"}
        /\ layer.nullable = {"email", "phone", "calendarUrl"}
        /\ layer.schema.fills = {"links"} /\ layer.schema.nulls = {"email", "phone", "calendarUrl"}
        /\ SocialUpdate.fills = {"links"} /\ SocialUpdate.nulls = {"email", "phone", "calendarUrl"}
    BY <1>1 DEF Shape, FieldsOf, Layers, Layer, SocialDto, SocialSchema, SocialNullable,
                SocialUpdate, Dto, Mapper, Schema
  <2> HIDE DEF content, layer
  <2>3. DOMAIN content = FieldsOf(layer.dto)
    BY <2>1, <2>2 DEF Mapped
  <2>4. \A f \in DOMAIN content :
          content[f] = Undefined \/ content[f] = IF f = "links" THEN Filled ELSE Null
    BY <2>1, <2>2, <2>3, ValuesDiffer DEF Mapped
  <2>5. /\ DOMAIN HydratedFields(section, content) = DOMAIN content
        /\ \A f \in DOMAIN content :
             HydratedFields(section, content)[f] = IF f = "links" THEN Filled ELSE Null
    BY <2>2, <2>3, <2>4, ValuesDiffer DEF HydratedFields, Hydrated, layer
  <2>6. Conforms(layer.nullable, HydratedFields(section, content))
    BY <2>2, <2>3, <2>5, ValuesDiffer DEF Conforms
  <2> QED BY <2>3, <2>6, ObjectsAsAWhole DEF content, layer
<1>2. CASE section = "identity"
  <2> DEFINE rest == IF age = "created" THEN Null ELSE Undefined
  <2>1. content = FirstIdentity(rest)
    BY <1>2 DEF Document
  <2>2. /\ FieldsOf(layer.dto) = UpdateIdentityDto.may
        /\ layer.nullable = UpdateIdentityDto.may \ {"entityType", "name"}
        /\ layer.schema.nulls = UpdateIdentityDto.may \ {"entityType", "name"}
        /\ layer.schema.fills = {"entityType"}
        /\ DOMAIN Shape("identity", rest) = UpdateIdentityDto.may
        /\ \A f \in UpdateIdentityDto.may : Shape("identity", rest)[f] = rest
    BY <1>2 DEF Shape, FieldsOf, Layers, Layer, UpdateIdentityDto, IdentitySchema,
                IdentityNullable, IdentityUpdate, Dto, Mapper, Schema
  <2> HIDE DEF content, layer
  <2>3. /\ DOMAIN content = UpdateIdentityDto.may
        /\ \A f \in UpdateIdentityDto.may :
             content[f] = IF f = "name" THEN Given ELSE IF f = "entityType" THEN "individual" ELSE rest
    BY <2>1, <2>2 DEF FirstIdentity
  <2>4. "individual" # Undefined /\ "individual" # Null
    BY DEF Undefined, Null
  <2>5. /\ DOMAIN HydratedFields(section, content) = DOMAIN content
        /\ \A f \in DOMAIN content :
             HydratedFields(section, content)[f] # Undefined
             /\ (HydratedFields(section, content)[f] = Null => f \in layer.nullable)
    BY <2>2, <2>3, <2>4, ValuesDiffer DEF HydratedFields, Hydrated, layer
  <2>6. Conforms(layer.nullable, HydratedFields(section, content))
    BY <2>5 DEF Conforms
  <2> QED BY <2>2, <2>3, <2>6, ObjectsAsAWhole DEF content, layer
<1> QED BY <1>1, <1>2 DEF ObjectSections

LEMMA InitFields == Init => FieldsInv
<1> SUFFICES ASSUME Init PROVE FieldsInv
  OBVIOUS
<1>1. PICK age \in Ages : stored = Document(age)
  BY DEF Init
<1>2. \A s \in ListSections : stored[s] = FirstEntries(s, age)
  BY <1>1 DEF Document, ListSections, KEYED_ARRAY_SECTIONS
<1>3. \A s \in ListSections : ReadsWell(s, stored[s])
  BY <1>2, FirstReadsWell
<1>4. \A s \in ObjectSections :
        DOMAIN stored[s] = FieldsOf(Layers[s].dto) /\ ReadsWell(s, stored[s])
  BY <1>1, FirstObjectsReadWell
<1>5. refused = {} /\ backfill = {}
  BY DEF Init
<1> QED BY <1>3, <1>4, <1>5, InitInv DEF FieldsInv

LEMMA PatchKeepsFields ==
  ASSUME FieldsInv, NEW c \in Clients, Patch(c)
  PROVE  FieldsInv'
<1>0. PortfolioInv' /\ PortfolioInv /\ minted \in Nat
  BY PatchKeeps DEF FieldsInv, PortfolioInv
<1>1. PICK body \in Bodies(subject, views[c]) :
        /\ BodyAccepted(subject, body)
        /\ \/ /\ SectionStorable(subject, Updated(subject, body))
              /\ stored' = [stored EXCEPT ![subject] = Updated(subject, body)]
              /\ UNCHANGED refused
           \/ refused' = refused \cup {subject} /\ UNCHANGED stored
        /\ UNCHANGED backfill
  BY DEF Patch
<1>2. ASSUME SectionStorable(subject, Updated(subject, body))
      PROVE  /\ ReadsWell(subject, Updated(subject, body))
             /\ subject \in ObjectSections =>
                  DOMAIN Updated(subject, body) = FieldsOf(Layers[subject].dto)
  <2>1. CASE subject \in ListSections
    <3>1. IsContent(subject, minted, body)
      BY <1>0, <2>1, BodiesAreContent DEF PortfolioInv
    <3>2. Updated(subject, body) = withEntryKeys(subject, MappedEntries(subject, body), minted)
      BY <2>1 DEF Updated, toProfileUpdateFields, MappedEntries
    <3>3. subject \notin ObjectSections
      BY <2>1 DEF ListSections, KEYED_ARRAY_SECTIONS, ObjectSections
    <3> QED BY <1>0, <1>1, <2>1, <3>1, <3>2, <3>3, PatchReadsWell
  <2>2. CASE subject \in ObjectSections
    <3>1. DOMAIN stored[subject] = FieldsOf(Layers[subject].dto) /\ ReadsWell(subject, stored[subject])
      BY <2>2 DEF FieldsInv
    <3> QED BY <1>2, <2>2, <3>1, ObjectPatchReadsWell
  <2> QED BY <1>0, <2>1, <2>2 DEF PortfolioInv
<1>3. subject \in ListSections \cup ObjectSections /\ DOMAIN stored = ListSections \cup ObjectSections
  BY <1>0 DEF PortfolioInv
<1>4. \A s \in ListSections \cup ObjectSections : ReadsWell(s, stored'[s])
  BY <1>1, <1>2, <1>3 DEF FieldsInv
<1>5. \A s \in ObjectSections : DOMAIN stored'[s] = FieldsOf(Layers[s].dto)
  BY <1>1, <1>2, <1>3 DEF FieldsInv
<1>6. refused' \subseteq ListSections \cup ObjectSections
  BY <1>1, <1>3 DEF FieldsInv
<1>7. \A b \in backfill' : \A s \in DOMAIN b.changes : ReadsWell(s, b.changes[s])
  BY <1>1 DEF FieldsInv
<1> QED BY <1>0, <1>4, <1>5, <1>6, <1>7 DEF FieldsInv

LEMMA BackfillReadsKeepsFields ==
  ASSUME FieldsInv, BackfillReads
  PROVE  FieldsInv'
<1> DEFINE changes == keyedSectionsOf(stored)
<1>0. PortfolioInv' /\ PortfolioInv /\ minted \in Nat
  BY BackfillReadsKeeps DEF FieldsInv, PortfolioInv
<1>1. /\ backfill' = {[changes |-> changes, read |-> minted + MaxEntries]}
      /\ UNCHANGED <<stored, refused>>
  BY DEF BackfillReads
<1>2. DOMAIN changes \subseteq ListSections
      /\ \A s \in DOMAIN changes : changes[s] = EntriesAndStages(s, stored[s], minted)
  BY DEF keyedSectionsOf, BackfilledSection, EntriesAndStages
<1> HIDE DEF changes
<1>3. ASSUME NEW s \in DOMAIN changes PROVE ReadsWell(s, changes[s])
  <2>1. IsContent(s, minted, stored[s]) /\ ReadsWell(s, stored[s]) /\ s \in ListSections
    BY <1>0, <1>2 DEF FieldsInv, PortfolioInv, KeyedSections
  <2>2. FieldsIn(s, changes[s]) \subseteq FieldsIn(s, stored[s])
    BY <1>0, <1>2, <2>1, KeysKeepFields
  <2> QED BY <2>1, <2>2 DEF ReadsWell
<1>4. \A b \in backfill' : b.changes = changes
  BY <1>1
<1> QED BY <1>0, <1>1, <1>3, <1>4 DEF FieldsInv

LEMMA BackfillWritesKeepsFields ==
  ASSUME FieldsInv, BackfillWrites
  PROVE  FieldsInv'
<1>0. PortfolioInv' /\ PortfolioInv
  BY BackfillWritesKeeps DEF FieldsInv
<1>1. PICK b \in backfill :
        /\ stored' = [s \in DOMAIN stored |->
                        IF s \in DOMAIN b.changes THEN b.changes[s] ELSE stored[s]]
        /\ backfill' = {} /\ UNCHANGED refused
  BY DEF BackfillWrites
<1>2. DOMAIN stored = ListSections \cup ObjectSections /\ DOMAIN b.changes \subseteq ListSections
  BY <1>0, <1>1 DEF PortfolioInv
<1>3. \A s \in ObjectSections : s \notin ListSections
  BY DEF ListSections, KEYED_ARRAY_SECTIONS, ObjectSections
<1>4. \A s \in ListSections \cup ObjectSections : ReadsWell(s, stored'[s])
  BY <1>1, <1>2 DEF FieldsInv
<1>5. \A s \in ObjectSections : DOMAIN stored'[s] = FieldsOf(Layers[s].dto)
  BY <1>1, <1>2, <1>3 DEF FieldsInv
<1> QED BY <1>0, <1>1, <1>4, <1>5 DEF FieldsInv

LEMMA StepFields ==
  ASSUME FieldsInv, [Next]_vars
  PROVE  FieldsInv'
<1>0. PortfolioInv'
  BY StepKeeps DEF FieldsInv
<1>1. CASE AgentJoins \/ BackfillDies \/ (\E c \in Clients : Load(c)) \/ UNCHANGED vars
  BY <1>0, <1>1 DEF AgentJoins, BackfillDies, Load, vars, FieldsInv
<1> QED BY <1>1, PatchKeepsFields, BackfillReadsKeepsFields, BackfillWritesKeepsFields DEF Next

LEMMA FieldsInductive == Spec => []FieldsInv
<1> QED BY InitFields, StepFields, PTL DEF Spec

\* Every section that is read has all the fields of its type, whatever the bodies left
\* out, however long ago it was stored, and however the backfill interleaves.
THEOREM EverySectionReadsWell == Spec => []TypeOK
<1>1. ASSUME FieldsInv PROVE TypeOK
  <2>1. /\ minted \in Nat /\ subject \in ListSections \cup ObjectSections
        /\ refused \subseteq ListSections \cup ObjectSections
        /\ DOMAIN stored = ListSections \cup ObjectSections
    BY <1>1 DEF FieldsInv, PortfolioInv
  <2>2. ASSUME NEW s \in DOMAIN stored, NEW x \in FieldsIn(s, Record(stored)[s])
        PROVE  Conforms(Layers[x.layer].nullable, x.fields)
    <3>1. ReadsWell(s, stored[s])
      BY <1>1, <2>1 DEF FieldsInv
    <3>2. CASE s \in ListSections
      <4>1. Record(stored)[s] = ReadEntries(s, stored[s])
        BY <3>2 DEF Record, OnSection, ReadEntries
      <4>2. PICK layer, f : At(layer, f) \in FieldsIn(s, stored[s])
                            /\ x = At(layer, HydratedFields(layer, f))
        BY <2>2, <3>2, <4>1, InsideAMadeList
      <4> QED BY <3>1, <4>2 DEF ReadsWell, At
    <3>3. CASE s \in ObjectSections
      <4>1. s \notin ListSections
        BY <3>3 DEF ListSections, KEYED_ARRAY_SECTIONS, ObjectSections
      <4>2. Record(stored)[s] = HydratedFields(s, stored[s])
        BY <4>1 DEF Record, OnSection
      <4>3. x = At(s, HydratedFields(s, stored[s]))
        BY <2>2, <3>3, <4>2, FieldsOfAnObject
      <4>4. At(s, stored[s]) \in FieldsIn(s, stored[s])
        BY <3>3, FieldsOfAnObject
      <4> QED BY <3>1, <4>3, <4>4 DEF ReadsWell, At
    <3> QED BY <2>1, <3>2, <3>3
  <2> QED BY <2>1, <2>2 DEF TypeOK
<1> QED BY <1>1, FieldsInductive, PTL

-----------------------------------------------------------------------------
(* What the slides serve.                                                   *)

\* All the fields of a layer, as its type has them.
Whole(layer, f) ==
  DOMAIN f = FieldsOf(Layers[layer].dto) /\ Conforms(Layers[layer].nullable, f)

\* A payload shows fields of the layer, and may be null where they may.
Serves(layer, payload) ==
  /\ payload.shown \subseteq FieldsOf(Layers[layer].dto)
  /\ \A f \in payload.shown : f \in Layers[layer].nullable => f \in payload.nullable

LEMMA PayloadsServe ==
  /\ \A s \in ListSections \ {"works"} : Serves(s, PayloadOf[s])
  /\ Serves("works", WorkPayload) /\ Serves("stages", WorkStagePayload)
  /\ Serves("screenshots", ScreenshotPayload) /\ Serves("hotspots", HotspotPayload)
  /\ Serves("identity", IdentityPayload) /\ Serves("social", ContactPayload)
<1>1. Serves("works", WorkPayload) /\ Serves("stages", WorkStagePayload)
  BY DEF Serves, FieldsOf, Layers, Layer, Dto, Payload, WorkPayload, WorkEntryDto, WorkNullable,
         WorkStagePayload, StageEntryDto, StageNullable
<1>2. Serves("screenshots", ScreenshotPayload) /\ Serves("hotspots", HotspotPayload)
  BY DEF Serves, FieldsOf, Layers, Layer, Dto, Payload, ScreenshotPayload, ScreenshotDto,
         ScreenshotNullable, HotspotPayload, HotspotDto, HotspotNullable
<1>3. Serves("identity", IdentityPayload) /\ Serves("social", ContactPayload)
  BY DEF Serves, FieldsOf, Layers, Layer, Dto, Payload, IdentityPayload, UpdateIdentityDto,
         IdentityNullable, ContactPayload, SocialDto, SocialNullable
<1>4. Serves("capabilities", CapabilitiesPayload) /\ Serves("timeline", TimelinePayload)
  BY DEF Serves, FieldsOf, Layers, Layer, Dto, Payload, CapabilitiesPayload, CapabilityEntryDto,
         CapabilityNullable, TimelinePayload, TimelineEntryDto, TimelineNullable
<1>5. Serves("offerings", OfferingsPayload) /\ Serves("metrics", MetricsPayload)
  BY DEF Serves, FieldsOf, Layers, Layer, Dto, Payload, OfferingsPayload, OfferingEntryDto,
         OfferingNullable, MetricsPayload, MetricEntryDto, MetricNullable
<1>6. Serves("testimonials", TestimonialsPayload) /\ Serves("team", TeamPayload)
  BY DEF Serves, FieldsOf, Layers, Layer, Dto, Payload, TestimonialsPayload,
         TestimonialEntryDto, TestimonialNullable, TeamPayload, TeamMemberEntryDto,
         TeamMemberNullable
<1>7. Serves("content", ContentPayload) /\ Serves("media", MediaPayload)
  BY DEF Serves, FieldsOf, Layers, Layer, Dto, Payload, ContentPayload, ContentEntryDto,
         ContentNullable, MediaPayload, MediaEntryDto, MediaNullable
<1>8. ASSUME NEW s \in ListSections \ {"works"} PROVE Serves(s, PayloadOf[s])
  BY <1>4, <1>5, <1>6, <1>7 DEF ListSections, KEYED_ARRAY_SECTIONS, PayloadOf
<1> QED BY <1>1, <1>2, <1>3, <1>8

LEMMA WholeIsServed ==
  ASSUME NEW layer, NEW payload, Serves(layer, payload), NEW e, Whole(layer, e.fields)
  PROVE  Conforms(payload.nullable, Item(e, payload).fields)
BY DEF Whole, Serves, Conforms, Item, Restriction

\* What one slide serves conforms.
Served(s) ==
  /\ \A i \in DOMAIN s.items : Conforms(PayloadOf[s.id.name].nullable, s.items[i].fields)
  /\ \A i \in DOMAIN s.screenshots :
       /\ Conforms(ScreenshotPayload.nullable, s.screenshots[i].shot.fields)
       /\ \A h \in DOMAIN s.screenshots[i].hotspots :
            Conforms(HotspotPayload.nullable, s.screenshots[i].hotspots[h].fields)

LEMMA SectionSlideServes ==
  ASSUME NEW record, NEW section, NEW entries, NEW focus, NEW layer,
         Serves(layer, PayloadOf[section]),
         \A i \in DOMAIN entries : Whole(layer, entries[i].fields),
         NEW s \in SectionSlide(record, section, entries, PayloadOf[section], focus)
  PROVE  Served(s)
<1> DEFINE payload == PayloadOf[section]
<1>1. /\ s.id.name = section /\ s.items = Items(entries, payload) /\ s.screenshots = <<>>
  BY DEF SectionSlide, Slide, SlideId
<1>2. \A i \in DOMAIN entries : Conforms(payload.nullable, Item(entries[i], payload).fields)
  BY WholeIsServed
<1>3. DOMAIN s.screenshots = {}
  BY <1>1
<1> QED BY <1>1, <1>2, <1>3 DEF Served, Items

\* A work whose fields, and those of what is nested in it, are whole.
WholeWork(w) == \A x : OfWork(w, x) => Whole(x.layer, x.fields)

LEMMA WorkSlideServes ==
  ASSUME NEW record, NEW i, WholeWork(record.works[i])
  PROVE  /\ Served(workSlide(record, i))
         /\ \A j \in DOMAIN record.works[i].stages : Served(stageSlide(record, i, j))
<1> DEFINE w == record.works[i]
           s == workSlide(record, i)
<1>1. /\ Whole("works", w.fields)
      /\ \A j \in DOMAIN w.stages : Whole("stages", w.stages[j].fields)
      /\ \A n \in DOMAIN w.screenshots :
           /\ Whole("screenshots", w.screenshots[n].fields)
           /\ \A h \in DOMAIN w.screenshots[n].hotspots :
                Whole("hotspots", w.screenshots[n].hotspots[h].fields)
  <2>1. \A layer, f : At(layer, f).layer = layer /\ At(layer, f).fields = f
    BY DEF At
  <2> HIDE DEF w
  <2>2. \A layer, f : OfWork(w, At(layer, f)) => Whole(layer, f)
    BY <2>1 DEF WholeWork, w
  <2> QED BY <2>2, PlacesInAWork
<1>2. Served(s)
  <2>1. /\ s.id.name = "work" /\ s.items = <<Item(w, WorkPayload)>>
        /\ s.screenshots = [n \in DOMAIN w.screenshots |->
                              [shot |-> Item(w.screenshots[n], ScreenshotPayload),
                               hotspots |-> Items(w.screenshots[n].hotspots, HotspotPayload)]]
    BY DEF workSlide, Slide, SlideId
  <2>2. PayloadOf["work"] = WorkPayload
    BY DEF PayloadOf
  <2> HIDE DEF w, s
  <2>3. \A k \in DOMAIN s.items : s.items[k] = Item(w, WorkPayload)
    BY <2>1
  <2>4. \A k \in DOMAIN s.items : Conforms(PayloadOf[s.id.name].nullable, s.items[k].fields)
    BY <1>1, <2>1, <2>2, <2>3, PayloadsServe, WholeIsServed
  <2>5. ASSUME NEW n \in DOMAIN s.screenshots
        PROVE  /\ Conforms(ScreenshotPayload.nullable, s.screenshots[n].shot.fields)
               /\ \A h \in DOMAIN s.screenshots[n].hotspots :
                    Conforms(HotspotPayload.nullable, s.screenshots[n].hotspots[h].fields)
    <3>1. /\ n \in DOMAIN w.screenshots
          /\ s.screenshots[n].shot = Item(w.screenshots[n], ScreenshotPayload)
          /\ s.screenshots[n].hotspots = Items(w.screenshots[n].hotspots, HotspotPayload)
      BY <2>1, <2>5
    <3>2. /\ DOMAIN s.screenshots[n].hotspots = DOMAIN w.screenshots[n].hotspots
          /\ \A h \in DOMAIN w.screenshots[n].hotspots :
               s.screenshots[n].hotspots[h] = Item(w.screenshots[n].hotspots[h], HotspotPayload)
      BY <3>1 DEF Items
    <3> QED BY <1>1, <3>1, <3>2, PayloadsServe, WholeIsServed
  <2> QED BY <2>4, <2>5 DEF Served
<1>3. ASSUME NEW j \in DOMAIN w.stages PROVE Served(stageSlide(record, i, j))
  <2> DEFINE t == stageSlide(record, i, j)
  <2>1. /\ t.id.name = "stage" /\ t.items = <<Item(w.stages[j], WorkStagePayload)>>
        /\ t.screenshots = <<>>
    BY DEF stageSlide, Slide, SlideId
  <2>2. PayloadOf["stage"] = WorkStagePayload
    BY DEF PayloadOf
  <2> HIDE DEF w, t
  <2>3. DOMAIN t.screenshots = {} /\ \A k \in DOMAIN t.items : t.items[k] = Item(w.stages[j], WorkStagePayload)
    BY <2>1
  <2>4. \A k \in DOMAIN t.items : Conforms(PayloadOf[t.id.name].nullable, t.items[k].fields)
    BY <1>1, <2>1, <2>2, <2>3, PayloadsServe, WholeIsServed
  <2> QED BY <2>3, <2>4 DEF Served, t
<1> QED BY <1>2, <1>3

\* The images of a list are entries of it.
LEMMA SelectedAreEntries ==
  ASSUME NEW l, Placed(l), NEW P \in SUBSET DOMAIN l, NEW k \in DOMAIN Selected(l, P)
  PROVE  \E i \in P : Selected(l, P)[k] = l[i]
<1>1. PICK m \in 0 .. MaxEntries : DOMAIN l = 1 .. m
  BY DEF Placed
<1>2. IsFiniteSet(DOMAIN l) /\ DOMAIN l \subseteq Nat
  BY <1>1, FS_Interval
<1>3. IsFiniteSet(P) /\ P \in SUBSET Nat
  BY <1>2, FS_Subset
<1>4. /\ Cardinality(P) \in Nat
      /\ [i \in P |-> Cardinality(Below(P, i))] \in Bijection(P, 0 .. Cardinality(P) - 1)
  BY <1>3, RanksAreDistinct
<1>5. k \in 1 .. Cardinality(P) /\ k - 1 \in 0 .. Cardinality(P) - 1
  BY <1>4 DEF Selected
<1>6. \E i \in P : Cardinality(Below(P, i)) = k - 1
  BY <1>4, <1>5 DEF Bijection, Surjection
<1>7. \E i \in P : Cardinality({j \in P : j < i}) = k - 1
  BY <1>6 DEF Below
<1> DEFINE place == CHOOSE i \in P : Cardinality({j \in P : j < i}) = k - 1
<1>8. place \in P
  BY <1>7
<1>9. Selected(l, P)[k] = l[place]
  BY <1>5 DEF Selected
<1> HIDE DEF place
<1> QED BY <1>8, <1>9

\* A record whose sections are whole, with an identity and a social section.
WholeRecord(record) ==
  /\ \A s \in ListSections : Placed(record[s]) /\ \A x \in FieldsIn(s, record[s]) : Whole(x.layer, x.fields)
  /\ \A s \in ObjectSections : Whole(s, record[s])

LEMMA EntriesAreWhole ==
  ASSUME NEW record, WholeRecord(record)
  PROVE  /\ \A s \in ListSections \ {"works"} : \A i \in DOMAIN record[s] : Whole(s, record[s][i].fields)
         /\ \A i \in DOMAIN record["works"] : WholeWork(record["works"][i])
<1>1. ASSUME NEW s \in ListSections \ {"works"}, NEW i \in DOMAIN record[s]
      PROVE  Whole(s, record[s][i].fields)
  <2>1. At(s, record[s][i].fields) \in FieldsIn(s, record[s])
    BY FieldsOfEntries DEF At
  <2>2. At(s, record[s][i].fields).layer = s
        /\ At(s, record[s][i].fields).fields = record[s][i].fields
    BY DEF At
  <2> QED BY <2>1, <2>2 DEF WholeRecord
<1>2. ASSUME NEW i \in DOMAIN record["works"] PROVE WholeWork(record["works"][i])
  <2>1. "works" \in ListSections
    BY DEF ListSections, KEYED_ARRAY_SECTIONS
  <2> QED BY <2>1, FieldsOfWorks DEF WholeRecord, WholeWork
<1> QED BY <1>1, <1>2

LEMMA DeckServes ==
  ASSUME NEW record, WholeRecord(record), NEW s \in projectSlides(record)
  PROVE  Served(s)
<1>0. /\ \A t \in ListSections \ {"works"} : \A i \in DOMAIN record[t] : Whole(t, record[t][i].fields)
      /\ \A i \in DOMAIN record["works"] : WholeWork(record["works"][i])
  BY EntriesAreWhole
<1>1. CASE s = identitySlide(record)
  <2> DEFINE e == [key |-> NoKey, of |-> 0, fields |-> record.identity]
  <2>1. /\ s.id.name = "identity" /\ s.items = <<Item(e, IdentityPayload)>> /\ s.screenshots = <<>>
    BY <1>1 DEF identitySlide, Slide, SlideId
  <2>2. Whole("identity", e.fields)
    BY DEF WholeRecord, ObjectSections
  <2>3. PayloadOf["identity"] = IdentityPayload
    BY DEF PayloadOf
  <2> HIDE DEF e
  <2>4. DOMAIN s.screenshots = {} /\ \A k \in DOMAIN s.items : s.items[k] = Item(e, IdentityPayload)
    BY <2>1
  <2>5. \A k \in DOMAIN s.items : Conforms(PayloadOf[s.id.name].nullable, s.items[k].fields)
    BY <2>1, <2>2, <2>3, <2>4, PayloadsServe, WholeIsServed
  <2> QED BY <2>4, <2>5 DEF Served
<1>2. CASE s \in workSlides(record)
  <2>1. PICK i \in DOMAIN record.works :
          s = workSlide(record, i) \/ \E j \in DOMAIN record.works[i].stages : s = stageSlide(record, i, j)
    BY <1>2 DEF workSlides, Taken
  <2>2. WholeWork(record.works[i])
    BY <1>0
  <2> QED BY <2>1, <2>2, WorkSlideServes
<1>3. ASSUME NEW section \in ListSections \ {"works"}, NEW focus,
             s \in SectionSlide(record, section, record[section], PayloadOf[section], focus)
      PROVE  Served(s)
  BY <1>0, <1>3, PayloadsServe, SectionSlideServes
<1>4. CASE s \in capabilitiesSlide(record) \cup timelineSlide(record) \cup offeringsSlide(record)
                   \cup metricsSlide(record)
  BY <1>3, <1>4 DEF capabilitiesSlide, timelineSlide, offeringsSlide, metricsSlide, PayloadOf,
                    ListSections, KEYED_ARRAY_SECTIONS
<1>5. CASE s \in testimonialsSlide(record) \cup teamSlide(record) \cup contentSlide(record)
  BY <1>3, <1>5 DEF testimonialsSlide, teamSlide, contentSlide, PayloadOf, ListSections,
                    KEYED_ARRAY_SECTIONS
<1>6. CASE s \in mediaSlide(record)
  <2> DEFINE places == {i \in DOMAIN record["media"] : record["media"][i].fields["type"] = Given}
             images == Selected(record["media"], places)
  <2>1. s \in SectionSlide(record, "media", images, PayloadOf["media"], {})
    BY <1>6 DEF mediaSlide, PayloadOf
  <2>2. "media" \in ListSections \ {"works"} /\ Placed(record["media"]) /\ places \in SUBSET DOMAIN record["media"]
    BY DEF ListSections, KEYED_ARRAY_SECTIONS, WholeRecord
  <2> HIDE DEF places
  <2>3. \A k \in DOMAIN images : \E i \in places : images[k] = record["media"][i]
    BY <2>2, SelectedAreEntries
  <2>4. \A k \in DOMAIN images : Whole("media", images[k].fields)
    BY <1>0, <2>2, <2>3
  <2> HIDE DEF images
  <2> QED BY <2>1, <2>2, <2>4, PayloadsServe, SectionSlideServes
<1>7. CASE s \in contactSlide(record)
  <2> DEFINE e == [key |-> NoKey, of |-> 0, fields |-> record.social]
             entries == IF record.social["links"] = Given \/ record.social["calendarUrl"] = Given
                        THEN <<e>> ELSE <<>>
  <2>1. s \in SectionSlide(record, "contact", entries, PayloadOf["contact"], {})
    BY <1>7 DEF contactSlide, PayloadOf
  <2>2. Whole("social", e.fields)
    BY DEF WholeRecord, ObjectSections
  <2> HIDE DEF e
  <2>3. \A i \in DOMAIN entries : entries[i] = e
    OBVIOUS
  <2>4. Serves("social", PayloadOf["contact"])
    BY PayloadsServe DEF PayloadOf
  <2> HIDE DEF entries
  <2> QED BY <2>1, <2>2, <2>3, <2>4, SectionSlideServes
<1> QED BY <1>1, <1>2, <1>4, <1>5, <1>6, <1>7 DEF projectSlides

LEMMA RecordsAreWhole ==
  ASSUME FieldsInv, TypeOK
  PROVE  WholeRecord(Record(stored))
<1>1. DOMAIN stored = ListSections \cup ObjectSections /\ KeyedSections(stored, minted) /\ minted \in Nat
  BY DEF FieldsInv, PortfolioInv
<1>2. DOMAIN Record(stored) = DOMAIN stored /\ KeyedSections(Record(stored), minted)
  BY <1>1, RecordOfLists
<1>3. ASSUME NEW s \in ListSections
      PROVE  Placed(Record(stored)[s]) /\ \A x \in FieldsIn(s, Record(stored)[s]) : Whole(x.layer, x.fields)
  <2>1. IsContent(s, minted, Record(stored)[s])
    BY <1>1, <1>2 DEF KeyedSections
  <2>2. ASSUME NEW x \in FieldsIn(s, Record(stored)[s]) PROVE Whole(x.layer, x.fields)
    <3>1. x.fields \in Fields(x.layer)
      BY <2>1, FieldsAreTyped
    <3>2. Conforms(Layers[x.layer].nullable, x.fields)
      BY <1>1 DEF TypeOK
    <3> QED BY <3>1, <3>2 DEF Whole, Fields
  <2> QED BY <2>1, <2>2, ContentIsOfEntries
<1>4. ASSUME NEW s \in ObjectSections PROVE Whole(s, Record(stored)[s])
  <2>1. s \notin ListSections
    BY DEF ListSections, KEYED_ARRAY_SECTIONS, ObjectSections
  <2>2. Record(stored)[s] = HydratedFields(s, stored[s])
    BY <1>1, <2>1 DEF Record, OnSection
  <2>3. DOMAIN Record(stored)[s] = FieldsOf(Layers[s].dto)
    BY <2>2 DEF FieldsInv, HydratedFields, Hydrated
  <2>4. Conforms(Layers[s].nullable, HydratedFields(s, stored[s]))
    BY ObjectsAsAWhole DEF FieldsInv
  <2> QED BY <2>2, <2>3, <2>4 DEF Whole
<1> QED BY <1>3, <1>4 DEF WholeRecord

\* Every slide carries all the fields its payload promises, and null only where a
\* client expects it: no document that can be stored makes one that does not.
THEOREM SlidesServeWhatIsPromised == Spec => []ServedFieldsConform
<1>1. ASSUME FieldsInv, TypeOK PROVE ServedFieldsConform
  <2>1. \A s \in Catalog : Served(s)
    BY <1>1, RecordsAreWhole, DeckServes DEF Catalog
  <2> QED BY <2>1 DEF ServedFieldsConform, Served
<1> QED BY <1>1, FieldsInductive, EverySectionReadsWell, PTL

-----------------------------------------------------------------------------
(* The size of the deck.                                                    *)

\* A list of works, each with a list of stages.
ToldInStages(W) ==
  /\ Placed(W)
  /\ \A i \in DOMAIN W : Placed(W[i].stages)

LEMMA StagesArePlaced ==
  ASSUME NEW W, ToldInStages(W), NEW i \in DOMAIN W
  PROVE  Len(W[i].stages) \in 0 .. MaxEntries /\ DOMAIN W[i].stages = 1 .. Len(W[i].stages)
<1>1. PICK k \in 0 .. MaxEntries : DOMAIN W[i].stages = 1 .. k
  BY DEF ToldInStages, Placed
<1>2. k \in Nat
  BY PortfolioAssumption
<1>3. Len(W[i].stages) = k
  BY <1>1, <1>2
<1> QED BY <1>1, <1>3

LEMMA BlocksAreFinite ==
  ASSUME NEW W, ToldInStages(W), NEW n \in DOMAIN W
  PROVE  /\ IsFiniteSet(BlocksThrough(W, n)) /\ Cardinality(BlocksThrough(W, n)) \in Nat
         /\ \A p \in 1 .. n : /\ p \in DOMAIN W
                              /\ BlocksThrough(W, p) \in SUBSET BlocksThrough(W, n)
         /\ \A i, j : <<i, j>> \in BlocksThrough(W, n) <=>
              i \in 1 .. n /\ j \in 0 .. Len(W[i].stages)
         /\ BlocksThrough(W, n) \subseteq (1 .. n) \X (0 .. MaxEntries)
<1>1. PICK m \in 0 .. MaxEntries : DOMAIN W = 1 .. m
  BY DEF ToldInStages, Placed
<1>2. m \in Nat /\ n \in Nat /\ MaxEntries \in Nat
  BY <1>1, PortfolioAssumption
<1>3. \A p \in 1 .. n : p \in DOMAIN W
  BY <1>1, <1>2
<1>4. \A p, b : b \in BlocksThrough(W, p) <=>
        \E i \in 1 .. p : \E j \in 0 .. Len(W[i].stages) : b = <<i, j>>
  BY DEF BlocksThrough
<1>5. BlocksThrough(W, n) \subseteq (1 .. n) \X (0 .. MaxEntries)
  <2>1. \A i \in 1 .. n : Len(W[i].stages) \in 0 .. MaxEntries
    BY <1>3, StagesArePlaced
  <2>2. \A i \in 1 .. n : \A j \in 0 .. Len(W[i].stages) : j \in 0 .. MaxEntries
    BY <1>2, <2>1
  <2> QED BY <1>4, <2>2
<1>6. IsFiniteSet((1 .. n) \X (0 .. MaxEntries))
  <2>1. IsFiniteSet(1 .. n) /\ IsFiniteSet(0 .. MaxEntries)
    BY <1>2, FS_Interval
  <2> QED BY <2>1, FS_Product
<1>7. IsFiniteSet(BlocksThrough(W, n)) /\ Cardinality(BlocksThrough(W, n)) \in Nat
  BY <1>5, <1>6, FS_Subset, FS_CardinalityType
<1>8. \A p \in 1 .. n : BlocksThrough(W, p) \subseteq BlocksThrough(W, n)
  <2>1. \A p \in 1 .. n : \A i \in 1 .. p : i \in 1 .. n
    BY <1>2
  <2> QED BY <1>4, <2>1
<1>9. \A i, j : <<i, j>> \in BlocksThrough(W, n) <=> i \in 1 .. n /\ j \in 0 .. Len(W[i].stages)
  BY <1>4
<1> QED BY <1>3, <1>5, <1>7, <1>8, <1>9

\* The works that are told are the first ones.
LEMMA TakenAreTheFirst ==
  ASSUME NEW W, ToldInStages(W)
  PROVE  /\ IsFiniteSet(Taken(W)) /\ Cardinality(Taken(W)) \in Nat
         /\ Taken(W) = 1 .. Cardinality(Taken(W)) /\ Taken(W) \subseteq DOMAIN W
<1>1. PICK m \in 0 .. MaxEntries : DOMAIN W = 1 .. m
  BY DEF ToldInStages, Placed
<1>2. m \in Nat
  BY <1>1, PortfolioAssumption
<1>3. Taken(W) \in SUBSET (1 .. m)
  BY <1>1 DEF Taken
<1>4. ASSUME NEW i \in Taken(W), NEW j \in 1 .. i PROVE j \in Taken(W)
  <2>1. i \in DOMAIN W /\ Cardinality(BlocksThrough(W, i)) <= MAX_SLIDES - MAX_FIXED_SLIDES
    BY DEF Taken
  <2>2. /\ IsFiniteSet(BlocksThrough(W, i)) /\ Cardinality(BlocksThrough(W, i)) \in Nat
        /\ j \in DOMAIN W /\ BlocksThrough(W, j) \in SUBSET BlocksThrough(W, i)
    BY <2>1, BlocksAreFinite
  <2>3. /\ IsFiniteSet(BlocksThrough(W, j))
        /\ Cardinality(BlocksThrough(W, j)) <= Cardinality(BlocksThrough(W, i))
    BY <2>2, FS_Subset
  <2>4. Cardinality(BlocksThrough(W, j)) \in Nat
    BY <2>3, FS_CardinalityType
  <2>5. MAX_SLIDES - MAX_FIXED_SLIDES \in Int
    BY SlidesAssumption
  <2>6. Cardinality(BlocksThrough(W, j)) <= MAX_SLIDES - MAX_FIXED_SLIDES
    BY <2>1, <2>2, <2>3, <2>4, <2>5
  <2> QED BY <2>2, <2>6 DEF Taken
<1> QED BY <1>1, <1>2, <1>3, <1>4, WithoutGaps

\* What a slide of a work, and of a stage, says of its place.
LEMMA WorkSlidePlaces ==
  ASSUME NEW record, NEW i
  PROVE  /\ workSlide(record, i).id.name = "work"
         /\ workSlide(record, i).at[2] = i
         /\ workSlide(record, i).total = Len(record.works[i].stages)
         /\ \A j : /\ stageSlide(record, i, j).id.name = "stage"
                   /\ stageSlide(record, i, j).at[2] = i
                   /\ stageSlide(record, i, j).at[3] = j
                   /\ stageSlide(record, i, j).total = Len(record.works[i].stages)
BY DEF workSlide, stageSlide, Slide, SlideId

LEMMA WorkSlidesAreBlocks ==
  ASSUME NEW record, ToldInStages(record.works), NEW s
  PROVE  s \in workSlides(record) <=>
           \E i \in Taken(record.works) :
             s = workSlide(record, i) \/ \E j \in 1 .. Len(record.works[i].stages) : s = stageSlide(record, i, j)
<1>1. \A i \in Taken(record.works) :
        DOMAIN record.works[i].stages = 1 .. Len(record.works[i].stages)
  BY TakenAreTheFirst, StagesArePlaced
<1>2. s \in workSlides(record) <=>
        \E i \in Taken(record.works) :
          s = workSlide(record, i) \/ \E j \in DOMAIN record.works[i].stages : s = stageSlide(record, i, j)
  BY DEF workSlides
<1> QED BY <1>1, <1>2

Small(S, n) == IsFiniteSet(S) /\ Cardinality(S) <= n

\* As many slides as blocks, and no more than there is room for.
LEMMA WorkSlidesFit ==
  ASSUME NEW record, ToldInStages(record.works)
  PROVE  Small(workSlides(record), MAX_SLIDES - MAX_FIXED_SLIDES)
<1> DEFINE W == record.works
           t == Cardinality(Taken(W))
           B == BlocksThrough(W, t)
           told == workSlides(record)
<1>1. /\ t \in Nat /\ Taken(W) = 1 .. t /\ Taken(W) \subseteq DOMAIN W
  BY TakenAreTheFirst
<1>2. MAX_SLIDES - MAX_FIXED_SLIDES \in Nat
  BY SlidesAssumption
<1>3. \A s : s \in told <=>
         \E i \in Taken(W) :
           s = workSlide(record, i) \/ \E j \in 1 .. Len(W[i].stages) : s = stageSlide(record, i, j)
  BY WorkSlidesAreBlocks
<1> HIDE DEF W, t, told
<1>4. CASE t = 0
  <2>1. Taken(W) = {}
    BY <1>1, <1>4
  <2>2. told = {}
    BY <1>3, <2>1
  <2>3. IsFiniteSet(told) /\ Cardinality(told) = 0
    BY <2>2, FS_EmptySet
  <2> QED BY <1>2, <2>3 DEF Small, told
<1>5. CASE t # 0
  <2> DEFINE slideOf == [b \in B |-> IF b[2] = 0 THEN workSlide(record, b[1])
                                     ELSE stageSlide(record, b[1], b[2])]
  <2>1. t \in Taken(W) /\ t \in DOMAIN W
    BY <1>1, <1>5
  <2>2. IsFiniteSet(B) /\ Cardinality(B) \in Nat
        /\ (\A i, j : <<i, j>> \in B <=> i \in 1 .. t /\ j \in 0 .. Len(W[i].stages))
        /\ B \subseteq (1 .. t) \X (0 .. MaxEntries)
    BY <2>1, BlocksAreFinite DEF W
  <2>3. Cardinality(B) <= MAX_SLIDES - MAX_FIXED_SLIDES
    BY <2>1 DEF Taken
  <2> HIDE DEF B
  <2>4. ASSUME NEW b \in B PROVE slideOf[b] \in told
    <3>1. PICK i \in 1 .. t, j \in 0 .. MaxEntries : b = <<i, j>>
      BY <2>2
    <3>2. j \in 0 .. Len(W[i].stages) /\ i \in Taken(W)
      BY <1>1, <2>2, <3>1
    <3>3. b[1] = i /\ b[2] = j
      BY <3>1
    <3>4. j # 0 => j \in 1 .. Len(W[i].stages)
      BY <3>2
    <3> QED BY <1>3, <3>2, <3>3, <3>4
  <2>5. ASSUME NEW s \in told PROVE \E b \in B : slideOf[b] = s
    <3>1. PICK i \in Taken(W) :
            s = workSlide(record, i) \/ \E j \in 1 .. Len(W[i].stages) : s = stageSlide(record, i, j)
      BY <1>3
    <3>2. i \in 1 .. t /\ i \in DOMAIN W
      BY <1>1
    <3>3. Len(W[i].stages) \in Nat
      <4>1. Len(W[i].stages) \in 0 .. MaxEntries
        BY <3>2, StagesArePlaced DEF W
      <4> QED BY <4>1, PortfolioAssumption
    <3>4. CASE s = workSlide(record, i)
      <4>1. <<i, 0>> \in B
        BY <2>2, <3>2, <3>3
      <4>2. slideOf[<<i, 0>>] = workSlide(record, i)
        BY <4>1
      <4> QED BY <3>4, <4>1, <4>2
    <3>5. ASSUME NEW j \in 1 .. Len(W[i].stages), s = stageSlide(record, i, j)
          PROVE  \E b \in B : slideOf[b] = s
      <4>1. j # 0 /\ j \in 0 .. Len(W[i].stages)
        BY <3>3
      <4>2. <<i, j>> \in B
        BY <2>2, <3>2, <4>1
      <4>3. slideOf[<<i, j>>] = stageSlide(record, i, j)
        BY <4>1, <4>2
      <4> QED BY <3>5, <4>2, <4>3
    <3> QED BY <3>1, <3>4, <3>5
  <2>6. slideOf \in [B -> told]
    BY <2>4
  <2> HIDE DEF slideOf
  <2>7. slideOf \in Surjection(B, told)
    BY <2>5, <2>6 DEF Surjection
  <2>8. IsFiniteSet(told) /\ Cardinality(told) <= Cardinality(B)
    BY <2>2, <2>7, FS_Surjection
  <2>9. Cardinality(told) \in Nat
    BY <2>8, FS_CardinalityType
  <2> QED BY <1>2, <2>2, <2>3, <2>8, <2>9 DEF Small, told
<1> QED BY <1>4, <1>5

LEMMA SmallTogether ==
  ASSUME NEW S, NEW T, NEW n \in Nat, NEW m \in Nat, Small(S, n), Small(T, m)
  PROVE  Small(S \cup T, n + m)
<1>1. IsFiniteSet(S) /\ IsFiniteSet(T) /\ Cardinality(S) <= n /\ Cardinality(T) <= m
  BY DEF Small
<1>2. IsFiniteSet(S \cap T)
  BY <1>1, FS_Intersection
<1>3. Cardinality(S) \in Nat /\ Cardinality(T) \in Nat /\ Cardinality(S \cap T) \in Nat
  BY <1>1, <1>2, FS_CardinalityType
<1>4. IsFiniteSet(S \cup T)
      /\ Cardinality(S \cup T) = Cardinality(S) + Cardinality(T) - Cardinality(S \cap T)
  BY <1>1, FS_Union
<1> QED BY <1>1, <1>3, <1>4 DEF Small

LEMMA OneIsSmall == ASSUME NEW e PROVE Small({e}, 1)
<1>1. IsFiniteSet({e}) /\ Cardinality({e}) = 1
  BY FS_Singleton
<1> QED BY <1>1 DEF Small

LEMMA SectionSlideIsSmall ==
  ASSUME NEW record, NEW section, NEW entries, NEW payload, NEW focus
  PROVE  Small(SectionSlide(record, section, entries, payload, focus), 1)
<1> DEFINE slides == SectionSlide(record, section, entries, payload, focus)
<1>1. \/ slides = {}
      \/ \E slide : slides = {slide}
  BY DEF SectionSlide
<1> HIDE DEF slides
<1>2. IsFiniteSet(slides) /\ (Cardinality(slides) = 0 \/ Cardinality(slides) = 1)
  BY <1>1, FS_EmptySet, FS_Singleton
<1> QED BY <1>2 DEF Small, slides

\* The slides that are not about works.
FixedSlides(record) ==
  {identitySlide(record)}
    \cup capabilitiesSlide(record) \cup timelineSlide(record) \cup offeringsSlide(record)
    \cup metricsSlide(record) \cup testimonialsSlide(record) \cup teamSlide(record)
    \cup contentSlide(record) \cup mediaSlide(record) \cup contactSlide(record)

LEMMA FixedSlidesFit ==
  ASSUME NEW record
  PROVE  Small(FixedSlides(record), MAX_FIXED_SLIDES)
<1>1. /\ Small(capabilitiesSlide(record), 1) /\ Small(timelineSlide(record), 1)
      /\ Small(offeringsSlide(record), 1) /\ Small(metricsSlide(record), 1)
      /\ Small(testimonialsSlide(record), 1) /\ Small(teamSlide(record), 1)
      /\ Small(contentSlide(record), 1) /\ Small(mediaSlide(record), 1)
      /\ Small(contactSlide(record), 1) /\ Small({identitySlide(record)}, 1)
  <2>1. Small({identitySlide(record)}, 1)
    BY OneIsSmall
  <2>2. /\ Small(capabilitiesSlide(record), 1) /\ Small(timelineSlide(record), 1)
        /\ Small(offeringsSlide(record), 1)
    BY SectionSlideIsSmall DEF capabilitiesSlide, timelineSlide, offeringsSlide
  <2>3. /\ Small(metricsSlide(record), 1) /\ Small(testimonialsSlide(record), 1)
        /\ Small(teamSlide(record), 1)
    BY SectionSlideIsSmall DEF metricsSlide, testimonialsSlide, teamSlide
  <2>4. Small(contentSlide(record), 1)
    BY SectionSlideIsSmall DEF contentSlide
  <2>5. Small(mediaSlide(record), 1)
    BY ONLY SectionSlideIsSmall DEF mediaSlide
  <2>6. Small(contactSlide(record), 1)
    BY ONLY SectionSlideIsSmall DEF contactSlide
  <2> QED BY <2>1, <2>2, <2>3, <2>4, <2>5, <2>6
<1> DEFINE A == {identitySlide(record)} \cup capabilitiesSlide(record)
           B == A \cup timelineSlide(record)
           C == B \cup offeringsSlide(record)
           D == C \cup metricsSlide(record)
           E == D \cup testimonialsSlide(record)
           F == E \cup teamSlide(record)
           G == F \cup contentSlide(record)
           H == G \cup mediaSlide(record)
<1>3. Small(A, 2)
  BY <1>1, SmallTogether, 1 + 1 = 2
<1> HIDE DEF A
<1>4. Small(B, 3)
  BY <1>1, <1>3, SmallTogether, 2 + 1 = 3
<1> HIDE DEF B
<1>5. Small(C, 4)
  BY <1>1, <1>4, SmallTogether, 3 + 1 = 4
<1> HIDE DEF C
<1>6. Small(D, 5)
  BY <1>1, <1>5, SmallTogether, 4 + 1 = 5
<1> HIDE DEF D
<1>7. Small(E, 6)
  BY <1>1, <1>6, SmallTogether, 5 + 1 = 6
<1> HIDE DEF E
<1>8. Small(F, 7)
  BY <1>1, <1>7, SmallTogether, 6 + 1 = 7
<1> HIDE DEF F
<1>9. Small(G, 8)
  BY <1>1, <1>8, SmallTogether, 7 + 1 = 8
<1> HIDE DEF G
<1>10. Small(H, 9)
  BY <1>1, <1>9, SmallTogether, 8 + 1 = 9
<1> HIDE DEF H
<1>11. Small(H \cup contactSlide(record), 10)
  BY <1>1, <1>10, SmallTogether, 9 + 1 = 10
<1>12. FixedSlides(record) = H \cup contactSlide(record)
  BY DEF FixedSlides, A, B, C, D, E, F, G, H
<1> QED BY <1>11, <1>12, SlidesAssumption

LEMMA FixedSlidesAreOfNoWork ==
  ASSUME NEW record, NEW s \in FixedSlides(record)
  PROVE  s.id.name # "work" /\ s.id.name # "stage"
<1>1. CASE s = identitySlide(record)
  BY <1>1 DEF identitySlide, Slide, SlideId
<1>2. ASSUME NEW section \in (ListSections \ {"works"}) \cup {"contact"}, NEW entries, NEW payload,
             NEW focus, s \in SectionSlide(record, section, entries, payload, focus)
      PROVE  s.id.name # "work" /\ s.id.name # "stage"
  <2>1. s.id = SlideId(section, <<>>)
    BY <1>2, SectionSlideIsAlone DEF Alone
  <2>2. s.id.name = section
    BY <2>1 DEF SlideId
  <2> QED BY <2>2 DEF ListSections, KEYED_ARRAY_SECTIONS
<1>3. {"capabilities", "timeline", "offerings", "metrics", "testimonials", "team", "content", "media",
       "contact"} \subseteq (ListSections \ {"works"}) \cup {"contact"}
  BY DEF ListSections, KEYED_ARRAY_SECTIONS
<1>4. CASE s \in capabilitiesSlide(record) \cup timelineSlide(record) \cup offeringsSlide(record)
                   \cup metricsSlide(record)
  BY <1>2, <1>3, <1>4 DEF capabilitiesSlide, timelineSlide, offeringsSlide, metricsSlide
<1>5. CASE s \in testimonialsSlide(record) \cup teamSlide(record) \cup contentSlide(record)
  BY <1>2, <1>3, <1>5 DEF testimonialsSlide, teamSlide, contentSlide
<1>6. CASE s \in mediaSlide(record)
  BY <1>2, <1>3, <1>6 DEF mediaSlide
<1>7. CASE s \in contactSlide(record)
  BY <1>2, <1>3, <1>7 DEF contactSlide
<1> QED BY <1>1, <1>4, <1>5, <1>6, <1>7 DEF FixedSlides

\* What WorksAreWhole says of one deck.
ToldWhole(deck) ==
  LET works == {s \in deck : s.id.name = "work"}
      stages == {s \in deck : s.id.name = "stage"}
  IN  /\ Cardinality(deck) <= MAX_SLIDES
      /\ \A w \in works :
           {s.at[3] : s \in {t \in stages : t.at[2] = w.at[2]}} = 1 .. w.total
      /\ \A s \in stages : \E w \in works : w.at[2] = s.at[2] /\ w.total = s.total
      /\ {w.at[2] : w \in works} = 1 .. Cardinality(works)

LEMMA DeckTellsWholeWorks ==
  ASSUME NEW record, ToldInStages(record.works)
  PROVE  ToldWhole(projectSlides(record))
<1> DEFINE W == record.works
           told == workSlides(record)
           taken == Taken(W)
           size(i) == Len(W[i].stages)
           work(i) == workSlide(record, i)
           stage(i, j) == stageSlide(record, i, j)
           deck == projectSlides(record)
           works == {s \in deck : s.id.name = "work"}
           stages == {s \in deck : s.id.name = "stage"}
<1>1. deck = FixedSlides(record) \cup told
  BY DEF projectSlides, FixedSlides
<1>2. \A s : s \in told <=>
        \E i \in taken : s = work(i) \/ \E j \in 1 .. size(i) : s = stage(i, j)
  BY WorkSlidesAreBlocks
<1>3. \A i : /\ work(i).id.name = "work" /\ work(i).at[2] = i /\ work(i).total = size(i)
             /\ \A j : /\ stage(i, j).id.name = "stage" /\ stage(i, j).at[2] = i
                       /\ stage(i, j).at[3] = j /\ stage(i, j).total = size(i)
  BY WorkSlidePlaces
<1>4. IsFiniteSet(taken) /\ Cardinality(taken) \in Nat /\ taken = 1 .. Cardinality(taken)
  BY TakenAreTheFirst
<1>5. Cardinality(deck) <= MAX_SLIDES
  <2>1. Small(FixedSlides(record), MAX_FIXED_SLIDES) /\ Small(told, MAX_SLIDES - MAX_FIXED_SLIDES)
    BY FixedSlidesFit, WorkSlidesFit
  <2>2. MAX_FIXED_SLIDES \in Nat /\ MAX_SLIDES - MAX_FIXED_SLIDES \in Nat
        /\ MAX_FIXED_SLIDES + (MAX_SLIDES - MAX_FIXED_SLIDES) = MAX_SLIDES
    BY SlidesAssumption
  <2> HIDE DEF told
  <2>3. Small(deck, MAX_FIXED_SLIDES + (MAX_SLIDES - MAX_FIXED_SLIDES))
    BY <1>1, <2>1, <2>2, SmallTogether
  <2> QED BY <2>2, <2>3 DEF Small
<1> HIDE DEF W, told, taken, size, work, stage, deck
<1>6. \A s : s \in works <=> \E i \in taken : s = work(i)
  BY <1>1, <1>2, <1>3, FixedSlidesAreOfNoWork
<1>7. \A s : s \in stages <=> \E i \in taken : \E j \in 1 .. size(i) : s = stage(i, j)
  BY <1>1, <1>2, <1>3, FixedSlidesAreOfNoWork
<1> HIDE DEF works, stages
<1>8. ASSUME NEW w \in works
      PROVE  {s.at[3] : s \in {t \in stages : t.at[2] = w.at[2]}} = 1 .. w.total
  <2>1. PICK i \in taken : w = work(i)
    BY <1>6
  <2>2. w.at[2] = i /\ w.total = size(i)
    BY <1>3, <2>1
  <2>3. \A s \in stages : s.at[2] = i => s.at[3] \in 1 .. size(i)
    BY <1>3, <1>7
  <2>4. \A j \in 1 .. size(i) : stage(i, j) \in stages /\ stage(i, j).at[2] = i /\ stage(i, j).at[3] = j
    BY <1>3, <1>7
  <2> QED BY <2>2, <2>3, <2>4
<1>9. ASSUME NEW s \in stages PROVE \E w \in works : w.at[2] = s.at[2] /\ w.total = s.total
  <2>1. PICK i \in taken : \E j \in 1 .. size(i) : s = stage(i, j)
    BY <1>7
  <2>2. work(i) \in works /\ work(i).at[2] = s.at[2] /\ work(i).total = s.total
    BY <1>3, <1>6, <2>1
  <2> QED BY <2>2
<1>10. {w.at[2] : w \in works} = taken
  <2>1. \A w \in works : w.at[2] \in taken
    BY <1>3, <1>6
  <2>2. \A i \in taken : work(i) \in works /\ work(i).at[2] = i
    BY <1>3, <1>6
  <2> QED BY <2>1, <2>2
<1>11. Cardinality(works) = Cardinality(taken)
  <2> DEFINE f == [i \in taken |-> work(i)]
  <2>1. f \in [taken -> works]
    BY <1>6
  <2>2. \A i, j \in taken : f[i] = f[j] => i = j
    BY <1>3
  <2>3. \A w \in works : \E i \in taken : f[i] = w
    BY <1>6
  <2> HIDE DEF f
  <2>4. f \in Bijection(taken, works)
    BY <2>1, <2>2, <2>3 DEF Bijection, Injection, IsInjective, Surjection
  <2> QED BY <1>4, <2>4, FS_Bijection DEF ExistsBijection
<1> QED BY <1>4, <1>5, <1>8, <1>9, <1>10, <1>11 DEF ToldWhole, deck, works, stages

\* The deck keeps to its size, and a work is told with all its stages or not at all,
\* the first works first, however many works and stages are stored (workSlides).
THEOREM WorksAreToldWhole == Spec => []WorksAreWhole
<1>1. ASSUME PortfolioInv PROVE WorksAreWhole
  <2>1. "works" \in DOMAIN stored \cap ListSections /\ minted \in Nat /\ KeyedSections(stored, minted)
    BY <1>1 DEF PortfolioInv, ListSections, KEYED_ARRAY_SECTIONS
  <2>2. AreWorks(minted, Record(stored)["works"])
    BY <2>1, RecordOfLists DEF KeyedSections, IsContent
  <2>3. ToldInStages(Record(stored)["works"])
    BY <2>2 DEF AreWorks, IsWork, AreEntries, ToldInStages
  <2>4. ToldWhole(projectSlides(Record(stored)))
    BY <2>3, DeckTellsWholeWorks
  <2> QED BY <2>4 DEF ToldWhole, WorksAreWhole, Catalog
<1> QED BY <1>1, Inductive, PTL

-----------------------------------------------------------------------------
(* What the agent can name.  A path is spelled out by the keys that lead to *)
(* an entry: a trail.  A trail that was ever given out means one entry, in  *)
(* the document, in what clients hold, in what the backfill is about to     *)
(* write and in what an agent has heard.                                    *)

Trail(layer, entry, child, point) ==
  [layer |-> layer, entry |-> entry, child |-> child, point |-> point]

\* Trails of the first n keys, each as long as its layer is deep.
Trails(n) ==
  {t \in [layer : ListLayers, entry : 1 .. n, child : 0 .. n, point : 0 .. n] :
     /\ t.child # NoKey <=> t.layer \in {"stages", "screenshots", "hotspots"}
     /\ t.point # NoKey <=> t.layer = "hotspots"}

PathOf(t) ==
  CASE t.layer = "works" -> Path(SlideId("work", <<t.entry>>), <<>>)
    [] t.layer = "stages" -> Path(SlideId("stage", <<t.entry, t.child>>), <<>>)
    [] t.layer = "screenshots" -> Path(SlideId("work", <<t.entry>>), <<t.child>>)
    [] t.layer = "hotspots" -> Path(SlideId("work", <<t.entry>>), <<t.child, t.point>>)
    [] OTHER -> Path(SlideId(t.layer, <<>>), <<t.entry>>)

LEMMA TrailParts ==
  ASSUME NEW layer, NEW a, NEW b, NEW c
  PROVE  LET t == Trail(layer, a, b, c)
         IN  t.layer = layer /\ t.entry = a /\ t.child = b /\ t.point = c
BY DEF Trail

LEMMA TrailsAreTrails ==
  ASSUME NEW n \in Nat, NEW t \in Trails(n)
  PROVE  /\ t = Trail(t.layer, t.entry, t.child, t.point)
         /\ t.layer \in ListLayers /\ t.entry \in 1 .. n /\ t.child \in 0 .. n /\ t.point \in 0 .. n
         /\ t.child # NoKey <=> t.layer \in {"stages", "screenshots", "hotspots"}
         /\ t.point # NoKey <=> t.layer = "hotspots"
         /\ t.entry # NoKey
BY DEF Trails, Trail, NoKey

LEMMA TrailsMade ==
  ASSUME NEW n \in Nat, NEW layer \in ListLayers, NEW a \in 0 .. n, NEW b \in 0 .. n, NEW c \in 0 .. n,
         a # NoKey,
         b # NoKey <=> layer \in {"stages", "screenshots", "hotspots"},
         c # NoKey <=> layer = "hotspots"
  PROVE  Trail(layer, a, b, c) \in Trails(n)
<1>1. a \in 1 .. n
  BY DEF NoKey
<1> QED BY <1>1 DEF Trails, Trail

LEMMA TrailsGrow ==
  ASSUME NEW n \in Nat, NEW m \in Nat, n <= m
  PROVE  Trails(n) \subseteq Trails(m)
<1>1. \A k : (k \in 0 .. n => k \in 0 .. m) /\ (k \in 1 .. n => k \in 1 .. m)
  OBVIOUS
<1> QED BY <1>1 DEF Trails

\* What a path is made of.
LEMMA PathParts ==
  ASSUME NEW n \in Nat, NEW t \in Trails(n)
  PROVE  /\ t.layer = "works" =>
              PathOf(t) = [slide |-> [name |-> "work", keys |-> <<t.entry>>], focus |-> <<>>]
         /\ t.layer = "stages" =>
              PathOf(t) = [slide |-> [name |-> "stage", keys |-> <<t.entry, t.child>>], focus |-> <<>>]
         /\ t.layer = "screenshots" =>
              PathOf(t) = [slide |-> [name |-> "work", keys |-> <<t.entry>>], focus |-> <<t.child>>]
         /\ t.layer = "hotspots" =>
              PathOf(t) = [slide |-> [name |-> "work", keys |-> <<t.entry>>],
                           focus |-> <<t.child, t.point>>]
         /\ t.layer \notin {"works", "stages", "screenshots", "hotspots"} =>
              PathOf(t) = [slide |-> [name |-> t.layer, keys |-> <<>>], focus |-> <<t.entry>>]
         /\ t.layer \notin {"work", "stage"}
<1>1. t.layer \notin {"work", "stage"}
  BY DEF Trails, ListLayers, ListSections, KEYED_ARRAY_SECTIONS
<1> QED BY <1>1 DEF PathOf, Path, SlideId

\* The same path, the same trail.
LEMMA PathsTellTrails ==
  ASSUME NEW n \in Nat, NEW t \in Trails(n), NEW u \in Trails(n), PathOf(t) = PathOf(u)
  PROVE  t = u
<1>1. /\ t = Trail(t.layer, t.entry, t.child, t.point) /\ u = Trail(u.layer, u.entry, u.child, u.point)
      /\ (t.child # NoKey <=> t.layer \in {"stages", "screenshots", "hotspots"})
      /\ (t.point # NoKey <=> t.layer = "hotspots")
      /\ (u.child # NoKey <=> u.layer \in {"stages", "screenshots", "hotspots"})
      /\ (u.point # NoKey <=> u.layer = "hotspots")
  BY TrailsAreTrails
<1>2. \A a, b, c, d :
        /\ <<a>> = <<b>> => a = b
        /\ <<a, b>> = <<c, d>> => a = c /\ b = d
        /\ <<a>> # << >> /\ <<a, b>> # << >> /\ <<a, b>> # <<c>>
  OBVIOUS
<1>3. PathOf(t).slide.name = PathOf(u).slide.name /\ PathOf(t).slide.keys = PathOf(u).slide.keys
      /\ PathOf(t).focus = PathOf(u).focus
  OBVIOUS
<1>4. CASE t.layer = "stages"
  <2>1. PathOf(t).slide.name = "stage" /\ PathOf(t).slide.keys = <<t.entry, t.child>>
    BY <1>4, PathParts
  <2>2. u.layer = "stages"
    BY <1>3, <2>1, PathParts
  <2>3. PathOf(u).slide.keys = <<u.entry, u.child>>
    BY <2>2, PathParts
  <2>4. t.entry = u.entry /\ t.child = u.child
    BY <1>2, <1>3, <2>1, <2>3
  <2> QED BY <1>1, <1>4, <2>2, <2>4
<1>5. CASE t.layer \in {"works", "screenshots", "hotspots"}
  <2>1. PathOf(t).slide.name = "work" /\ PathOf(t).slide.keys = <<t.entry>>
    BY <1>5, PathParts
  <2>2. u.layer \in {"works", "screenshots", "hotspots"}
    BY <1>3, <2>1, PathParts
  <2>3. PathOf(u).slide.keys = <<u.entry>>
    BY <2>2, PathParts
  <2>4. t.entry = u.entry
    BY <1>2, <1>3, <2>1, <2>3
  <2>5. ASSUME NEW v \in {t, u}
        PROVE  /\ v.layer = "works" => DOMAIN PathOf(v).focus = {}
               /\ v.layer = "screenshots" =>
                    DOMAIN PathOf(v).focus = {1} /\ PathOf(v).focus[1] = v.child
               /\ v.layer = "hotspots" =>
                    /\ DOMAIN PathOf(v).focus = {1, 2} /\ PathOf(v).focus[1] = v.child
                    /\ PathOf(v).focus[2] = v.point
    <3>1. v \in Trails(n)
      OBVIOUS
    <3> DEFINE f == PathOf(v).focus
    <3>2. /\ v.layer = "works" => f = << >>
          /\ v.layer = "screenshots" => f = <<v.child>>
          /\ v.layer = "hotspots" => f = <<v.child, v.point>>
      BY <3>1, PathParts
    <3> HIDE DEF f
    <3>3. v.layer = "works" => DOMAIN f = {}
      BY <3>2
    <3>4. v.layer = "screenshots" => DOMAIN f = {1} /\ f[1] = v.child
      BY <3>2, OneKey
    <3>5. v.layer = "hotspots" => DOMAIN f = {1, 2} /\ f[1] = v.child /\ f[2] = v.point
      BY <3>2, TwoKeys
    <3> QED BY <3>3, <3>4, <3>5 DEF f
  <2>6. {} # {1} /\ {} # {1, 2} /\ {1} # {1, 2}
    OBVIOUS
  <2>7. t.layer = u.layer /\ (t.layer # "works" => t.child = u.child)
        /\ (t.layer = "hotspots" => t.point = u.point)
    BY <1>3, <1>5, <2>2, <2>5, <2>6
  <2> QED BY <1>1, <1>5, <2>4, <2>7
<1>6. CASE t.layer \notin {"works", "stages", "screenshots", "hotspots"}
  <2>1. PathOf(t).slide.name = t.layer /\ PathOf(t).focus = <<t.entry>>
    BY <1>6, PathParts
  <2>2. u.layer \notin {"works", "stages", "screenshots", "hotspots"}
    BY <1>3, <1>6, <2>1, PathParts
  <2>3. PathOf(u).slide.name = u.layer /\ PathOf(u).focus = <<u.entry>>
    BY <2>2, PathParts
  <2>4. t.entry = u.entry /\ t.layer = u.layer
    BY <1>2, <1>3, <2>1, <2>3
  <2> QED BY <1>1, <1>6, <2>4
<1> QED BY <1>4, <1>5, <1>6

LEMMA TrailsAreKeyed ==
  ASSUME NEW n \in Nat, NEW t \in Trails(n)
  PROVE  IsKeyed(PathOf(t))
<1>1. /\ t.entry # NoKey
      /\ (t.child # NoKey <=> t.layer \in {"stages", "screenshots", "hotspots"})
      /\ (t.point # NoKey <=> t.layer = "hotspots")
  BY TrailsAreTrails
<1>2. \A a, b : /\ \A k \in DOMAIN <<a>> : <<a>>[k] = a
                /\ \A k \in DOMAIN <<a, b>> : <<a, b>>[k] = a \/ <<a, b>>[k] = b
                /\ DOMAIN << >> = {}
  OBVIOUS
<1>3. PathOf(t).slide.keys \in {<< >>, <<t.entry>>} \/ t.layer = "stages"
  BY PathParts
<1>4. t.layer = "stages" => PathOf(t).slide.keys = <<t.entry, t.child>>
  BY PathParts
<1>5. \/ PathOf(t).focus \in {<< >>, <<t.entry>>}
      \/ t.layer = "screenshots" /\ PathOf(t).focus = <<t.child>>
      \/ t.layer = "hotspots" /\ PathOf(t).focus = <<t.child, t.point>>
  BY PathParts
<1>6. \A k \in DOMAIN PathOf(t).slide.keys : PathOf(t).slide.keys[k] # NoKey
  BY <1>1, <1>2, <1>3, <1>4
<1>7. \A k \in DOMAIN PathOf(t).focus : PathOf(t).focus[k] # NoKey
  BY <1>1, <1>2, <1>5
<1> QED BY <1>6, <1>7 DEF IsKeyed

\* What is nested in a work, and the entries of a list, under their trails.
NamedInside(w, t, of) ==
  \/ \E j \in DOMAIN w.stages :
       t = Trail("stages", w.key, w.stages[j].key, NoKey) /\ of = w.stages[j].of
  \/ \E s \in DOMAIN w.screenshots :
       \/ t = Trail("screenshots", w.key, w.screenshots[s].key, NoKey) /\ of = w.screenshots[s].of
       \/ \E h \in DOMAIN w.screenshots[s].hotspots :
            /\ t = Trail("hotspots", w.key, w.screenshots[s].key, w.screenshots[s].hotspots[h].key)
            /\ of = w.screenshots[s].hotspots[h].of

Named(section, l, t, of) ==
  \E i \in DOMAIN l :
    \/ t = Trail(section, l[i].key, NoKey, NoKey) /\ of = l[i].of
    \/ section = "works" /\ NamedInside(l[i], t, of)

LEMMA NestedLayers ==
  /\ {"works", "stages", "screenshots", "hotspots"} \subseteq ListLayers
  /\ \A s \in ListSections : s \in ListLayers /\ s \notin {"stages", "screenshots", "hotspots"}
  /\ "works" \in ListSections
BY DEF ListLayers, ListSections, KEYED_ARRAY_SECTIONS

LEMMA NamedParts ==
  ASSUME NEW w, NEW t, NEW of, NamedInside(w, t, of)
  PROVE  /\ t.entry = w.key /\ t.layer \in {"stages", "screenshots", "hotspots"}
         /\ t.layer = "stages" =>
              \E j \in DOMAIN w.stages : w.stages[j].key = t.child /\ w.stages[j].of = of
         /\ t.layer = "screenshots" =>
              \E s \in DOMAIN w.screenshots :
                w.screenshots[s].key = t.child /\ w.screenshots[s].of = of
         /\ t.layer = "hotspots" =>
              \E s \in DOMAIN w.screenshots :
                /\ w.screenshots[s].key = t.child
                /\ \E h \in DOMAIN w.screenshots[s].hotspots :
                     /\ w.screenshots[s].hotspots[h].key = t.point
                     /\ w.screenshots[s].hotspots[h].of = of
BY TrailParts DEF NamedInside

\* What has a name has a trail of the keys there are.
LEMMA NamesAreTrails ==
  ASSUME NEW n \in Nat, NEW m \in Nat, NEW section \in ListSections, NEW l, IsContent(section, n, l),
         NEW t \in Trails(m), NEW of, Named(section, l, t, of)
  PROVE  t \in Trails(n)
<1>1. /\ t = Trail(t.layer, t.entry, t.child, t.point) /\ t.layer \in ListLayers /\ t.entry # NoKey
      /\ (t.child # NoKey <=> t.layer \in {"stages", "screenshots", "hotspots"})
      /\ (t.point # NoKey <=> t.layer = "hotspots")
  BY TrailsAreTrails
<1>2. PICK i \in DOMAIN l :
        \/ t = Trail(section, l[i].key, NoKey, NoKey) /\ of = l[i].of
        \/ section = "works" /\ NamedInside(l[i], t, of)
  BY DEF Named
<1>3. NoKey \in 0 .. n
  BY DEF NoKey
<1>4. t.entry \in 0 .. n /\ t.child \in 0 .. n /\ t.point \in 0 .. n
  <2>1. CASE t = Trail(section, l[i].key, NoKey, NoKey)
    <3>1. l[i].key \in 0 .. n
      BY DEF IsContent, AreWorks, IsWork, AreEntries, IsEntry
    <3> QED BY <1>3, <2>1, <3>1, TrailParts
  <2>2. CASE section = "works" /\ NamedInside(l[i], t, of)
    <3> DEFINE w == l[i]
    <3>1. IsWork(n, w)
      BY <2>2 DEF IsContent, AreWorks
    <3>2. /\ w.key \in 0 .. n
          /\ \A j \in DOMAIN w.stages : w.stages[j].key \in 0 .. n
          /\ \A s \in DOMAIN w.screenshots :
               /\ w.screenshots[s].key \in 0 .. n
               /\ \A h \in DOMAIN w.screenshots[s].hotspots : w.screenshots[s].hotspots[h].key \in 0 .. n
      BY <3>1 DEF IsWork, AreEntries, IsEntry, AreShots, IsShot
    <3> HIDE DEF w
    <3>3. NamedInside(w, t, of)
      BY <2>2 DEF w
    <3>4. t.entry = w.key /\ t.layer \in {"stages", "screenshots", "hotspots"}
      BY <3>3, NamedParts
    <3>5. t.child \in 0 .. n
      BY <3>2, <3>3, <3>4, NamedParts
    <3>6. t.point \in 0 .. n
      BY <1>1, <1>3, <3>2, <3>3, <3>4, NamedParts
    <3> QED BY <3>2, <3>4, <3>5, <3>6
  <2> QED BY <1>2, <2>1, <2>2
<1>5. Trail(t.layer, t.entry, t.child, t.point) \in Trails(n)
  BY <1>1, <1>4, TrailsMade
<1> QED BY <1>1, <1>5

LEMMA DistinctKeys ==
  ASSUME NEW l, Distinct(l), NEW i \in DOMAIN l, NEW j \in DOMAIN l, l[i].key = l[j].key, l[i].key # NoKey
  PROVE  i = j
BY DEF Distinct

\* In a list of distinct keys, a trail is of one entry.
LEMMA OneNameInside ==
  ASSUME NEW n \in Nat, NEW w, ChildrenDistinct(w), NEW t \in Trails(n), NEW a, NEW b,
         NamedInside(w, t, a), NamedInside(w, t, b)
  PROVE  a = b
<1>1. /\ t.layer \in {"stages", "screenshots", "hotspots"} /\ t.child # NoKey
      /\ t.layer = "hotspots" => t.point # NoKey
  BY NamedParts, TrailsAreTrails
<1>2. /\ Distinct(w.stages) /\ Distinct(w.screenshots)
      /\ \A s \in DOMAIN w.screenshots : Distinct(w.screenshots[s].hotspots)
  BY DEF ChildrenDistinct
<1>3. CASE t.layer = "stages"
  BY <1>1, <1>2, <1>3, NamedParts, DistinctKeys
<1>4. CASE t.layer = "screenshots"
  BY <1>1, <1>2, <1>4, NamedParts, DistinctKeys
<1>5. CASE t.layer = "hotspots"
  <2>1. PICK s \in DOMAIN w.screenshots :
          /\ w.screenshots[s].key = t.child
          /\ \E h \in DOMAIN w.screenshots[s].hotspots :
               w.screenshots[s].hotspots[h].key = t.point /\ w.screenshots[s].hotspots[h].of = a
    BY <1>5, NamedParts
  <2>2. PICK r \in DOMAIN w.screenshots :
          /\ w.screenshots[r].key = t.child
          /\ \E h \in DOMAIN w.screenshots[r].hotspots :
               w.screenshots[r].hotspots[h].key = t.point /\ w.screenshots[r].hotspots[h].of = b
    BY <1>5, NamedParts
  <2>3. s = r
    BY <1>1, <1>2, <2>1, <2>2, DistinctKeys
  <2> QED BY <1>1, <1>2, <1>5, <2>1, <2>2, <2>3, DistinctKeys
<1> QED BY <1>1, <1>3, <1>4, <1>5

LEMMA OneName ==
  ASSUME NEW n \in Nat, NEW section \in ListSections, NEW l, AllDistinct(section, l),
         NEW t \in Trails(n), NEW a, NEW b, Named(section, l, t, a), Named(section, l, t, b)
  PROVE  a = b
<1>1. t.entry # NoKey
  BY TrailsAreTrails
<1>2. Distinct(l) /\ (section = "works" => \A i \in DOMAIN l : ChildrenDistinct(l[i]))
  BY DEF AllDistinct
<1>3. PICK i \in DOMAIN l :
        \/ t = Trail(section, l[i].key, NoKey, NoKey) /\ a = l[i].of
        \/ section = "works" /\ NamedInside(l[i], t, a)
  BY DEF Named
<1>4. PICK j \in DOMAIN l :
        \/ t = Trail(section, l[j].key, NoKey, NoKey) /\ b = l[j].of
        \/ section = "works" /\ NamedInside(l[j], t, b)
  BY DEF Named
<1>5. /\ t = Trail(section, l[i].key, NoKey, NoKey) => t.layer = section /\ t.entry = l[i].key
      /\ t = Trail(section, l[j].key, NoKey, NoKey) => t.layer = section /\ t.entry = l[j].key
      /\ NamedInside(l[i], t, a) =>
           t.layer \in {"stages", "screenshots", "hotspots"} /\ t.entry = l[i].key
      /\ NamedInside(l[j], t, b) =>
           t.layer \in {"stages", "screenshots", "hotspots"} /\ t.entry = l[j].key
  BY NamedParts, TrailParts
<1>6. t.entry = l[i].key /\ t.entry = l[j].key
  BY <1>3, <1>4, <1>5
<1>7. i = j
  BY <1>1, <1>2, <1>6, DistinctKeys
<1>8. section \notin {"stages", "screenshots", "hotspots"}
  BY NestedLayers
<1>9. CASE t.layer = section
  BY <1>3, <1>4, <1>5, <1>7, <1>8, <1>9
<1>10. CASE t.layer # section
  <2>1. section = "works" /\ NamedInside(l[i], t, a) /\ NamedInside(l[i], t, b)
    BY <1>3, <1>4, <1>5, <1>7, <1>10
  <2> QED BY <1>2, <2>1, OneNameInside
<1> QED BY <1>9, <1>10

\* And so it is in a document.
LEMMA OneNameInDocument ==
  ASSUME NEW n \in Nat, NEW doc, KeyedSections(doc, n),
         NEW s \in DOMAIN doc \cap ListSections, NEW r \in DOMAIN doc \cap ListSections,
         NEW t \in Trails(n), NEW a, NEW b, Named(s, doc[s], t, a), Named(r, doc[r], t, b)
  PROVE  a = b
<1>1. \A q \in ListSections : \A l, of : Named(q, l, t, of) =>
        t.layer = q \/ (q = "works" /\ t.layer \in {"stages", "screenshots", "hotspots"})
  BY NamedParts, TrailParts DEF Named
<1>2. s = r
  BY <1>1, NestedLayers
<1>3. AllDistinct(s, doc[s])
  BY DEF KeyedSections
<1> QED BY <1>2, <1>3, OneName

-----------------------------------------------------------------------------

\* A list at whose places the same things are, under their old keys or keys that are
\* not among the first n.
Follows(n, l, out) ==
  /\ DOMAIN out = DOMAIN l
  /\ \A i \in DOMAIN l : out[i].of = l[i].of /\ (out[i].key = l[i].key \/ out[i].key \notin 0 .. n)

FollowsInside(n, w, out) ==
  /\ Follows(n, w.stages, out.stages)
  /\ Follows(n, w.screenshots, out.screenshots)
  /\ \A s \in DOMAIN w.screenshots :
       Follows(n, w.screenshots[s].hotspots, out.screenshots[s].hotspots)

FollowsThroughout(n, section, l, out) ==
  /\ Follows(n, l, out)
  /\ section = "works" => \A i \in DOMAIN l : FollowsInside(n, l[i], out[i])

\* An old name still means what it meant.
LEMMA OldNamesInside ==
  ASSUME NEW n \in Nat, NEW w, NEW v, v.key = w.key, FollowsInside(n, w, v),
         NEW t \in Trails(n), NEW of, NamedInside(v, t, of)
  PROVE  NamedInside(w, t, of)
<1>1. /\ t = Trail(t.layer, t.entry, t.child, t.point) /\ t.child \in 0 .. n /\ t.point \in 0 .. n
      /\ (t.child # NoKey <=> t.layer \in {"stages", "screenshots", "hotspots"})
      /\ (t.point # NoKey <=> t.layer = "hotspots")
  BY TrailsAreTrails
<1>2. t.entry = w.key /\ t.layer \in {"stages", "screenshots", "hotspots"}
  BY NamedParts
<1>3. CASE t.layer = "stages"
  <2>1. PICK j \in DOMAIN v.stages : v.stages[j].key = t.child /\ v.stages[j].of = of
    BY <1>3, NamedParts
  <2>2. j \in DOMAIN w.stages /\ w.stages[j].key = t.child /\ w.stages[j].of = of
    BY <1>1, <2>1 DEF FollowsInside, Follows
  <2>3. t = Trail("stages", w.key, w.stages[j].key, NoKey)
    BY <1>1, <1>2, <1>3, <2>2
  <2> QED BY <2>2, <2>3 DEF NamedInside
<1>4. CASE t.layer = "screenshots"
  <2>1. PICK s \in DOMAIN v.screenshots : v.screenshots[s].key = t.child /\ v.screenshots[s].of = of
    BY <1>4, NamedParts
  <2>2. s \in DOMAIN w.screenshots /\ w.screenshots[s].key = t.child /\ w.screenshots[s].of = of
    BY <1>1, <2>1 DEF FollowsInside, Follows
  <2>3. t = Trail("screenshots", w.key, w.screenshots[s].key, NoKey)
    BY <1>1, <1>2, <1>4, <2>2
  <2> QED BY <2>2, <2>3 DEF NamedInside
<1>5. CASE t.layer = "hotspots"
  <2>1. PICK s \in DOMAIN v.screenshots :
          /\ v.screenshots[s].key = t.child
          /\ \E h \in DOMAIN v.screenshots[s].hotspots :
               v.screenshots[s].hotspots[h].key = t.point /\ v.screenshots[s].hotspots[h].of = of
    BY <1>5, NamedParts
  <2>2. /\ s \in DOMAIN w.screenshots /\ w.screenshots[s].key = t.child
        /\ Follows(n, w.screenshots[s].hotspots, v.screenshots[s].hotspots)
    BY <1>1, <2>1 DEF FollowsInside, Follows
  <2>3. PICK h \in DOMAIN v.screenshots[s].hotspots :
          v.screenshots[s].hotspots[h].key = t.point /\ v.screenshots[s].hotspots[h].of = of
    BY <2>1
  <2>4. /\ h \in DOMAIN w.screenshots[s].hotspots
        /\ w.screenshots[s].hotspots[h].key = t.point /\ w.screenshots[s].hotspots[h].of = of
    BY <1>1, <2>2, <2>3 DEF Follows
  <2>5. t = Trail("hotspots", w.key, w.screenshots[s].key, w.screenshots[s].hotspots[h].key)
    BY <1>1, <1>2, <1>5, <2>2, <2>4
  <2> QED BY <2>2, <2>4, <2>5 DEF NamedInside
<1> QED BY <1>2, <1>3, <1>4, <1>5

LEMMA OldNames ==
  ASSUME NEW n \in Nat, NEW section, NEW l, NEW out, FollowsThroughout(n, section, l, out),
         NEW t \in Trails(n), NEW of, Named(section, out, t, of)
  PROVE  Named(section, l, t, of)
<1>1. t.entry \in 0 .. n
  BY TrailsAreTrails
<1>2. PICK i \in DOMAIN out :
        \/ t = Trail(section, out[i].key, NoKey, NoKey) /\ of = out[i].of
        \/ section = "works" /\ NamedInside(out[i], t, of)
  BY DEF Named
<1>3. t.entry = out[i].key
  BY <1>2, NamedParts, TrailParts
<1>4. i \in DOMAIN l /\ out[i].key = l[i].key /\ out[i].of = l[i].of
  BY <1>1, <1>3 DEF FollowsThroughout, Follows
<1>5. ASSUME section = "works", NamedInside(out[i], t, of) PROVE NamedInside(l[i], t, of)
  <2>1. FollowsInside(n, l[i], out[i])
    BY <1>4, <1>5 DEF FollowsThroughout
  <2> QED BY <1>4, <1>5, <2>1, OldNamesInside
<1> QED BY <1>2, <1>4, <1>5 DEF Named

\* Two works with the same keys for the same things.
SameNames(w, v) ==
  /\ DOMAIN w.stages = DOMAIN v.stages /\ DOMAIN w.screenshots = DOMAIN v.screenshots
  /\ \A j \in DOMAIN w.stages :
       v.stages[j].key = w.stages[j].key /\ v.stages[j].of = w.stages[j].of
  /\ \A s \in DOMAIN w.screenshots :
       /\ v.screenshots[s].key = w.screenshots[s].key /\ v.screenshots[s].of = w.screenshots[s].of
       /\ DOMAIN w.screenshots[s].hotspots = DOMAIN v.screenshots[s].hotspots
       /\ \A h \in DOMAIN w.screenshots[s].hotspots :
            /\ v.screenshots[s].hotspots[h].key = w.screenshots[s].hotspots[h].key
            /\ v.screenshots[s].hotspots[h].of = w.screenshots[s].hotspots[h].of

LEMMA MadeWorksHaveTheirNames ==
  ASSUME NEW w
  PROVE  SameNames(w, OnWork(w, MappedFields)) /\ SameNames(w, OnWork(w, HydratedFields))
<1>1. SameNames(w, OnWork(w, MappedFields))
  BY DEF SameNames, OnWork
<1>2. SameNames(w, OnWork(w, HydratedFields))
  BY DEF SameNames, OnWork
<1> QED BY <1>1, <1>2

\* Mapping and reading leave names as they are.
LEMMA MadeListsFollow ==
  ASSUME NEW n, NEW section, NEW l
  PROVE  /\ FollowsThroughout(n, section, l, MappedEntries(section, l))
         /\ FollowsThroughout(n, section, l, ReadEntries(section, l))
         /\ FollowsThroughout(n, section, ReadEntries(section, l), l)
<1>1. CASE section # "works"
  <2>1. /\ DOMAIN MappedEntries(section, l) = DOMAIN l /\ DOMAIN ReadEntries(section, l) = DOMAIN l
        /\ \A i \in DOMAIN l :
             /\ MappedEntries(section, l)[i].key = l[i].key /\ MappedEntries(section, l)[i].of = l[i].of
             /\ ReadEntries(section, l)[i].key = l[i].key /\ ReadEntries(section, l)[i].of = l[i].of
    BY <1>1 DEF OnEntries, MappedEntries, ReadEntries
  <2> QED BY <1>1, <2>1 DEF FollowsThroughout, Follows
<1>2. CASE section = "works"
  <2>1. /\ MappedEntries(section, l) = [i \in DOMAIN l |-> OnWork(l[i], MappedFields)]
        /\ ReadEntries(section, l) = [i \in DOMAIN l |-> OnWork(l[i], HydratedFields)]
    BY <1>2 DEF OnEntries, MappedEntries, ReadEntries
  <2>2. \A w : /\ OnWork(w, MappedFields).key = w.key /\ OnWork(w, MappedFields).of = w.of
               /\ OnWork(w, HydratedFields).key = w.key /\ OnWork(w, HydratedFields).of = w.of
    BY DEF OnWork
  <2>3. \A w : SameNames(w, OnWork(w, MappedFields)) /\ SameNames(w, OnWork(w, HydratedFields))
    BY MadeWorksHaveTheirNames
  <2>4. \A v, w : SameNames(w, v) => FollowsInside(n, w, v) /\ FollowsInside(n, v, w)
    BY DEF SameNames, FollowsInside, Follows
  <2> QED BY <1>2, <2>1, <2>2, <2>3, <2>4 DEF FollowsThroughout, Follows
<1> QED BY <1>1, <1>2

\* Keys are kept, or new.
LEMMA KeyedFollows ==
  ASSUME NEW n \in Nat, NEW l, Placed(l),
         \A i \in DOMAIN l : \A k : Keyed(l[i], k).key = k /\ Keyed(l[i], k).of = l[i].of
  PROVE  Follows(n, l, withUniqueKeys(l, n))
<1>1. ASSUME NEW i \in DOMAIN l
      PROVE  /\ withUniqueKeys(l, n)[i].of = l[i].of
             /\ withUniqueKeys(l, n)[i].key = l[i].key \/ withUniqueKeys(l, n)[i].key \notin 0 .. n
  <2>1. n + i \notin 0 .. n
    BY DEF Placed
  <2>2. \E k \in {l[i].key, n + i} : withUniqueKeys(l, n)[i] = Keyed(l[i], k)
    BY DEF withUniqueKeys
  <2> QED BY <2>1, <2>2
<1> QED BY <1>1 DEF Follows, withUniqueKeys

LEMMA KeyedKeepsOf ==
  /\ \A n, layer, e, k : IsEntry(layer, n, e) => Keyed(e, k).of = e.of
  /\ \A n, e, k : IsShot(n, e) => Keyed(e, k).of = e.of
  /\ \A n, e, k : IsWork(n, e) => Keyed(e, k).of = e.of
<1>1. ASSUME NEW n, NEW layer, NEW e, NEW k, IsEntry(layer, n, e) PROVE Keyed(e, k).of = e.of
  BY <1>1 DEF IsEntry, Keyed
<1>2. ASSUME NEW n, NEW e, NEW k, IsShot(n, e) PROVE Keyed(e, k).of = e.of
  BY <1>2 DEF IsShot, Keyed
<1>3. ASSUME NEW n, NEW e, NEW k, IsWork(n, e) PROVE Keyed(e, k).of = e.of
  BY <1>3 DEF IsWork, Keyed
<1> QED BY <1>1, <1>2, <1>3

LEMMA ContentFollows ==
  ASSUME NEW n \in Nat, NEW m, NEW l
  PROVE  /\ \A layer : AreEntries(layer, m, l) => Follows(n, l, withUniqueKeys(l, n))
         /\ AreShots(m, l) => Follows(n, l, withUniqueKeys(l, n))
         /\ AreWorks(m, l) => Follows(n, l, withUniqueKeys(l, n))
BY KeyedFollows, KeyedHasItsKey, KeyedKeepsOf DEF AreEntries, AreShots, AreWorks

\* A list follows itself.
LEMMA Stays == \A n, l : Follows(n, l, l)
BY DEF Follows

LEMMA SectionFollows ==
  ASSUME NEW n \in Nat, NEW section \in ListSections, NEW l, IsContent(section, n, l)
  PROVE  /\ FollowsThroughout(n, section, l, withEntryKeys(section, l, n))
         /\ FollowsThroughout(n, section, l, EntriesAndStages(section, l, n))
<1> DEFINE keyed == withUniqueKeys(l, n)
           whole == withEntryKeys(section, l, n)
           told == EntriesAndStages(section, l, n)
<1>1. CASE section # "works"
  <2>1. whole = keyed /\ told = keyed
    BY <1>1 DEF withEntryKeys, EntriesAndStages
  <2>2. Follows(n, l, keyed)
    BY <1>1, ContentFollows DEF IsContent
  <2> QED BY <1>1, <2>1, <2>2 DEF FollowsThroughout
<1>2. CASE section = "works"
  <2>1. /\ whole = [i \in DOMAIN keyed |-> withWorkChildKeys(keyed[i], n)]
        /\ told = [i \in DOMAIN keyed |->
                     [keyed[i] EXCEPT !.stages = withUniqueKeys(keyed[i].stages, n)]]
    BY <1>2 DEF withEntryKeys, EntriesAndStages
  <2>2. AreWorks(n, l)
    BY <1>2 DEF IsContent
  <2>3. /\ DOMAIN keyed = DOMAIN l /\ Follows(n, l, keyed)
        /\ \A i \in DOMAIN l :
             keyed[i] = [key |-> keyed[i].key, of |-> l[i].of, fields |-> l[i].fields,
                         stages |-> l[i].stages, screenshots |-> l[i].screenshots]
    BY <2>2, WorksGetKeys, ContentFollows
  <2> HIDE DEF keyed, whole, told
  <2>4. ASSUME NEW i \in DOMAIN l
        PROVE  /\ FollowsInside(n, l[i], whole[i]) /\ FollowsInside(n, l[i], told[i])
               /\ whole[i].key = keyed[i].key /\ whole[i].of = keyed[i].of
               /\ told[i].key = keyed[i].key /\ told[i].of = keyed[i].of
    <3> DEFINE w == l[i]
               k == keyed[i]
               stages == withUniqueKeys(w.stages, n)
               shots == withUniqueKeys(w.screenshots, n)
               pointed == [s \in DOMAIN shots |->
                             [shots[s] EXCEPT !.hotspots = withUniqueKeys(shots[s].hotspots, n)]]
    <3>1. AreEntries("stages", n, w.stages) /\ AreShots(n, w.screenshots)
      BY <2>2 DEF AreWorks, IsWork
    <3>2. k = [key |-> k.key, of |-> k.of, fields |-> k.fields, stages |-> w.stages,
               screenshots |-> w.screenshots]
      BY <2>3
    <3>3. whole[i] = withWorkChildKeys(k, n)
          /\ told[i] = [k EXCEPT !.stages = withUniqueKeys(k.stages, n)]
      BY <2>1, <2>3
    <3>4. k.stages = w.stages /\ k.screenshots = w.screenshots
      BY <3>2
    <3>5. whole[i] = [k EXCEPT !.stages = stages, !.screenshots = pointed]
          /\ told[i] = [k EXCEPT !.stages = stages]
      BY <3>3, <3>4 DEF withWorkChildKeys
    <3>6. Follows(n, w.stages, stages)
      BY <3>1, ContentFollows
    <3>7. Follows(n, w.screenshots, shots) /\ AreShots(n + MaxEntries, shots)
          /\ DOMAIN shots = DOMAIN w.screenshots
          /\ \A s \in DOMAIN w.screenshots : shots[s].hotspots = w.screenshots[s].hotspots
      BY <3>1, ContentFollows, ShotsGetKeys
    <3>8. ASSUME NEW s \in DOMAIN w.screenshots
          PROVE  /\ pointed[s].key = shots[s].key /\ pointed[s].of = shots[s].of
                 /\ Follows(n, w.screenshots[s].hotspots, pointed[s].hotspots)
      <4>1. IsShot(n + MaxEntries, shots[s])
        BY <3>7 DEF AreShots
      <4>2. pointed[s] = [shots[s] EXCEPT !.hotspots = withUniqueKeys(w.screenshots[s].hotspots, n)]
        BY <3>7
      <4> HIDE DEF pointed, shots, w
      <4>3. /\ pointed[s].key = shots[s].key /\ pointed[s].of = shots[s].of
            /\ pointed[s].hotspots = withUniqueKeys(w.screenshots[s].hotspots, n)
        BY <4>1, <4>2 DEF IsShot
      <4>4. AreEntries("hotspots", n, w.screenshots[s].hotspots)
        BY <3>1 DEF AreShots, IsShot
      <4> QED BY <4>3, <4>4, ContentFollows
    <3>9. DOMAIN pointed = DOMAIN w.screenshots
      BY <3>7
    <3> HIDE DEF w, k, stages, shots, pointed
    <3>10. Follows(n, w.screenshots, pointed)
      BY <3>7, <3>8, <3>9 DEF Follows
    <3>11. /\ whole[i].key = k.key /\ whole[i].of = k.of
           /\ whole[i].stages = stages /\ whole[i].screenshots = pointed
           /\ told[i].key = k.key /\ told[i].of = k.of
           /\ told[i].stages = stages /\ told[i].screenshots = w.screenshots
      <4>1. \A c : c = [k EXCEPT !.stages = stages, !.screenshots = pointed] =>
              c.key = k.key /\ c.of = k.of /\ c.stages = stages /\ c.screenshots = pointed
        BY <3>2
      <4>2. \A c : c = [k EXCEPT !.stages = stages] =>
              c.key = k.key /\ c.of = k.of /\ c.stages = stages /\ c.screenshots = w.screenshots
        BY <3>2
      <4> QED BY <3>5, <4>1, <4>2
    <3>12. FollowsInside(n, w, whole[i]) /\ FollowsInside(n, w, told[i])
      BY <3>6, <3>8, <3>10, <3>11, Stays DEF FollowsInside
    <3> QED BY <3>11, <3>12 DEF w, k
  <2>5. DOMAIN whole = DOMAIN l /\ DOMAIN told = DOMAIN l
    BY <2>1, <2>3
  <2>6. Follows(n, l, whole) /\ Follows(n, l, told)
    BY <2>3, <2>4, <2>5 DEF Follows
  <2>7. FollowsThroughout(n, section, l, whole) /\ FollowsThroughout(n, section, l, told)
    BY <2>4, <2>6 DEF FollowsThroughout
  <2> QED BY <2>7 DEF whole, told
<1> QED BY <1>1, <1>2

-----------------------------------------------------------------------------

\* A path on a slide, and the entry it stands for, found in a record.
Answers(n, record, m) ==
  \E s \in ListSections : \E t \in Trails(n) : m.path = PathOf(t) /\ Named(s, record[s], t, m.of)

LEMMA KeysOfPaths ==
  /\ \A name, a, f : IsKeyed(Path(SlideId(name, <<a>>), f)) => a # NoKey
  /\ \A name, a, b, f : IsKeyed(Path(SlideId(name, <<a, b>>), f)) => a # NoKey /\ b # NoKey
  /\ \A id, a : IsKeyed(Path(id, <<a>>)) => a # NoKey
  /\ \A id, a, b : IsKeyed(Path(id, <<a, b>>)) => a # NoKey /\ b # NoKey
<1>1. ASSUME NEW id, NEW f, IsKeyed(Path(id, f))
      PROVE  /\ \A i \in DOMAIN f : f[i] # NoKey
             /\ \A name, k : id = SlideId(name, k) => \A i \in DOMAIN k : k[i] # NoKey
  BY <1>1 DEF IsKeyed, Path, SlideId
<1>2. ASSUME NEW a, NEW k, k = <<a>>, \A i \in DOMAIN k : k[i] # NoKey PROVE a # NoKey
  BY <1>2, OneKey
<1>3. ASSUME NEW a, NEW b, NEW k, k = <<a, b>>, \A i \in DOMAIN k : k[i] # NoKey
      PROVE  a # NoKey /\ b # NoKey
  BY <1>3, TwoKeys
<1>4. ASSUME NEW name, NEW a, NEW f, IsKeyed(Path(SlideId(name, <<a>>), f)) PROVE a # NoKey
  BY <1>1, <1>2, <1>4
<1>5. ASSUME NEW name, NEW a, NEW b, NEW f, IsKeyed(Path(SlideId(name, <<a, b>>), f))
      PROVE  a # NoKey /\ b # NoKey
  BY <1>1, <1>3, <1>5
<1>6. ASSUME NEW id, NEW a, IsKeyed(Path(id, <<a>>)) PROVE a # NoKey
  BY <1>1, <1>2, <1>6
<1>7. ASSUME NEW id, NEW a, NEW b, IsKeyed(Path(id, <<a, b>>)) PROVE a # NoKey /\ b # NoKey
  BY <1>1, <1>3, <1>7
<1> QED BY <1>4, <1>5, <1>6, <1>7

LEMMA FocusIsOfShots ==
  ASSUME NEW shots, NEW f \in screenshotFocus(shots)
  PROVE  \E s \in DOMAIN shots :
           \/ f.key = <<shots[s].key>> /\ f.of = shots[s].of
           \/ \E h \in DOMAIN shots[s].hotspots :
                f.key = <<shots[s].key, shots[s].hotspots[h].key>> /\ f.of = shots[s].hotspots[h].of
<1>1. PICK s \in DOMAIN shots :
        f \in {Focus(<<s, 0>>, <<shots[s].key>>, shots[s].of)}
              \cup {Focus(<<s, h>>, <<shots[s].key, shots[s].hotspots[h].key>>,
                          shots[s].hotspots[h].of) : h \in DOMAIN shots[s].hotspots}
  BY Zenon DEF screenshotFocus
<1>2. \A at, key, of : Focus(at, key, of).key = key /\ Focus(at, key, of).of = of
  BY DEF Focus
<1>3. CASE f = Focus(<<s, 0>>, <<shots[s].key>>, shots[s].of)
  BY <1>2, <1>3
<1>4. ASSUME NEW h \in DOMAIN shots[s].hotspots,
             f = Focus(<<s, h>>, <<shots[s].key, shots[s].hotspots[h].key>>, shots[s].hotspots[h].of)
      PROVE  \E g \in DOMAIN shots[s].hotspots :
               f.key = <<shots[s].key, shots[s].hotspots[g].key>> /\ f.of = shots[s].hotspots[g].of
  <2>1. f.key = <<shots[s].key, shots[s].hotspots[h].key>> /\ f.of = shots[s].hotspots[h].of
    BY <1>2, <1>4
  <2> QED BY <2>1
<1> QED BY <1>1, <1>3, <1>4

\* What can be named on the slide of a work is in the work.
LEMMA WorkSlideAnswers ==
  ASSUME NEW n \in Nat, NEW record, IsContent("works", n, record["works"]),
         NEW i \in DOMAIN record["works"],
         NEW m, IsKeyed(m.path),
         \/ /\ m.path = Path(SlideId("work", <<record["works"][i].key>>), <<>>)
            /\ m.of = record["works"][i].of
         \/ \E j \in DOMAIN record["works"][i].stages :
              /\ m.path = Path(SlideId("stage", <<record["works"][i].key, record["works"][i].stages[j].key>>), <<>>)
              /\ m.of = record["works"][i].stages[j].of
         \/ \E f \in screenshotFocus(record["works"][i].screenshots) :
              /\ m.path = Path(SlideId("work", <<record["works"][i].key>>), f.key)
              /\ m.of = f.of
  PROVE  Answers(n, record, m)
<1> DEFINE w == record["works"][i]
<1>1. IsWork(n, w)
  BY DEF IsContent, AreWorks
<1>2. /\ w.key \in 0 .. n
      /\ \A j \in DOMAIN w.stages : w.stages[j].key \in 0 .. n
      /\ \A s \in DOMAIN w.screenshots :
           /\ w.screenshots[s].key \in 0 .. n
           /\ \A h \in DOMAIN w.screenshots[s].hotspots : w.screenshots[s].hotspots[h].key \in 0 .. n
  BY <1>1 DEF IsWork, AreEntries, IsEntry, AreShots, IsShot
<1>3. NoKey \in 0 .. n
  BY DEF NoKey
<1>4. ASSUME NEW t \in Trails(n), m.path = PathOf(t),
             (t = Trail("works", w.key, NoKey, NoKey) /\ m.of = w.of) \/ NamedInside(w, t, m.of)
      PROVE  Answers(n, record, m)
  <2>1. Named("works", record["works"], t, m.of)
    BY <1>4 DEF Named
  <2> QED BY <1>4, <2>1, NestedLayers DEF Answers
<1>5. CASE m.path = Path(SlideId("work", <<w.key>>), <<>>) /\ m.of = w.of
  <2> DEFINE t == Trail("works", w.key, NoKey, NoKey)
  <2>1. w.key # NoKey
    BY <1>5, KeysOfPaths
  <2>2. t \in Trails(n)
    BY <1>2, <1>3, <2>1, NestedLayers, TrailsMade
  <2>3. t.layer = "works" /\ t.entry = w.key
    BY TrailParts
  <2>4. PathOf(t) = m.path
    BY <1>5, <2>3 DEF PathOf
  <2> QED BY <1>4, <1>5, <2>2, <2>4
<1>6. ASSUME NEW j \in DOMAIN w.stages,
             m.path = Path(SlideId("stage", <<w.key, w.stages[j].key>>), <<>>), m.of = w.stages[j].of
      PROVE  Answers(n, record, m)
  <2> DEFINE t == Trail("stages", w.key, w.stages[j].key, NoKey)
  <2>1. w.key # NoKey /\ w.stages[j].key # NoKey
    BY <1>6, KeysOfPaths
  <2>2. t \in Trails(n)
    BY <1>2, <1>3, <2>1, NestedLayers, TrailsMade
  <2>3. t.layer = "stages" /\ t.entry = w.key /\ t.child = w.stages[j].key
    BY TrailParts
  <2>4. PathOf(t) = m.path
    BY <1>6, <2>3 DEF PathOf
  <2>5. NamedInside(w, t, m.of)
    BY <1>6 DEF NamedInside
  <2> QED BY <1>4, <2>2, <2>4, <2>5
<1>7. ASSUME NEW f \in screenshotFocus(w.screenshots),
             m.path = Path(SlideId("work", <<w.key>>), f.key), m.of = f.of
      PROVE  Answers(n, record, m)
  <2>1. PICK s \in DOMAIN w.screenshots :
          \/ f.key = <<w.screenshots[s].key>> /\ f.of = w.screenshots[s].of
          \/ \E h \in DOMAIN w.screenshots[s].hotspots :
               /\ f.key = <<w.screenshots[s].key, w.screenshots[s].hotspots[h].key>>
               /\ f.of = w.screenshots[s].hotspots[h].of
    <3> DEFINE shots == w.screenshots
    <3>1. f \in screenshotFocus(shots)
      OBVIOUS
    <3> HIDE DEF shots, w
    <3>2. \E s \in DOMAIN shots :
            \/ f.key = <<shots[s].key>> /\ f.of = shots[s].of
            \/ \E h \in DOMAIN shots[s].hotspots :
                 f.key = <<shots[s].key, shots[s].hotspots[h].key>> /\ f.of = shots[s].hotspots[h].of
      BY <3>1, FocusIsOfShots
    <3> QED BY Zenon, <3>2 DEF shots
  <2>2. w.key # NoKey
    BY <1>7, KeysOfPaths
  <2>3. CASE f.key = <<w.screenshots[s].key>> /\ f.of = w.screenshots[s].of
    <3> DEFINE t == Trail("screenshots", w.key, w.screenshots[s].key, NoKey)
    <3>1. w.screenshots[s].key # NoKey
      BY <1>7, <2>3, KeysOfPaths
    <3>2. t \in Trails(n)
      BY <1>2, <1>3, <2>2, <3>1, NestedLayers, TrailsMade
    <3>3. t.layer = "screenshots" /\ t.entry = w.key /\ t.child = w.screenshots[s].key
      BY TrailParts
    <3>4. PathOf(t) = m.path
      BY <1>7, <2>3, <3>3 DEF PathOf
    <3>5. NamedInside(w, t, m.of)
      BY <1>7, <2>3 DEF NamedInside
    <3> QED BY <1>4, <3>2, <3>4, <3>5
  <2>4. ASSUME NEW h \in DOMAIN w.screenshots[s].hotspots,
               f.key = <<w.screenshots[s].key, w.screenshots[s].hotspots[h].key>>,
               f.of = w.screenshots[s].hotspots[h].of
        PROVE  Answers(n, record, m)
    <3> DEFINE t == Trail("hotspots", w.key, w.screenshots[s].key, w.screenshots[s].hotspots[h].key)
    <3>1. w.screenshots[s].key # NoKey /\ w.screenshots[s].hotspots[h].key # NoKey
      BY <1>7, <2>4, KeysOfPaths
    <3>2. t \in Trails(n)
      BY <1>2, <2>2, <3>1, NestedLayers, TrailsMade
    <3>3. /\ t.layer = "hotspots" /\ t.entry = w.key /\ t.child = w.screenshots[s].key
          /\ t.point = w.screenshots[s].hotspots[h].key
      BY DEF Trail
    <3>4. PathOf(t) = m.path
      BY <1>7, <2>4, <3>3 DEF PathOf
    <3>5. NamedInside(w, t, m.of)
      BY <1>7, <2>4 DEF NamedInside
    <3> QED BY <1>4, <3>2, <3>4, <3>5
  <2> QED BY <2>1, <2>3, <2>4
<1> QED BY <1>5, <1>6, <1>7

LEMMA EntryFocusAnswers ==
  ASSUME NEW n \in Nat, NEW record, NEW section \in ListSections \ {"works"},
         IsContent(section, n, record[section]),
         NEW f \in EntryFocus(record[section]), NEW m, IsKeyed(m.path),
         m.path = Path(SlideId(section, <<>>), f.key), m.of = f.of
  PROVE  Answers(n, record, m)
<1>1. PICK i \in DOMAIN record[section] :
        f.key = <<record[section][i].key>> /\ f.of = record[section][i].of
  BY DEF EntryFocus, Focus
<1> DEFINE e == record[section][i]
           t == Trail(section, e.key, NoKey, NoKey)
<1>2. e.key # NoKey
  BY <1>1, KeysOfPaths
<1>3. e.key \in 0 .. n /\ NoKey \in 0 .. n
  <2>1. AreEntries(section, n, record[section])
    BY DEF IsContent
  <2>2. IsEntry(section, n, e)
    BY <2>1 DEF AreEntries
  <2> HIDE DEF e
  <2>3. e.key \in 0 .. n
    BY <2>2 DEF IsEntry
  <2> QED BY <2>3 DEF NoKey
<1>4. section \in ListLayers /\ section \notin {"works", "stages", "screenshots", "hotspots"}
  BY NestedLayers
<1>5. t \in Trails(n)
  BY <1>2, <1>3, <1>4, TrailsMade
<1>6. t.layer = section /\ t.entry = e.key
  BY TrailParts
<1>7. PathOf(t) = m.path
  BY <1>1, <1>4, <1>6 DEF PathOf
<1>8. Named(section, record[section], t, m.of)
  BY <1>1 DEF Named
<1> QED BY <1>5, <1>7, <1>8 DEF Answers

-----------------------------------------------------------------------------
\* Only two of the slides that are not of works have things to point at.
LEMMA FixedFocus ==
  ASSUME NEW record, NEW s \in FixedSlides(record), NEW f \in s.focus
  PROVE  \E section \in {"capabilities", "timeline"} :
           s.id = SlideId(section, <<>>) /\ f \in EntryFocus(record[section])
<1>1. ASSUME NEW section, NEW entries, NEW payload,
             s \in SectionSlide(record, section, entries, payload, {})
      PROVE  FALSE
  BY <1>1, SectionSlideIsAlone
<1>2. ASSUME NEW section, NEW payload,
             s \in SectionSlide(record, section, record[section], payload, EntryFocus(record[section]))
      PROVE  s.id = SlideId(section, <<>>) /\ f \in EntryFocus(record[section])
  <2>1. s.id = SlideId(section, <<>>)
    BY <1>2, SectionSlideIsAlone DEF Alone
  <2>2. s.focus = EntryFocus(record[section])
    BY <1>2, SectionSlideIsAlone
  <2> QED BY <2>1, <2>2
<1>3. s # identitySlide(record)
  BY DEF identitySlide, Slide
<1>4. CASE s \in capabilitiesSlide(record)
  BY <1>2, <1>4 DEF capabilitiesSlide
<1>5. CASE s \in timelineSlide(record)
  BY <1>2, <1>5 DEF timelineSlide
<1>6. s \notin offeringsSlide(record) \cup metricsSlide(record) \cup testimonialsSlide(record)
  BY <1>1 DEF offeringsSlide, metricsSlide, testimonialsSlide
<1>7. s \notin teamSlide(record) \cup contentSlide(record)
  BY <1>1 DEF teamSlide, contentSlide
<1>8. s \notin mediaSlide(record)
  BY ONLY <1>1 DEF mediaSlide
<1>9. s \notin contactSlide(record)
  BY ONLY <1>1 DEF contactSlide
<1> QED BY <1>3, <1>4, <1>5, <1>6, <1>7, <1>8, <1>9 DEF FixedSlides

LEMMA WorkSlidesMean ==
  ASSUME NEW record, NEW i
  PROVE  /\ workSlide(record, i).items[1].of = record.works[i].of
         /\ \A j : stageSlide(record, i, j).items[1].of = record.works[i].stages[j].of
<1>1. \A e : <<e>>[1] = e
  OBVIOUS
<1>2. \A e, p : Item(e, p).of = e.of
  BY DEF Item
<1>3. workSlide(record, i).items = <<Item(record.works[i], WorkPayload)>>
  BY DEF workSlide, Slide
<1>4. \A j : stageSlide(record, i, j).items = <<Item(record.works[i].stages[j], WorkStagePayload)>>
  BY DEF stageSlide, Slide
<1> QED BY <1>1, <1>2, <1>3, <1>4

LEMMA MeaningsAreOfSlides ==
  ASSUME NEW slides, NEW m \in Meanings(slides)
  PROVE  \E s \in slides :
           \/ s.id.name \in {"work", "stage"} /\ m.path = Path(s.id, <<>>) /\ m.of = s.items[1].of
           \/ \E f \in s.focus : m.path = Path(s.id, f.key) /\ m.of = f.of
<1>1. CASE m \in {[path |-> Path(s.id, <<>>), of |-> s.items[1].of] :
                    s \in {t \in slides : t.id.name \in {"work", "stage"}}}
  BY <1>1
<1>2. CASE m \in UNION {{[path |-> Path(s.id, f.key), of |-> f.of] : f \in s.focus} : s \in slides}
  BY <1>2
<1> QED BY <1>1, <1>2 DEF Meanings

\* Every path that spells out keys is the name of an entry of the record.
LEMMA DeckAnswers ==
  ASSUME NEW n \in Nat, NEW record, ListSections \subseteq DOMAIN record, KeyedSections(record, n),
         NEW m \in Meanings(projectSlides(record)), IsKeyed(m.path)
  PROVE  Answers(n, record, m)
<1>1. \A section \in ListSections : IsContent(section, n, record[section])
  BY DEF KeyedSections
<1>2. PICK s \in projectSlides(record) :
        \/ s.id.name \in {"work", "stage"} /\ m.path = Path(s.id, <<>>) /\ m.of = s.items[1].of
        \/ \E f \in s.focus : m.path = Path(s.id, f.key) /\ m.of = f.of
  BY MeaningsAreOfSlides
<1>3. s \in FixedSlides(record) \/ s \in workSlides(record)
  BY DEF projectSlides, FixedSlides
<1>4. CASE s \in FixedSlides(record)
  <2>1. PICK f \in s.focus : m.path = Path(s.id, f.key) /\ m.of = f.of
    BY <1>2, <1>4, FixedSlidesAreOfNoWork
  <2>2. PICK section \in {"capabilities", "timeline"} :
          s.id = SlideId(section, <<>>) /\ f \in EntryFocus(record[section])
    BY <1>4, FixedFocus
  <2>3. section \in ListSections \ {"works"}
    BY DEF ListSections, KEYED_ARRAY_SECTIONS
  <2> QED BY <1>1, <2>1, <2>2, <2>3, EntryFocusAnswers
<1>5. CASE s \in workSlides(record)
  <2>1. PICK i \in DOMAIN record.works :
          s = workSlide(record, i) \/ \E j \in DOMAIN record.works[i].stages : s = stageSlide(record, i, j)
    BY <1>5 DEF workSlides, Taken
  <2>2. IsContent("works", n, record["works"]) /\ i \in DOMAIN record["works"]
    BY <1>1, <2>1, NestedLayers
  <2>3. CASE s = workSlide(record, i)
    <3>1. /\ s.id = SlideId("work", <<record["works"][i].key>>)
          /\ s.focus = screenshotFocus(record["works"][i].screenshots)
          /\ s.items[1].of = record["works"][i].of
      BY <2>3, WorkSlideNames, WorkSlidesMean
    <3> QED BY <1>2, <2>2, <3>1, WorkSlideAnswers
  <2>4. ASSUME NEW j \in DOMAIN record["works"][i].stages, s = stageSlide(record, i, j)
        PROVE  Answers(n, record, m)
    <3>1. /\ s.id = SlideId("stage", <<record["works"][i].key, record["works"][i].stages[j].key>>)
          /\ s.focus = {}
          /\ s.items[1].of = record["works"][i].stages[j].of
      BY <2>4, StageSlideNames, WorkSlidesMean
    <3> QED BY <1>2, <2>2, <3>1, WorkSlideAnswers
  <2> QED BY <2>1, <2>3, <2>4
<1> QED BY <1>3, <1>4, <1>5

-----------------------------------------------------------------------------
(* What clients send back is named as it was served.                        *)

\* No entry that is still to be labelled as new.
Settled(l) == \A i \in DOMAIN l : Len(l[i].of) # 3

LEMMA FollowersAreSettled ==
  ASSUME NEW n, NEW section, NEW l, NEW out, FollowsThroughout(n, section, l, out), Settled(l)
  PROVE  Settled(out)
BY DEF FollowsThroughout, Follows, Settled

LEMMA LabelsAreLong ==
  /\ \A a, b, c : Len(<<a, b, c>>) = 3
  /\ \A a, b, c, d : Len(Append(<<a, b, c>>, d)) = 4
<1>1. \A a, b, c : Len(<<a, b, c>>) = 3
  OBVIOUS
<1>2. ASSUME NEW S, NEW t \in Seq(S), NEW d \in S, Len(t) = 3 PROVE Len(Append(t, d)) = 4
  <2>1. Len(Append(t, d)) = Len(t) + 1
    OBVIOUS
  <2> QED BY <1>2, <2>1
<1>3. ASSUME NEW a, NEW b, NEW c, NEW d PROVE Len(Append(<<a, b, c>>, d)) = 4
  <2>1. <<a, b, c>> \in Seq({a, b, c, d}) /\ d \in {a, b, c, d}
    OBVIOUS
  <2> QED BY ONLY <1>1, <1>2, <2>1, Zenon
<1> QED BY <1>1, <1>3

\* What is new has a label of three parts, and no key.
LEMMA NewIsUnlabelled ==
  ASSUME NEW section \in ListSections, NEW e \in NewEntries(section)
  PROVE  /\ e.key = NoKey
         /\ \E a, b, c : e.of = <<a, b, c>>
         /\ \A of : [e EXCEPT !.of = of].key = NoKey /\ [e EXCEPT !.of = of].of = of
<1>1. CASE section = "works"
  <2>1. PICK rest, stages, shots : e = FreshWork(rest, stages, shots, minted)
    BY <1>1 DEF NewEntries
  <2> QED BY <2>1 DEF FreshWork
<1>2. CASE section # "works"
  <2>1. \/ \E rest \in Rest : e = Fresh(section, rest, minted, 1)
        \/ e = [Fresh(section, Given, minted, 1) EXCEPT !.fields["type"] = "video"]
    BY <1>2 DEF NewEntries
  <2> QED BY <2>1 DEF Fresh
<1> QED BY <1>1, <1>2

LEMMA UnkeyedHasNoKey ==
  ASSUME NEW n \in Nat, NEW section, NEW e, IsOf(section, n, e)
  PROVE  Unkeyed(section, e).key = NoKey /\ Unkeyed(section, e).of = e.of
<1>1. CASE section # "works"
  BY <1>1, KeyedHasItsKey, KeyedKeepsOf DEF IsOf, Unkeyed
<1>2. CASE section = "works"
  <2>1. IsWork(n, e)
    BY <1>2 DEF IsOf
  <2> DEFINE k == Keyed(e, NoKey)
  <2>2. k.key = NoKey /\ k.of = e.of
    BY <2>1, KeyedHasItsKey, KeyedKeepsOf
  <2>3. "key" \in DOMAIN k /\ "of" \in DOMAIN k
    BY <2>1 DEF IsWork, Keyed
  <2>4. PICK stages, shots : Unkeyed(section, e) = [k EXCEPT !.stages = stages, !.screenshots = shots]
    BY <1>2 DEF Unkeyed
  <2> HIDE DEF k
  <2>5. [k EXCEPT !.stages = stages, !.screenshots = shots].key = k.key
        /\ [k EXCEPT !.stages = stages, !.screenshots = shots].of = k.of
    BY <2>3
  <2> QED BY <2>2, <2>4, <2>5
<1> QED BY <1>1, <1>2

\* What a client sends under a key is what it was served under it.
LEMMA BodiesSayWhatWasServed ==
  ASSUME minted \in Nat, NEW section \in ListSections, NEW view,
         IsContent(section, minted, view), Settled(view), NEW body \in ListBodies(section, view)
  PROVE  /\ Settled(body)
         /\ \A i \in DOMAIN body : body[i].key # NoKey => \E j \in DOMAIN view : body[i] = view[j]
<1> DEFINE kept == {view[i] : i \in DOMAIN view}
           dropped == {Unkeyed(section, e) : e \in kept}
           new == NewEntries(section)
<1>1. PICK list \in Lists(kept \cup dropped \cup new) : body = Labelled(list)
  BY DEF ListBodies
<1>2. PICK k \in 0 .. MaxEntries : list \in [1 .. k -> kept \cup dropped \cup new]
  BY <1>1 DEF Lists
<1>3. \A e \in kept : IsOf(section, minted, e) /\ Len(e.of) # 3
  BY ContentIsOfEntries DEF Settled
<1>4. \A e \in dropped : e.key = NoKey /\ Len(e.of) # 3
  BY <1>3, UnkeyedHasNoKey
<1>5. DOMAIN body = DOMAIN list
      /\ \A i \in DOMAIN list :
           body[i] = IF Len(list[i].of) = 3 THEN [list[i] EXCEPT !.of = Append(list[i].of, i)] ELSE list[i]
  BY <1>1 DEF Labelled
<1> HIDE DEF kept, dropped, new
<1>6. ASSUME NEW i \in DOMAIN body
      PROVE  Len(body[i].of) # 3 /\ (body[i].key # NoKey => body[i] \in kept)
  <2>1. i \in DOMAIN list /\ list[i] \in kept \cup dropped \cup new
    BY <1>2, <1>5
  <2>2. CASE list[i] \in kept \cup dropped
    BY <1>3, <1>4, <1>5, <2>1, <2>2
  <2>3. CASE list[i] \in new
    <3> DEFINE e == list[i]
    <3>1. PICK a, b, c : e.of = <<a, b, c>>
      BY <2>3, NewIsUnlabelled DEF new
    <3>2. \A of : [e EXCEPT !.of = of].key = NoKey /\ [e EXCEPT !.of = of].of = of
      BY <2>3, NewIsUnlabelled DEF new
    <3>3. body[i] = [e EXCEPT !.of = Append(e.of, i)]
      BY <1>5, <2>1, <3>1, LabelsAreLong
    <3> HIDE DEF e
    <3>4. body[i].key = NoKey /\ body[i].of = Append(<<a, b, c>>, i)
      BY <3>1, <3>2, <3>3
    <3>5. Len(body[i].of) = 4
      BY <3>4, LabelsAreLong
    <3> QED BY <3>4, <3>5
  <2> QED BY <2>1, <2>2, <2>3
<1> QED BY <1>6 DEF Settled, kept

LEMMA SentNamesWereServed ==
  ASSUME minted \in Nat, NEW section \in ListSections, NEW view,
         IsContent(section, minted, view), Settled(view), NEW body \in ListBodies(section, view),
         NEW n \in Nat, NEW t \in Trails(n), NEW of, Named(section, body, t, of)
  PROVE  Named(section, view, t, of)
<1>1. t.entry # NoKey
  BY TrailsAreTrails
<1>2. PICK i \in DOMAIN body :
        \/ t = Trail(section, body[i].key, NoKey, NoKey) /\ of = body[i].of
        \/ section = "works" /\ NamedInside(body[i], t, of)
  BY DEF Named
<1>3. t.entry = body[i].key
  BY <1>2, NamedParts, TrailParts
<1>4. PICK j \in DOMAIN view : body[i] = view[j]
  BY <1>1, <1>3, BodiesSayWhatWasServed
<1> QED BY <1>2, <1>4 DEF Named

LEMMA LegacyIsSettled ==
  ASSUME NEW section \in ListSections
  PROVE  Settled(Legacy(section))
<1>1. \E list, e, a, b, c :
        /\ Legacy(section) = Labelled(list) /\ DOMAIN list = {1} /\ list[1] = e
        /\ e.of = <<a, b, c>> /\ \A of : [e EXCEPT !.of = of].of = of
  <2>1. CASE section # "works"
    <3> DEFINE e == Fresh(section, Undefined, 0, 1)
    <3>1. Legacy(section) = Labelled(<<e>>)
      BY <2>1 DEF Legacy
    <3>2. e.of = <<section, 0, 1>> /\ \A of : [e EXCEPT !.of = of].of = of
      BY DEF Fresh
    <3> HIDE DEF e
    <3>3. DOMAIN <<e>> = {1} /\ <<e>>[1] = e
      OBVIOUS
    <3> QED BY <3>1, <3>2, <3>3
  <2>2. CASE section = "works"
    <3> DEFINE e == [FreshWork(Undefined, 1, 1, 0) EXCEPT !.screenshots = <<FreshShot(Undefined, 0, 0)>>]
    <3>1. Legacy(section) = Labelled(<<e>>)
      BY <2>2 DEF Legacy
    <3>2. e.of = <<"works", 0, 1>> /\ \A of : [e EXCEPT !.of = of].of = of
      BY DEF FreshWork
    <3> HIDE DEF e
    <3>3. DOMAIN <<e>> = {1} /\ <<e>>[1] = e
      OBVIOUS
    <3> QED BY <3>1, <3>2, <3>3
  <2> QED BY <2>1, <2>2
<1>2. PICK list, e, a, b, c :
        /\ Legacy(section) = Labelled(list) /\ DOMAIN list = {1} /\ list[1] = e
        /\ e.of = <<a, b, c>> /\ \A of : [e EXCEPT !.of = of].of = of
  BY <1>1
<1>3. DOMAIN Labelled(list) = {1}
      /\ Labelled(list)[1] = IF Len(e.of) = 3 THEN [e EXCEPT !.of = Append(e.of, 1)] ELSE e
  BY <1>2 DEF Labelled
<1>4. Labelled(list)[1].of = Append(<<a, b, c>>, 1)
  BY <1>2, <1>3, LabelsAreLong
<1>5. Len(Labelled(list)[1].of) = 4
  BY <1>4, LabelsAreLong
<1> DEFINE l == Labelled(list)
<1>6. DOMAIN l = {1} /\ Len(l[1].of) = 4
  BY <1>3, <1>5
<1> HIDE DEF l
<1>7. Settled(l)
  BY <1>6 DEF Settled
<1> QED BY <1>2, <1>7 DEF l

LEMMA FirstIsSettled ==
  ASSUME NEW section \in ListSections, NEW age \in Ages
  PROVE  Settled(FirstEntries(section, age))
<1>0. 0 \in Nat
  OBVIOUS
<1> DEFINE l == Legacy(section)
<1>1. IsContent(section, 0, l) /\ Settled(l)
  BY LegacyIsContent, LegacyIsSettled
<1>2. CASE age = "unkeyed"
  BY <1>1, <1>2 DEF FirstEntries
<1>3. CASE age = "unpointed"
  <2>1. FirstEntries(section, age) = EntriesAndStages(section, l, 0)
    BY <1>3 DEF FirstEntries, EntriesAndStages
  <2> HIDE DEF l
  <2> QED BY <1>0, <1>1, <2>1, SectionFollows, FollowersAreSettled
<1>4. CASE age = "created"
  <2>1. FirstEntries(section, age) = withEntryKeys(section, MappedEntries(section, l), 0)
    BY <1>4 DEF FirstEntries, MappedEntries
  <2> HIDE DEF l
  <2>2. IsContent(section, 0, MappedEntries(section, l)) /\ Settled(MappedEntries(section, l))
    BY <1>0, <1>1, MappingKeepsContent, MadeListsFollow, FollowersAreSettled DEF MappedEntries
  <2> QED BY <1>0, <2>1, <2>2, SectionFollows, FollowersAreSettled
<1> QED BY <1>2, <1>3, <1>4 DEF Ages

-----------------------------------------------------------------------------
(* A trail means one entry, wherever it is still written.                   *)

Meant(t, of) ==
  \/ \E s \in ListSections : Named(s, stored[s], t, of)
  \/ subject \in ListSections /\ \E c \in Clients : Named(subject, views[c], t, of)
  \/ \E b \in backfill : \E s \in DOMAIN b.changes : Named(s, b.changes[s], t, of)
  \/ \E h \in heard : h.path = PathOf(t) /\ h.of = of

HeardIsOfTrails == \A h \in heard : IsKeyed(h.path) => \E t \in Trails(minted) : h.path = PathOf(t)

AllSettled ==
  /\ \A s \in ListSections : Settled(stored[s])
  /\ subject \in ListSections => \A c \in Clients : Settled(views[c])
  /\ \A b \in backfill : \A s \in DOMAIN b.changes : Settled(b.changes[s])

MeaningInv ==
  /\ PortfolioInv
  /\ HeardIsOfTrails
  /\ AllSettled
  /\ \A t \in Trails(minted) : \A a, b : Meant(t, a) /\ Meant(t, b) => a = b

\* What has a meaning is spelled with keys that were drawn.
LEMMA MeaningsAreOfTrails ==
  ASSUME PortfolioInv, HeardIsOfTrails, NEW m \in Nat, NEW t \in Trails(m), NEW of, Meant(t, of), minted <= m
  PROVE  t \in Trails(minted)
<1>0. minted \in Nat /\ Trails(minted) \subseteq Trails(m)
  BY TrailsGrow DEF PortfolioInv
<1>1. ASSUME NEW s \in ListSections, Named(s, stored[s], t, of) PROVE t \in Trails(minted)
  BY <1>0, <1>1, NamesAreTrails DEF PortfolioInv, KeyedSections
<1>2. ASSUME subject \in ListSections, NEW c \in Clients, Named(subject, views[c], t, of)
      PROVE  t \in Trails(minted)
  BY <1>0, <1>2, NamesAreTrails DEF PortfolioInv
<1>3. ASSUME NEW b \in backfill, NEW s \in DOMAIN b.changes, Named(s, b.changes[s], t, of)
      PROVE  t \in Trails(minted)
  <2>1. s \in ListSections /\ IsContent(s, minted, b.changes[s])
    BY DEF PortfolioInv, KeyedSections
  <2> QED BY <1>0, <1>3, <2>1, NamesAreTrails
<1>4. ASSUME NEW h \in heard, h.path = PathOf(t) PROVE t \in Trails(minted)
  <2>1. PICK u \in Trails(minted) : h.path = PathOf(u)
    BY <1>4, TrailsAreKeyed DEF HeardIsOfTrails
  <2>2. t = u
    BY <1>0, <1>4, <2>1, PathsTellTrails
  <2> QED BY <2>2
<1> QED BY <1>1, <1>2, <1>3, <1>4 DEF Meant

\* A step that gives no old trail a new meaning, and the new trails those of one
\* document, leaves each trail with one.
LEMMA MeaningsLast ==
  ASSUME MeaningInv, minted' \in Nat, minted <= minted', NEW doc, KeyedSections(doc, minted'),
         \A t \in Trails(minted) : \A of : Meant(t, of)' => Meant(t, of),
         \A t \in Trails(minted') : \A of :
           t \notin Trails(minted) /\ Meant(t, of)' =>
             \E s \in DOMAIN doc \cap ListSections : Named(s, doc[s], t, of)
  PROVE  \A t \in Trails(minted') : \A a, b : Meant(t, a)' /\ Meant(t, b)' => a = b
<1> SUFFICES ASSUME NEW t \in Trails(minted'), NEW a, NEW b, Meant(t, a)', Meant(t, b)'
             PROVE  a = b
  OBVIOUS
<1>1. CASE t \in Trails(minted)
  BY <1>1 DEF MeaningInv
<1>2. CASE t \notin Trails(minted)
  <2>1. PICK s \in DOMAIN doc \cap ListSections : Named(s, doc[s], t, a)
    BY <1>2
  <2>2. PICK r \in DOMAIN doc \cap ListSections : Named(r, doc[r], t, b)
    BY <1>2
  <2> QED BY <2>1, <2>2, OneNameInDocument
<1> QED BY <1>1, <1>2

\* What is read is named as it is stored.
LEMMA ReadNamesAreStored ==
  ASSUME NEW doc, NEW section \in DOMAIN doc \cap ListSections
  PROVE  /\ Settled(doc[section]) => Settled(Record(doc)[section])
         /\ \A n \in Nat : \A t \in Trails(n) : \A of :
              Named(section, Record(doc)[section], t, of) <=> Named(section, doc[section], t, of)
<1>1. Record(doc)[section] = ReadEntries(section, doc[section])
  BY DEF Record, OnSection, ReadEntries
<1>2. \A n : /\ FollowsThroughout(n, section, doc[section], Record(doc)[section])
             /\ FollowsThroughout(n, section, Record(doc)[section], doc[section])
  BY <1>1, MadeListsFollow
<1> QED BY <1>2, OldNames, FollowersAreSettled

\* An answer of the record is a meaning of a trail.
LEMMA AnswersAreMeanings ==
  ASSUME PortfolioInv, NEW m, Answers(minted, Record(stored), m)
  PROVE  \E t \in Trails(minted) :
           /\ m.path = PathOf(t)
           /\ \E s \in ListSections : Named(s, stored[s], t, m.of)
<1>1. PICK s \in ListSections, t \in Trails(minted) :
        m.path = PathOf(t) /\ Named(s, Record(stored)[s], t, m.of)
  BY DEF Answers
<1>2. minted \in Nat /\ s \in DOMAIN stored \cap ListSections
  BY DEF PortfolioInv
<1>3. Named(s, stored[s], t, m.of)
  BY <1>1, <1>2, ReadNamesAreStored
<1> QED BY <1>1, <1>3

LEMMA CatalogAnswers ==
  ASSUME PortfolioInv, NEW m \in Meanings(projectSlides(Record(stored))), IsKeyed(m.path)
  PROVE  Answers(minted, Record(stored), m)
<1>1. minted \in Nat /\ ListSections \subseteq DOMAIN Record(stored) /\ KeyedSections(Record(stored), minted)
  BY RecordOfLists DEF PortfolioInv
<1> QED BY <1>1, DeckAnswers

-----------------------------------------------------------------------------

LEMMA InitMeaning == Init => MeaningInv
<1> SUFFICES ASSUME Init PROVE MeaningInv
  OBVIOUS
<1>0. PortfolioInv /\ minted \in Nat
  BY InitInv DEF PortfolioInv
<1>1. PICK age \in Ages : stored = Document(age)
  BY DEF Init
<1>2. \A s \in ListSections : stored[s] = FirstEntries(s, age)
  BY <1>1 DEF Document, ListSections, ObjectSections, KEYED_ARRAY_SECTIONS
<1>3. \A s \in ListSections : Settled(stored[s])
  BY <1>2, FirstIsSettled
<1>4. backfill = {} /\ heard = {} /\ \A c \in Clients : views[c] = Record(stored)[subject]
  BY DEF Init
<1>5. \A s \in ListSections : s \in DOMAIN stored \cap ListSections
  BY <1>0 DEF PortfolioInv
<1>6. AllSettled
  BY <1>3, <1>4, <1>5, ReadNamesAreStored DEF AllSettled
<1>7. ASSUME NEW t \in Trails(minted), NEW of, Meant(t, of)
      PROVE  \E s \in ListSections : Named(s, stored[s], t, of)
  BY <1>0, <1>4, <1>5, <1>7, ReadNamesAreStored DEF Meant
<1>8. ASSUME NEW t \in Trails(minted), NEW a, NEW b, Meant(t, a), Meant(t, b) PROVE a = b
  <2>1. PICK s \in ListSections : Named(s, stored[s], t, a)
    BY <1>7, <1>8
  <2>2. PICK r \in ListSections : Named(r, stored[r], t, b)
    BY <1>7, <1>8
  <2> QED BY <1>0, <1>5, <2>1, <2>2, OneNameInDocument DEF PortfolioInv
<1> QED BY <1>0, <1>4, <1>6, <1>8 DEF MeaningInv, HeardIsOfTrails

\* A view that is read again says what is stored.
LEMMA LoadKeepsMeanings ==
  ASSUME MeaningInv, NEW c \in Clients, Load(c)
  PROVE  MeaningInv'
<1>0. PortfolioInv /\ PortfolioInv' /\ minted \in Nat /\ minted' = minted
  BY LoadKeeps DEF MeaningInv, PortfolioInv, Load
<1>1. /\ \A d \in Clients : views'[d] = views[d] \/ views'[d] = Record(stored)[subject]
      /\ UNCHANGED <<stored, subject, backfill, heard>>
  BY <1>0 DEF Load, PortfolioInv
<1>2. subject \in ListSections => subject \in DOMAIN stored \cap ListSections
  BY <1>0 DEF PortfolioInv
<1>3. AllSettled'
  BY <1>1, <1>2, ReadNamesAreStored DEF AllSettled, MeaningInv
<1>4. ASSUME NEW t \in Trails(minted), NEW of, Meant(t, of)' PROVE Meant(t, of)
  <2>1. ASSUME subject \in ListSections, NEW d \in Clients, Named(subject, views'[d], t, of)
        PROVE  Meant(t, of)
    <3>1. CASE views'[d] = views[d]
      BY <2>1, <3>1 DEF Meant
    <3>2. CASE views'[d] = Record(stored)[subject]
      <4>1. Named(subject, stored[subject], t, of)
        BY <1>0, <1>2, <2>1, <3>2, ReadNamesAreStored
      <4> QED BY <2>1, <4>1 DEF Meant
    <3> QED BY <1>1, <3>1, <3>2
  <2> QED BY <1>1, <1>4, <2>1 DEF Meant
<1>5. HeardIsOfTrails'
  BY <1>0, <1>1 DEF HeardIsOfTrails, MeaningInv
<1>6. \A t \in Trails(minted) : \A a, b : Meant(t, a)' /\ Meant(t, b)' => a = b
  BY <1>4 DEF MeaningInv
<1> QED BY <1>0, <1>3, <1>5, <1>6 DEF MeaningInv

\* An agent takes a path for what the document says.
LEMMA AgentJoinsKeepsMeanings ==
  ASSUME MeaningInv, AgentJoins
  PROVE  MeaningInv'
<1>0. PortfolioInv /\ PortfolioInv' /\ minted \in Nat /\ minted' = minted
  BY StepKeeps DEF MeaningInv, PortfolioInv, AgentJoins, Next
<1>1. /\ heard' = Meanings(projectSlides(Record(stored)))
      /\ UNCHANGED <<stored, minted, subject, views, backfill>>
  BY DEF AgentJoins
<1>2. ASSUME NEW h \in heard', IsKeyed(h.path)
      PROVE  \E t \in Trails(minted) :
               h.path = PathOf(t) /\ \E s \in ListSections : Named(s, stored[s], t, h.of)
  BY <1>0, <1>1, <1>2, CatalogAnswers, AnswersAreMeanings
<1>3. HeardIsOfTrails'
  BY <1>0, <1>2 DEF HeardIsOfTrails
<1>4. AllSettled'
  BY <1>1 DEF AllSettled, MeaningInv
<1>5. ASSUME NEW t \in Trails(minted), NEW of, Meant(t, of)' PROVE Meant(t, of)
  <2>1. ASSUME NEW h \in heard', h.path = PathOf(t), h.of = of PROVE Meant(t, of)
    <3>1. PICK u \in Trails(minted) :
            h.path = PathOf(u) /\ \E s \in ListSections : Named(s, stored[s], u, h.of)
      BY <1>0, <1>2, <2>1, TrailsAreKeyed
    <3>2. t = u
      BY <1>0, <2>1, <3>1, PathsTellTrails
    <3> QED BY <2>1, <3>1, <3>2 DEF Meant
  <2> QED BY <1>1, <1>5, <2>1 DEF Meant
<1>6. \A t \in Trails(minted) : \A a, b : Meant(t, a)' /\ Meant(t, b)' => a = b
  BY <1>5 DEF MeaningInv
<1> QED BY <1>0, <1>3, <1>4, <1>6 DEF MeaningInv

\* The script gives new keys to what had none, and its write brings back old ones.
LEMMA BackfillReadsKeepsMeanings ==
  ASSUME MeaningInv, BackfillReads
  PROVE  MeaningInv'
<1> DEFINE changes == keyedSectionsOf(stored)
<1>0. /\ PortfolioInv /\ PortfolioInv' /\ minted \in Nat /\ minted' \in Nat /\ minted <= minted'
      /\ HeardIsOfTrails /\ AllSettled
  BY BackfillReadsKeeps, PortfolioAssumption DEF MeaningInv, PortfolioInv, BackfillReads
<1>1. /\ backfill' = {[changes |-> changes, read |-> minted + MaxEntries]}
      /\ UNCHANGED <<stored, subject, views, heard>>
  BY DEF BackfillReads
<1>2. DOMAIN changes \subseteq ListSections
      /\ \A s \in DOMAIN changes : changes[s] = EntriesAndStages(s, stored[s], minted)
  BY DEF keyedSectionsOf, BackfilledSection, EntriesAndStages
<1> HIDE DEF changes
<1>3. ASSUME NEW s \in DOMAIN changes PROVE FollowsThroughout(minted, s, stored[s], changes[s])
  BY <1>0, <1>2, SectionFollows DEF PortfolioInv, KeyedSections
<1>4. \A b \in backfill' : b.changes = changes
  BY <1>1
<1>5. AllSettled'
  <2>1. \A s \in DOMAIN changes : Settled(changes[s])
    BY <1>0, <1>2, <1>3, FollowersAreSettled DEF AllSettled
  <2> QED BY <1>0, <1>1, <1>4, <2>1 DEF AllSettled
<1>6. HeardIsOfTrails'
  BY <1>0, <1>1, TrailsGrow DEF HeardIsOfTrails
<1>7. KeyedSections(changes, minted')
  BY <1>0, <1>1 DEF PortfolioInv
<1>8. ASSUME NEW t, NEW of, Meant(t, of)'
      PROVE  Meant(t, of) \/ \E s \in DOMAIN changes : Named(s, changes[s], t, of)
  BY <1>1, <1>4, <1>8 DEF Meant
<1>9. ASSUME NEW t \in Trails(minted), NEW of, Meant(t, of)' PROVE Meant(t, of)
  <2>1. ASSUME NEW s \in DOMAIN changes, Named(s, changes[s], t, of) PROVE Meant(t, of)
    <3>1. Named(s, stored[s], t, of)
      BY <1>0, <1>3, <2>1, OldNames
    <3> QED BY <1>2, <3>1 DEF Meant
  <2> QED BY <1>8, <1>9, <2>1
<1>10. ASSUME NEW t \in Trails(minted'), NEW of, t \notin Trails(minted), Meant(t, of)'
       PROVE  \E s \in DOMAIN changes \cap ListSections : Named(s, changes[s], t, of)
  <2>1. ~ Meant(t, of)
    BY <1>0, <1>10, MeaningsAreOfTrails
  <2> QED BY <1>2, <1>8, <1>10, <2>1
<1>11. \A t \in Trails(minted') : \A a, b : Meant(t, a)' /\ Meant(t, b)' => a = b
  BY <1>0, <1>7, <1>9, <1>10, MeaningsLast
<1> QED BY <1>0, <1>5, <1>6, <1>11 DEF MeaningInv

LEMMA BackfillWritesKeepsMeanings ==
  ASSUME MeaningInv, BackfillWrites
  PROVE  MeaningInv'
<1>0. PortfolioInv /\ PortfolioInv' /\ minted' = minted
  BY BackfillWritesKeeps DEF MeaningInv, BackfillWrites
<1>1. PICK b \in backfill :
        /\ stored' = [s \in DOMAIN stored |->
                        IF s \in DOMAIN b.changes THEN b.changes[s] ELSE stored[s]]
        /\ backfill' = {}
        /\ UNCHANGED <<minted, subject, views, heard>>
  BY DEF BackfillWrites
<1>2. \A s \in ListSections : stored'[s] = stored[s] \/ (s \in DOMAIN b.changes /\ stored'[s] = b.changes[s])
  BY <1>0, <1>1 DEF PortfolioInv
<1>3. AllSettled'
  BY <1>1, <1>2 DEF AllSettled, MeaningInv
<1>4. HeardIsOfTrails'
  BY <1>0, <1>1 DEF HeardIsOfTrails, MeaningInv
<1>5. ASSUME NEW t, NEW of, Meant(t, of)' PROVE Meant(t, of)
  <2>1. ASSUME NEW s \in ListSections, Named(s, stored'[s], t, of) PROVE Meant(t, of)
    BY <1>2, <2>1 DEF Meant
  <2> QED BY <1>1, <1>5, <2>1 DEF Meant
<1>6. \A t \in Trails(minted) : \A a, c : Meant(t, a)' /\ Meant(t, c)' => a = c
  BY <1>5 DEF MeaningInv
<1> QED BY <1>0, <1>3, <1>4, <1>6 DEF MeaningInv

LEMMA OthersKeepMeanings ==
  ASSUME MeaningInv, BackfillDies \/ UNCHANGED vars
  PROVE  MeaningInv'
<1>0. PortfolioInv' /\ backfill' \subseteq backfill /\ UNCHANGED <<stored, minted, subject, views, heard>>
  BY StepKeeps DEF MeaningInv, BackfillDies, vars, Next
<1>1. AllSettled' /\ HeardIsOfTrails'
  BY <1>0 DEF AllSettled, HeardIsOfTrails, MeaningInv
<1>2. ASSUME NEW t, NEW of, Meant(t, of)' PROVE Meant(t, of)
  BY <1>0, <1>2 DEF Meant
<1>3. \A t \in Trails(minted) : \A a, b : Meant(t, a)' /\ Meant(t, b)' => a = b
  BY <1>2 DEF MeaningInv
<1> QED BY <1>0, <1>1, <1>3 DEF MeaningInv

-----------------------------------------------------------------------------
\* What a PATCH writes bears the keys of what was served, or new ones.
LEMMA PatchWritesOldNames ==
  ASSUME MeaningInv, NEW c \in Clients, subject \in ListSections, NEW body \in Bodies(subject, views[c])
  PROVE  /\ Settled(Updated(subject, body))
         /\ \A t \in Trails(minted) : \A of :
              Named(subject, Updated(subject, body), t, of) => Named(subject, views[c], t, of)
<1> DEFINE mapped == MappedEntries(subject, body)
           content == withEntryKeys(subject, mapped, minted)
<1>0. /\ minted \in Nat /\ IsContent(subject, minted, views[c]) /\ Settled(views[c])
      /\ body \in ListBodies(subject, views[c])
  BY DEF MeaningInv, PortfolioInv, AllSettled, Bodies
<1>1. Updated(subject, body) = content
  BY DEF Updated, toProfileUpdateFields, MappedEntries
<1>2. IsContent(subject, minted, body) /\ Settled(body)
  BY <1>0, BodiesAreContent, BodiesSayWhatWasServed
<1>3. IsContent(subject, minted, mapped)
  BY <1>0, <1>2, MappingKeepsContent DEF MappedEntries
<1>4. FollowsThroughout(minted, subject, body, mapped)
  BY MadeListsFollow
<1> HIDE DEF mapped
<1>5. FollowsThroughout(minted, subject, mapped, content)
  BY <1>0, <1>3, SectionFollows
<1> HIDE DEF content
<1>6. Settled(content)
  BY <1>2, <1>4, <1>5, FollowersAreSettled
<1>7. ASSUME NEW t \in Trails(minted), NEW of, Named(subject, content, t, of)
      PROVE  Named(subject, views[c], t, of)
  <2>1. Named(subject, body, t, of)
    BY <1>0, <1>4, <1>5, <1>7, OldNames
  <2> QED BY <1>0, <2>1, SentNamesWereServed
<1> QED BY <1>1, <1>6, <1>7

LEMMA PatchKeepsMeanings ==
  ASSUME MeaningInv, NEW c \in Clients, Patch(c)
  PROVE  MeaningInv'
<1>0. /\ PortfolioInv /\ PortfolioInv' /\ minted \in Nat /\ minted' \in Nat
      /\ HeardIsOfTrails /\ AllSettled
  BY PatchKeeps DEF MeaningInv, PortfolioInv
<1>1. PICK body \in Bodies(subject, views[c]) :
        /\ \/ /\ stored' = [stored EXCEPT ![subject] = Updated(subject, body)]
              /\ minted' = minted + MaxEntries
              /\ \E answer \in {Record(stored')[subject], views[c]} :
                   views' = [views EXCEPT ![c] = answer]
           \/ UNCHANGED <<stored, minted, views>>
        /\ UNCHANGED <<subject, backfill, heard>>
  BY DEF Patch
<1>2. minted <= minted'
  BY <1>0, <1>1, PortfolioAssumption
<1>3. HeardIsOfTrails'
  BY <1>0, <1>1, <1>2, TrailsGrow DEF HeardIsOfTrails
<1> DEFINE content == Updated(subject, body)
<1>4. \A s \in ListSections :
        stored'[s] = stored[s] \/ (s = subject /\ stored'[s] = content)
  BY <1>0, <1>1 DEF PortfolioInv
<1>5. \A d \in Clients : views'[d] = views[d] \/ views'[d] = Record(stored')[subject]
  BY <1>0, <1>1 DEF PortfolioInv
<1>6. subject \in ListSections =>
        /\ Settled(content)
        /\ \A t \in Trails(minted) : \A of :
             Named(subject, content, t, of) => Named(subject, views[c], t, of)
  BY PatchWritesOldNames
<1> HIDE DEF content
<1>7. \A s \in ListSections : s \in DOMAIN stored' \cap ListSections
  BY <1>0 DEF PortfolioInv
<1>8. AllSettled'
  <2>1. \A s \in ListSections : Settled(stored'[s])
    BY <1>0, <1>4, <1>6 DEF AllSettled
  <2>2. subject \in ListSections => Settled(Record(stored')[subject])
    BY <1>7, <2>1, ReadNamesAreStored
  <2> QED BY <1>0, <1>1, <1>5, <2>1, <2>2 DEF AllSettled
<1>9. ASSUME NEW t \in Trails(minted'), NEW of, Meant(t, of)'
      PROVE  Meant(t, of) \/ \E s \in ListSections : Named(s, stored'[s], t, of)
  <2>1. ASSUME subject \in ListSections, NEW d \in Clients, Named(subject, views'[d], t, of)
        PROVE  Meant(t, of) \/ Named(subject, stored'[subject], t, of)
    <3>1. CASE views'[d] = views[d]
      BY <2>1, <3>1 DEF Meant
    <3>2. CASE views'[d] = Record(stored')[subject]
      BY <1>0, <1>7, <2>1, <3>2, ReadNamesAreStored
    <3> QED BY <1>5, <3>1, <3>2
  <2> QED BY <1>1, <1>9, <2>1 DEF Meant
<1>10. ASSUME NEW t \in Trails(minted), NEW of, Meant(t, of)' PROVE Meant(t, of)
  <2>1. t \in Trails(minted')
    BY <1>0, <1>2, TrailsGrow
  <2>2. ASSUME NEW s \in ListSections, Named(s, stored'[s], t, of) PROVE Meant(t, of)
    <3>1. CASE stored'[s] = stored[s]
      BY <2>2, <3>1 DEF Meant
    <3>2. CASE s = subject /\ stored'[s] = content
      BY <1>6, <2>2, <3>2 DEF Meant
    <3> QED BY <1>4, <3>1, <3>2
  <2> QED BY <1>9, <1>10, <2>1, <2>2
<1>11. ASSUME NEW t \in Trails(minted'), NEW of, t \notin Trails(minted), Meant(t, of)'
       PROVE  \E s \in DOMAIN stored' \cap ListSections : Named(s, stored'[s], t, of)
  <2>1. ~ Meant(t, of)
    BY <1>0, <1>2, <1>11, MeaningsAreOfTrails
  <2> QED BY <1>7, <1>9, <1>11, <2>1
<1>12. KeyedSections(stored', minted')
  BY <1>0 DEF PortfolioInv
<1>13. \A t \in Trails(minted') : \A a, b : Meant(t, a)' /\ Meant(t, b)' => a = b
  BY <1>0, <1>2, <1>10, <1>11, <1>12, MeaningsLast
<1> QED BY <1>0, <1>3, <1>8, <1>13 DEF MeaningInv

LEMMA StepKeepsMeanings ==
  ASSUME MeaningInv, [Next]_vars
  PROVE  MeaningInv'
<1> QED BY LoadKeepsMeanings, PatchKeepsMeanings, AgentJoinsKeepsMeanings, BackfillReadsKeepsMeanings,
           BackfillWritesKeepsMeanings, OthersKeepMeanings DEF Next

LEMMA MeaningInductive == Spec => []MeaningInv
<1> QED BY InitMeaning, StepKeepsMeanings, PTL DEF Spec

\* A path an agent learned never comes to name another entry: not when the owner edits,
\* moves, copies or drops entries, not when an older tab writes back what it was served
\* long ago, and not when the backfill writes what it read before.
THEOREM PathsKeepTheirMeaning == Spec => []AgentPointsAtWhatItMeans
<1>1. ASSUME MeaningInv, NEW h \in heard, NEW m \in Meanings(Catalog), h.path = m.path, IsKeyed(h.path)
      PROVE  h.of = m.of
  <2>1. PortfolioInv
    BY <1>1 DEF MeaningInv
  <2>2. PICK t \in Trails(minted) :
          m.path = PathOf(t) /\ \E s \in ListSections : Named(s, stored[s], t, m.of)
    BY <1>1, <2>1, CatalogAnswers, AnswersAreMeanings DEF Catalog
  <2>3. Meant(t, m.of) /\ Meant(t, h.of)
    BY <1>1, <2>2 DEF Meant
  <2> QED BY <1>1, <2>3 DEF MeaningInv
<1>2. MeaningInv => AgentPointsAtWhatItMeans
  BY <1>1 DEF AgentPointsAtWhatItMeans
<1> QED BY <1>2, MeaningInductive, PTL

-----------------------------------------------------------------------------
(* What the backfill makes of a section that is as it was read.             *)

EntriesAreKeyed(section, l) ==
  UniqueKeys(l) /\ (section = "works" => \A i \in DOMAIN l : UniqueKeys(l[i].stages))

LEMMA ReusedKeysStay ==
  ASSUME NEW n \in Nat, NEW l, NEW i \in DOMAIN l, isReusable(l, i),
         \A k : Keyed(l[i], k).key = k
  PROVE  withUniqueKeys(l, n)[i].key = l[i].key
BY DEF withUniqueKeys

LEMMA UniqueAreReusable ==
  ASSUME NEW l, Placed(l), UniqueKeys(l), NEW i \in DOMAIN l
  PROVE  isReusable(l, i)
<1>1. \A j \in 1 .. i - 1 : j \in DOMAIN l /\ j # i
  BY DEF Placed
<1> QED BY <1>1 DEF UniqueKeys, isReusable

\* A work under another key and with other stages.
WorkWith(w, key, stages) ==
  [key |-> key, of |-> w.of, fields |-> w.fields, stages |-> stages, screenshots |-> w.screenshots]

LEMMA BackfilledEntries ==
  ASSUME NEW n \in Nat, NEW section, NEW l, IsContent(section, n, l)
  PROVE  LET out == EntriesAndStages(section, l, n)
         IN  /\ DOMAIN out = DOMAIN l /\ UniqueKeys(out)
             /\ \A i \in DOMAIN l : isReusable(l, i) => out[i].key = l[i].key
             /\ section # "works" => \A i \in DOMAIN l : \E k : out[i] = Keyed(l[i], k)
             /\ section = "works" =>
                  \A i \in DOMAIN l :
                    /\ out[i].stages = withUniqueKeys(l[i].stages, n)
                    /\ out[i] = WorkWith(l[i], out[i].key, out[i].stages)
<1> DEFINE keyed == withUniqueKeys(l, n)
           out == EntriesAndStages(section, l, n)
<1>0. \A i \in DOMAIN l : isReusable(l, i) => keyed[i].key = l[i].key
  BY ReusedKeysStay, KeyedHasItsKey DEF IsContent, AreWorks, AreEntries
<1>1. CASE section # "works"
  <2>1. out = keyed
    BY <1>1 DEF EntriesAndStages
  <2>2. DOMAIN keyed = DOMAIN l /\ UniqueKeys(keyed)
    BY <1>1, EntriesGetKeys DEF IsContent
  <2>3. \A i \in DOMAIN l : \E k : keyed[i] = Keyed(l[i], k)
    BY DEF withUniqueKeys
  <2> HIDE DEF keyed, out
  <2> QED BY <1>0, <1>1, <2>1, <2>2, <2>3 DEF out
<1>2. CASE section = "works"
  <2>1. out = [i \in DOMAIN keyed |-> [keyed[i] EXCEPT !.stages = withUniqueKeys(keyed[i].stages, n)]]
    BY <1>2 DEF EntriesAndStages
  <2>2. /\ DOMAIN keyed = DOMAIN l /\ UniqueKeys(keyed)
        /\ \A i \in DOMAIN l :
             keyed[i] = [key |-> keyed[i].key, of |-> l[i].of, fields |-> l[i].fields,
                         stages |-> l[i].stages, screenshots |-> l[i].screenshots]
    BY <1>2, WorksGetKeys DEF IsContent
  <2> HIDE DEF keyed, out
  <2>3. ASSUME NEW i \in DOMAIN l
        PROVE  /\ out[i].key = keyed[i].key /\ out[i].stages = withUniqueKeys(l[i].stages, n)
               /\ out[i] = WorkWith(l[i], out[i].key, out[i].stages)
    <3> DEFINE k == keyed[i]
               stages == withUniqueKeys(k.stages, n)
    <3>1. out[i] = [k EXCEPT !.stages = stages]
      BY <2>1, <2>2
    <3>2. k = [key |-> k.key, of |-> l[i].of, fields |-> l[i].fields,
               stages |-> l[i].stages, screenshots |-> l[i].screenshots]
      BY <2>2
    <3>3. stages = withUniqueKeys(l[i].stages, n)
      BY <3>2
    <3> HIDE DEF k, stages
    <3>4. out[i] = [key |-> k.key, of |-> l[i].of, fields |-> l[i].fields,
                    stages |-> stages, screenshots |-> l[i].screenshots]
      BY <3>1, <3>2
    <3>5. out[i].key = k.key /\ out[i].stages = stages
      BY <3>4
    <3> QED BY <3>3, <3>4, <3>5 DEF k, WorkWith
  <2>4. \A i \in DOMAIN l : out[i].key = keyed[i].key
    BY <2>3
  <2>5. DOMAIN out = DOMAIN l
    BY <2>1, <2>2
  <2>6. UniqueKeys(out)
    BY <2>2, <2>4, <2>5 DEF UniqueKeys
  <2>7. \A i \in DOMAIN l : isReusable(l, i) => out[i].key = l[i].key
    BY <1>0, <2>4
  <2> QED BY <1>2, <2>3, <2>5, <2>6, <2>7 DEF out
<1> QED BY <1>1, <1>2

\* It is keyed when it is done, and what is keyed it leaves alone.
LEMMA BackfilledIsKeyed ==
  ASSUME NEW n \in Nat, NEW section, NEW l, IsContent(section, n, l)
  PROVE  /\ EntriesAreKeyed(section, EntriesAndStages(section, l, n))
         /\ EntriesAreKeyed(section, l) <=> ~ keysDiffer(section, l, EntriesAndStages(section, l, n))
<1> DEFINE out == EntriesAndStages(section, l, n)
<1>1. /\ DOMAIN out = DOMAIN l /\ UniqueKeys(out) /\ Placed(l)
      /\ \A i \in DOMAIN l : isReusable(l, i) => out[i].key = l[i].key
  BY BackfilledEntries DEF IsContent, AreWorks, AreEntries
<1>2. ASSUME section = "works", NEW i \in DOMAIN l
      PROVE  out[i].stages = withUniqueKeys(l[i].stages, n) /\ AreEntries("stages", n, l[i].stages)
  <2>1. out[i].stages = withUniqueKeys(l[i].stages, n)
    BY <1>2, BackfilledEntries
  <2>2. IsWork(n, l[i])
    BY <1>2 DEF IsContent, AreWorks
  <2> QED BY <2>1, <2>2 DEF IsWork
<1> HIDE DEF out
<1>3. section = "works" =>
        \A i \in DOMAIN l :
          /\ DOMAIN out[i].stages = DOMAIN l[i].stages /\ UniqueKeys(out[i].stages)
          /\ Placed(l[i].stages)
          /\ \A j \in DOMAIN l[i].stages :
               isReusable(l[i].stages, j) => out[i].stages[j].key = l[i].stages[j].key
  <2>1. ASSUME NEW stages, AreEntries("stages", n, stages)
        PROVE  LET told == withUniqueKeys(stages, n)
               IN  /\ DOMAIN told = DOMAIN stages /\ UniqueKeys(told) /\ Placed(stages)
                   /\ \A j \in DOMAIN stages : isReusable(stages, j) => told[j].key = stages[j].key
    <3>1. \A j \in DOMAIN stages : \A k : Keyed(stages[j], k).key = k
      BY <2>1, KeyedHasItsKey DEF AreEntries
    <3> QED BY <2>1, <3>1, EntriesGetKeys, ReusedKeysStay DEF AreEntries
  <2> QED BY <1>2, <2>1
<1>4. EntriesAreKeyed(section, out)
  BY <1>1, <1>3 DEF EntriesAreKeyed
<1>5. ASSUME EntriesAreKeyed(section, l) PROVE ~ keysDiffer(section, l, out)
  <2>1. \A i \in DOMAIN l : out[i].key = l[i].key
    BY <1>1, <1>5, UniqueAreReusable DEF EntriesAreKeyed
  <2>2. section = "works" =>
          \A i \in DOMAIN l : \A j \in DOMAIN l[i].stages : out[i].stages[j].key = l[i].stages[j].key
    BY <1>3, <1>5, UniqueAreReusable DEF EntriesAreKeyed
  <2>3. CASE section = "works"
    BY <1>1, <1>3, <2>1, <2>2, <2>3 DEF keysDiffer, stagesOf
  <2>4. CASE section # "works"
    <3>1. \A e : stagesOf(section, e) = << >>
      BY <2>4 DEF stagesOf
    <3>2. DOMAIN << >> = {}
      OBVIOUS
    <3> QED BY <1>1, <2>1, <3>1, <3>2 DEF keysDiffer
  <2> QED BY <2>3, <2>4
<1>6. ASSUME ~ keysDiffer(section, l, out) PROVE EntriesAreKeyed(section, l)
  <2>1. \A i \in DOMAIN l : out[i].key = l[i].key
    BY <1>1, <1>6 DEF keysDiffer
  <2>2. UniqueKeys(l)
    BY <1>1, <2>1 DEF UniqueKeys
  <2>3. ASSUME section = "works", NEW i \in DOMAIN l PROVE UniqueKeys(l[i].stages)
    <3>1. \A j \in DOMAIN l[i].stages : out[i].stages[j].key = l[i].stages[j].key
      BY <1>1, <1>3, <1>6, <2>3 DEF keysDiffer, stagesOf
    <3> QED BY <1>3, <2>3, <3>1 DEF UniqueKeys
  <2> QED BY <2>2, <2>3 DEF EntriesAreKeyed
<1> QED BY <1>4, <1>5, <1>6 DEF out

\* Entries without their keys.
Bare(l) == [i \in DOMAIN l |-> Keyed(l[i], NoKey)]

BareShots(l) == [s \in DOMAIN l |-> [Keyed(l[s], NoKey) EXCEPT !.hotspots = Bare(l[s].hotspots)]]

LEMMA KeyedTwice ==
  \A n, layer, e, k, m : IsEntry(layer, n, e) => Keyed(Keyed(e, k), m) = Keyed(e, m)
<1>1. ASSUME NEW n, NEW layer, NEW e, NEW k, NEW m, IsEntry(layer, n, e)
      PROVE  Keyed(Keyed(e, k), m) = Keyed(e, m)
  <2>1. \A c : Keyed(e, c) = [key |-> c, of |-> e.of, fields |-> e.fields]
    BY <1>1 DEF IsEntry, Keyed
  <2>2. Keyed([key |-> k, of |-> e.of, fields |-> e.fields], m) =
          [key |-> m, of |-> e.of, fields |-> e.fields]
    BY DEF Keyed
  <2> QED BY <2>1, <2>2
<1> QED BY <1>1

LEMMA KeysDoNotShow ==
  ASSUME NEW n \in Nat, NEW layer, NEW l, AreEntries(layer, n, l)
  PROVE  Bare(withUniqueKeys(l, n)) = Bare(l)
<1>1. DOMAIN withUniqueKeys(l, n) = DOMAIN l
      /\ \A i \in DOMAIN l : \E k : withUniqueKeys(l, n)[i] = Keyed(l[i], k)
  BY DEF withUniqueKeys
<1>2. \A i \in DOMAIN l : Keyed(withUniqueKeys(l, n)[i], NoKey) = Keyed(l[i], NoKey)
  BY <1>1, KeyedTwice DEF AreEntries
<1> QED BY <1>1, <1>2 DEF Bare

LEMMA WorkWithoutKeys ==
  ASSUME NEW w, w = WorkWith(w, w.key, w.stages)
  PROVE  Unkeyed("works", w) =
           [key |-> NoKey, of |-> w.of, fields |-> w.fields, stages |-> Bare(w.stages),
            screenshots |-> BareShots(w.screenshots)]
<1> DEFINE k == Keyed(w, NoKey)
           stages == Bare(w.stages)
           shots == BareShots(w.screenshots)
<1>1. Unkeyed("works", w) = [k EXCEPT !.stages = stages, !.screenshots = shots]
  BY DEF Unkeyed, Bare, BareShots
<1>2. k = [key |-> NoKey, of |-> w.of, fields |-> w.fields, stages |-> w.stages,
           screenshots |-> w.screenshots]
  BY DEF Keyed, WorkWith
<1> HIDE DEF k, stages, shots
<1>3. Unkeyed("works", w) = [key |-> NoKey, of |-> w.of, fields |-> w.fields, stages |-> stages,
                             screenshots |-> shots]
  BY <1>1, <1>2
<1> QED BY <1>3 DEF stages, shots

\* But for the keys, nothing changes.
LEMMA BackfillOnlyGivesKeys ==
  ASSUME NEW n \in Nat, NEW section, NEW l, IsContent(section, n, l)
  PROVE  WithoutKeys(section, EntriesAndStages(section, l, n)) = WithoutKeys(section, l)
<1> DEFINE out == EntriesAndStages(section, l, n)
<1>1. DOMAIN out = DOMAIN l
  BY BackfilledEntries
<1>2. ASSUME section # "works", NEW i \in DOMAIN l
      PROVE  Unkeyed(section, out[i]) = Unkeyed(section, l[i])
  <2>1. PICK k : out[i] = Keyed(l[i], k)
    BY <1>2, BackfilledEntries
  <2>2. IsEntry(section, n, l[i])
    BY <1>2 DEF IsContent, AreEntries
  <2> QED BY <1>2, <2>1, <2>2, KeyedTwice DEF Unkeyed
<1>3. ASSUME section = "works", NEW i \in DOMAIN l
      PROVE  Unkeyed(section, out[i]) = Unkeyed(section, l[i])
  <2> DEFINE w == l[i]
             v == out[i]
  <2>1. v.stages = withUniqueKeys(w.stages, n) /\ v = WorkWith(w, v.key, v.stages)
    BY <1>3, BackfilledEntries
  <2>2. IsWork(n, w)
    BY <1>3 DEF IsContent, AreWorks
  <2> HIDE DEF w, v
  <2>3. w = WorkWith(w, w.key, w.stages)
    BY <2>2 DEF IsWork, WorkWith
  <2>4. v.of = w.of /\ v.fields = w.fields /\ v.screenshots = w.screenshots
    BY <2>1 DEF WorkWith
  <2>5. v = WorkWith(v, v.key, v.stages)
    BY <2>1, <2>4 DEF WorkWith
  <2>6. Bare(v.stages) = Bare(w.stages)
    BY <2>1, <2>2, KeysDoNotShow DEF IsWork
  <2>7. Unkeyed("works", v) = Unkeyed("works", w)
    BY <2>3, <2>4, <2>5, <2>6, WorkWithoutKeys
  <2> QED BY <1>3, <2>7 DEF w, v
<1> HIDE DEF out
<1>4. \A i \in DOMAIN l : Unkeyed(section, out[i]) = Unkeyed(section, l[i])
  BY <1>2, <1>3
<1> QED BY <1>1, <1>4 DEF WithoutKeys, out

-----------------------------------------------------------------------------

\* What the script is about to write is what it would write now, as long as nothing
\* was written since it read.
BackfillInv ==
  /\ PortfolioInv
  /\ \A b, c \in backfill : b = c
  /\ \A b \in backfill :
       /\ b.read \in Nat /\ b.read <= minted
       /\ b.read = minted =>
            \E n \in Nat :
              /\ KeyedSections(stored, n)
              /\ \A s \in ListSections :
                   LET now == EntriesAndStages(s, stored[s], n)
                   IN  IF s \in DOMAIN b.changes THEN b.changes[s] = now
                       ELSE ~ keysDiffer(s, stored[s], now)

LEMMA BackfillStep ==
  ASSUME BackfillInv, [Next]_vars
  PROVE  BackfillInv'
<1>0. PortfolioInv /\ PortfolioInv' /\ minted \in Nat /\ minted' \in Nat
  BY StepKeeps DEF BackfillInv, PortfolioInv
<1>1. ASSUME minted' > minted, UNCHANGED backfill PROVE BackfillInv'
  BY <1>0, <1>1 DEF BackfillInv
<1>2. ASSUME UNCHANGED <<stored, minted, backfill>> PROVE BackfillInv'
  BY <1>0, <1>2 DEF BackfillInv
<1>3. ASSUME backfill' = {} PROVE BackfillInv'
  BY <1>0, <1>3 DEF BackfillInv
<1>4. ASSUME NEW c \in Clients, Patch(c) PROVE BackfillInv'
  <2>1. \/ minted' = minted + MaxEntries /\ UNCHANGED backfill
        \/ UNCHANGED <<stored, minted, backfill>>
    BY <1>4 DEF Patch
  <2>2. minted + MaxEntries > minted
    BY <1>0, PortfolioAssumption
  <2> QED BY <1>1, <1>2, <2>1, <2>2
<1>5. ASSUME BackfillReads PROVE BackfillInv'
  <2> DEFINE changes == keyedSectionsOf(stored)
  <2>1. /\ backfill' = {[changes |-> changes, read |-> minted + MaxEntries]}
        /\ minted' = minted + MaxEntries /\ UNCHANGED stored
    BY <1>5 DEF BackfillReads
  <2>2. \A s \in ListSections :
          LET now == EntriesAndStages(s, stored[s], minted)
          IN  IF s \in DOMAIN changes THEN changes[s] = now
              ELSE ~ keysDiffer(s, stored[s], now)
    BY DEF keyedSectionsOf, BackfilledSection, EntriesAndStages
  <2> HIDE DEF changes
  <2>3. ASSUME NEW b \in backfill' PROVE b.changes = changes /\ b.read = minted'
    BY <2>1, <2>3
  <2>4. KeyedSections(stored, minted)
    BY <1>0 DEF PortfolioInv
  <2>5. \A b, c \in backfill' : b = c
    BY <2>1
  <2>6. \A b \in backfill' :
          /\ b.read \in Nat /\ b.read <= minted'
          /\ \E n \in Nat :
               /\ KeyedSections(stored', n)
               /\ \A s \in ListSections :
                    LET now == EntriesAndStages(s, stored'[s], n)
                    IN  IF s \in DOMAIN b.changes THEN b.changes[s] = now
                        ELSE ~ keysDiffer(s, stored'[s], now)
    BY <1>0, <2>1, <2>2, <2>3, <2>4
  <2> QED BY <1>0, <2>5, <2>6 DEF BackfillInv
<1>6. ASSUME AgentJoins \/ (\E c \in Clients : Load(c)) \/ UNCHANGED vars PROVE BackfillInv'
  BY <1>2, <1>6 DEF AgentJoins, Load, vars
<1>7. ASSUME BackfillWrites \/ BackfillDies PROVE BackfillInv'
  BY <1>3, <1>7 DEF BackfillWrites, BackfillDies
<1> QED BY <1>4, <1>5, <1>6, <1>7 DEF Next

LEMMA BackfillInductive == Spec => []BackfillInv
<1>1. Init => BackfillInv
  BY InitInv DEF Init, BackfillInv
<1> QED BY <1>1, BackfillStep, PTL DEF Spec

\* When the script writes what is as it read it, a section is as it would make it now.
LEMMA WrittenAsRead ==
  ASSUME BackfillInv, BackfillInv', [Next]_vars, NEW b \in backfill,
         minted = b.read, backfill' = {}, stored' # stored, NEW s \in ListSections
  PROVE  /\ ~ keysDiffer(s, stored'[s], BackfilledSection(s, stored'[s]))
         /\ WithoutKeys(s, stored'[s]) = WithoutKeys(s, stored[s])
         /\ \A i \in DOMAIN stored[s] :
              /\ isReusable(stored[s], i) => stored'[s][i].key = stored[s][i].key
              /\ \A j \in DOMAIN stagesOf(s, stored[s][i]) :
                   isReusable(stagesOf(s, stored[s][i]), j) =>
                     stagesOf(s, stored'[s][i])[j].key = stagesOf(s, stored[s][i])[j].key
<1>0. PortfolioInv /\ PortfolioInv' /\ minted \in Nat
  BY DEF BackfillInv, PortfolioInv
<1>1. BackfillWrites
  <2>1. \A c \in Clients : Patch(c) => backfill' = backfill
    BY DEF Patch
  <2>2. BackfillReads => backfill' # {}
    BY DEF BackfillReads
  <2> QED BY <2>1, <2>2 DEF Next, Load, AgentJoins, BackfillDies, vars
<1>2. /\ stored' = [r \in DOMAIN stored |-> IF r \in DOMAIN b.changes THEN b.changes[r] ELSE stored[r]]
      /\ minted' = minted
  BY <1>1 DEF BackfillWrites, BackfillInv
<1>3. PICK n \in Nat :
        /\ KeyedSections(stored, n)
        /\ \A r \in ListSections :
             LET now == EntriesAndStages(r, stored[r], n)
             IN  IF r \in DOMAIN b.changes THEN b.changes[r] = now
                 ELSE ~ keysDiffer(r, stored[r], now)
  BY DEF BackfillInv
<1> DEFINE l == stored[s]
           out == EntriesAndStages(s, l, n)
<1>4. IsContent(s, n, l) /\ IsContent(s, minted, stored'[s])
  BY <1>0, <1>2, <1>3 DEF PortfolioInv, KeyedSections
<1>5. stored'[s] = out \/ (stored'[s] = l /\ ~ keysDiffer(s, l, out))
  BY <1>0, <1>2, <1>3 DEF PortfolioInv
<1>6. EntriesAreKeyed(s, stored'[s])
  BY <1>4, <1>5, BackfilledIsKeyed
<1>7. BackfilledSection(s, stored'[s]) = EntriesAndStages(s, stored'[s], minted)
  BY DEF BackfilledSection, EntriesAndStages
<1>8. ~ keysDiffer(s, stored'[s], BackfilledSection(s, stored'[s]))
  BY <1>0, <1>4, <1>6, <1>7, BackfilledIsKeyed
<1>9. WithoutKeys(s, stored'[s]) = WithoutKeys(s, l)
  BY <1>4, <1>5, BackfillOnlyGivesKeys
<1>10. \A i \in DOMAIN l :
         /\ isReusable(l, i) => out[i].key = l[i].key
         /\ \A j \in DOMAIN stagesOf(s, l[i]) :
              isReusable(stagesOf(s, l[i]), j) => stagesOf(s, out[i])[j].key = stagesOf(s, l[i])[j].key
  <2>1. \A i \in DOMAIN l : isReusable(l, i) => out[i].key = l[i].key
    BY <1>4, BackfilledEntries
  <2>2. ASSUME s = "works", NEW i \in DOMAIN l, NEW j \in DOMAIN l[i].stages, isReusable(l[i].stages, j)
        PROVE  out[i].stages[j].key = l[i].stages[j].key
    <3>1. out[i].stages = withUniqueKeys(l[i].stages, n)
      BY <1>4, <2>2, BackfilledEntries
    <3>2. IsEntry("stages", n, l[i].stages[j])
      BY <1>4, <2>2 DEF IsContent, AreWorks, IsWork, AreEntries
    <3> QED BY <2>2, <3>1, <3>2, ReusedKeysStay, KeyedHasItsKey
  <2> HIDE DEF l, out
  <2>3. CASE s = "works"
    BY <2>1, <2>2, <2>3 DEF stagesOf
  <2>4. CASE s # "works"
    <3>1. \A e : DOMAIN stagesOf(s, e) = {}
      BY <2>4 DEF stagesOf
    <3> QED BY <2>1, <3>1
  <2> QED BY <2>3, <2>4
<1>11. \A i \in DOMAIN l :
         /\ isReusable(l, i) => stored'[s][i].key = l[i].key
         /\ \A j \in DOMAIN stagesOf(s, l[i]) :
              isReusable(stagesOf(s, l[i]), j) =>
                stagesOf(s, stored'[s][i])[j].key = stagesOf(s, l[i])[j].key
  BY <1>5, <1>10
<1> QED BY <1>8, <1>9, <1>11

\* The backfill, when nothing was written since it read the document, keeps every key
\* that names one entry, changes nothing but keys, and leaves itself nothing to do.
THEOREM BackfillIsIdempotent == Spec => BackfillKeepsAndIsIdempotent
<1> DEFINE Kept(b) ==
      (minted = b.read /\ backfill' = {} /\ stored' # stored) =>
         /\ DOMAIN keyedSectionsOf(stored') = {}
         /\ \A s \in ListSections :
              /\ WithoutKeys(s, stored'[s]) = WithoutKeys(s, stored[s])
              /\ \A i \in DOMAIN stored[s] :
                   /\ isReusable(stored[s], i) => stored'[s][i].key = stored[s][i].key
                   /\ \A j \in DOMAIN stagesOf(s, stored[s][i]) :
                        isReusable(stagesOf(s, stored[s][i]), j) =>
                          stagesOf(s, stored'[s][i])[j].key = stagesOf(s, stored[s][i])[j].key
<1>1. ASSUME BackfillInv, BackfillInv', [Next]_vars, NEW b \in backfill PROVE Kept(b)
  <2> SUFFICES ASSUME minted = b.read, backfill' = {}, stored' # stored PROVE Kept(b)
    OBVIOUS
  <2>1. \A s \in ListSections : ~ keysDiffer(s, stored'[s], BackfilledSection(s, stored'[s]))
    BY <1>1, WrittenAsRead
  <2>2. DOMAIN keyedSectionsOf(stored') = {}
    BY <2>1 DEF keyedSectionsOf
  <2> QED BY <1>1, <2>2, WrittenAsRead
<1>2. BackfillInv /\ BackfillInv' /\ [Next]_vars => [\A b \in backfill : Kept(b)]_vars
  BY <1>1
<1> HIDE DEF Kept
<1>3. Spec => [][\A b \in backfill : Kept(b)]_vars
  BY <1>2, BackfillInductive, PTL DEF Spec
<1> QED BY <1>3 DEF BackfillKeepsAndIsIdempotent, Kept

-----------------------------------------------------------------------------
(* Previews.                                                                *)

\* Two contents of a list that show the same, whatever their keys.
ShowsTheSame(section, a, b) ==
  /\ Placed(a) /\ DOMAIN a = DOMAIN b
  /\ \A i \in DOMAIN a : IF section = "works"
                         THEN SameFields(a[i], b[i]) /\ Placed(a[i].stages)
                         ELSE a[i].fields = b[i].fields

\* Two records with the same objects, the same media and lists that show the same.
RecordsShowTheSame(r, q) ==
  /\ r["identity"] = q["identity"] /\ r["social"] = q["social"] /\ r["media"] = q["media"]
  /\ \A s \in ListSections \ {"media"} : ShowsTheSame(s, r[s], q[s])

LEMMA PlacedLength ==
  ASSUME NEW a, NEW b, Placed(a), DOMAIN a = DOMAIN b
  PROVE  Len(a) = Len(b) /\ Len(a) \in 0 .. MaxEntries /\ DOMAIN a = 1 .. Len(a)
<1>1. PICK k \in 0 .. MaxEntries : DOMAIN a = 1 .. k
  BY DEF Placed
<1>2. k \in Nat
  BY PortfolioAssumption
<1>3. ASSUME NEW l, DOMAIN l = 1 .. k PROVE Len(l) = k
  BY <1>2, <1>3
<1>4. Len(a) = k /\ Len(b) = k
  BY <1>1, <1>3
<1> QED BY <1>1, <1>4

\* Slides look alike when they show the same fields.
LEMMA LooksAgree ==
  ASSUME NEW s, NEW t, s.id.name = t.id.name, s.at = t.at, s.position = t.position,
         s.total = t.total, DOMAIN s.items = DOMAIN t.items,
         \A i \in DOMAIN s.items : s.items[i].fields = t.items[i].fields,
         DOMAIN s.screenshots = DOMAIN t.screenshots,
         \A i \in DOMAIN s.screenshots : s.screenshots[i].shot.fields = t.screenshots[i].shot.fields
  PROVE  Look(s) = Look(t)
BY DEF Look

LEMMA SectionsLookAlike ==
  ASSUME NEW r, NEW q, r["identity"] = q["identity"], NEW section, NEW a, NEW b,
         Len(a) = Len(b), DOMAIN a = DOMAIN b, \A i \in DOMAIN a : a[i].fields = b[i].fields,
         NEW payload, NEW f, NEW g
  PROVE  Looks(SectionSlide(r, section, a, payload, f)) = Looks(SectionSlide(q, section, b, payload, g))
<1> DEFINE at == <<Place(r, section), 0, 0>>
           id == SlideId(section, <<>>)
           x == Slide(at, id, Items(a, payload), f)
           y == Slide(at, id, Items(b, payload), g)
<1>1. Place(r, section) = Place(q, section)
  BY DEF Place
<1>2. /\ DOMAIN Items(a, payload) = DOMAIN a /\ DOMAIN Items(b, payload) = DOMAIN a
      /\ \A i \in DOMAIN a : Items(a, payload)[i].fields = Items(b, payload)[i].fields
  BY DEF Items, Item
<1>3. /\ SectionSlide(r, section, a, payload, f) = IF Len(a) = 0 THEN {} ELSE {x}
      /\ SectionSlide(q, section, b, payload, g) = IF Len(a) = 0 THEN {} ELSE {y}
  BY <1>1 DEF SectionSlide
<1>4. Look(x) = Look(y)
  <2>1. /\ x.id = y.id /\ x.at = y.at /\ x.position = y.position /\ x.total = y.total
        /\ x.items = Items(a, payload) /\ y.items = Items(b, payload)
        /\ x.screenshots = y.screenshots
        /\ DOMAIN x.screenshots = {}
    BY DEF Slide
  <2> HIDE DEF x, y
  <2> QED BY <1>2, <2>1, LooksAgree
<1> HIDE DEF x, y
<1> QED BY <1>3, <1>4 DEF Looks

LEMMA OneItem ==
  ASSUME NEW e, NEW d, e.fields = d.fields
  PROVE  DOMAIN <<e>> = DOMAIN <<d>> /\ \A k \in DOMAIN <<e>> : <<e>>[k].fields = <<d>>[k].fields
<1>1. DOMAIN <<e>> = {1} /\ DOMAIN <<d>> = {1} /\ <<e>>[1] = e /\ <<d>>[1] = d
  OBVIOUS
<1> QED BY <1>1

LEMMA WorkSlidesLookAlike ==
  ASSUME NEW r, NEW q, r["identity"] = q["identity"], NEW i,
         SameFields(r.works[i], q.works[i]), Placed(r.works[i].stages)
  PROVE  /\ Look(workSlide(r, i)) = Look(workSlide(q, i))
         /\ \A j \in DOMAIN r.works[i].stages : Look(stageSlide(r, i, j)) = Look(stageSlide(q, i, j))
<1> DEFINE a == r.works[i]
           b == q.works[i]
<1>1. Place(r, "works") = Place(q, "works")
  BY DEF Place
<1>2. Len(a.stages) = Len(b.stages)
  BY PlacedLength DEF SameFields
<1>3. Look(workSlide(r, i)) = Look(workSlide(q, i))
  <2> DEFINE x == workSlide(r, i)
             y == workSlide(q, i)
  <2>1. /\ x.id.name = "work" /\ x.at = <<Place(r, "works"), i, 0>> /\ x.position = 0
        /\ x.total = Len(a.stages) /\ x.items = <<Item(a, WorkPayload)>>
        /\ DOMAIN x.screenshots = DOMAIN a.screenshots
        /\ \A s \in DOMAIN a.screenshots :
             x.screenshots[s].shot.fields = Restriction(a.screenshots[s].fields, ScreenshotPayload.shown)
    BY DEF workSlide, Slide, SlideId, Item
  <2>2. /\ y.id.name = "work" /\ y.at = <<Place(q, "works"), i, 0>> /\ y.position = 0
        /\ y.total = Len(b.stages) /\ y.items = <<Item(b, WorkPayload)>>
        /\ DOMAIN y.screenshots = DOMAIN b.screenshots
        /\ \A s \in DOMAIN b.screenshots :
             y.screenshots[s].shot.fields = Restriction(b.screenshots[s].fields, ScreenshotPayload.shown)
    BY DEF workSlide, Slide, SlideId, Item
  <2> HIDE DEF x, y
  <2>3. DOMAIN x.items = DOMAIN y.items
        /\ \A k \in DOMAIN x.items : x.items[k].fields = y.items[k].fields
    <3>1. Item(a, WorkPayload).fields = Item(b, WorkPayload).fields
      BY DEF Item, SameFields
    <3> QED BY <2>1, <2>2, <3>1, OneItem
  <2>4. DOMAIN x.screenshots = DOMAIN y.screenshots
        /\ \A s \in DOMAIN x.screenshots : x.screenshots[s].shot.fields = y.screenshots[s].shot.fields
    BY <2>1, <2>2 DEF SameFields
  <2> HIDE DEF a, b
  <2>5. x.id.name = y.id.name /\ x.at = y.at /\ x.position = y.position /\ x.total = y.total
    BY <1>1, <1>2, <2>1, <2>2
  <2>6. Look(x) = Look(y)
    BY <2>3, <2>4, <2>5, LooksAgree
  <2> QED BY <2>6 DEF x, y
<1>4. ASSUME NEW j \in DOMAIN a.stages
      PROVE  Look(stageSlide(r, i, j)) = Look(stageSlide(q, i, j))
  <2> DEFINE x == stageSlide(r, i, j)
             y == stageSlide(q, i, j)
  <2>1. /\ x.id.name = "stage" /\ x.at = <<Place(r, "works"), i, j>> /\ x.position = j
        /\ x.total = Len(a.stages) /\ x.items = <<Item(a.stages[j], WorkStagePayload)>>
        /\ DOMAIN x.screenshots = {}
    BY DEF stageSlide, Slide, SlideId
  <2>2. /\ y.id.name = "stage" /\ y.at = <<Place(q, "works"), i, j>> /\ y.position = j
        /\ y.total = Len(b.stages) /\ y.items = <<Item(b.stages[j], WorkStagePayload)>>
        /\ DOMAIN y.screenshots = {}
    BY DEF stageSlide, Slide, SlideId
  <2> HIDE DEF x, y
  <2>3. Item(a.stages[j], WorkStagePayload).fields = Item(b.stages[j], WorkStagePayload).fields
    BY <1>4 DEF Item, SameFields
  <2> HIDE DEF a, b
  <2>4. DOMAIN x.items = DOMAIN y.items
        /\ \A k \in DOMAIN x.items : x.items[k].fields = y.items[k].fields
    BY <2>1, <2>2, <2>3, OneItem
  <2>5. x.id.name = y.id.name /\ x.at = y.at /\ x.position = y.position /\ x.total = y.total
        /\ DOMAIN x.screenshots = {} /\ DOMAIN y.screenshots = {}
    BY <1>1, <1>2, <2>1, <2>2
  <2>6. Look(x) = Look(y)
    BY <2>4, <2>5, LooksAgree
  <2> QED BY <2>6 DEF x, y
<1> QED BY <1>3, <1>4

LEMMA SameMembers ==
  ASSUME NEW S, NEW T, \A l : l \in S <=> l \in T
  PROVE  S = T
OBVIOUS

LEMMA SameWorksAreTaken ==
  ASSUME NEW a, NEW b, ShowsTheSame("works", a, b)
  PROVE  Taken(a) = Taken(b)
<1>1. PICK k \in 0 .. MaxEntries : DOMAIN a = 1 .. k
  BY DEF ShowsTheSame, Placed
<1>2. k \in Nat /\ DOMAIN b = 1 .. k
  BY <1>1, PortfolioAssumption DEF ShowsTheSame
<1>3. ASSUME NEW i \in 1 .. k PROVE Len(a[i].stages) = Len(b[i].stages)
  <2>1. Placed(a[i].stages) /\ DOMAIN a[i].stages = DOMAIN b[i].stages
    BY <1>1 DEF ShowsTheSame, SameFields
  <2> QED BY <2>1, PlacedLength
<1>4. ASSUME NEW n \in 1 .. k PROVE BlocksThrough(a, n) = BlocksThrough(b, n)
  <2>1. \A i \in 1 .. n : i \in 1 .. k
    BY <1>2
  <2>2. \A i \in 1 .. n : 0 .. Len(a[i].stages) = 0 .. Len(b[i].stages)
    BY <1>3, <2>1
  <2> DEFINE blocks(l, i) == {<<i, j>> : j \in 0 .. Len(l[i].stages)}
  <2>3. \A i \in 1 .. n : blocks(a, i) = blocks(b, i)
    BY <2>2
  <2>4. \A l : \A p : p \in BlocksThrough(l, n) <=> \E i \in 1 .. n : p \in blocks(l, i)
    BY DEF BlocksThrough
  <2> HIDE DEF blocks
  <2>5. \A p : p \in BlocksThrough(a, n) <=> p \in BlocksThrough(b, n)
    BY <2>3, <2>4
  <2> QED BY <2>5, SameMembers
<1> QED BY <1>1, <1>2, <1>4 DEF Taken

LEMMA WorksLookAlike ==
  ASSUME NEW r, NEW q, r["identity"] = q["identity"], ShowsTheSame("works", r.works, q.works)
  PROVE  Looks(workSlides(r)) = Looks(workSlides(q))
<1> DEFINE fit == Taken(r.works)
<1>1. Taken(q.works) = fit /\ fit \subseteq DOMAIN r.works
  BY SameWorksAreTaken DEF Taken
<1>2. \A i \in fit : /\ SameFields(r.works[i], q.works[i]) /\ Placed(r.works[i].stages)
                     /\ DOMAIN r.works[i].stages = DOMAIN q.works[i].stages
  BY <1>1 DEF ShowsTheSame, SameFields
<1> HIDE DEF fit
<1>3. \A i \in fit : /\ Look(workSlide(r, i)) = Look(workSlide(q, i))
                     /\ \A j \in DOMAIN r.works[i].stages :
                          Look(stageSlide(r, i, j)) = Look(stageSlide(q, i, j))
  BY <1>2, WorkSlidesLookAlike
<1>4. \A l : l \in Looks(workSlides(r)) <=>
               \E i \in fit : \/ l = Look(workSlide(r, i))
                              \/ \E j \in DOMAIN r.works[i].stages : l = Look(stageSlide(r, i, j))
  BY DEF Looks, workSlides, fit
<1>5. \A l : l \in Looks(workSlides(q)) <=>
               \E i \in fit : \/ l = Look(workSlide(q, i))
                              \/ \E j \in DOMAIN q.works[i].stages : l = Look(stageSlide(q, i, j))
  BY <1>1 DEF Looks, workSlides
<1>6. \A l : l \in Looks(workSlides(r)) <=> l \in Looks(workSlides(q))
  BY <1>2, <1>3, <1>4, <1>5
<1> QED BY <1>6, SameMembers

\* The deck shows the fields of a record, and nothing of its keys.
LEMMA DecksLookAlike ==
  ASSUME NEW r, NEW q, RecordsShowTheSame(r, q)
  PROVE  Looks(projectSlides(r)) = Looks(projectSlides(q))
<1>1. ASSUME NEW section \in ListSections \ {"works", "media"}, NEW payload, NEW f, NEW g
      PROVE  Looks(SectionSlide(r, section, r[section], payload, f))
               = Looks(SectionSlide(q, section, q[section], payload, g))
  <2>1. /\ Placed(r[section]) /\ DOMAIN r[section] = DOMAIN q[section]
        /\ \A i \in DOMAIN r[section] : r[section][i].fields = q[section][i].fields
    BY DEF RecordsShowTheSame, ShowsTheSame
  <2>2. Len(r[section]) = Len(q[section])
    BY <2>1, PlacedLength
  <2> QED BY <2>1, <2>2, SectionsLookAlike DEF RecordsShowTheSame
<1>2. {"capabilities", "timeline", "offerings", "metrics", "testimonials", "team", "content"}
        \subseteq ListSections \ {"works", "media"}
  BY DEF ListSections, KEYED_ARRAY_SECTIONS
<1>3. /\ Looks(capabilitiesSlide(r)) = Looks(capabilitiesSlide(q))
      /\ Looks(timelineSlide(r)) = Looks(timelineSlide(q))
      /\ Looks(offeringsSlide(r)) = Looks(offeringsSlide(q))
      /\ Looks(metricsSlide(r)) = Looks(metricsSlide(q))
      /\ Looks(testimonialsSlide(r)) = Looks(testimonialsSlide(q))
      /\ Looks(teamSlide(r)) = Looks(teamSlide(q))
      /\ Looks(contentSlide(r)) = Looks(contentSlide(q))
  BY <1>1, <1>2 DEF capabilitiesSlide, timelineSlide, offeringsSlide, metricsSlide,
                    testimonialsSlide, teamSlide, contentSlide
<1>4. \A section : Place(r, section) = Place(q, section)
  BY DEF Place, RecordsShowTheSame
<1>5. mediaSlide(r) = mediaSlide(q) /\ contactSlide(r) = contactSlide(q)
      /\ identitySlide(r) = identitySlide(q)
  BY <1>4 DEF mediaSlide, contactSlide, identitySlide, SectionSlide, RecordsShowTheSame
<1>6. Looks(workSlides(r)) = Looks(workSlides(q))
  BY WorksLookAlike DEF RecordsShowTheSame, ListSections, KEYED_ARRAY_SECTIONS
<1>7. ASSUME NEW x, NEW l
      PROVE  l \in Looks(projectSlides(x)) <=>
               \/ l \in Looks({identitySlide(x)}) \/ l \in Looks(workSlides(x))
               \/ l \in Looks(capabilitiesSlide(x)) \/ l \in Looks(timelineSlide(x))
               \/ l \in Looks(offeringsSlide(x)) \/ l \in Looks(metricsSlide(x))
               \/ l \in Looks(testimonialsSlide(x)) \/ l \in Looks(teamSlide(x))
               \/ l \in Looks(contentSlide(x)) \/ l \in Looks(mediaSlide(x))
               \/ l \in Looks(contactSlide(x))
  BY DEF Looks, projectSlides
<1>8. \A l : l \in Looks(projectSlides(r)) <=> l \in Looks(projectSlides(q))
  BY <1>3, <1>5, <1>6, <1>7
<1> QED BY <1>8, SameMembers

-----------------------------------------------------------------------------

\* What a mapper made of an accepted body is read back as it was written.
LEMMA MappedStays ==
  ASSUME NEW layer \in ListLayers, NEW f \in Fields(layer), Accepted(Layers[layer].dto, f)
  PROVE  HydratedFields(layer, MappedFields(layer, f)) = MappedFields(layer, f)
<1> DEFINE mapped == MappedFields(layer, f)
<1>1. mapped = [g \in DOMAIN mapped |-> mapped[g]] /\ DOMAIN mapped = DOMAIN f
      /\ DOMAIN f = Layers[layer].dto.must \cup Layers[layer].dto.may
  BY DEF MappedFields, Mapped, Fields, FieldsOf
<1>2. ASSUME NEW g \in DOMAIN f PROVE mapped[g] # Undefined
  <2>1. mapped[g] = IF f[g] \notin Absent THEN f[g]
                    ELSE IF g \in Layers[layer].mapper.fills THEN Filled
                    ELSE IF g \in Layers[layer].mapper.nulls THEN Null
                    ELSE f[g]
    BY DEF MappedFields, Mapped
  <2> HIDE DEF mapped
  <2>2. f[g] \in Absent => g \in Layers[layer].dto.may
    BY <1>1 DEF Accepted
  <2> QED BY <2>1, <2>2, ValuesDiffer, LayersAgree
<1> HIDE DEF mapped
<1>3. HydratedFields(layer, mapped) = [g \in DOMAIN mapped |-> mapped[g]]
  BY <1>1, <1>2 DEF HydratedFields, Hydrated
<1> QED BY <1>1, <1>3 DEF mapped

LEMMA SentStays ==
  ASSUME NEW n, NEW section \in ListSections, NEW body, IsContent(section, n, body),
         BodyAccepted(section, body), NEW layer, NEW f, At(layer, f) \in FieldsIn(section, body)
  PROVE  HydratedFields(layer, MappedFields(layer, f)) = MappedFields(layer, f)
<1>1. At(layer, f).layer = layer /\ At(layer, f).fields = f
  BY DEF At
<1>2. layer \in ListLayers /\ f \in Fields(layer) /\ Accepted(Layers[layer].dto, f)
  BY <1>1, FieldsAreTyped DEF BodyAccepted
<1> QED BY <1>2, MappedStays

\* Fields that a schema reads back as they are.
ReadAsTheyAre(w) ==
  /\ HydratedFields("works", w.fields) = w.fields
  /\ \A j \in DOMAIN w.stages : HydratedFields("stages", w.stages[j].fields) = w.stages[j].fields
  /\ \A s \in DOMAIN w.screenshots :
       /\ HydratedFields("screenshots", w.screenshots[s].fields) = w.screenshots[s].fields
       /\ \A h \in DOMAIN w.screenshots[s].hotspots :
            HydratedFields("hotspots", w.screenshots[s].hotspots[h].fields)
              = w.screenshots[s].hotspots[h].fields

LEMMA SentWorksStay ==
  ASSUME NEW n, NEW body, IsContent("works", n, body), BodyAccepted("works", body),
         NEW i \in DOMAIN body, NEW m, IsMapped(m, body[i])
  PROVE  ReadAsTheyAre(m)
<1> DEFINE b == body[i]
<1>0. "works" \in ListSections
  BY DEF ListSections, KEYED_ARRAY_SECTIONS
<1>1. \A layer, f : OfWork(b, At(layer, f)) =>
        HydratedFields(layer, MappedFields(layer, f)) = MappedFields(layer, f)
  BY <1>0, SentStays, FieldsOfWorks
<1> HIDE DEF b
<1>2. /\ OfWork(b, At("works", b.fields))
      /\ \A j \in DOMAIN b.stages : OfWork(b, At("stages", b.stages[j].fields))
      /\ \A s \in DOMAIN b.screenshots :
           /\ OfWork(b, At("screenshots", b.screenshots[s].fields))
           /\ \A h \in DOMAIN b.screenshots[s].hotspots :
                OfWork(b, At("hotspots", b.screenshots[s].hotspots[h].fields))
  BY PlacesInAWork
<1>3. IsMapped(m, b)
  BY DEF b
<1> QED BY <1>1, <1>2, <1>3 DEF IsMapped, ReadAsTheyAre

LEMMA ReadOfTheSame ==
  ASSUME NEW read, NEW written, NEW sent, IsRead(read, written), SameFields(written, sent),
         ReadAsTheyAre(sent)
  PROVE  SameFields(sent, read)
BY DEF IsRead, SameFields, ReadAsTheyAre

\* The keys of a preview show no more than those of a document.
LEMMA PreviewKeysLeaveFields ==
  ASSUME NEW n \in Nat, NEW section, NEW l, IsContent(section, n, l)
  PROVE  /\ DOMAIN PreviewKeys(section, l) = DOMAIN l
         /\ \A i \in DOMAIN l : LET p == PreviewKeys(section, l)[i]
                                IN  IF section = "works"
                                    THEN SameFields(p, l[i]) /\ Placed(p.stages)
                                    ELSE p.fields = l[i].fields
<1> DEFINE out == PreviewKeys(section, l)
<1>1. CASE section # "works"
  <2>1. out = [i \in DOMAIN l |-> Keyed(l[i], PreviewKey(i))]
    BY <1>1 DEF PreviewKeys
  <2>2. \A i \in DOMAIN l : \A k : Keyed(l[i], k).fields = l[i].fields
    BY <1>1 DEF IsContent, AreEntries, IsEntry, Keyed
  <2> QED BY <1>1, <2>1, <2>2
<1>2. CASE section = "works"
  <2> DEFINE before(i) == Cardinality(BlocksThrough(l, i - 1))
             stages(i) == [j \in DOMAIN l[i].stages |->
                             Keyed(l[i].stages[j], PreviewKey(before(i) + 1 + j))]
  <2>1. out = [i \in DOMAIN l |-> [Keyed(l[i], PreviewKey(before(i) + 1)) EXCEPT !.stages = stages(i)]]
    BY <1>2 DEF PreviewKeys
  <2>2. ASSUME NEW i \in DOMAIN l PROVE SameFields(out[i], l[i]) /\ Placed(out[i].stages)
    <3> DEFINE k == PreviewKey(before(i) + 1)
               told == stages(i)
               w == l[i]
    <3>1. out[i] = [Keyed(w, k) EXCEPT !.stages = told]
      BY <2>1
    <3>2. IsWork(n, w)
      BY <1>2 DEF IsContent, AreWorks
    <3>3. /\ DOMAIN told = DOMAIN w.stages
          /\ \A j \in DOMAIN w.stages : told[j].fields = w.stages[j].fields
      BY <3>2 DEF IsWork, AreEntries, IsEntry, Keyed
    <3> HIDE DEF k, told, w, out, before, stages
    <3>4. Keyed(w, k) = [key |-> k, of |-> w.of, fields |-> w.fields, stages |-> w.stages,
                         screenshots |-> w.screenshots]
      BY <3>2 DEF IsWork, Keyed
    <3>5. out[i] = [key |-> k, of |-> w.of, fields |-> w.fields, stages |-> told,
                    screenshots |-> w.screenshots]
      BY <3>1, <3>4
    <3>6. SameFields(out[i], w)
      BY <3>3, <3>5 DEF SameFields
    <3>7. Placed(out[i].stages)
      BY <3>2, <3>3, <3>5 DEF Placed, IsWork, AreEntries
    <3> QED BY <3>6, <3>7 DEF w
  <2>3. DOMAIN out = DOMAIN l
    BY <2>1
  <2> QED BY <1>2, <2>2, <2>3
<1> QED BY <1>1, <1>2

LEMMA ListsArePreviewed ==
  ASSUME NEW n \in Nat, NEW section \in ListSections, NEW body, IsContent(section, n, body),
         BodyAccepted(section, body)
  PROVE  LET mapped == MappedEntries(section, body)
         IN  ShowsTheSame(section, PreviewKeys(section, mapped),
                          ReadEntries(section, withEntryKeys(section, mapped, n)))
<1> DEFINE mapped == MappedEntries(section, body)
           written == withEntryKeys(section, mapped, n)
           read == ReadEntries(section, written)
           preview == PreviewKeys(section, mapped)
<1>1. IsContent(section, n, mapped)
  BY MappingKeepsContent DEF MappedEntries
<1>2. Placed(mapped)
  BY <1>1, ContentIsOfEntries
<1>3. DOMAIN mapped = DOMAIN body /\ DOMAIN read = DOMAIN written
  BY DEF MappedEntries, ReadEntries, OnEntries
<1>4. /\ section = "works" => /\ \A i \in DOMAIN body : IsMapped(mapped[i], body[i])
                              /\ \A i \in DOMAIN written : IsRead(read[i], written[i])
      /\ section # "works" =>
           /\ \A i \in DOMAIN body : mapped[i].fields = MappedFields(section, body[i].fields)
           /\ \A i \in DOMAIN written : read[i].fields = HydratedFields(section, written[i].fields)
  BY WorksAreMade DEF MappedEntries, ReadEntries, OnEntries
<1> HIDE DEF mapped
<1>5. /\ DOMAIN written = DOMAIN mapped
      /\ \A i \in DOMAIN mapped : IF section = "works" THEN SameFields(written[i], mapped[i])
                                  ELSE written[i].fields = mapped[i].fields
  BY <1>1, KeysLeaveFields
<1>6. /\ DOMAIN preview = DOMAIN mapped
      /\ \A i \in DOMAIN mapped : IF section = "works"
                                  THEN SameFields(preview[i], mapped[i]) /\ Placed(preview[i].stages)
                                  ELSE preview[i].fields = mapped[i].fields
  BY <1>1, PreviewKeysLeaveFields
<1> HIDE DEF written, read, preview
<1>7. Placed(preview) /\ DOMAIN preview = DOMAIN read
  BY <1>2, <1>3, <1>5, <1>6 DEF Placed
<1>8. ASSUME section = "works", NEW i \in DOMAIN preview
      PROVE  SameFields(preview[i], read[i]) /\ Placed(preview[i].stages)
  <2>1. i \in DOMAIN mapped /\ i \in DOMAIN body /\ i \in DOMAIN written
    BY <1>3, <1>5, <1>6
  <2>2. ReadAsTheyAre(mapped[i])
    BY <1>4, <1>8, <2>1, SentWorksStay
  <2>3. SameFields(mapped[i], read[i])
    BY <1>4, <1>5, <1>8, <2>1, <2>2, ReadOfTheSame
  <2>4. SameFields(preview[i], mapped[i]) /\ Placed(preview[i].stages)
    BY <1>6, <1>8, <2>1
  <2> QED BY <2>3, <2>4 DEF SameFields
<1>9. ASSUME section # "works", NEW i \in DOMAIN preview
      PROVE  preview[i].fields = read[i].fields
  <2>1. i \in DOMAIN mapped /\ i \in DOMAIN body /\ i \in DOMAIN written
    BY <1>3, <1>5, <1>6
  <2>2. At(section, body[i].fields) \in FieldsIn(section, body)
    BY <1>9, <2>1, FieldsOfEntries DEF At
  <2>3. HydratedFields(section, mapped[i].fields) = mapped[i].fields
    BY <1>4, <1>9, <2>1, <2>2, SentStays
  <2> QED BY <1>4, <1>5, <1>6, <1>9, <2>1, <2>3
<1> QED BY <1>7, <1>8, <1>9 DEF ShowsTheSame, mapped, written, read, preview

-----------------------------------------------------------------------------

LEMMA ImagesMayBeLeftOut ==
  ASSUME NEW layer \in ListLayers
  PROVE  \A f \in Layers[layer].dto.must : f \notin IMAGE_FIELDS
BY SMTT(30) DEF ListLayers, ListSections, KEYED_ARRAY_SECTIONS, Layers, Layer, Dto, IMAGE_FIELDS,
       WorkEntryDto, StageEntryDto, ScreenshotDto, HotspotDto, TimelineEntryDto,
       CapabilityEntryDto, OfferingEntryDto, MetricEntryDto, TestimonialEntryDto,
       TeamMemberEntryDto, MediaEntryDto, ContentEntryDto

LEMMA StrippedFields ==
  ASSUME NEW layer \in ListLayers, NEW rest \in {Undefined, Null, Given}
  PROVE  /\ stripImages(Shape(layer, rest)) \in Fields(layer)
         /\ Accepted(Layers[layer].dto, stripImages(Shape(layer, rest)))
         /\ Accepted(Layers[layer].dto, Shape(layer, rest))
<1> DEFINE f == Shape(layer, rest)
<1>1. f \in Fields(layer) /\ DOMAIN f = FieldsOf(Layers[layer].dto)
  BY ShapesAreFields DEF Shape
<1>2. \A g \in Layers[layer].dto.must : g \in DOMAIN f /\ f[g] = Given
  BY DEF Shape, FieldsOf
<1> HIDE DEF f
<1>3. stripImages(f) \in Fields(layer)
  BY <1>1 DEF stripImages, Fields, Value
<1>4. \A g \in Layers[layer].dto.must : stripImages(f)[g] = Given
  BY <1>2, ImagesMayBeLeftOut DEF stripImages
<1> QED BY <1>2, <1>3, <1>4, ValuesDiffer DEF Accepted, f

LEMMA ListDrafts ==
  ASSUME NEW n \in Nat, NEW section \in ListSections \ {"media"}, NEW d \in Drafts(section)
  PROVE  IsContent(section, n, d) /\ BodyAccepted(section, d)
<1>0. /\ \A rest \in Rest : rest \in {Undefined, Null, Given}
      /\ section \in ListLayers /\ "stages" \in ListLayers
      /\ 0 \in 0 .. MaxEntries /\ 1 \in 0 .. MaxEntries /\ 1 .. 1 = {1}
  BY PortfolioAssumption DEF Rest, ListLayers
<1>1. CASE section # "works"
  <2>1. PICK rest \in Rest :
          d = <<[Fresh(section, rest, minted, 1) EXCEPT !.fields = stripImages(@)]>>
    BY <1>1 DEF Drafts, NewEntries
  <2> DEFINE fields == stripImages(Shape(section, rest))
             e == [key |-> NoKey, of |-> <<section, minted, 1>>, fields |-> fields]
  <2>2. d = <<e>>
    BY <2>1 DEF Fresh
  <2>3. fields \in Fields(section) /\ Accepted(Layers[section].dto, fields)
    BY <1>0, StrippedFields
  <2> HIDE DEF fields
  <2>4. IsEntry(section, n, e) /\ e.fields = fields
    BY <2>3 DEF IsEntry, NoKey
  <2> HIDE DEF e
  <2>5. DOMAIN d = {1} /\ d[1] = e
    BY <2>2
  <2>6. IsContent(section, n, d)
    BY <1>0, <1>1, <2>4, <2>5 DEF IsContent, AreEntries, Placed
  <2>7. \A x \in FieldsIn(section, d) : x.layer = section /\ x.fields = fields
    BY <1>1, <2>4, <2>5, FieldsOfEntries
  <2> QED BY <2>3, <2>6, <2>7 DEF BodyAccepted
<1>2. CASE section = "works"
  <2>1. PICK rest \in Rest :
          d = <<[FreshWork(rest, 1, 0, minted) EXCEPT !.fields = stripImages(@)]>>
    BY <1>2 DEF Drafts, ListSections
  <2> DEFINE w == FreshWork(rest, 1, 0, minted)
             fields == stripImages(Shape("works", rest))
             e == [key |-> NoKey, of |-> w.of, fields |-> fields, stages |-> w.stages,
                   screenshots |-> w.screenshots]
  <2>2. IsWork(n, w)
    BY <1>0, FreshIsWork
  <2>3. /\ w.key = NoKey /\ w.fields = Shape("works", rest)
        /\ \A j \in DOMAIN w.stages : w.stages[j].fields = Shape("stages", rest)
        /\ DOMAIN w.screenshots = {}
    <3> DEFINE told == [j \in 1 .. 1 |-> Fresh("stages", rest, minted, j)]
               shown == [s \in 1 .. 0 |-> FreshShot(rest, 1, minted)]
    <3>1. w = [key |-> NoKey, of |-> <<"works", minted, 1>>, fields |-> Shape("works", rest),
               stages |-> told, screenshots |-> shown]
      BY DEF FreshWork
    <3>2. /\ \A j \in DOMAIN told : told[j].fields = Shape("stages", rest)
          /\ DOMAIN shown = {}
      <4>1. \A j \in DOMAIN told : told[j] = Fresh("stages", rest, minted, j)
        OBVIOUS
      <4>2. \A j : Fresh("stages", rest, minted, j).fields = Shape("stages", rest)
        BY DEF Fresh
      <4>3. 1 .. 0 = {} /\ DOMAIN shown = 1 .. 0
        OBVIOUS
      <4> HIDE DEF told, shown
      <4> QED BY <4>1, <4>2, <4>3
    <3> HIDE DEF w, told, shown
    <3> QED BY <3>1, <3>2
  <2>4. /\ fields \in Fields("works") /\ Accepted(Layers["works"].dto, fields)
        /\ Accepted(Layers["stages"].dto, Shape("stages", rest))
    BY <1>0, <1>2, StrippedFields
  <2> HIDE DEF w, fields
  <2>5. [w EXCEPT !.fields = stripImages(@)] = e
    BY <2>2, <2>3 DEF IsWork, fields
  <2>6. IsWork(n, e)
    BY <2>2, <2>4 DEF IsWork, NoKey
  <2>7. e.fields = fields /\ e.stages = w.stages /\ e.screenshots = w.screenshots
    OBVIOUS
  <2> HIDE DEF e
  <2>8. DOMAIN d = {1} /\ d[1] = e
    BY <2>1, <2>5 DEF w
  <2>9. IsContent(section, n, d)
    BY <1>0, <1>2, <2>6, <2>8 DEF IsContent, AreWorks, Placed
  <2>10. ASSUME NEW x \in FieldsIn(section, d) PROVE Accepted(Layers[x.layer].dto, x.fields)
    <3>1. OfWork(e, x)
      BY <1>2, <2>8, <2>10, FieldsOfWorks
    <3>2. \/ x.layer = "works" /\ x.fields = fields
          \/ x.layer = "stages" /\ x.fields = Shape("stages", rest)
      BY <2>3, <2>7, <3>1 DEF OfWork
    <3> QED BY <2>4, <3>2
  <2> QED BY <2>9, <2>10 DEF BodyAccepted
<1> QED BY <1>1, <1>2

LEMMA ObjectDrafts ==
  ASSUME NEW section \in ObjectSections, NEW d \in Drafts(section)
  PROVE  DOMAIN d = FieldsOf(Layers[section].dto)
<1>1. section \notin ListSections
  BY DEF ObjectSections, ListSections, KEYED_ARRAY_SECTIONS
<1>2. PICK b \in ObjectBodies(section) : d = stripImages(b)
  BY <1>1 DEF Drafts
<1>3. \A rest : DOMAIN Shape(section, rest) = FieldsOf(Layers[section].dto)
  BY DEF Shape
<1>4. \A rest, f, v : DOMAIN [Shape(section, rest) EXCEPT ![f] = v] = FieldsOf(Layers[section].dto)
  BY <1>3
<1> DEFINE with(rest, f, v) == [Shape(section, rest) EXCEPT ![f] = v]
           one == {with(Undefined, f, v) : f \in FieldsOf(Layers[section].dto) \ {"entityType"},
                                           v \in {Given, Null}}
           allButOne == {with(Given, f, Null) : f \in FieldsOf(Layers[section].dto)}
           typed == {with(Undefined, "entityType", t) : t \in EntityType \cup {Null}}
           company == {with(rest, "entityType", "company") : rest \in Rest}
<1>5. b \in Shapes(section) \cup one \cup allButOne \cup typed \cup company
  BY <1>2 DEF ObjectBodies
<1> HIDE DEF with
<1>6. (\E rest : b = Shape(section, rest)) \/ (\E rest, f, v : b = with(rest, f, v))
  BY <1>5 DEF Shapes
<1>7. DOMAIN b = FieldsOf(Layers[section].dto)
  BY <1>3, <1>4, <1>6 DEF with
<1> QED BY <1>2, <1>7 DEF stripImages

-----------------------------------------------------------------------------

\* What is sent of an object reads back as it was sent, but for links that are null.
LEMMA ObjectsArePreviewed ==
  ASSUME NEW section \in ObjectSections, DOMAIN stored[section] = FieldsOf(Layers[section].dto),
         NEW d, DOMAIN d = FieldsOf(Layers[section].dto), section = "social" => d["links"] # Null
  PROVE  HydratedFields(section, Updated(section, d)) =
           [f \in DOMAIN HydratedFields(section, stored[section]) |->
              IF d[f] = Undefined \/ (f = "links" /\ d[f] = Null)
              THEN HydratedFields(section, stored[section])[f] ELSE d[f]]
<1> DEFINE was == stored[section]
           is == Updated(section, d)
           layer == Layers[section]
           read == HydratedFields(section, was)
<1>1. is = [f \in DOMAIN was |->
              IF f \in DOMAIN d /\ d[f] # Undefined
              THEN Mapped(layer.mapper, d)[f] ELSE was[f]]
  BY DEF Updated, toProfileUpdateFields, ObjectSections, ListSections, KEYED_ARRAY_SECTIONS
<1>2. /\ section = "social" => layer.mapper.fills = {"links"}
      /\ section = "identity" => layer.mapper.fills = {} /\ "links" \notin FieldsOf(layer.dto)
      /\ section = "social" \/ section = "identity"
      /\ \A f \in FieldsOf(layer.dto) : f \in layer.mapper.fills \/ f \in layer.mapper.nulls
  <2>1. /\ Layers["social"].mapper.fills = {"links"}
        /\ Layers["social"].mapper.nulls = {"email", "phone", "calendarUrl"}
        /\ FieldsOf(Layers["social"].dto) = {"links", "email", "phone", "calendarUrl"}
    BY DEF FieldsOf, Layers, Layer, SocialDto, SocialUpdate, Dto, Mapper
  <2>2. /\ Layers["identity"].mapper.fills = {}
        /\ Layers["identity"].mapper.nulls = UpdateIdentityDto.may
        /\ FieldsOf(Layers["identity"].dto) = UpdateIdentityDto.may
        /\ "links" \notin UpdateIdentityDto.may
    BY DEF FieldsOf, Layers, Layer, UpdateIdentityDto, IdentityUpdate, Dto, Mapper
  <2> QED BY <2>1, <2>2 DEF ObjectSections
<1>3. DOMAIN is = DOMAIN d /\ DOMAIN was = DOMAIN d
  BY <1>1
<1>4. /\ HydratedFields(section, is) =
           [f \in DOMAIN d |-> HydratedFields(section, is)[f]]
      /\ DOMAIN read = DOMAIN d
  BY <1>3 DEF HydratedFields, Hydrated
<1> HIDE DEF was, is, read
<1>5. ASSUME NEW f \in DOMAIN d
      PROVE  HydratedFields(section, is)[f] =
               IF d[f] = Undefined \/ (f = "links" /\ d[f] = Null) THEN read[f] ELSE d[f]
  <2>1. ~(f = "links" /\ d[f] = Null)
    BY <1>2, <1>5
  <2>2. CASE d[f] = Undefined
    <3>1. is[f] = was[f]
      BY <1>1, <1>3, <1>5, <2>2
    <3> QED BY <1>3, <1>5, <2>2, <3>1 DEF HydratedFields, Hydrated, read
  <2>3. CASE d[f] # Undefined
    <3>1. is[f] = Mapped(layer.mapper, d)[f]
      BY <1>1, <1>3, <1>5, <2>3
    <3>2. is[f] = IF d[f] \notin Absent THEN d[f]
                  ELSE IF f \in layer.mapper.fills THEN Filled
                  ELSE IF f \in layer.mapper.nulls THEN Null
                  ELSE d[f]
      BY <1>5, <3>1 DEF Mapped
    <3> HIDE DEF layer
    <3>3. is[f] = d[f]
      BY <1>2, <1>5, <2>1, <2>3, <3>2, ValuesDiffer DEF layer
    <3>4. HydratedFields(section, is)[f] = is[f]
      BY <1>3, <1>5, <2>3, <3>3 DEF HydratedFields, Hydrated
    <3> QED BY <2>1, <2>3, <3>3, <3>4
  <2> QED BY <2>2, <2>3
<1> QED BY <1>4, <1>5 DEF was, is, read

\* What is read of a document of which one section was written.
LEMMA RecordOfAnUpdate ==
  ASSUME DOMAIN stored = ListSections \cup ObjectSections, subject \in DOMAIN stored, NEW content
  PROVE  Record([stored EXCEPT ![subject] = content])
           = [Record(stored) EXCEPT ![subject] = OnSection(subject, content, HydratedFields)]
<1>1. [stored EXCEPT ![subject] = content]
        = [s \in DOMAIN stored |-> IF s = subject THEN content ELSE stored[s]]
  OBVIOUS
<1> QED BY <1>1 DEF Record

LEMMA ListsShowThemselves ==
  ASSUME NEW n, NEW section, NEW l, IsContent(section, n, l)
  PROVE  ShowsTheSame(section, l, l)
BY DEF ShowsTheSame, IsContent, AreWorks, AreEntries, IsWork, SameFields

LEMMA ListPreviews ==
  ASSUME FieldsInv, subject \in ListSections \ {"media"}, NEW d \in Drafts(subject)
  PROVE  PreviewsTheDeck(d)
<1> DEFINE mapped == MappedEntries(subject, d)
           preview == PreviewKeys(subject, mapped)
           read == ReadEntries(subject, withEntryKeys(subject, mapped, minted))
           doc == Record(stored)
           r == [doc EXCEPT ![subject] = preview]
           q == [doc EXCEPT ![subject] = read]
<1>1. /\ minted \in Nat /\ DOMAIN stored = ListSections \cup ObjectSections
      /\ KeyedSections(stored, minted)
  BY DEF FieldsInv, PortfolioInv
<1>2. IsContent(subject, minted, d) /\ BodyAccepted(subject, d)
  BY <1>1, ListDrafts
<1>3. ShowsTheSame(subject, preview, read)
  BY <1>1, <1>2, ListsArePreviewed
<1>4. applyDraft(doc, subject, d) = r
  BY DEF applyDraft, MappedEntries
<1>5. Record([stored EXCEPT ![subject] = Updated(subject, d)]) = q
  <2>1. Updated(subject, d) = withEntryKeys(subject, mapped, minted)
    BY DEF Updated, toProfileUpdateFields, MappedEntries
  <2>2. \A c : OnSection(subject, c, HydratedFields) = ReadEntries(subject, c)
    BY DEF OnSection, ReadEntries
  <2> QED BY <1>1, <2>1, <2>2, RecordOfAnUpdate
<1>6. DOMAIN doc = DOMAIN stored /\ KeyedSections(doc, minted)
  BY <1>1, RecordOfLists
<1> HIDE DEF mapped, preview, read, doc
<1>7. /\ r[subject] = preview /\ q[subject] = read
      /\ \A s \in DOMAIN doc \ {subject} : r[s] = doc[s] /\ q[s] = doc[s]
  BY <1>1, <1>6
<1> HIDE DEF r, q
<1>8. \A s \in ListSections \ {subject} : ShowsTheSame(s, r[s], q[s])
  BY <1>1, <1>6, <1>7, ListsShowThemselves DEF KeyedSections
<1>9. subject \notin {"identity", "social", "media"}
      /\ {"identity", "social", "media"} \subseteq DOMAIN doc
  BY <1>1, <1>6 DEF ListSections, KEYED_ARRAY_SECTIONS, ObjectSections
<1>10. RecordsShowTheSame(r, q)
  BY <1>3, <1>7, <1>8, <1>9 DEF RecordsShowTheSame
<1> QED BY <1>4, <1>5, <1>10, DecksLookAlike DEF PreviewsTheDeck, doc

LEMMA ObjectPreviews ==
  ASSUME FieldsInv, subject \in ObjectSections, NEW d \in Drafts(subject),
         subject = "social" => d["links"] # Null
  PROVE  PreviewsTheDeck(d)
<1> DEFINE doc == Record(stored)
           read == HydratedFields(subject, Updated(subject, d))
<1>1. /\ DOMAIN stored = ListSections \cup ObjectSections
      /\ DOMAIN stored[subject] = FieldsOf(Layers[subject].dto)
      /\ subject \notin ListSections /\ subject \in DOMAIN stored
  BY DEF FieldsInv, PortfolioInv, ObjectSections, ListSections, KEYED_ARRAY_SECTIONS
<1>2. doc[subject] = HydratedFields(subject, stored[subject])
  BY <1>1 DEF Record, OnSection
<1>3. \A c : OnSection(subject, c, HydratedFields) = HydratedFields(subject, c)
  BY <1>1 DEF OnSection
<1>4. Record([stored EXCEPT ![subject] = Updated(subject, d)]) = [doc EXCEPT ![subject] = read]
  BY <1>1, <1>3, RecordOfAnUpdate
<1>5. DOMAIN d = FieldsOf(Layers[subject].dto)
  BY ObjectDrafts
<1>6. read = [f \in DOMAIN doc[subject] |->
                IF d[f] = Undefined \/ (f = "links" /\ d[f] = Null)
                THEN doc[subject][f] ELSE d[f]]
  BY <1>1, <1>2, <1>5, ObjectsArePreviewed
<1> HIDE DEF doc, read
<1>7. applyDraft(doc, subject, d) = [doc EXCEPT ![subject] = read]
  BY <1>1, <1>6 DEF applyDraft
<1> QED BY <1>4, <1>7 DEF PreviewsTheDeck, doc

\* The deck of a preview is the deck the profile has once the draft is accepted, whatever
\* the profile holds and however old it is: of every draft that does not say null of the
\* links (applyDraft).
THEOREM PreviewsAreTrue == Spec => []PreviewIsTheDeckUnlessCleared
<1>1. FieldsInv => PreviewIsTheDeckUnlessCleared
  <2> SUFFICES ASSUME FieldsInv, subject \in Generated, NEW d \in Drafts(subject),
                      subject = "social" => d["links"] # Null
               PROVE  PreviewsTheDeck(d)
    BY DEF PreviewIsTheDeckUnlessCleared
  <2>1. subject \in ListSections \ {"media"} \/ subject \in ObjectSections
    BY DEF Generated
  <2> QED BY <2>1, ListPreviews, ObjectPreviews
<1> QED BY <1>1, FieldsInductive, PTL

=============================================================================
