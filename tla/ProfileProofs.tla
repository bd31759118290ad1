----------------------------- MODULE ProfileProofs -----------------------------
(***************************************************************************)
(* Theorems about ProfileStore, for any catalog, patches and requests.     *)
(***************************************************************************)
EXTENDS ProfileStore, TLAPS

-----------------------------------------------------------------------------
(* What merging, judging and storing make of a stack.                      *)

\* What Valid leaves of a stack when entries of the catalog are retired.
Sound(s) ==
  /\ s.language.primary \in SttLanguages[s.stt.model]
  /\ s.language.primary \in VoiceLanguages[s.tts.voice]
  /\ s.language.reply = "match_visitor" =>
       s.language.listen = "multilingual" /\ s.stt.model \in Multilingual

\* A stack with a preset's name is its engine.
Named(s) == s.preset # None => Engine(s) = Engine(PresetStack[s.preset])

\* Valid stacks are sound.
LEMMA ValidIsSound ==
  ASSUME NEW c, NEW s, Valid(c, s)
  PROVE  Sound(s)
BY DEF Valid, Sound

\* Presets are stacks, of their own name.
LEMMA PresetTypes ==
  ASSUME NEW p \in Presets
  PROVE  PresetStack[p] \in Stack /\ PresetStack[p].preset = p
BY StackAssumption

\* A preset under the owner's keyterms and perhaps language is a stack with the
\* preset's engine.
LEMMA ApplyPresetTypes ==
  ASSUME NEW c, NEW current \in Stack, NEW p \in Presets
  PROVE  applyPreset(c, current, p) \in Merged /\ Named(applyPreset(c, current, p))
<1> DEFINE chosen == [PresetStack[p] EXCEPT !.stt.keyterms = current.stt.keyterms]
           keeping == [chosen EXCEPT !.language.primary = current.language.primary]
<1>1. PresetStack[p] \in Stack /\ PresetStack[p].preset = p
  BY PresetTypes
<1>2. current.stt.keyterms \in Keyterms \cup {None} /\ current.language.primary \in Languages
  BY DEF Stack
<1>3. chosen \in Stack /\ chosen.preset = p /\ Engine(chosen) = Engine(PresetStack[p])
  BY <1>1, <1>2 DEF Stack, Engine
<1>4. keeping \in Stack /\ keeping.preset = p /\ Engine(keeping) = Engine(PresetStack[p])
  BY <1>2, <1>3 DEF Stack, Engine
<1>5. applyPreset(c, current, p) \in {chosen, keeping}
  BY DEF applyPreset
<1>6. Stack \subseteq Merged
  BY DEF Stack, Merged, Opt, Absent
<1> QED BY <1>3, <1>4, <1>5, <1>6 DEF Named

\* What is merged and judged valid has every field but those with a default.
LEMMA MergeTypes ==
  ASSUME NEW c \in Catalog, NEW current \in Stack, NEW patch \in Patch,
         Named(current),
         Valid(c, mergeAgentStack(c, current, patch))
  PROVE  /\ mergeAgentStack(c, current, patch) \in Merged
         /\ Named(mergeAgentStack(c, current, patch))
<1> DEFINE m == mergeAgentStack(c, current, patch)
<1>1. CASE patch.preset \in c.presets
  BY <1>1, ApplyPresetTypes DEF mergeAgentStack, Catalog
<1>2. CASE patch.preset \notin c.presets
  <2>1. m = [preset |-> IF patch.preset = None \/ touchesEngine(patch) THEN None
                        ELSE Else(patch.preset, current.preset),
             pipeline |-> Else(patch.pipeline, current.pipeline),
             language |-> Else(patch.language, current.language),
             stt |-> Else(patch.stt, current.stt),
             llm |-> Else(patch.llm, current.llm),
             tts |-> Else(patch.tts, current.tts),
             turnTaking |-> Else(patch.turnTaking, current.turnTaking)]
    BY <1>2 DEF mergeAgentStack
  <2>2. m.preset \in Presets \cup {None}
    BY <2>1 DEF Else, Patch, Opt, Stack, Absent
  <2>3. m.pipeline \in Pipelines
    BY <2>1 DEF Else, Patch, Opt, Stack
  <2>4. m.language \in [primary : Languages, listen : Opt(ListenMode), reply : Opt(ReplyLanguage)]
    <3>1. m.language.primary \in Languages
      BY DEF Valid, Catalog
    <3>2. CASE patch.language \in Absent
      BY <2>1, <3>2 DEF Else, Stack, Opt
    <3>3. CASE patch.language \notin Absent
      BY <2>1, <3>1, <3>3 DEF Else, Patch, Opt
    <3> QED BY <3>2, <3>3
  <2>5. m.stt \in [model : SttModels, keyterms : Opt(Keyterms)]
    <3>1. m.stt.model \in SttModels
      BY DEF Valid, Catalog
    <3>2. CASE patch.stt \in Absent
      BY <2>1, <3>2 DEF Else, Stack, Opt, Absent
    <3>3. CASE patch.stt \notin Absent
      BY <2>1, <3>1, <3>3 DEF Else, Patch, Opt
    <3> QED BY <3>2, <3>3
  <2>6. m.llm \in [model : LlmModels]
    <3>1. m.llm.model \in LlmModels
      BY DEF Valid, Catalog
    <3> QED BY <2>1, <3>1 DEF Else, Patch, Opt, Stack
  <2>7. m.tts \in [voice : Voices]
    <3>1. m.tts.voice \in Voices
      BY DEF Valid, Catalog
    <3> QED BY <2>1, <3>1 DEF Else, Patch, Opt, Stack
  <2>8. m.turnTaking \in [patience : Opt(Patience)]
    BY <2>1 DEF Else, Patch, Opt, Stack
  <2>9. m \in Merged
    BY <2>1, <2>2, <2>3, <2>4, <2>5, <2>6, <2>7, <2>8 DEF Merged
  <2>10. Named(m)
    <3>1. SUFFICES ASSUME m.preset # None
                   PROVE  Engine(m) = Engine(PresetStack[m.preset])
      BY DEF Named
    <3>2. ~touchesEngine(patch) /\ m.preset = Else(patch.preset, current.preset)
      BY <2>1, <3>1
    <3>3. Engine(m) = Engine(current)
      BY <2>1, <3>2 DEF touchesEngine, Else, Absent, Engine
    <3>4. patch.preset \in Absent
      \* an unknown preset is not valid
      BY <1>2, <3>1, <3>2 DEF Valid, Else
    <3> QED BY <3>1, <3>2, <3>3, <3>4 DEF Else, Named
  <2> QED BY <2>9, <2>10
<1> QED BY <1>1, <1>2

\* Storing fills in what is undefined and keeps a sound stack sound, and named.
LEMMA CastTypes ==
  ASSUME NEW s \in Merged, Storable(s), Sound(s), Named(s)
  PROVE  Cast(s) \in Stack /\ Sound(Cast(s)) /\ Named(Cast(s))
<1>1. DefaultStack \in Stack
  BY StackAssumption, PresetTypes DEF DefaultStack
<1>2. Cast(s) = [preset |-> s.preset,
                 pipeline |-> s.pipeline,
                 language |->
                   [primary |-> s.language.primary,
                    listen |-> OrDefault(s.language.listen, DefaultStack.language.listen),
                    reply |-> OrDefault(s.language.reply, DefaultStack.language.reply)],
                 stt |-> [model |-> s.stt.model,
                          keyterms |-> OrDefault(s.stt.keyterms, NoKeyterms)],
                 llm |-> s.llm,
                 tts |-> s.tts,
                 turnTaking |-> [patience |-> OrDefault(s.turnTaking.patience,
                                                        DefaultStack.turnTaking.patience)]]
  BY DEF Cast
<1>3. Cast(s).language \in [primary : Languages, listen : ListenMode, reply : ReplyLanguage]
  <2>1. OrDefault(s.language.listen, DefaultStack.language.listen) \in ListenMode
    BY <1>1 DEF Merged, Storable, OrDefault, Stack, Opt, Absent
  <2>2. OrDefault(s.language.reply, DefaultStack.language.reply) \in ReplyLanguage
    BY <1>1 DEF Merged, Storable, OrDefault, Stack, Opt, Absent
  <2> QED BY <1>2, <2>1, <2>2 DEF Merged
<1>4. Cast(s).stt \in [model : SttModels, keyterms : Keyterms \cup {None}]
  BY <1>2, StackAssumption DEF Merged, OrDefault, Opt, Absent
<1>5. Cast(s).turnTaking \in [patience : Patience]
  BY <1>1, <1>2 DEF Merged, Storable, OrDefault, Stack, Opt, Absent
<1>6. Cast(s) \in Stack
  BY <1>2, <1>3, <1>4, <1>5 DEF Stack, Merged
<1>7. Sound(Cast(s))
  BY <1>2, StackAssumption DEF Sound, OrDefault
<1>8. Named(Cast(s))
  <2>1. SUFFICES ASSUME s.preset # None
                 PROVE  Engine(Cast(s)) = Engine(PresetStack[s.preset])
    BY <1>2 DEF Named
  <2>2. s.preset \in Presets
    BY <2>1 DEF Merged
  <2>3. s.turnTaking \in [patience : Patience] /\ Engine(s) = Engine(PresetStack[s.preset])
    BY <2>1, <2>2, PresetTypes DEF Named, Engine, Stack
  <2>4. Undefined \notin Patience
    BY AbsentAssumption DEF Absent
  <2>5. Cast(s).turnTaking = s.turnTaking
    BY <1>2, <2>3, <2>4 DEF OrDefault
  <2> QED BY <1>2, <2>3, <2>5 DEF Engine
<1> QED BY <1>6, <1>7, <1>8

\* A new profile has the default.
LEMMA DefaultTypes == DefaultStack \in Stack /\ Sound(DefaultStack) /\ Named(DefaultStack)
<1>1. Valid(FullCatalog, DefaultStack)
  BY StackAssumption DEF Released, DefaultStack, FullCatalog
<1> QED BY <1>1, ValidIsSound, StackAssumption, PresetTypes DEF DefaultStack, Named

\* Whatever has been retired since, a sound stack is served as one that works.
LEMMA SoundWorks ==
  ASSUME NEW c, Released(c), NEW s \in Stack, Sound(s),
         NEW a \in resolveAgentStack(c, s)
  PROVE  Works(a)
<1> DEFINE primary == KnownOr(s.language.primary, c.languages, DefaultStack.language.primary)
           stt == KnownOr(s.stt.model, c.stt, DefaultStack.stt.model)
           voice == KnownOr(s.tts.voice, c.voices, DefaultStack.tts.voice)
<1>1. /\ a.primary = primary
      /\ a.stt = stt
      /\ a.voice = voice
      /\ a.reply = s.language.reply
      /\ a.multi = (s.language.listen = "multilingual" /\ stt \in Multilingual)
  BY DEF resolveAgentStack
<1>2. DefaultStack \in Stack /\ Valid(c, DefaultStack)
  BY DefaultTypes DEF Released, DefaultStack
<1>3. \A l \in c.languages : l \in SttLanguages[DefaultStack.stt.model]
                             /\ l \in VoiceLanguages[DefaultStack.tts.voice]
  <2> TAKE l \in c.languages
  <2>1. Valid(c, [DefaultStack EXCEPT !.language.primary = l])
    BY DEF Released
  <2>2. /\ [DefaultStack EXCEPT !.language.primary = l].language.primary = l
        /\ [DefaultStack EXCEPT !.language.primary = l].stt = DefaultStack.stt
        /\ [DefaultStack EXCEPT !.language.primary = l].tts = DefaultStack.tts
    BY <1>2 DEF Stack
  <2> QED BY <2>1, <2>2 DEF Valid
<1>4. s.stt.model \in SttModels /\ s.tts.voice \in Voices
  BY DEF Stack
<1>5. /\ DefaultStack.language.primary \in SttLanguages[s.stt.model]
      /\ DefaultStack.language.primary \in VoiceLanguages[s.tts.voice]
      /\ DefaultStack.language.primary \in SttLanguages[DefaultStack.stt.model]
      /\ DefaultStack.language.primary \in VoiceLanguages[DefaultStack.tts.voice]
  BY <1>2, <1>4, StackAssumption DEF Valid
<1>6. primary \in SttLanguages[stt]
  BY <1>3, <1>5 DEF KnownOr, Sound
<1>7. primary \in VoiceLanguages[voice]
  BY <1>3, <1>5 DEF KnownOr, Sound
<1>8. DefaultStack.stt.model \in Multilingual
  BY <1>2, StackAssumption DEF Valid
<1>9. s.language.reply = "match_visitor" => a.multi
  BY <1>1, <1>8 DEF Sound, KnownOr
<1> QED BY <1>1, <1>6, <1>7, <1>9 DEF Works

-----------------------------------------------------------------------------
(* The invariant.  What a request is about to write is as good as what is  *)
(* stored, whoever has written since: Sound and Named speak of one stack   *)
(* and no catalog, and a stack is written whole.                           *)

Protects(v) == v.protectedPassword => v.visibility = "protected"

Good(p) == Sound(p.agentStack) /\ Named(p.agentStack) /\ Protects(p)

Pending(w) ==
  /\ w.step = "create" => Protects(w.visibility)
  /\ w.step = "update" =>
       /\ w.agentStack # Undefined => Sound(w.agentStack) /\ Named(w.agentStack)
       /\ w.visibility # Undefined => Protects(w.visibility)

StoreInv ==
  /\ TypeOK
  /\ \A u \in Users : \A p, q \in profiles[u] : p = q
  /\ \A u \in Users : \A p \in profiles[u] : Good(p)
  /\ \A r \in Slots : \A w \in requests[r] : Pending(w)

\* One profile is replaced by a good one, or removed.
LEMMA ProfilesChange ==
  ASSUME StoreInv, NEW u \in Users, NEW S \in SUBSET Profile,
         \A p, q \in S : p = q,
         \A p \in S : Good(p),
         profiles' = [profiles EXCEPT ![u] = S]
  PROVE  /\ profiles' \in [Users -> SUBSET Profile]
         /\ \A v \in Users : \A p, q \in profiles'[v] : p = q
         /\ \A v \in Users : \A p \in profiles'[v] : Good(p)
BY DEF StoreInv, TypeOK

\* A request goes on to write, or ends.
LEMMA RequestsChange ==
  ASSUME StoreInv, NEW r \in Slots, NEW S \in SUBSET Request,
         \A w \in S : Pending(w),
         requests' = [requests EXCEPT ![r] = S]
  PROVE  /\ requests' \in [Slots -> SUBSET Request]
         /\ \A s \in Slots : \A w \in requests'[s] : Pending(w)
BY DEF StoreInv, TypeOK

LEMMA BeginCreateKeeps ==
  ASSUME StoreInv, NEW r \in Slots, NEW u \in Users, BeginCreate(r, u)
  PROVE  StoreInv'
<1>1. PICK v \in VisibilityPatch :
        /\ v.visibility = "protected" <=> v.protectedPassword
        /\ requests' = [requests EXCEPT ![r] =
                          {[step |-> "create", user |-> u, visibility |-> v]}]
  BY DEF BeginCreate
<1> DEFINE w == [step |-> "create", user |-> u, visibility |-> v]
<1>2. w \in Request /\ Pending(w)
  BY <1>1 DEF Request, Pending, Protects
<1>3. /\ requests' \in [Slots -> SUBSET Request]
      /\ \A s \in Slots : \A x \in requests'[s] : Pending(x)
  <2> HIDE DEF w
  <2>1. {w} \in SUBSET Request /\ \A x \in {w} : Pending(x)
    BY <1>2
  <2>2. requests' = [requests EXCEPT ![r] = {w}]
    BY <1>1 DEF w
  <2> QED BY <2>1, <2>2, RequestsChange
<1> QED BY <1>3 DEF BeginCreate, StoreInv, TypeOK

LEMMA BeginUpdateKeeps ==
  ASSUME StoreInv, NEW r \in Slots, NEW u \in Users, BeginUpdate(r, u)
  PROVE  StoreInv'
<1>0. PICK p \in profiles[u], body \in Bodies :
        \E stack \in IF body.agentStack = Undefined THEN {Undefined}
                     ELSE toAgentStack(p.agentStack, body.agentStack) :
          requests' = [requests EXCEPT ![r] =
            {[step |-> "update",
              id |-> p.id,
              agentStack |-> stack,
              visibility |-> IF body.visibility = Undefined THEN Undefined
                             ELSE toVisibilityFields(body.visibility)]}]
  BY DEF BeginUpdate
<1>1. PICK stack \in IF body.agentStack = Undefined THEN {Undefined}
                     ELSE toAgentStack(p.agentStack, body.agentStack) :
        requests' = [requests EXCEPT ![r] =
          {[step |-> "update",
            id |-> p.id,
            agentStack |-> stack,
            visibility |-> IF body.visibility = Undefined THEN Undefined
                           ELSE toVisibilityFields(body.visibility)]}]
  BY <1>0
<1>2. p \in Profile /\ Good(p) /\ p.agentStack \in Stack
  BY DEF StoreInv, TypeOK, Profile
<1>3. body \in Body
  BY ProfileAssumption
<1>4. stack \in Merged \cup {Undefined} /\ (stack # Undefined => Sound(stack) /\ Named(stack))
  <2>1. CASE body.agentStack = Undefined
    BY <1>1, <2>1
  <2>2. CASE body.agentStack # Undefined
    <3>1. body.agentStack \in Patch
      BY <1>3, <2>2 DEF Body
    <3>2. stack = mergeAgentStack(offered, p.agentStack, body.agentStack) /\ Valid(offered, stack)
      BY <1>1, <2>2 DEF toAgentStack
    <3>3. offered \in Catalog
      BY ProfileAssumption DEF StoreInv, TypeOK
    <3> QED BY <1>2, <3>1, <3>2, <3>3, MergeTypes, ValidIsSound DEF Good
  <2> QED BY <2>1, <2>2
<1> DEFINE v == IF body.visibility = Undefined THEN Undefined
                ELSE toVisibilityFields(body.visibility)
           w == [step |-> "update", id |-> p.id, agentStack |-> stack, visibility |-> v]
<1>5. v \in VisibilityPatch \cup {Undefined} /\ (v # Undefined => Protects(v))
  BY <1>3 DEF Body, VisibilityPatch, toVisibilityFields, Protects
<1>6. w \in Request /\ Pending(w)
  <2> HIDE DEF v
  <2> QED BY <1>2, <1>4, <1>5 DEF Request, Pending, Profile
<1>7. /\ requests' \in [Slots -> SUBSET Request]
      /\ \A s \in Slots : \A x \in requests'[s] : Pending(x)
  <2>1. requests' = [requests EXCEPT ![r] = {w}]
    BY <1>1
  <2> HIDE DEF w
  <2>2. {w} \in SUBSET Request /\ \A x \in {w} : Pending(x)
    BY <1>6
  <2> QED BY <2>1, <2>2, RequestsChange
<1> QED BY <1>7 DEF BeginUpdate, StoreInv, TypeOK

\* A request that ends is no longer pending.
LEMMA DoneKeeps ==
  ASSUME StoreInv, NEW r \in Slots, Done(r)
  PROVE  /\ requests' \in [Slots -> SUBSET Request]
         /\ \A s \in Slots : \A w \in requests'[s] : Pending(w)
BY DEF StoreInv, TypeOK, Done

LEMMA InsertKeeps ==
  ASSUME StoreInv, NEW r \in Slots, Insert(r)
  PROVE  StoreInv'
<1>1. PICK w \in requests[r], d \in Ids \ minted :
        /\ w.step = "create"
        /\ profiles' = [profiles EXCEPT ![w.user] =
                          {[id |-> d,
                            visibility |-> w.visibility.visibility,
                            protectedPassword |-> w.visibility.protectedPassword,
                            agentStack |-> DefaultStack]}]
        /\ minted' = minted \cup {d}
        /\ Done(r)
        /\ UNCHANGED offered
  BY DEF Insert
<1> DEFINE p == [id |-> d,
                 visibility |-> w.visibility.visibility,
                 protectedPassword |-> w.visibility.protectedPassword,
                 agentStack |-> DefaultStack]
<1>2. w \in Request /\ Pending(w)
  BY DEF StoreInv, TypeOK
<1>3. w.user \in Users /\ w.visibility \in VisibilityPatch /\ Protects(w.visibility)
  BY <1>1, <1>2 DEF Request, Pending
<1>4. p \in Profile /\ Good(p)
  BY <1>3, DefaultTypes DEF Profile, VisibilityPatch, Good, Protects
<1>5. /\ profiles' \in [Users -> SUBSET Profile]
      /\ \A v \in Users : \A x, y \in profiles'[v] : x = y
      /\ \A v \in Users : \A x \in profiles'[v] : Good(x)
  <2>1. profiles' = [profiles EXCEPT ![w.user] = {p}]
    BY <1>1
  <2> HIDE DEF p
  <2>2. {p} \in SUBSET Profile /\ \A x \in {p} : Good(x)
    BY <1>4
  <2> QED BY <1>3, <2>1, <2>2, ProfilesChange
<1> QED BY <1>1, <1>5, DoneKeeps DEF StoreInv, TypeOK

\* What an update makes of the profile it finds.
LEMMA SetTypes ==
  ASSUME NEW p \in Profile, Good(p), NEW w \in Request, Pending(w), w.step = "update",
         w.agentStack # Undefined => Storable(w.agentStack)
  PROVE  Set(p, w) \in Profile /\ Good(Set(p, w)) /\ Set(p, w).id = p.id
<1>1. w.agentStack \in Merged \cup {Undefined} /\ w.visibility \in VisibilityPatch \cup {Undefined}
  BY DEF Request
<1>2. Set(p, w).id = p.id /\ p.id \in Ids
  BY DEF Set, Profile
<1>3. /\ Set(p, w).visibility \in Visibility
      /\ Set(p, w).protectedPassword \in BOOLEAN
      /\ Protects(Set(p, w))
  <2>1. CASE w.visibility = Undefined
    BY <2>1 DEF Set, Profile, Good, Protects
  <2>2. CASE w.visibility # Undefined
    BY <1>1, <2>2 DEF Set, VisibilityPatch, Pending, Protects
  <2> QED BY <2>1, <2>2
<1>4. Set(p, w).agentStack \in Stack /\ Sound(Set(p, w).agentStack) /\ Named(Set(p, w).agentStack)
  <2>1. CASE w.agentStack = Undefined
    BY <2>1 DEF Set, Profile, Good
  <2>2. CASE w.agentStack # Undefined
    BY <1>1, <2>2, CastTypes DEF Set, Pending
  <2> QED BY <2>1, <2>2
<1>5. Set(p, w) = [id |-> Set(p, w).id, visibility |-> Set(p, w).visibility,
                   protectedPassword |-> Set(p, w).protectedPassword,
                   agentStack |-> Set(p, w).agentStack]
  BY DEF Set
<1>6. Set(p, w) \in Profile
  BY <1>2, <1>3, <1>4, <1>5 DEF Profile
<1> QED BY <1>2, <1>3, <1>4, <1>6 DEF Good

LEMMA UpdateKeeps ==
  ASSUME StoreInv, NEW r \in Slots, Update(r)
  PROVE  StoreInv'
<1>0. PICK w \in requests[r], u \in Users :
        /\ w.step = "update"
        /\ w.agentStack # Undefined => Storable(w.agentStack)
        /\ \E p \in profiles[u] : profiles' = [profiles EXCEPT ![u] = {Set(p, w)}]
  BY DEF Update
<1>1. PICK p \in profiles[u] : profiles' = [profiles EXCEPT ![u] = {Set(p, w)}]
  BY <1>0
<1>2. p \in Profile /\ Good(p) /\ w \in Request /\ Pending(w)
  BY DEF StoreInv, TypeOK
<1>3. {Set(p, w)} \in SUBSET Profile /\ \A x \in {Set(p, w)} : Good(x)
  BY <1>0, <1>2, SetTypes
<1>4. /\ profiles' \in [Users -> SUBSET Profile]
      /\ \A v \in Users : \A x, y \in profiles'[v] : x = y
      /\ \A v \in Users : \A x \in profiles'[v] : Good(x)
  BY <1>1, <1>3, ProfilesChange
<1> QED BY <1>4, DoneKeeps DEF Update, StoreInv, TypeOK

LEMMA Inductive == StoreInv /\ [Next]_vars => StoreInv'
<1> SUFFICES ASSUME StoreInv, [Next]_vars PROVE StoreInv'
  OBVIOUS
<1>1. ASSUME NEW r \in Slots, NEW u \in Users, BeginCreate(r, u) PROVE StoreInv'
  BY <1>1, BeginCreateKeeps
<1>2. ASSUME NEW r \in Slots, NEW u \in Users, BeginUpdate(r, u) PROVE StoreInv'
  BY <1>2, BeginUpdateKeeps
<1>3. ASSUME NEW r \in Slots, Insert(r) PROVE StoreInv'
  BY <1>3, InsertKeeps
<1>4. ASSUME NEW r \in Slots, Update(r) PROVE StoreInv'
  BY <1>4, UpdateKeeps
<1>5. ASSUME NEW r \in Slots, RequestFails(r) PROVE StoreInv'
  BY <1>5, DoneKeeps DEF RequestFails, StoreInv, TypeOK
<1>6. ASSUME NEW u \in Users, DeleteProfile(u) PROVE StoreInv'
  <2>1. {} \in SUBSET Profile /\ profiles' = [profiles EXCEPT ![u] = {}]
    BY <1>6 DEF DeleteProfile
  <2> QED BY <1>6, <2>1, ProfilesChange DEF DeleteProfile, StoreInv, TypeOK
<1>7. CASE Deploy
  BY <1>7 DEF Deploy, StoreInv, TypeOK
<1>8. CASE UNCHANGED vars
  BY <1>8 DEF vars, StoreInv, TypeOK
<1> QED BY <1>1, <1>2, <1>3, <1>4, <1>5, <1>6, <1>7, <1>8 DEF Next

\* What is stored, and what a request is about to write, is good: over any stale
\* merges, deletions and deployments.
THEOREM Invariance == Spec => []StoreInv
<1>1. Init => StoreInv
  BY ProfileAssumption DEF Init, StoreInv, TypeOK
<1> QED BY <1>1, Inductive, PTL DEF Spec

\* A stored stack has every field of its type, whatever a patch left undefined.
THEOREM TypeCorrect == Spec => []TypeOK
<1>1. StoreInv => TypeOK
  BY DEF StoreInv
<1> QED BY <1>1, Invariance, PTL

\* Whatever an owner stored and whatever was retired since, what the voice worker
\* is given works.
THEOREM StacksWork == Spec => []ServedStackWorks
<1>1. StoreInv => ServedStackWorks
  <2> SUFFICES ASSUME StoreInv, NEW u \in Users, NEW p \in profiles[u],
                      NEW a \in resolveAgentStack(offered, p.agentStack)
               PROVE  Works(a)
    BY DEF ServedStackWorks
  <2>1. p.agentStack \in Stack /\ Sound(p.agentStack)
    BY DEF StoreInv, TypeOK, Profile, Good
  <2>2. Released(offered)
    BY ProfileAssumption DEF StoreInv, TypeOK
  <2> QED BY <2>1, <2>2, SoundWorks
<1> QED BY <1>1, Invariance, PTL

\* A stack with a preset's name is that preset's engine, always.
THEOREM PresetsAreKept == Spec => []PresetIsWhatItSays
<1>1. StoreInv => PresetIsWhatItSays
  BY DEF StoreInv, Good, Named, PresetIsWhatItSays
<1> QED BY <1>1, Invariance, PTL

\* No hash is kept for a profile that is not protected.
THEOREM HashesAreCleared == Spec => []NoHashUnlessProtected
<1>1. StoreInv => NoHashUnlessProtected
  BY DEF StoreInv, Good, Protects, NoHashUnlessProtected
<1> QED BY <1>1, Invariance, PTL

\* A profile is only ever changed by an update that read it.
THEOREM UpdatesAreForOneProfile == Spec => UpdatesHitWhatTheyRead
<1> DEFINE Hit(u, p, q) ==
             p # q => \E r \in Slots : \E w \in requests[r] :
                        w.step = "update" /\ w.id = p.id /\ q = Set(p, w)
<1>1. ASSUME StoreInv, [Next]_vars,
             NEW u \in Users, NEW p \in profiles[u], NEW q \in profiles'[u]
      PROVE  Hit(u, p, q)
  <2>1. ASSUME NEW r \in Slots, Insert(r) PROVE Hit(u, p, q)
    \* the profile that is created was not there
    BY <1>1, <2>1 DEF Insert, StoreInv, TypeOK
  <2>2. ASSUME NEW r \in Slots, Update(r) PROVE Hit(u, p, q)
    <3>0. PICK w \in requests[r], v \in Users :
            /\ w.step = "update"
            /\ \E x \in profiles[v] :
                 x.id = w.id /\ profiles' = [profiles EXCEPT ![v] = {Set(x, w)}]
      BY <2>2 DEF Update
    <3>1. PICK x \in profiles[v] :
            x.id = w.id /\ profiles' = [profiles EXCEPT ![v] = {Set(x, w)}]
      BY <3>0
    <3>2. CASE u = v
      BY <1>1, <3>0, <3>1, <3>2 DEF StoreInv, TypeOK
    <3>3. CASE u # v
      BY <1>1, <3>0, <3>1, <3>3 DEF StoreInv, TypeOK
    <3> QED BY <3>2, <3>3
  <2>3. ASSUME NEW v \in Users, DeleteProfile(v) PROVE Hit(u, p, q)
    BY <1>1, <2>3 DEF DeleteProfile, StoreInv, TypeOK
  <2>4. CASE UNCHANGED profiles
    BY <1>1, <2>4 DEF StoreInv
  <2> QED BY <1>1, <2>1, <2>2, <2>3, <2>4
             DEF Next, BeginCreate, BeginUpdate, RequestFails, Deploy, vars
<1>2. StoreInv /\ [Next]_vars =>
        [\A u \in Users : \A p \in profiles[u], q \in profiles'[u] : Hit(u, p, q)]_vars
  BY <1>1
<1> QED BY <1>2, Invariance, PTL DEF Spec, UpdatesHitWhatTheyRead
===============================================================================
