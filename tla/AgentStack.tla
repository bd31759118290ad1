------------------------------ MODULE AgentStack ------------------------------
(***************************************************************************)
(* agent-stack.rules.ts over the catalog of catalog.ts: merge a patch into *)
(* a stack, judge the whole, resolve it into what the voice worker builds. *)
(* A catalog is the record of the ids on offer; the ids' properties do not *)
(* change when the offer does.                                             *)
(*                                                                         *)
(* Left out: speed and allowInterruptions, which are carried about exactly *)
(* as patience is, and the terms resolveAgentStack adds from the profile.  *)
(***************************************************************************)
CONSTANTS
  Languages,        \* catalog ids, of all times
  SttModels,
  LlmModels,
  Voices,           \* voices of a listed model, custom ones included
  Presets,
  Keyterms,         \* lists of terms, among them
  NoKeyterms,       \* the empty one
  Patience,
  Pipelines,        \* kinds, among them
  SttLlmTts,        \* the one that is shipped
  SttLanguages,     \* [SttModels -> SUBSET Languages], what sttSpeaks
  Multilingual,     \* the listening models that follow several languages
  TakesKeyterms,    \* the listening models that accept a list of terms
  VoiceLanguages,   \* [Voices -> SUBSET Languages], of the voice's model
  PresetStack,      \* [Presets -> Stack]
  DefaultPreset,
  None,             \* null
  Undefined

ListenMode == {"primary", "multilingual"}
ReplyLanguage == {"primary", "match_visitor"}

\* Keyterms is the one field whose null is stored: an array is not required.
Stack ==
  [preset : Presets \cup {None},
   pipeline : Pipelines,
   language : [primary : Languages, listen : ListenMode, reply : ReplyLanguage],
   stt : [model : SttModels, keyterms : Keyterms \cup {None}],
   llm : [model : LlmModels],
   tts : [voice : Voices],
   turnTaking : [patience : Patience]]

DefaultStack == PresetStack[DefaultPreset]

\* @IsOptional() lets both pass.
Absent == {Undefined, None}
Opt(S) == S \cup Absent

\* The agentStack of PATCH /profiles/me.  A group that was sent is an instance
\* of its class, which defines every field of it: undefined if it was not sent.
Patch ==
  [preset : Opt(Presets),
   pipeline : Opt(Pipelines),
   language : Opt([primary : Opt(Languages), listen : Opt(ListenMode),
                   reply : Opt(ReplyLanguage)]),
   stt : Opt([model : Opt(SttModels), keyterms : Opt(Keyterms)]),
   llm : Opt([model : Opt(LlmModels)]),
   tts : Opt([voice : Opt(Voices)]),
   turnTaking : Opt([patience : Opt(Patience)])]

Catalog ==
  [languages : SUBSET Languages, stt : SUBSET SttModels, llm : SUBSET LlmModels,
   voices : SUBSET Voices, presets : SUBSET Presets]

\* The decorators of the body: an id that was sent is on offer.
Accepted(c, patch) ==
  /\ patch.preset \in Opt(c.presets)
  /\ patch.language \notin Absent => patch.language.primary \in Opt(c.languages)
  /\ patch.stt \notin Absent => patch.stt.model \in Opt(c.stt)
  /\ patch.llm \notin Absent => patch.llm.model \in Opt(c.llm)
  /\ patch.tts \notin Absent => patch.tts.voice \in Opt(c.voices)

-----------------------------------------------------------------------------

\* A plausible slip: nothing asks for multilingual listening when the reply is to
\* be in the visitor's language.
MutantValid(c, s) ==
  /\ s.preset # None => s.preset \in c.presets
  /\ s.pipeline = SttLlmTts
  /\ s.language.primary \in c.languages
  /\ s.stt.model \in c.stt
  /\ s.language.primary \in SttLanguages[s.stt.model]
  /\ s.language.listen = "multilingual" => s.stt.model \in Multilingual
  /\ s.llm.model \in c.llm
  /\ s.tts.voice \in c.voices
  /\ s.language.primary \in VoiceLanguages[s.tts.voice]

\* validateAgentStack finds no problem.
Valid(c, s) ==
  /\ s.preset # None => s.preset \in c.presets
  /\ s.pipeline = SttLlmTts
  /\ s.language.primary \in c.languages
  /\ s.stt.model \in c.stt
  /\ s.language.primary \in SttLanguages[s.stt.model]
  /\ s.language.listen = "multilingual" => s.stt.model \in Multilingual
  /\ s.language.reply = "match_visitor" => s.language.listen = "multilingual"
  /\ s.llm.model \in c.llm
  /\ s.tts.voice \in c.voices
  /\ s.language.primary \in VoiceLanguages[s.tts.voice]

\* The preset's engine under the owner's primary language, if that makes a
\* valid stack, and with the owner's keyterms.
applyPreset(c, current, p) ==
  LET chosen == [PresetStack[p] EXCEPT !.stt.keyterms = current.stt.keyterms]
      keepingLanguage == [chosen EXCEPT !.language.primary = current.language.primary]
  IN  IF Valid(c, keepingLanguage) THEN keepingLanguage ELSE chosen

\* sent ?? stored, and { ...stored, ...sent } of a group, of which every field
\* is there, be it undefined.
Else(sent, stored) == IF sent \in Absent THEN stored ELSE sent

\* A plausible slip: the voice is left out of ENGINE_GROUPS.
MutantTouchesEngine(patch) ==
  \/ patch.pipeline # Undefined
  \/ patch.stt # Undefined
  \/ patch.llm # Undefined
  \/ patch.turnTaking # Undefined

touchesEngine(patch) ==
  \/ patch.pipeline # Undefined
  \/ patch.stt # Undefined
  \/ patch.llm # Undefined
  \/ patch.tts # Undefined
  \/ patch.turnTaking # Undefined

mergeAgentStack(c, current, patch) ==
  IF patch.preset \in c.presets THEN applyPreset(c, current, patch.preset)
  ELSE [preset |-> IF patch.preset = None \/ touchesEngine(patch) THEN None
                   ELSE Else(patch.preset, current.preset),
        pipeline |-> Else(patch.pipeline, current.pipeline),
        language |-> Else(patch.language, current.language),
        stt |-> Else(patch.stt, current.stt),
        llm |-> Else(patch.llm, current.llm),
        tts |-> Else(patch.tts, current.tts),
        turnTaking |-> Else(patch.turnTaking, current.turnTaking)]

\* [ ...current.stt.keyterms ] throws on null.
MergeThrows(c, current, patch) ==
  patch.preset \in c.presets /\ current.stt.keyterms = None

OrDefault(value, default) == IF value = Undefined THEN default ELSE value

\* A plausible slip: the keyterms lose their default in the schema.
MutantCast(s) ==
  [s EXCEPT !.language.listen = OrDefault(@, DefaultStack.language.listen),
            !.language.reply = OrDefault(@, DefaultStack.language.reply),
            !.turnTaking.patience = OrDefault(@, DefaultStack.turnTaking.patience)]

\* The schema: an undefined field is stored as its default.  (Valid refuses an
\* undefined primary, model or voice.)
Cast(s) ==
  [preset |-> s.preset,
   pipeline |-> s.pipeline,
   language |-> [primary |-> s.language.primary,
                 listen |-> OrDefault(s.language.listen, DefaultStack.language.listen),
                 reply |-> OrDefault(s.language.reply, DefaultStack.language.reply)],
   stt |-> [model |-> s.stt.model, keyterms |-> OrDefault(s.stt.keyterms, NoKeyterms)],
   llm |-> s.llm,
   tts |-> s.tts,
   turnTaking |->
     [patience |-> OrDefault(s.turnTaking.patience, DefaultStack.turnTaking.patience)]]

\* The schema's validators: what is required is not null.
Storable(s) ==
  /\ s.language.listen # None
  /\ s.language.reply # None
  /\ s.turnTaking.patience # None

\* An id that is no longer on offer falls back to the default.
KnownOr(id, known, default) == IF id \in known THEN id ELSE default

\* What the worker is given.  With a null for keyterms and a model that takes
\* them there is no answer: deriveKeyterms throws.
resolveAgentStack(c, s) ==
  LET primary == KnownOr(s.language.primary, c.languages, DefaultStack.language.primary)
      stt == KnownOr(s.stt.model, c.stt, DefaultStack.stt.model)
      answer == [primary |-> primary,
                 reply |-> s.language.reply,
                 stt |-> stt,
                 multi |-> s.language.listen = "multilingual" /\ stt \in Multilingual,
                 llm |-> KnownOr(s.llm.model, c.llm, DefaultStack.llm.model),
                 voice |-> KnownOr(s.tts.voice, c.voices, DefaultStack.tts.voice)]
  IN  IF s.stt.keyterms = None /\ stt \in TakesKeyterms THEN {} ELSE {answer}

-----------------------------------------------------------------------------

\* A catalog that may be deployed: as the specs and the comment on LANGUAGES
\* pin, every preset is valid and the default works in every language.
Released(c) ==
  /\ DefaultPreset \in c.presets
  /\ \A p \in c.presets : Valid(c, PresetStack[p])
  /\ \A l \in c.languages : Valid(c, [DefaultStack EXCEPT !.language.primary = l])

FullCatalog ==
  [languages |-> Languages, stt |-> SttModels, llm |-> LlmModels, voices |-> Voices,
   presets |-> Presets]

\* Of the data in catalog.ts.  The last four no test pins: how the default listens
\* and replies, and that every model speaks its language, which a stack falls back
\* to when its own is retired.
ASSUME StackAssumption ==
  /\ DefaultPreset \in Presets
  /\ PresetStack \in [Presets -> Stack]
  /\ \A p \in Presets : PresetStack[p].preset = p
  /\ SttLanguages \in [SttModels -> SUBSET Languages]
  /\ VoiceLanguages \in [Voices -> SUBSET Languages]
  /\ Multilingual \subseteq SttModels
  /\ NoKeyterms \in Keyterms
  /\ Released(FullCatalog)
  /\ DefaultStack.language.listen = "multilingual"
  /\ DefaultStack.language.reply = "primary"
  /\ \A m \in SttModels : DefaultStack.language.primary \in SttLanguages[m]
  /\ \A v \in Voices : DefaultStack.language.primary \in VoiceLanguages[v]

\* null and undefined are no values of anything.
ASSUME AbsentAssumption ==
  /\ Undefined # None
  /\ \A S \in {Languages, SttModels, LlmModels, Voices, Presets, Keyterms, Patience,
               Pipelines, ListenMode, ReplyLanguage} : S \cap Absent = {}
=============================================================================
