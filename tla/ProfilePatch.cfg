CONSTANTS
  u1 = u1
  en = en
  hi = hi
  nova = nova
  assembly = assembly
  gpt = gpt
  jacqueline = jacqueline
  odysseus = odysseus
  confident = confident
  calm = calm
  none = none
  balanced = balanced
  cascade = cascade
  realtime = realtime
  Languages = {en, hi}
  SttModels = {nova, assembly}
  LlmModels = {gpt}
  Voices = {jacqueline, odysseus}
  Presets = {confident, calm}
  Keyterms = {none}
  NoKeyterms = none
  Patience = {balanced}
  Pipelines = {cascade, realtime}
  SttLlmTts = cascade
  SttLanguages <- MCSttLanguages
  Multilingual = {nova}
  TakesKeyterms = {nova}
  VoiceLanguages <- MCVoiceLanguages
  PresetStack <- MCPresetStack
  DefaultPreset = confident
  None = None
  Undefined = Undefined
  Users = {u1}
  Ids = {d1, d2}
  Slots = {r1, r2}
  Bodies <- MCBodies
  Catalogs <- MCCatalogs
SYMMETRY Symmetry
SPECIFICATION Spec
INVARIANTS PatchesChangeOnlyWhatTheyName
CHECK_DEADLOCK FALSE
