---------------------------- MODULE ProfileStoreMC ----------------------------
(***************************************************************************)
(* A catalog cut down from catalog.ts that keeps every relation between    *)
(* its entries: a preset whose voice speaks one language, a listening      *)
(* model that follows one at a time and one that takes no terms.           *)
(***************************************************************************)
EXTENDS ProfileStore, TLC

CONSTANTS
  u1, en, hi, nova, assembly, gpt, jacqueline, odysseus, confident, calm,
  none, balanced, cascade, realtime

MCSttLanguages == nova :> {en, hi} @@ assembly :> {en}
MCVoiceLanguages == jacqueline :> {en, hi} @@ odysseus :> {en}

Ready(preset, voice) ==
  [preset |-> preset,
   pipeline |-> cascade,
   language |-> [primary |-> en, listen |-> "multilingual", reply |-> "primary"],
   stt |-> [model |-> nova, keyterms |-> none],
   llm |-> [model |-> gpt],
   tts |-> [voice |-> voice],
   turnTaking |-> [patience |-> balanced]]

MCPresetStack ==
  confident :> Ready(confident, jacqueline) @@ calm :> Ready(calm, odysseus)

NoPatch == [g \in {"preset", "pipeline", "language", "stt", "llm", "tts", "turnTaking"} |-> Undefined]

\* Patches of one group, with any of its fields sent, null or not sent.
Patches ==
  {[NoPatch EXCEPT !.preset = x] : x \in {calm, None}}
    \cup {[NoPatch EXCEPT !.pipeline = realtime], [NoPatch EXCEPT !.llm = None]}
    \cup {[NoPatch EXCEPT !.language = x] :
            x \in [primary : {en, hi}, listen : {"primary", Undefined}, reply : {Undefined}]}
    \cup {[NoPatch EXCEPT !.language = [primary |-> hi, listen |-> x, reply |-> "match_visitor"]] :
            x \in {"primary", "multilingual"}}
    \cup {[NoPatch EXCEPT !.stt = [model |-> assembly, keyterms |-> Undefined]],
          [NoPatch EXCEPT !.stt = [model |-> nova, keyterms |-> None]]}
    \cup {[NoPatch EXCEPT !.tts = [voice |-> x]] : x \in {odysseus, Undefined}}
    \cup {[NoPatch EXCEPT !.turnTaking = [patience |-> None]]}

MCBodies ==
  [agentStack : Patches, visibility : {Undefined}]
    \cup [agentStack : {Undefined},
          visibility : {[visibility |-> "protected", protectedPassword |-> FALSE]}]
    \cup [agentStack : {[NoPatch EXCEPT !.preset = None]},
          visibility : {[visibility |-> "public", protectedPassword |-> TRUE]}]

\* Without the preset and its voice, and without the second language.
MCCatalogs ==
  {FullCatalog,
   [FullCatalog EXCEPT !.languages = {en}, !.voices = {jacqueline}, !.presets = {confident}],
   [FullCatalog EXCEPT !.stt = {nova}]}

Symmetry == Permutations(Slots) \cup Permutations(Ids)
=============================================================================
