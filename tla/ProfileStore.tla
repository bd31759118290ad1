----------------------------- MODULE ProfileStore -----------------------------
(***************************************************************************)
(* profile.service.ts and profile.repository.ts: profiles are created,     *)
(* patched and deleted by requests of several processes.  A patch is       *)
(* judged over the profile that ProfileOwnerGuard read, and written later  *)
(* by its id; in between anything may happen.  The catalog of the agent    *)
(* stack changes with each deployment.                                     *)
(*                                                                         *)
(* Left out: the sections that are written field by field or whole without *)
(* looking at what was stored, and usernames, whose races the unique index *)
(* settles.                                                                *)
(***************************************************************************)
EXTENDS AgentStack, FiniteSets

CONSTANTS
  Users,
  Ids,        \* of profile documents
  Slots,      \* requests that may run at once
  Bodies,     \* the PATCH bodies, a subset of Body
  Catalogs    \* the catalogs that are ever deployed, a subset of Catalog

Visibility == {"public", "private", "protected"}

\* protectedPassword stands for: was one sent, is a hash stored.
VisibilityPatch == [visibility : Visibility, protectedPassword : BOOLEAN]

Body ==
  [agentStack : Patch \cup {Undefined}, visibility : VisibilityPatch \cup {Undefined}]

Profile ==
  [id : Ids, visibility : Visibility, protectedPassword : BOOLEAN, agentStack : Stack]

\* A request between its reads and its write.  An update has merged and judged.
Merged ==
  [preset : Presets \cup {None},
   pipeline : Pipelines,
   language : [primary : Languages, listen : Opt(ListenMode), reply : Opt(ReplyLanguage)],
   stt : [model : SttModels, keyterms : Opt(Keyterms)],
   llm : [model : LlmModels],
   tts : [voice : Voices],
   turnTaking : [patience : Opt(Patience)]]

Request ==
  [step : {"create"}, user : Users, visibility : VisibilityPatch]
    \cup [step : {"update"}, id : Ids, agentStack : Merged \cup {Undefined},
          visibility : VisibilityPatch \cup {Undefined}]

VARIABLES
  profiles,   \* [Users -> at most one Profile], by the unique index on userId
  requests,   \* [Slots -> at most one Request]
  offered,    \* the catalog that is deployed
  minted      \* ids of documents, of all times

vars == <<profiles, requests, offered, minted>>

ASSUME ProfileAssumption ==
  /\ IsFiniteSet(Slots)
  /\ Bodies \subseteq Body
  /\ FullCatalog \in Catalogs
  /\ Catalogs \subseteq Catalog
  /\ \A c \in Catalogs : Released(c)

-----------------------------------------------------------------------------

Init ==
  /\ profiles = [u \in Users |-> {}]
  /\ requests = [r \in Slots |-> {}]
  /\ offered = FullCatalog
  /\ minted = {}

Free(r) == requests[r] = {}

Done(r) == requests' = [requests EXCEPT ![r] = {}]

\* createProfile up to its insert: no profile yet, and PROTECTED has a password.
BeginCreate(r, u) ==
  /\ Free(r)
  /\ profiles[u] = {}
  /\ \E v \in VisibilityPatch :
       /\ v.visibility = "protected" <=> v.protectedPassword
       /\ requests' = [requests EXCEPT ![r] =
                         {[step |-> "create", user |-> u, visibility |-> v]}]
  /\ UNCHANGED <<profiles, offered, minted>>

\* The insert fails if another request was first.
Insert(r) ==
  \E w \in requests[r], d \in Ids \ minted :
    /\ w.step = "create"
    /\ profiles[w.user] = {}
    /\ profiles' = [profiles EXCEPT ![w.user] =
                      {[id |-> d,
                        visibility |-> w.visibility.visibility,
                        protectedPassword |-> w.visibility.protectedPassword,
                        agentStack |-> DefaultStack]}]
    /\ minted' = minted \cup {d}
    /\ Done(r)
    /\ UNCHANGED offered

\* A plausible slip: a password that was sent is hashed, whatever the visibility.
MutantVisibilityFields(v) == v

\* Any change but to PROTECTED with a password clears the hash.
toVisibilityFields(v) ==
  [v EXCEPT !.protectedPassword = v.visibility = "protected" /\ v.protectedPassword]

\* Merge over what the guard read, and judge the whole; 400 and 500 end here.
toAgentStack(current, patch) ==
  LET merged == mergeAgentStack(offered, current, patch)
  IN  IF MergeThrows(offered, current, patch) \/ ~Valid(offered, merged) THEN {} ELSE {merged}

\* The guard's read, the decorators, and updateProfile up to its write.
BeginUpdate(r, u) ==
  \E p \in profiles[u], body \in Bodies :
    /\ Free(r)
    /\ body.agentStack # Undefined => Accepted(offered, body.agentStack)
    /\ \E stack \in IF body.agentStack = Undefined THEN {Undefined}
                    ELSE toAgentStack(p.agentStack, body.agentStack) :
         requests' = [requests EXCEPT ![r] =
           {[step |-> "update",
             id |-> p.id,
             agentStack |-> stack,
             visibility |-> IF body.visibility = Undefined THEN Undefined
                            ELSE toVisibilityFields(body.visibility)]}]
    /\ UNCHANGED <<profiles, offered, minted>>

\* $set: what the payload names, whole.
Set(p, w) ==
  [id |-> p.id,
   visibility |-> IF w.visibility = Undefined THEN p.visibility ELSE w.visibility.visibility,
   protectedPassword |-> IF w.visibility = Undefined THEN p.protectedPassword
                         ELSE w.visibility.protectedPassword,
   agentStack |-> IF w.agentStack = Undefined THEN p.agentStack ELSE Cast(w.agentStack)]

\* A plausible slip: the update is by owner and not by id (for one user).
MutantUpdate(r) ==
  \E w \in requests[r], u \in Users :
    /\ w.step = "update"
    /\ w.agentStack # Undefined => Storable(w.agentStack)
    /\ \E p \in profiles[u] : profiles' = [profiles EXCEPT ![u] = {Set(p, w)}]
    /\ Done(r)
    /\ UNCHANGED <<offered, minted>>

\* findByIdAndUpdate, with the schema's validators.
Update(r) ==
  \E w \in requests[r], u \in Users :
    /\ w.step = "update"
    /\ w.agentStack # Undefined => Storable(w.agentStack)
    /\ \E p \in profiles[u] :
         /\ p.id = w.id
         /\ profiles' = [profiles EXCEPT ![u] = {Set(p, w)}]
    /\ Done(r)
    /\ UNCHANGED <<offered, minted>>

\* A create that lost its race, an update whose profile is gone or whose stack
\* the schema refuses, a process that dies.
RequestFails(r) ==
  /\ ~Free(r)
  /\ Done(r)
  /\ UNCHANGED <<profiles, offered, minted>>

DeleteProfile(u) ==
  /\ profiles[u] # {}
  /\ profiles' = [profiles EXCEPT ![u] = {}]
  /\ UNCHANGED <<requests, offered, minted>>

\* A release that retires entries of the catalog, or brings them back.
Deploy ==
  /\ offered' \in Catalogs
  /\ UNCHANGED <<profiles, requests, minted>>

Next ==
  \/ \E r \in Slots, u \in Users : BeginCreate(r, u) \/ BeginUpdate(r, u)
  \/ \E r \in Slots : Insert(r) \/ Update(r) \/ RequestFails(r)
  \/ \E u \in Users : DeleteProfile(u)
  \/ Deploy

Spec == Init /\ [][Next]_vars

-----------------------------------------------------------------------------
(* Types: what is stored has every field, whatever the body left out.       *)

TypeOK ==
  /\ profiles \in [Users -> SUBSET Profile]
  /\ requests \in [Slots -> SUBSET Request]
  /\ offered \in Catalogs
  /\ minted \in SUBSET Ids

-----------------------------------------------------------------------------
(* Safety.                                                                  *)

\* What the worker builds its pipeline from fits together: the models hear and
\* speak the language, and the agent only answers in the visitor's language if
\* it can tell which that is.
Works(a) ==
  /\ a.primary \in SttLanguages[a.stt]
  /\ a.primary \in VoiceLanguages[a.voice]
  /\ a.reply = "match_visitor" => a.multi

\* Whatever was merged over a stale profile, judged under an earlier catalog and
\* has lost entries since, what resolveAgentStack makes of a stored stack at room
\* join works.
ServedStackWorks ==
  \A u \in Users : \A p \in profiles[u] :
    \A a \in resolveAgentStack(offered, p.agentStack) : Works(a)

Engine(s) ==
  <<s.pipeline, s.stt.model, s.llm, s.tts, s.turnTaking>>

\* A stack that carries a preset's name is that preset's engine, also after edits
\* that raced and presets that were retired (mergeAgentStack, ENGINE_GROUPS).
PresetIsWhatItSays ==
  \A u \in Users : \A p \in profiles[u] :
    p.agentStack.preset # None =>
      Engine(p.agentStack) = Engine(PresetStack[p.agentStack.preset])

\* A password never outlives the protection it was set for, so that a profile
\* that goes public and back cannot be unlocked with the old one, also when
\* changes of the visibility race (toVisibilityFields).
NoHashUnlessProtected ==
  \A u \in Users : \A p \in profiles[u] :
    p.protectedPassword => p.visibility = "protected"

\* A slow update never lands in a profile it did not read: neither in one that
\* was created after its own was deleted, nor in somebody else's (update by id).
UpdatesHitWhatTheyRead ==
  [][\A u \in Users : \A p \in profiles[u], q \in profiles'[u] :
       p # q => \E r \in Slots : \E w \in requests[r] :
                  w.step = "update" /\ w.id = p.id /\ q = Set(p, w)]_vars

\* A field stays, or becomes what the patch says of it (which may be null).
Follows(sent, stored, now) == now = stored \/ (sent # Undefined /\ now = sent)

Names(group, f) == IF group \in Absent THEN Undefined ELSE group[f]

\* A patch that chooses no preset changes only the fields it names, whatever they
\* are next to ("the client sends what changed and the service merges it over the
\* stored section").
PatchesChangeOnlyWhatTheyName ==
  \A u \in Users : \A p \in profiles[u], body \in Bodies :
    (body.agentStack # Undefined /\ Accepted(offered, body.agentStack)) =>
      \A merged \in toAgentStack(p.agentStack, body.agentStack) :
        LET old == p.agentStack
            new == Cast(merged)
            patch == body.agentStack
        IN  patch.preset \in Absent /\ Storable(merged) =>
              /\ Follows(patch.pipeline, old.pipeline, new.pipeline)
              /\ \A f \in {"primary", "listen", "reply"} :
                   Follows(Names(patch.language, f), old.language[f], new.language[f])
              /\ \A f \in {"model", "keyterms"} :
                   Follows(Names(patch.stt, f), old.stt[f], new.stt[f])
              /\ Follows(Names(patch.llm, "model"), old.llm.model, new.llm.model)
              /\ Follows(Names(patch.tts, "voice"), old.tts.voice, new.tts.voice)
              /\ Follows(Names(patch.turnTaking, "patience"), old.turnTaking.patience,
                         new.turnTaking.patience)

=============================================================================
