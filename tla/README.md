# portvilla-BE in TLA+

TLA+ models of the portvilla backend (NestJS over MongoDB, LiveKit for voice,
Cloudflare R2 for images), the TLC runs that check them on small instances, and
TLAPS proofs of their main properties for every instance. Paths are relative to
the repository; `PROJECT.json` maps every definition to the lines it models.

The API runs as several processes with no shared memory and no database
transactions. Every `await` in a handler is therefore a point where any other
request, webhook or background job may run, and where the process may die. That
is the granularity of the models: one action per read or write that another
actor can see, with everything between two awaits in one action.

## Inventory

| Component | State | Operations | What is hard | What makes it correct |
|---|---|---|---|---|
| **Session** `src/session` | `sessions` collection (status, profileId, createdAt, endedAt) | POST /session, LiveKit webhook, GET activity | check-then-insert budget; webhooks duplicated, reordered, lost, retried; read-then-write on the status; tokens outliving rooms | bounded budget overshoot; phases only move forward; finished rooms get stamped |
| **Asset** `src/asset` | `assets` collection, quarantine and asset buckets | POST uploads (intent), PUT, POST commit, TTL reaping, bucket lifecycle | four stores with no transaction; PUT during commit; concurrent commits; crash between copy and mark; quota read before insert | only inspected content is served; committed rows have their object; one story to all clients; bounded quota overshoot; nothing holds quota for ever |
| **Auth** `src/auth` | `users` (verified, refresh hash), `otps` | register, verify, resend, login, OTP login, refresh, logout | code validated and deleted in two calls; non-unique OTP index; refresh compared then overwritten; requests dying half-way | codes keep their purpose, are gone once used and do not pile up; sessions are earned by a verified e-mail and stay closed after logout |
| **Profile store** `src/profile` | `profiles` | create, patch, visibility, resume, public view and unlock, delete | merges over the guard's snapshot; slow updates of deleted profiles; unlock reads twice; username races | what is stored fits together, whoever wrote in between; updates reach the profile they read; passwords end with their protection |
| **Content** `src/profile/domain`, `dto`, `mappers`, `infrastructure/schema` | the sections of a profile document | PATCH of a section, read, key backfill, projectSlides, preview of a draft | clients that are behind or drop keys; documents older than their fields; three hand-written layers; a backfill beside live traffic; the deck's limit | unique names that keep their meaning; accepted bodies are stored; slides have every field; works are told whole |
| **Agent stack** `src/profile/domain/agent-stack` | none (pure) | merge, validate, resolve | a catalog that moves on; fields left undefined | accepted stacks are consistent, and so is what they resolve to later |
| **Generation** `src/profile/generation`, `src/llm` | none (a draft) | brief, warm, fan-out, assemble | one deadline over all calls and their retries; a provider that hangs; partial failure; answers of any shape | answered in time; sections fail alone; a draft without empty sections, images or ungrounded entries |
| **Agent gateway** `src/agent` | none | context of a visit | what is learned when a visit begins is used until it ends | see Content and Agent stack |
| **Parser, Mail, Users, resume, shared, seed** | none or one document | vendor calls, reads, wiring | their failures, seen by the components above | — |

Interaction: Session reads profiles (by username, for the budget) and survives
their deletion; the dashboard and the voice worker read sessions and profiles;
assets belong to users, not profiles; profiles refer to assets by URL only; Auth
gates everything by a JWT that is verified without a read. The slides are not
stored: the public page, the preview and the voice worker derive them from the
profile at each read, and the worker keeps what it got for the whole visit. A
draft of Generation changes nothing until the owner sends it back as a PATCH.
LiveKit and the client's PUT reach the system from outside, at any time.

## Modules

| Module | What it is |
|---|---|
| `Conversation` | Abstract: what a session promises its readers (absent, minted, talking, over; an end between the room's end and now) |
| `Session` | `session.service.ts`, `session.repository.ts`, `minute-budget.ts`, with LiveKit, the visitor and the clock around them |
| `SessionMC`, `Session*.cfg` | Symmetry, the view of the budget run, and three instances |
| `SessionProofs` | Theorems about `Session` |
| `Upload` | Abstract: what an upload promises (one decision; a committed upload shows one fit content for ever) |
| `AssetUpload` | `asset.service.ts`, `asset.repository.ts`, `image-sniffer.ts`, the storage calls, the TTL index, the lifecycle rule |
| `AssetUploadMC`, `Asset*.cfg` | Contents, declarations and policies of the three instances |
| `AssetProofs` | Theorems about `AssetUpload` |
| `Auth` | `auth.service.ts`, `otp.repository.ts`, the writes of `user.repository.ts`, the OTP TTL index |
| `AuthMC`, `Auth*.cfg` | Symmetry, and two instances |
| `AuthProofs` | Theorems about `Auth` |
| `AgentStack` | `agent-stack.rules.ts` over any catalog: merge, judge, resolve; the decorators and the schema's defaults |
| `ProfileStore` | `profile.service.ts`, `profile.repository.ts`, `profile-owner.guard.ts`: create, patch, delete |
| `ProfileStoreMC`, `Profile*.cfg` | A catalog cut down to its relations, the patches, two instances |
| `ProfileProofs` | Theorems about `AgentStack` and `ProfileStore` |
| `EntryKey` | `entry-key.ts`: which keys an entry keeps, and which it is given |
| `Sections` | The layers of the content sections: DTO, mapper, schema, record, as tables of fields |
| `Slides` | `slide.projector.ts`: the deck, what is on each slide, what the agent can point at |
| `Portfolio` | One profile's content over time, composing the three above with the owner, the key backfill, a visit's agent and the preview of drafts |
| `PortfolioMC`, `Portfolio.cfg` | Its instance |
| `PortfolioProofs` | Theorems about `EntryKey`, the mappers, and the unique names of `Portfolio` |
| `DeckProofs` | Theorems about `Portfolio`: what sections read as, what slides serve, how works are told, what paths mean, the backfill and the preview |
| `Ranks` | Lemmas about finite sets of positions, used by `DeckProofs` and `GenerationProofs` |
| `Draft` | `assemble.ts`: from the answers to the draft, its statuses and warnings |
| `Generation` | `generation.service.ts` over the provider's client: brief, warm call, fan-out, deadline |
| `GenerationMC`, `Generation.cfg` | The answers of its instance |
| `GenerationProofs` | Theorems about `Draft` and `Generation` |

### Session

`sessions` is the collection. `admitted[q]` is a `createUserSession` or
`createGuestSession` call between its checks and its insert: `AdmitUser` is the
profile lookup and `assertWithinMinuteBudget`, `Insert` is
`sessionRepository.create`, `RequestFails` a mint or insert that throws or a
process that dies. `writing[h]` is a webhook handler between `findByRoomName`
and `updateStatus`: `Decide` reads the row and settles what to write, including
`endedAt`, `Apply` writes it unconditionally by id, `Ignore` is every early
return, `HandlerFails` a crash between the two. `Exhausted` is
`durationStatsByProfile` over ENDED rows created since `monthStartUtc(now)`,
rounded up to minutes.

The outbox is LiveKit: events are delivered at least once (`Acknowledge` may
leave the event there), in any order, again after a failed handler, and may be
given up on (`GiveUp`, recorded in `dropped`). A visitor may join whenever the
token is good, so also after the room finished, as the code's two-hour TTL
allows. `late` and `grace` are history variables that only the budget property
reads. The signature check of a webhook is not modelled: `Events` are those
that pass it.

### Asset

A row is a record whose fields depend on its status; `unminted` and `reaped`
are the two ways for there to be no document. `intents[q]` is a `createUploads`
request past its quota check; `CreateRow` is one turn of its loop (sign, then
insert, one action because a URL nobody holds yet cannot be used) and the client
holds the URLs only after `IntentReturns`. `IntentFails` leaves the rows already
inserted. `BeginPut`, `FinishPut`, `PutFails` are the client's PUT; the signed
type, length and digest are `MatchesGrant`, and the object appears whole.
`commits[h]` is a `commit` request with its program counter: `BeginCommit`
(lookup and guards), `HeadObject`, `ReadHeader` (range read and
`inspectUpload`), `CopyObject`, `MarkCommitted` or `MarkRejected`,
`DeleteAndAnswer`; `CommitEndsUndecided` is every other way out. `Reap` is the
TTL monitor over the partial index, `ExpireQuarantine` the bucket's lifecycle
rule. `answers` remembers what clients were told.

A content is a record of size, sniffed type and dimensions with a digest that
names one content (assumed of SHA-256). Storage is R2; the local-disk driver
enforces the same grant and differs by a two-step copy (object, then metadata),
which is not modelled.

### Auth

`registered` and `verified` are the users, `session[e]` the refresh token whose
hash an account stores, `otps` the collection. `requests[r]` is a request
between two awaits, by what it does next: `send` (issue and upsert a code),
`insert` (an upsert that found no match: the index on e-mail and purpose is not
unique, so that others may be doing the same), `mark` and `delete` (after
`validateOtp` accepted a code), `store` (a pair is signed, its hash not yet
stored). `VerifyEmail`, `LoginWithOtp`, `Login` and `Refresh` are the requests up
to there, `MarkEmailVerified`, `DeleteCodes` and `StoreHash` what follows, and
`RequestFails` a crash or a call that throws at any of these points, a mail that
is not sent included. `Reap` is the TTL monitor, which may lag. `issued`, `used`,
`spent` and `logins` are history variables.

Folded: the read of a user joins the next read, since users are only ever
created and verified; `existsByEmail` and `create` are one step, because the
e-mail of a user is unique and the loser of that race stores nothing; the
mismatch branch of `refreshTokens` clears in the step that compares.
Abstracted: a password matches or the request has no effect; codes are drawn
from `Codes` without repetition, where the code draws six digits at random (with
a repetition a client could present a newer code as an older one, which no
property here could tell from presenting the newer). A token pair is its account
and second of issue, as in the JWT payload. `Hashed` is what bcrypt hashes of a
refresh token, the first 72 bytes, which end inside the account's id.

### Profile store and agent stack

`profiles[u]` holds at most one document (the unique index on `userId`) with its
visibility, whether a hash is stored, and its agent stack. `requests[r]` is a
request between its reads and its write. `BeginCreate` is `createProfile` up to
its insert, `Insert` the insert. `BeginUpdate` is the owner guard's read, the
body's decorators and `updateProfile` up to its write: `toAgentStack` merges over
what was *read* and judges with the catalog of the process. `Update` is the
`$set` by id, with the schema's defaults (`Cast`) and validators (`Storable`);
it fails when the profile is gone. `Deploy` changes the catalog, which retires
entries or brings them back; requests that are under way keep what they judged.

`AgentStack` has no state. A patch is what the service is given: JSON `null`
passes every `@IsOptional` and is `None`; a field that was not sent is
`Undefined`, and a group that was sent has all of its fields, because the DTO
classes are compiled for ES2023 and class fields are then defined on every
instance. `resolveAgentStack` gives a set: no answer where the code throws.
`Released` is what the specs pin of a catalog, `StackAssumption` what is true of
the data besides.

### Content: entry keys, sections, slides

`stored` is the document, section by section. A behaviour edits one section
(`subject`), any: `toProfileUpdateFields`, the repository's `$set` and every slide
treat each by itself. `views[c]` is what a client last got of it, so that a
client whose response was lost, or a second tab, sends back old keys: `Load` is
GET, `Patch` the whole of PATCH (the DTO's decorators, the mapper, `withEntryKeys`,
the schema's validators, the `$set`), which is one step because no read comes
before its write. A body is any list of entries that were served before (with
their keys, without them, twice, in any order) and new ones; of an object section,
any field left out, null or given. `BackfillReads` and `BackfillWrites` are the
script's cursor and its write, `BackfillDies` a run that ends in between.
`AgentJoins` is the context a voice worker asks for once per visit; `heard` is what
each path means to it until the next.

A field is `Undefined`, `Null` or `Given`. For each layer (`works`, `stages`, ...)
`Sections` lists the fields the DTO demands or lets be null, those the mapper
fills with a default or with null, those the schema demands or defaults, and those
the record's type says may be null. Each table is read off its own file, so that
what one leaves to another shows. An entry also carries `of`, what the owner means
by it, which has no counterpart in the code: it tells an entry from another of
equal fields. A key is a number in the order of drawing; the code draws eight random
characters, which the model takes never to repeat.

A slide is a record of its place, its id (a name and the keys that lead to the
entry), the fields of its items, and its focus, the things on it that have a path
of their own. `workSlides` takes whole works while their blocks fit. `applyDraft`
is the preview's way to a record, with keys of its own.

### Generation

`calls[c]` is one call to the provider: open since when, at which attempt, or how it
ended. `Answered`, `Fails`, `Retries` and `AttemptTimesOut` are the vendor's client,
`Abort` the deadline's signal, which every call is given. `Generate` is the
request up to the brief; `BriefSettles` refuses, or plans sections and begins the
warm call or the fan-out; `WarmSettles` goes on however the warm call ended;
`SectionsSettle` is `allSettled`, `assembleDraft` and the response. What a
section is answered with is any of `Answers`. `settings` is the platform's
provider: none (502), one that can warm a cache and limits each attempt, or one
that does neither (the default of its client is longer than the budget).

In `Draft` an entry is what the passes of `assemble.ts` tell apart: an object or
not, accepted by its DTO or not, with a link, grounded or not, with an image or
not, and its name; of the object sections also what each field holds (not sent,
null, empty or something), since the PATCH writes those one by one. The passes
keep their order: validate, images, URLs, date or number or quote, name, cap.
`Clears` is what the PATCH of a drafted object section deletes of the owner's.

## Runs

| Run | Instance | Shows |
|---|---|---|
| `session_budget` | 2 user sessions, 2 requests, 1 handler, budget of 1 minute, a month of 2 ticks | `BudgetOvershoot`: sessions given beyond a spent budget ≤ requests past the check when it ran out |
| `session_delivery` | 1 session, an agent beside the visitor, 2 handlers, rejoining for 1 tick | `ImplementsConversation`, `SettledStaysEnded`, `FinishedRoomsAreStamped` |
| `session_finality` | the same | **violated**: `EndedIsFinal`, the documented lifecycle |
| `asset_commit` | 1 asset, 3 commits, a good image and a decompression bomb, 3 ticks | `DeliveredWasInspected`, `CommittedIsServed`, `AnswersAreTrue`, `UploadInv`, `ImplementsUpload` |
| `asset_batch` | 2 users, batches of 2 | `IntentsEnd` |
| `asset_quota` | 4 assets, 2 racing intents, 1 commit, limits of 1 | `QuotaOvershoot`: ≤ one batch per other intent and one asset per commit in flight |
| `auth_codes` | 1 account, 3 codes, 2 requests, 3 ticks | `CodesKeepTheirPurpose`, `SessionsAreEarned`, `SpentCodesAreGone`, `LoginsPerCode`, `CodesDoNotPileUp`, `LogoutIsFinal`, `AuthInv` |
| `auth_rotation` | the same | **violated**: `StaleTokensAreRefused` |
| `profile_store` | 1 owner, 2 requests, 2 profile ids, 17 bodies, 3 catalogs | `ServedStackWorks`, `PresetIsWhatItSays`, `NoHashUnlessProtected`, `UpdatesHitWhatTheyRead` |
| `profile_patch` | the same | **violated**: `PatchesChangeOnlyWhatTheyName` |
| `content` | 1 client that may be behind, lists of up to 2 entries (2 stages, 1 screenshot with 1 region), documents of 3 ages, 2 writes that draw keys, a deck of 13 | `SlideNamesAreUnique`, `AgentPointsAtWhatItMeans`, `ServedFieldsConform`, `WorksAreWhole`, `AcceptedListsAreStored`, `PreviewIsTheDeckUnlessCleared`, `BackfillKeepsAndIsIdempotent` |
| `generation` | 3 sections (a grounded list and the two objects), up to 3 entries, caps of 2, 3 attempts, a budget of 5 ticks and attempts of 3 | `AnswersInTime`, `SectionsAreIsolated`, `DraftKeepsTheRules`, `NothingUsableIsLost`, `EveryRequestIsAnswered` |

Every passing property has a mutant in `PROJECT.json`: a plausible slip in the
code (a check since now instead of since the month's start, a dropped digest
comparison, a write without its guard, an expiry never set, a cap before the
dedupe, a call without the signal) which TLC finds to
break it.

The bounds: two sessions and two requests are the least with which one request
can spend the budget another was checked against, and a month of two ticks puts
the boundary inside the run; two handlers are needed for one to write under the
other, one session suffices since rows do not interact except through the
budget; three commits let one be at the copy, one at the mark and one at the
delete; one of each of a good and a bad content is all `inspectUpload` can tell
apart; two requests suffice for one code to be read twice and for two upserts to
insert, three codes for a verification, a login and a further code beside them,
and accounts do not interact; likewise profiles of different owners, and two
requests are one stale update and one that creates the profile anew, or two stale
merges; the catalog has one entry of each kind that differs in a relation (a
one-language voice, a listening model that follows one language) and the bodies
send, leave out and null fields of every group. In `content` two entries are the
least that can share or swap a key, one client suffices because a lost response
leaves it as far behind as a second tab would be, two writes that draw keys
(`MaxMinted`) are an edit that races the backfill, or two edits of which the second
sends back what was served before the first, and 13 slides are three beside the ten
fixed ones: a work with two stages fits and a second work does not. The agent's
step leaves visibility aside, which is `ProfileStore`'s. In `generation` a section
of each kind is answered in every way while the others are answered plainly (that
they do not matter to each other is `SectionsAreIsolated`, and proved), three good
entries exceed a cap of two, and three attempts of three ticks outlast the budget
of five; `MaxTime` is later than any behaviour reaches. `asset_quota` is viewed without the contents of
decided rows (`QuotaView`), which nothing reads again. `MaxTime` bounds the clock and `AdmitIntent` leaves every window room to
close before it. The proofs below do without bounds. Deadlock checking is off:
at the clock's bound, with every id used and every call answered, nothing is
left to do, and that is a legitimate end.

**Fairness.** `session_delivery` assumes that LiveKit's retries reach a free
handler (`SF` of delivering each event that is again and again deliverable) and
that a handler which keeps retrying does not die every time (`SF` of `Apply`).
`asset_batch` assumes that time passes and that the TTL monitor, which MongoDB
runs every minute, comes round (`WF`). `generation` assumes that the event loop
runs what is ready and that timers fire (`WF` of the code's steps, the clock, the
attempts' timeouts and the abort), and nothing of the provider: it may answer
late, fail for ever or hang. `content` has no fairness, and no liveness property:
nothing in it must ever happen. Nothing is assumed of visitors, clients or
requests.

## What the code does that its documents do not say

- `session_finality`: `updateStatus` writes by id without the status it was
  decided on. A `participant_joined` handler that read PENDING and is slow
  writes ACTIVE over an ENDED row; `endedAt` stays, but the row no longer counts
  towards the minute budget. The data model's `pending → active → ended` is
  therefore not an invariant of the status. What does hold, and is proved: an
  end once stamped is never erased, and an ENDED row with no ACTIVE write
  outstanding never moves.
- A commit checks its window once. If the window closes during its storage
  calls, `usageFor` no longer counts the row, another intent is admitted, and then
  the commit lands: the quota is overshot without any two intents racing.
  `QuotaOvershoot` bounds by how much.
- A login code is compared in one call and deleted in the next, so that two
  requests can both use it. `LoginsPerCode` bounds this by the number of requests
  that run at once, and once one of them has deleted the code nobody new can use
  it (`SpentCodesAreGone`).
- `auth_rotation`: `refreshTokens` compares tokens with bcrypt, which reads their
  first 72 bytes. Those are the same for every refresh token of an account, so
  that a token which was replaced still matches, and the branch that revokes the
  session is not reached. What holds, and is proved, is `LogoutIsFinal`: without a
  stored hash no refresh token is accepted.

- `profile_patch`: a PATCH that sends one field of `language`, `stt`, `tts` or
  `turnTaking` resets the others of that group, because they arrive as own
  `undefined`s and the merge spreads them over the stored values; where one of
  them has no default that passes, the patch is refused. `ServedStackWorks` and
  `PresetIsWhatItSays` hold nevertheless, and are proved.
- Also in the model, without a run of its own: `keyterms: null` passes the body's
  decorators and is stored (an array is not required), after which
  `deriveKeyterms` throws at room join and `applyPreset` when a preset is chosen;
  and a PATCH to PROTECTED without a password is accepted (`@IsOptional` overrides
  the other decorators) and leaves a profile that no password unlocks.
- `AcceptedListsAreStored` is about lists on purpose: `UpdateIdentityDto` lets
  `name` be null or empty, which the schema demands, so that such a PATCH is
  accepted and then fails with a 500.
- `PreviewIsTheDeckUnlessCleared` excepts a draft whose social links are null:
  `applyDraft` leaves the links there (`if (links)`), where the PATCH clears them.
  The comment above it promises the deck "and not an approximation of it". The
  preview is also drawn over the record the owner guard read before generation
  began, up to the whole budget earlier.
- A draft that is sent back as it is can delete what the owner has. `assemble.ts`
  leaves out empty sections and deletes image fields instead of nulling them, since
  the PATCH "treats `null` as 'clear this'" and "absent means 'generation had no
  opinion'", but it keeps every other null of an object section, and
  `section-specs.ts` asks the model for all fields of identity and social, null
  where there is nothing to say. An identity with a tagline and a null bio clears
  the bio; one of nothing but nulls is still drafted, and clears all of it; a
  social section with an e-mail and `links: []` deletes the links. The `generation`
  run reaches such drafts (`Clears` is then not empty), and `DraftKeepsTheRules`
  bounds them: no section is empty, no image is cleared, and of an object section
  only what the model itself said null or empty of. A drafted list, by design,
  takes the place of the owner's.
- The texts of a draft are grounded by the prompt only: the code looks for URLs in
  every section and for dates, numbers and quotations in four of the lists, and
  this is all `DraftKeepsTheRules` can say.
- The backfill writes a section it read earlier, whole (`$set`), so that an edit in
  between is lost. Names stay unique and keep their meaning even then
  (`BackfillKeepsAndIsIdempotent` speaks of undisturbed runs).
- The warm call is awaited before the fan-out. `llm.service.ts` says a cold cache
  "costs money, not correctness", which is so unless the call hangs: then it uses
  up the budget (an attempt may take 120 of the 200 seconds, and is repeated) and
  every section times out. The request is still answered in time.
- `NothingUsableIsLost` excepts entries that are no objects: they go without a
  warning, although the response promises "everything that was dropped and why".
  So do stages beyond the sixth, and a social section with nothing in it, whose
  status is nevertheless `generated`.

## Proofs

`AssetProofs`, `SessionProofs`, `AuthProofs`, `ProfileProofs`, `GenerationProofs`,
`PortfolioProofs` and `DeckProofs` hold for any number of users, assets, sessions, codes, handlers,
requests, clients, entries, sections and answers, any limits and any clock, from
the named assumptions of the modules: `AssetAssumption` (finitely many ids,
finitely many requests in flight of which at least one may be an intent, natural
limits, well-formed policies, a digest names one content, natural time spans; the
finite sets stand for what one deployment ever sees, of which the cardinalities of
the quota speak),
`SessionAssumption` (finitely many request slots, the visitor is not one of the
agents, natural numbers with non-zero tick and month lengths),
`AuthAssumption` (finitely many request slots, natural time spans),
`StackAssumption` (what holds of the catalog's data, see above),
`AbsentAssumption` (`null` and `undefined` are no ids), `ProfileAssumption`
(every deployed catalog is `Released`), `CapAssumption` and `GenerationAssumption`
(finitely many sections, positive caps, budget, timeout and attempts),
`SlidesAssumption` and `PortfolioAssumption` (the deck holds at least its fixed
slides, natural bounds).

- `AssetProofs!Invariance`: `Spec => []UploadInv`. What is wanted
  (`DeliveredWasInspected`, `CommittedIsServed`, `AnswersAreTrue`) is not
  inductive: a commit copies what is in the bucket *now*, having inspected what
  was there *then*. The strengthening is that an id waits in one intent only
  (`Fresh`), that the row, the URL and every commit of an asset carry one
  declaration (`OneUrl`, `Faithful`), hence the bucket can hold only the one
  content with the declared digest (`Pinned`), hence a verdict on bytes read is
  true of bytes copied (`Concluded`).
- `AssetProofs!QuotaIsNearlyKept`: `QuotaOvershoot` is inductive over `UploadInv`
  once it is known that a batch holds at most `FilesPerIntent` files (`BatchesFit`).
  What counts against a user, or may come to, is three disjoint sets: assets that
  hold a place, files of intents still to be inserted, and expired rows that a
  commit in progress may yet revive. Only the admission of an intent makes their
  union grow, and it does so from a state in which the count that was just read is
  below the quota and every other slot holds at most one batch; every other step
  moves an asset from one of the three to another or out of all.
- `AssetProofs!Refinement`: `Spec => ImplementsUpload`. Rows move one at a time
  and only forward, and what a committed row shows is fixed by its digest.
- `SessionProofs!BudgetOvershootIsBounded`: late inserts plus requests still in
  flight never exceed the requests in flight when the budget ran out, since each
  insert takes one out of flight and no request is admitted while exhausted.
- `SessionProofs!SettledIsFinal`: the action property, from the types (what a
  pending write may carry).
- `SessionProofs!Refinement`: `Spec => ImplementsConversation`, from
  `EndsAreReal`: an end in the outbox, in a handler's hands or on a row comes
  from a room that had finished by then.
- `AuthProofs!CodesInvariance`, `SpentCodesStayGone`: that a spent code is gone needs to know where
  codes come from: each is drawn once (`Drawn`), and one that is on its way into
  the collection is in one request only, not stored and not used (`OnItsWay`).
- `AuthProofs!SessionsEarned`, `LogoutNeedsLogin`: both rest on one lemma, that
  the only steps to open a closed account are those of a login, which demands a
  verified e-mail; `Refresh` is excluded because it needs a stored hash.
- `AuthProofs!CodesStayFew`: an upsert inserts only when nothing was stored, so
  documents plus pending inserts never outnumber the requests.
- `AuthProofs!LoginsAreBounded`: accepting a code means it is stored, so not
  spent, so it has given no login; from there each login is one pending request
  less. `Invariance` collects the invariant.
- `ProfileProofs!StacksWork`: that a stack is valid is not invariant, since the
  catalog moves on and the schema fills in what was undefined. `Sound` is what is
  left of it: facts about the ids of one stack and no catalog, which a stale merge
  cannot break because the whole stack is judged and written. `SoundWorks` then
  shows that entries retired one by one fall back to a default which fits the
  rest, given that every model speaks the default's language: nothing in the
  repository pins that, and the theorem needs it.
- `ProfileProofs!PresetsAreKept`, `HashesAreCleared`, `UpdatesAreForOneProfile`,
  `TypeCorrect`: from the same invariant, `StoreInv`, which also speaks of what
  requests are about to write.
- `GenerationProofs!NoRequestOutlastsTheBudget`: an open request has an open call
  or code that is due (`OneAtATime`), and with either of these the clock waits
  once the budget is reached. It needs nothing of attempts or retries.
- `GenerationProofs!DraftsKeepTheRules`, `OneSectionFailsAlone`, `OnlyTheCapDrops`: a
  response was assembled from the results (`Assembled`), the rest are facts about
  `Draft`. Those on the cap are about cardinalities: the first occurrences of the
  usable names are as many as the names, and `First(n, S)` has the lesser of `n`
  and `Cardinality(S)` elements, by numbering `S` in its order (the library's
  induction theorems cannot be used, see below).
- `PortfolioProofs!ListsAreStored`: for each of the nine lists and the three nested
  ones, what the DTO accepts comes out of the mapper with every field the schema
  demands. The invariant, `PortfolioInv`, gives every list that is stored, served or
  about to be written by the backfill the shape of its section.
- `PortfolioProofs!NamesStayUnique`: the same invariant says that those lists are
  `Distinct` at every level. `withUniqueKeys` makes any list so
  (`KeysComeOutUnique`), the backfill does not key screenshots but finds them
  distinct, and a section is written by itself. From there, paths of distinct keys
  are distinct, and slides of different sections differ in name.
- `DeckProofs!EverySectionReadsWell`, `SlidesServeWhatIsPromised`: what a section
  reads as depends on what was written to it, so the invariant (`FieldsInv`) says
  of every list that is stored or about to be written by the backfill, and of both
  objects, that it reads well (`ReadsWell`), and of the objects that they keep their
  fields. It rests on `LayersAgree`: of all twelve kinds of entry, the tables of DTO,
  mapper, schema and type fit each other. A slide shows only what its section has
  and may be null only where the section may (`PayloadsServe`).
- `DeckProofs!WorksAreToldWhole`: the fixed slides are at most `MAX_FIXED_SLIDES`,
  the works that are taken are the first ones without a gap, since `BlocksThrough`
  only grows, and what they fill is what the last of them was tested for. It holds
  of any two lists of the right shape, and needs `PortfolioInv` for that only.
- `DeckProofs!PathsKeepTheirMeaning`: that the deck and the agent agree is not
  inductive, because an older tab may write back what nobody shows any more. The
  invariant (`MeaningInv`) takes every trail of keys that were drawn and says that
  all who still spell it mean one entry by it: what is stored, what any client was
  served, what the backfill is about to write, and what the agent heard. A step
  then has only to show where the trails it writes come from (`Follows`: each was
  in what it started from, or ends in a new key).
- `DeckProofs!BackfillIsIdempotent`: the action property needs to know what was read
  when it is written. The invariant (`BackfillInv`) says that the pending write is
  what the script would compute from the document as it is now, as long as no key
  was drawn since. Then a list whose keys are unique is left alone, and what the
  script leaves is such a list.
- `DeckProofs!PreviewsAreTrue`: the preview and the `PATCH` go two ways to a record.
  For an object they come to the same record, field by field; for a list, to
  contents that show the same (`ShowsTheSame`), since what a mapper made of an
  accepted body the schema reads back as it is (`MappedStays`) and neither way of
  giving keys touches a field. Decks of such records look alike
  (`DecksLookAlike`). That a draft passes the DTOs is proved too (`ListDrafts`): no
  image field must be sent.

With this every invariant that a passing run checks is a theorem. Only
model-checked are the three liveness properties, `FinishedRoomsAreStamped`,
`IntentsEnd` and `EveryRequestIsAnswered` (liveness under fairness is out of the
prover's reach, as is `ENABLED`), and the three properties that the violation runs
refute. The proofs about `Portfolio` take an entry's meaning (`of`) as the model
labels it, and a draft to be one entry of a list, as the runs do; the lemmas
behind `PreviewsAreTrue` hold of any list the DTOs accept. What a recursive definition
computes for every input (induction over data) cannot be proved with the
installed provers; no module with a theorem declares a `RECURSIVE`
operator. `SumOver` is opaque in the proofs: no theorem depends on what a budget
adds up to, only on it being a function of the collection and the month.

## Not modelled, and the plan

Next, in this order:

1. **Refinement of the content**: an abstract map from paths to what they mean, of
   which `Portfolio` is shown to be an implementation from `MeaningInv`.
2. **Session activity**: the six reads of `getActivity` interleaved with webhooks.
   Each counts a set that only grows, so the numbers differ by at most what
   happened between two reads; nothing says how they should relate.
3. **Public reads**: `unlockPublicProfile` answers with the record of one read and
   the hash of another.

Left out of the modelled parts: the limits on lengths, patterns and enums in the
DTOs; titles and talk tracks of slides; prompts, vocabulary and the fact sheet's
own checks; the local-disk storage driver, for development, which copies an
object and its metadata in two steps; the signature of webhooks, the service token
and the password hashes, which are taken to do what they say; the pauses
between the attempts of a vendor's client, which are short and end with the signal.

Left out for good, because they are vendor calls, declarations or wiring with no
state or order of their own: the GitHub parser, resume text extraction and
suggestions, mail templates, username rules (characters; the race is settled by
the unique index), the response DTOs, swagger, configuration, the seed script, the
export of presets, and the backfill of the agent stack, which moves one old field.
