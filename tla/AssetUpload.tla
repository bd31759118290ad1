----------------------------- MODULE AssetUpload -----------------------------
(***************************************************************************)
(* The asset module.  POST /assets/uploads checks the user's quota, signs  *)
(* an upload URL per file and inserts a PENDING row per file; the client   *)
(* PUTs the bytes into the quarantine bucket; POST /assets/:id/commit      *)
(* inspects them, copies them to the asset bucket, marks the row and       *)
(* deletes the quarantine object.  Every await of the service is a point   *)
(* where another request, a PUT, the TTL monitor of the database or the    *)
(* lifecycle rule of the bucket runs, and where the process may die.       *)
(*                                                                         *)
(* A content is its size, its image type ("none" when the first sniffBytes *)
(* show no readable image) and its dimensions; a digest names one content. *)
(* All processes read one clock.                                           *)
(***************************************************************************)
EXTENDS Integers, FiniteSets
LOCAL INSTANCE FiniteSetsExt

CONSTANTS
  Users,
  Assets,          \* asset ids, each minted at most once
  Contents,        \* what a client may PUT: records of type Content
  Files,           \* what a client may declare: records of type File
  Policies,        \* assetPolicies, by kind
  Handlers,        \* commit requests the API processes can run at once
  Slots,           \* intent requests they can run at once
  FilesPerIntent, PendingPerUser, AssetsPerUser, BytesPerUser,  \* ASSET_LIMITS
  CommitWindow,    \* commitWindowSeconds, in ticks
  UploadUrlTtl,    \* uploadUrlTtlSeconds, in ticks
  MaxTime          \* bound on the clock

\* An image type, or "none" when no image is recognised.
ContentTypes == STRING \cup {"none"}

Policy == [maxSizeInBytes : Nat, maxPixels : Nat, maxEdge : Nat,
           allowedContentTypes : SUBSET ContentTypes]

Content == [sha256 : STRING, byteSize : Nat, contentType : ContentTypes,
            width : Nat, height : Nat]

File == [kind : DOMAIN Policies, contentType : ContentTypes, byteSize : Nat, sha256 : STRING]

ASSUME AssetAssumption ==
  /\ IsFiniteSet(Assets)
  /\ IsFiniteSet(Handlers)
  /\ IsFiniteSet(Slots) /\ Slots # {}
  /\ FilesPerIntent \in Nat /\ AssetsPerUser \in Nat
  /\ \A k \in DOMAIN Policies : Policies[k] \in Policy
  /\ Contents \subseteq Content
  /\ \A c, d \in Contents : c.sha256 = d.sha256 => c = d
  /\ Files \subseteq File
  /\ CommitWindow \in Nat
  /\ UploadUrlTtl \in Nat
  /\ MaxTime \in Nat

VARIABLES
  rows,        \* [Assets -> Row], the collection
  intents,     \* [Slots -> {} or {an intent request past its quota check}]
  grants,      \* [Assets -> {} or {the signed URL its client holds}]
  puts,        \* [Assets -> the contents of the PUTs in flight]
  quarantine,  \* [Assets -> {} or {a content}], the bucket QUARANTINE
  objects,     \* [Assets -> {} or {a content and its metadata}], the bucket ASSET
  commits,     \* [Handlers -> {} or {a commit request past its guards}]
  answers,     \* [Assets -> the decisions clients have been told]
  now

vars == <<rows, intents, grants, puts, quarantine, objects, commits, answers, now>>

-----------------------------------------------------------------------------
(* Rows.  "unminted" and "reaped" are no document at all: the id is still  *)
(* to be minted, or the TTL monitor has deleted the row.                   *)

Never == -1

Unminted == [status |-> "unminted"]
Reaped == [status |-> "reaped"]

MutantPending(u, f, expiry) ==
  [status |-> "pending", userId |-> u, declared |-> f, pendingExpiresAt |-> Never]

Pending(u, f, expiry) ==
  [status |-> "pending", userId |-> u, declared |-> f, pendingExpiresAt |-> expiry]

InWindow(a) == rows[a].status = "pending" /\ rows[a].pendingExpiresAt > now

-----------------------------------------------------------------------------
(* createUploads.                                                          *)

Init ==
  /\ rows = [a \in Assets |-> Unminted]
  /\ intents = [q \in Slots |-> {}]
  /\ grants = [a \in Assets |-> {}]
  /\ puts = [a \in Assets |-> {}]
  /\ quarantine = [a \in Assets |-> {}]
  /\ objects = [a \in Assets |-> {}]
  /\ commits = [h \in Handlers |-> {}]
  /\ answers = [a \in Assets |-> {}]
  /\ now = 0

WithinPolicy(f) ==
  /\ f.contentType \in Policies[f.kind].allowedContentTypes
  /\ f.byteSize <= Policies[f.kind].maxSizeInBytes

MutantUsageFor(u) ==
  {a \in Assets : rows[a].status = "committed" /\ rows[a].userId = u}

\* Rows the quota counts: committed, or pending with the window still open.
usageFor(u) ==
  {a \in Assets : \/ rows[a].status = "committed" /\ rows[a].userId = u
                  \/ InWindow(a) /\ rows[a].userId = u}

\* actual.byteSize of a committed row, declared.byteSize of a pending one.
byteSize(a) ==
  IF rows[a].status = "committed" THEN rows[a].actual.byteSize
  ELSE rows[a].declared.byteSize

assertWithinQuota(u, files) ==
  LET used == usageFor(u)
      size(a) == files[a].byteSize
  IN  /\ Cardinality({a \in used : InWindow(a)}) + Cardinality(DOMAIN files)
           <= PendingPerUser
      /\ Cardinality(used) + Cardinality(DOMAIN files) <= AssetsPerUser
      /\ MapThenSumSet(byteSize, used) + MapThenSumSet(size, DOMAIN files)
           <= BytesPerUser

ToCreate(i) == {a \in Assets : i.todo[a] # {}}

Reserved == UNION {ToCreate(i) : i \in UNION {intents[q] : q \in Slots}}

\* Policies and quota are checked before anything is created.  The ids, which
\* nobody sees before the response, are drawn here.
AdmitIntent(q, u, files) ==
  /\ now + CommitWindow <= MaxTime  \* bound: the clock outlives every window
  /\ intents[q] = {}
  /\ \A a \in DOMAIN files : rows[a].status = "unminted" /\ a \notin Reserved
  /\ \A a \in DOMAIN files : WithinPolicy(files[a])
  /\ assertWithinQuota(u, files)
  /\ intents' = [intents EXCEPT ![q] =
       {[userId |-> u, expiresAt |-> now + CommitWindow,
         todo |-> [a \in Assets |-> IF a \in DOMAIN files THEN {files[a]} ELSE {}],
         tickets |-> [a \in Assets |-> {}]]}]
  /\ UNCHANGED <<rows, grants, puts, quarantine, objects, commits, answers, now>>

\* One turn of the loop: sign, then insert.  The URL's own clock starts here,
\* the commit window's clock when the batch was admitted.
CreateOne(q, i, a, f) ==
  /\ rows' = [rows EXCEPT ![a] = Pending(i.userId, f, i.expiresAt)]
  /\ intents' = [intents EXCEPT ![q] =
       {[i EXCEPT !.todo[a] = {},
                  !.tickets[a] = {[declared |-> f, expiresAt |-> now + UploadUrlTtl]}]}]
  /\ UNCHANGED <<grants, puts, quarantine, objects, commits, answers, now>>

CreateRow(q) ==
  \E i \in intents[q] : \E a \in Assets : \E f \in i.todo[a] : CreateOne(q, i, a, f)

\* The client holds the URLs only once the whole batch has been answered.
IntentReturns(q) ==
  \E i \in intents[q] :
    /\ ToCreate(i) = {}
    /\ grants' = [a \in Assets |-> IF i.tickets[a] # {} THEN i.tickets[a] ELSE grants[a]]
    /\ intents' = [intents EXCEPT ![q] = {}]
    /\ UNCHANGED <<rows, puts, quarantine, objects, commits, answers, now>>

\* Signing or an insert throws, or the process dies: rows already inserted stay.
IntentFails(q) ==
  /\ intents[q] # {}
  /\ intents' = [intents EXCEPT ![q] = {}]
  /\ UNCHANGED <<rows, grants, puts, quarantine, objects, commits, answers, now>>

-----------------------------------------------------------------------------
(* The client's PUT, straight to the quarantine bucket: the signature pins *)
(* type, length and digest, and must be fresh when the PUT starts.         *)

BeginPut(a, c) ==
  /\ \E g \in grants[a] : now <= g.expiresAt
  /\ puts' = [puts EXCEPT ![a] = @ \cup {c}]
  /\ UNCHANGED <<rows, intents, grants, quarantine, objects, commits, answers, now>>

MutantMatchesGrant(g, c) == c.byteSize = g.declared.byteSize

MatchesGrant(g, c) ==
  c.byteSize = g.declared.byteSize /\ c.sha256 = g.declared.sha256

\* The object appears whole, or not at all; a second PUT replaces it.
FinishPut(a, c) ==
  /\ c \in puts[a]
  /\ \E g \in grants[a] : MatchesGrant(g, c)
  /\ puts' = [puts EXCEPT ![a] = @ \ {c}]
  /\ quarantine' = [quarantine EXCEPT ![a] = {c}]
  /\ UNCHANGED <<rows, intents, grants, objects, commits, answers, now>>

PutFails(a, c) ==
  /\ c \in puts[a]
  /\ puts' = [puts EXCEPT ![a] = @ \ {c}]
  /\ UNCHANGED <<rows, intents, grants, quarantine, objects, commits, answers, now>>

-----------------------------------------------------------------------------
(* commit, one action per await.                                           *)

\* sniff and inspectUpload: f is what was declared, size the stored size, c the
\* content whose first bytes were read.
inspectUpload(f, size, c) ==
  LET policy == Policies[f.kind]
  IN  /\ size = f.byteSize
      /\ size <= policy.maxSizeInBytes
      /\ c.contentType \in policy.allowedContentTypes
      /\ c.contentType = f.contentType
      /\ c.width >= 1 /\ c.height >= 1
      /\ c.width <= policy.maxEdge /\ c.height <= policy.maxEdge
      /\ c.width * c.height <= policy.maxPixels

\* A row that is settled already answers at once, whoever settled it.
AnswerSettled(u, a) ==
  /\ rows[a].status \in {"committed", "rejected"}
  /\ rows[a].userId = u
  /\ answers' = [answers EXCEPT ![a] = @ \cup {rows[a].status}]
  /\ UNCHANGED <<rows, intents, grants, puts, quarantine, objects, commits, now>>

\* The guards: an unknown or foreign id (404) and a closed window (410) end here.
BeginCommit(h, u, a) ==
  /\ commits[h] = {}
  /\ InWindow(a)
  /\ rows[a].userId = u
  /\ commits' = [commits EXCEPT ![h] =
       {[assetId |-> a, declared |-> rows[a].declared, step |-> "head",
         byteSize |-> 0, contentType |-> "none"]}]
  /\ UNCHANGED <<rows, intents, grants, puts, quarantine, objects, answers, now>>

At(h, step) == {w \in commits[h] : w.step = step}

Goto(h, w, step) == commits' = [commits EXCEPT ![h] = {[w EXCEPT !.step = step]}]

HeadObject(h) ==
  \E w \in At(h, "head") : \E c \in quarantine[w.assetId] :
    /\ commits' = [commits EXCEPT ![h] =
         {[w EXCEPT !.step = "read", !.byteSize = c.byteSize]}]
    /\ UNCHANGED <<rows, intents, grants, puts, quarantine, objects, answers, now>>

ReadHeader(h) ==
  \E w \in At(h, "read") : \E c \in quarantine[w.assetId] :
    /\ commits' = [commits EXCEPT ![h] =
         IF inspectUpload(w.declared, w.byteSize, c)
           THEN {[w EXCEPT !.step = "copy", !.contentType = c.contentType]}
           ELSE {[w EXCEPT !.step = "reject"]}]
    /\ UNCHANGED <<rows, intents, grants, puts, quarantine, objects, answers, now>>

MutantMarkRejected(h) ==
  \E w \in At(h, "reject") :
    /\ rows' = [rows EXCEPT ![w.assetId] =
         IF @.status = "pending" THEN [@ EXCEPT !.status = "rejected"] ELSE @]
    /\ Goto(h, w, "tellRejected")
    /\ UNCHANGED <<intents, grants, puts, quarantine, objects, answers, now>>

\* The null of a row somebody else settled, or of a reaped one, is not looked at.
MarkRejected(h) ==
  \E w \in At(h, "reject") :
    /\ rows' = [rows EXCEPT ![w.assetId] =
         IF @.status = "pending"
           THEN [status |-> "rejected", userId |-> @.userId, declared |-> @.declared,
                 pendingExpiresAt |-> Never]
           ELSE @]
    /\ Goto(h, w, "tellRejected")
    /\ UNCHANGED <<intents, grants, puts, quarantine, objects, answers, now>>

MutantCopyObject(h) ==
  \E w \in At(h, "copy") :
    /\ objects' = [objects EXCEPT ![w.assetId] =
         {[content |-> c, contentType |-> w.contentType] : c \in quarantine[w.assetId]}]
    /\ Goto(h, w, "mark")
    /\ UNCHANGED <<rows, intents, grants, puts, quarantine, answers, now>>

CopyObject(h) ==
  \E w \in At(h, "copy") : \E c \in quarantine[w.assetId] :
    /\ objects' = [objects EXCEPT ![w.assetId] =
         {[content |-> c, contentType |-> w.contentType]}]
    /\ Goto(h, w, "mark")
    /\ UNCHANGED <<rows, intents, grants, puts, quarantine, answers, now>>

MutantMarkCommitted(h) ==
  \E w \in At(h, "mark") :
    /\ rows' = [rows EXCEPT ![w.assetId] =
         IF @.status = "pending"
           THEN [status |-> "committed", userId |-> @.userId, declared |-> @.declared,
                 pendingExpiresAt |-> Never,
                 actual |-> [byteSize |-> w.byteSize, contentType |-> w.contentType]]
           ELSE @]
    /\ Goto(h, w, "tellCommitted")
    /\ UNCHANGED <<intents, grants, puts, quarantine, objects, answers, now>>

\* findOneAndUpdate on a PENDING row.  On null the service reads the row again;
\* a row that is not pending is final, so that read is folded into this step.
MarkCommitted(h) ==
  \E w \in At(h, "mark") :
    /\ \/ /\ rows[w.assetId].status = "pending"
          /\ rows' = [rows EXCEPT ![w.assetId] =
               [status |-> "committed", userId |-> @.userId, declared |-> @.declared,
                pendingExpiresAt |-> Never,
                actual |-> [byteSize |-> w.byteSize, contentType |-> w.contentType]]]
          /\ Goto(h, w, "tellCommitted")
          /\ UNCHANGED answers
       \/ /\ rows[w.assetId].status = "committed"
          /\ answers' = [answers EXCEPT ![w.assetId] = @ \cup {"committed"}]
          /\ commits' = [commits EXCEPT ![h] = {}]
          /\ UNCHANGED rows
    /\ UNCHANGED <<intents, grants, puts, quarantine, objects, now>>

\* deleteQuietly, which may fail quietly, and the response.
DeleteAndAnswer(h) ==
  \E decision \in {"committed", "rejected"} :
    \E w \in At(h, IF decision = "committed" THEN "tellCommitted" ELSE "tellRejected") :
      /\ quarantine' \in {[quarantine EXCEPT ![w.assetId] = {}], quarantine}
      /\ answers' = [answers EXCEPT ![w.assetId] = @ \cup {decision}]
      /\ commits' = [commits EXCEPT ![h] = {}]
      /\ UNCHANGED <<rows, intents, grants, puts, objects, now>>

\* Nothing uploaded (409), the object gone between two calls, the row settled
\* otherwise (409), a call that throws, a process that dies.
CommitEndsUndecided(h) ==
  /\ commits[h] # {}
  /\ commits' = [commits EXCEPT ![h] = {}]
  /\ UNCHANGED <<rows, intents, grants, puts, quarantine, objects, answers, now>>

-----------------------------------------------------------------------------
(* The TTL monitor, the lifecycle rule, the clock.                         *)

\* The partial index holds PENDING rows only, and a null expiry is not a date;
\* the monitor lags as it likes.
Reap(a) ==
  /\ rows[a].status = "pending"
  /\ rows[a].pendingExpiresAt # Never
  /\ rows[a].pendingExpiresAt <= now
  /\ rows' = [rows EXCEPT ![a] = Reaped]
  /\ UNCHANGED <<intents, grants, puts, quarantine, objects, commits, answers, now>>

\* The rule's one day is longer than the commit window and the URL's life.
ExpireQuarantine(a) ==
  /\ quarantine[a] # {}
  /\ ~InWindow(a)
  /\ \A g \in grants[a] : g.expiresAt < now
  /\ quarantine' = [quarantine EXCEPT ![a] = {}]
  /\ UNCHANGED <<rows, intents, grants, puts, objects, commits, answers, now>>

Tick ==
  /\ now < MaxTime
  /\ now' = now + 1
  /\ UNCHANGED <<rows, intents, grants, puts, quarantine, objects, commits, answers>>

-----------------------------------------------------------------------------

Batches == {b \in SUBSET Assets : Cardinality(b) \in 1..FilesPerIntent}

Intent(q) ==
  \E u \in Users, b \in Batches : \E files \in [b -> Files] : AdmitIntent(q, u, files)

Next ==
  \/ \E q \in Slots : Intent(q) \/ CreateRow(q) \/ IntentReturns(q) \/ IntentFails(q)
  \/ \E a \in Assets, c \in Contents : BeginPut(a, c) \/ FinishPut(a, c) \/ PutFails(a, c)
  \/ \E u \in Users, a \in Assets : AnswerSettled(u, a)
  \/ \E h \in Handlers, u \in Users, a \in Assets : BeginCommit(h, u, a)
  \/ \E h \in Handlers : HeadObject(h) \/ ReadHeader(h) \/ MarkRejected(h)
  \/ \E h \in Handlers : CopyObject(h) \/ MarkCommitted(h) \/ DeleteAndAnswer(h)
  \/ \E h \in Handlers : CommitEndsUndecided(h)
  \/ \E a \in Assets : Reap(a) \/ ExpireQuarantine(a)
  \/ Tick

Spec == Init /\ [][Next]_vars

\* Time passes, and the TTL monitor comes round.  Nothing is assumed of clients.
Fairness == WF_vars(Tick) /\ \A a \in Assets : WF_vars(Reap(a))

FairSpec == Spec /\ Fairness

-----------------------------------------------------------------------------
(* Properties.                                                             *)

Actual == [byteSize : Nat, contentType : ContentTypes]

Row ==
  {Unminted, Reaped}
    \cup [status : {"pending"}, userId : Users, declared : Files, pendingExpiresAt : Nat]
    \cup [status : {"rejected"}, userId : Users, declared : Files,
          pendingExpiresAt : {Never}]
    \cup [status : {"committed"}, userId : Users, declared : Files,
          pendingExpiresAt : {Never}, actual : Actual]

Url == [declared : Files, expiresAt : Nat]

IntentRequest ==
  [userId : Users, expiresAt : Nat,
   todo : [Assets -> SUBSET Files], tickets : [Assets -> SUBSET Url]]

Object == [content : Contents, contentType : ContentTypes]

CommitRequest ==
  [assetId : Assets, declared : Files, byteSize : Nat, contentType : ContentTypes,
   step : {"head", "read", "copy", "mark", "reject", "tellCommitted", "tellRejected"}]

OneIn(f, D, S) ==
  /\ f = [d \in D |-> f[d]]
  /\ \A d \in D : f[d] \subseteq S /\ \A x, y \in f[d] : x = y

\* Types; and exactly the rows that are PENDING are in the TTL index.
TypeOK ==
  /\ rows \in [Assets -> Row]
  /\ OneIn(intents, Slots, IntentRequest)
  /\ grants \in [Assets -> SUBSET Url]
  /\ puts \in [Assets -> SUBSET Contents]
  /\ OneIn(quarantine, Assets, Contents)
  /\ OneIn(objects, Assets, Object)
  /\ OneIn(commits, Handlers, CommitRequest)
  /\ answers \in [Assets -> SUBSET {"committed", "rejected"}]
  /\ now \in Nat

\* What is served at an asset's URL was inspected: the content in the asset
\* bucket is one the verdict accepts for what its client declared, although the
\* client may PUT again between the inspection and the copy.
Fit(c) == \E f \in Files : inspectUpload(f, c.byteSize, c)

DeliveredWasInspected ==
  \A a \in Assets : \A o \in objects[a] :
    \A g \in grants[a] : /\ inspectUpload(g.declared, o.content.byteSize, o.content)
                         /\ o.contentType = o.content.contentType

\* A COMMITTED row has its object, the very content the row was declared for:
\* copy comes before the database write, whatever is crashed or reaped between.
CommittedIsServed ==
  \A a \in Assets : rows[a].status = "committed" =>
    \E o \in objects[a] : /\ o.content.sha256 = rows[a].declared.sha256
                          /\ o.contentType = rows[a].actual.contentType
                          /\ o.content.byteSize = rows[a].actual.byteSize

\* No client is ever told "committed" of an upload another is told "rejected"
\* of, and an upload reported as committed is not withdrawn afterwards.
AnswersAreTrue ==
  \A a \in Assets :
    /\ "committed" \in answers[a] => rows[a].status = "committed"
    /\ "rejected" \in answers[a] => rows[a].status \in {"rejected", "reaped"}

\* Why those three hold, and what makes them inductive.  An id waits to be
\* created in one intent only and is not minted yet (Fresh).  Every URL signed
\* for an asset, its row and every commit of it under way carry one declaration
\* (OneUrl, Faithful).  So the quarantine bucket holds, whenever it holds
\* anything, the one content with the declared digest (Pinned), and whatever a
\* commit concluded from the bytes it read is true of the bytes it copies
\* (Concluded).
Signed(a) ==
  grants[a] \cup UNION {i.tickets[a] : i \in UNION {intents[q] : q \in Slots}}

Fresh ==
  \A q, r \in Slots : \A i \in intents[q], j \in intents[r] : \A a \in Assets :
    /\ i.todo[a] # {} => rows[a].status = "unminted"
    /\ i.todo[a] # {} /\ j.todo[a] # {} => q = r

OneUrl ==
  \A a \in Assets : \A g, g2 \in Signed(a) :
    /\ rows[a].status # "unminted"
    /\ rows[a].status # "reaped" => g.declared = rows[a].declared
    /\ g = g2

Faithful ==
  \A h \in Handlers : \A w \in commits[h] :
    /\ rows[w.assetId].status # "unminted"
    /\ rows[w.assetId].status # "reaped" => rows[w.assetId].declared = w.declared
    /\ \A g \in Signed(w.assetId) : g.declared = w.declared

Declared(f, c) == c.byteSize = f.byteSize /\ c.sha256 = f.sha256

Pinned ==
  \A a \in Assets :
    /\ quarantine[a] # {} => \E g \in grants[a] : \A c \in quarantine[a] : Declared(g.declared, c)
    /\ objects[a] # {} => \E g \in grants[a] : \A o \in objects[a] : Declared(g.declared, o.content)

\* The verdict of w is a fact about the one content its declaration names.
Verdict(w, accepted) ==
  \E c \in Contents : /\ Declared(w.declared, c)
                      /\ w.byteSize = c.byteSize
                      /\ accepted <=> inspectUpload(w.declared, w.byteSize, c)
                      /\ accepted => w.contentType = c.contentType

Concluded ==
  \A h \in Handlers : \A w \in commits[h] :
    /\ w.step = "read" => w.byteSize = w.declared.byteSize
    /\ w.step \in {"copy", "mark"} => Verdict(w, TRUE)
    /\ w.step = "mark" => objects[w.assetId] # {}
    /\ w.step = "tellCommitted" => rows[w.assetId].status = "committed"
    /\ w.step \in {"reject", "tellRejected"} => Verdict(w, FALSE)
    /\ w.step = "tellRejected" => rows[w.assetId].status \in {"rejected", "reaped"}

UploadInv ==
  /\ TypeOK
  /\ Fresh
  /\ OneUrl
  /\ Faithful
  /\ Pinned
  /\ Concluded
  /\ DeliveredWasInspected
  /\ CommittedIsServed
  /\ AnswersAreTrue

\* What a user holds: the rows usageFor is meant to count.
Held(u) ==
  {a \in Assets : /\ rows[a].status \in {"pending", "committed"}
                  /\ rows[a].userId = u
                  /\ rows[a].status = "pending" => rows[a].pendingExpiresAt > now}

\* Commits past their guards whose row has since left the window: usageFor no
\* longer counts the row, and yet it may still become COMMITTED.
Doomed(u) ==
  {a \in Assets : /\ rows[a].status = "pending" /\ rows[a].userId = u
                  /\ ~InWindow(a)
                  /\ \E h \in Handlers : \E w \in commits[h] : w.assetId = a}

Waiting(u) ==
  UNION {ToCreate(i) : i \in {j \in UNION {intents[q] : q \in Slots} : j.userId = u}}

\* How far the per-user quota can be overshot, by intents admitted side by side
\* and by commits that outlive their window: never more than one batch for each
\* other intent and one asset for each commit in flight.
QuotaOvershoot ==
  \A u \in Users :
    Cardinality(Held(u)) + Cardinality(Waiting(u)) + Cardinality(Doomed(u))
      <= AssetsPerUser + (Cardinality(Slots) - 1) * FilesPerIntent
           + Cardinality(Handlers)

\* Every intent is decided or withdrawn, those of a batch that failed half-way
\* and whose URLs nobody holds included, so none keeps quota for ever.
IntentsEnd ==
  \A a \in Assets : rows[a].status = "pending" ~> rows[a].status # "pending"

\* The rows and the asset bucket implement the abstract upload.
Promise == INSTANCE Upload
  WITH phase <- [a \in Assets |-> rows[a].status],
       shown <- [a \in Assets |->
                   IF rows[a].status = "committed"
                     THEN {o.content : o \in objects[a]} ELSE {}]

ImplementsUpload == Promise!Spec
=============================================================================
