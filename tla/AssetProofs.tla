----------------------------- MODULE AssetProofs -----------------------------
(***************************************************************************)
(* Theorems about AssetUpload, for every set of users, assets, contents    *)
(* and declarations, every policy and limit, and any number of concurrent  *)
(* intents and commits.                                                    *)
(***************************************************************************)
EXTENDS AssetUpload, FiniteSetTheorems, TLAPS

-----------------------------------------------------------------------------
(* Types.                                                                  *)

LEMMA OneFill ==
  ASSUME NEW f, NEW D, NEW S, OneIn(f, D, S), NEW d \in D, NEW x \in S
  PROVE  OneIn([f EXCEPT ![d] = {x}], D, S)
BY DEF OneIn

LEMMA OneClear ==
  ASSUME NEW f, NEW D, NEW S, OneIn(f, D, S), NEW d \in D
  PROVE  OneIn([f EXCEPT ![d] = {}], D, S)
BY DEF OneIn

LEMMA OneMember ==
  ASSUME NEW f, NEW D, NEW S, OneIn(f, D, S), NEW d \in D, NEW x \in f[d]
  PROVE  x \in S /\ f[d] = {x}
BY DEF OneIn

LEMMA InitTypes == Init => TypeOK
BY AssetAssumption DEF Init, TypeOK, Row, Unminted, OneIn

LEMMA IntentTypes ==
  ASSUME TypeOK, NEW q \in Slots,
         Intent(q) \/ CreateRow(q) \/ IntentReturns(q) \/ IntentFails(q)
  PROVE  TypeOK'
<1> USE AssetAssumption DEF TypeOK
<1>1. CASE Intent(q)
  <2>1. PICK u \in Users, b \in Batches : \E files \in [b -> Files] : AdmitIntent(q, u, files)
    BY <1>1 DEF Intent
  <2>2. PICK files \in [b -> Files] : AdmitIntent(q, u, files)
    BY <2>1
  <2> DEFINE i == [userId |-> u, expiresAt |-> now + CommitWindow,
                   todo |-> [a \in Assets |-> IF a \in DOMAIN files THEN {files[a]} ELSE {}],
                   tickets |-> [a \in Assets |-> {}]]
  <2>3. i \in IntentRequest
    BY DEF IntentRequest
  <2>4. OneIn([intents EXCEPT ![q] = {i}], Slots, IntentRequest)
    BY <2>3, OneFill
  <2> QED BY <2>2, <2>4 DEF AdmitIntent
<1>2. CASE CreateRow(q)
  <2>1. PICK i \in intents[q], a \in Assets : \E f \in i.todo[a] : CreateOne(q, i, a, f)
    BY <1>2 DEF CreateRow
  <2>2. PICK f \in i.todo[a] : CreateOne(q, i, a, f)
    BY <2>1
  <2> DEFINE url == [declared |-> f, expiresAt |-> now + UploadUrlTtl]
             j == [i EXCEPT !.todo[a] = {}, !.tickets[a] = {url}]
  <2>3. i \in IntentRequest
    BY OneMember
  <2>4. f \in Files
    BY <2>3 DEF IntentRequest
  <2>5. url \in Url
    BY <2>4 DEF Url
  <2>6. j \in IntentRequest
    BY <2>3, <2>5 DEF IntentRequest
  <2>7. Pending(i.userId, f, i.expiresAt) \in Row
    BY <2>3, <2>4 DEF Pending, Row, IntentRequest
  <2>8. OneIn([intents EXCEPT ![q] = {j}], Slots, IntentRequest)
    BY <2>6, OneFill
  <2> QED BY <2>2, <2>7, <2>8 DEF CreateOne
<1>3. CASE IntentReturns(q)
  <2>1. PICK i \in intents[q] :
          grants' = [a \in Assets |-> IF i.tickets[a] # {} THEN i.tickets[a] ELSE grants[a]]
    BY <1>3 DEF IntentReturns
  <2>2. i \in IntentRequest
    BY OneMember
  <2>3. OneIn([intents EXCEPT ![q] = {}], Slots, IntentRequest)
    BY OneClear
  <2> QED BY <1>3, <2>1, <2>2, <2>3 DEF IntentReturns, IntentRequest
<1>4. CASE IntentFails(q)
  BY <1>4, OneClear DEF IntentFails
<1> QED BY <1>1, <1>2, <1>3, <1>4

LEMMA PutTypes ==
  ASSUME TypeOK, NEW a \in Assets, NEW c \in Contents,
         BeginPut(a, c) \/ FinishPut(a, c) \/ PutFails(a, c)
  PROVE  TypeOK'
<1>1. OneIn([quarantine EXCEPT ![a] = {c}], Assets, Contents)
  BY OneFill DEF TypeOK
<1> QED BY <1>1 DEF TypeOK, BeginPut, FinishPut, PutFails

\* What a row that has a document carries.
LEMMA RowTypes ==
  ASSUME TypeOK, NEW a \in Assets, rows[a].status \notin {"unminted", "reaped"}
  PROVE  /\ rows[a].userId \in Users
         /\ rows[a].declared \in Files
         /\ rows[a].status \in {"pending", "rejected", "committed"}
<1>1. rows[a] \in Row
  BY DEF TypeOK
<1>2. rows[a] # Unminted /\ rows[a] # Reaped
  BY DEF Unminted, Reaped
<1> QED BY <1>1, <1>2 DEF Row

LEMMA BeginCommitTypes ==
  ASSUME TypeOK, NEW h \in Handlers, NEW u \in Users, NEW a \in Assets, BeginCommit(h, u, a)
  PROVE  TypeOK'
<1> DEFINE w == [assetId |-> a, declared |-> rows[a].declared, step |-> "head",
                 byteSize |-> 0, contentType |-> "none"]
<1>1. rows[a].declared \in Files
  BY RowTypes DEF BeginCommit, InWindow
<1>2. w \in CommitRequest
  BY <1>1 DEF CommitRequest, ContentTypes
<1>3. OneIn([commits EXCEPT ![h] = {w}], Handlers, CommitRequest)
  BY <1>2, OneFill DEF TypeOK
<1> QED BY <1>3 DEF TypeOK, BeginCommit

\* Moving a commit request on keeps its type.
LEMMA LearnTypes ==
  ASSUME TypeOK, NEW h \in Handlers, NEW w \in commits[h],
         NEW step \in {"head", "read", "copy", "mark", "reject", "tellCommitted", "tellRejected"},
         NEW size \in Nat, NEW type \in ContentTypes
  PROVE  /\ OneIn([commits EXCEPT ![h] = {[w EXCEPT !.step = step, !.byteSize = size]}],
                  Handlers, CommitRequest)
         /\ OneIn([commits EXCEPT ![h] = {[w EXCEPT !.step = step, !.contentType = type]}],
                  Handlers, CommitRequest)
<1>1. w \in CommitRequest
  BY OneMember DEF TypeOK
<1>2. /\ [w EXCEPT !.step = step, !.byteSize = size] \in CommitRequest
      /\ [w EXCEPT !.step = step, !.contentType = type] \in CommitRequest
  BY <1>1 DEF CommitRequest
<1> QED BY <1>2, OneFill, OneClear DEF TypeOK

LEMMA GotoTypes ==
  ASSUME TypeOK, NEW h \in Handlers, NEW w \in commits[h],
         NEW step \in {"head", "read", "copy", "mark", "reject", "tellCommitted", "tellRejected"}
  PROVE  OneIn([commits EXCEPT ![h] = {[w EXCEPT !.step = step]}], Handlers, CommitRequest)
<1>1. w \in CommitRequest
  BY OneMember DEF TypeOK
<1>2. [w EXCEPT !.step = step] \in CommitRequest
  BY <1>1 DEF CommitRequest
<1> QED BY <1>2, OneFill DEF TypeOK

LEMMA CommitTypes ==
  ASSUME TypeOK, NEW h \in Handlers,
         \/ HeadObject(h) \/ ReadHeader(h) \/ MarkRejected(h) \/ CopyObject(h)
         \/ MarkCommitted(h) \/ DeleteAndAnswer(h) \/ CommitEndsUndecided(h)
  PROVE  TypeOK'
<1> USE DEF TypeOK
<1>a. \A w \in commits[h] : w \in CommitRequest
  BY OneMember
<1>b. ASSUME NEW w \in commits[h] PROVE \A c \in quarantine[w.assetId] : c \in Contents
  BY <1>a, OneMember DEF CommitRequest
<1>c. \A c \in Contents : c.byteSize \in Nat /\ c.contentType \in ContentTypes
  BY AssetAssumption DEF Content
<1>1. CASE HeadObject(h)
  <2>1. PICK w \in commits[h], c \in Contents :
          /\ commits' = [commits EXCEPT ![h] =
               {[w EXCEPT !.step = "read", !.byteSize = c.byteSize]}]
          /\ UNCHANGED <<rows, intents, grants, puts, quarantine, objects, answers, now>>
    BY <1>1, <1>b DEF HeadObject, At
  <2>2. OneIn(commits', Handlers, CommitRequest)
    BY <2>1, <1>c, LearnTypes
  <2> QED BY <2>1, <2>2
<1>2. CASE ReadHeader(h)
  <2>1. PICK w \in commits[h], c \in Contents :
          /\ commits' = [commits EXCEPT ![h] =
               IF inspectUpload(w.declared, w.byteSize, c)
                 THEN {[w EXCEPT !.step = "copy", !.contentType = c.contentType]}
                 ELSE {[w EXCEPT !.step = "reject"]}]
          /\ UNCHANGED <<rows, intents, grants, puts, quarantine, objects, answers, now>>
    BY <1>2, <1>b DEF ReadHeader, At
  <2>2. /\ OneIn([commits EXCEPT ![h] =
                 {[w EXCEPT !.step = "copy", !.contentType = c.contentType]}],
                 Handlers, CommitRequest)
        /\ OneIn([commits EXCEPT ![h] = {[w EXCEPT !.step = "reject"]}],
                 Handlers, CommitRequest)
    BY <1>c, LearnTypes, GotoTypes
  <2>3. OneIn(commits', Handlers, CommitRequest)
    BY <2>1, <2>2
  <2> QED BY <2>1, <2>3
<1>3. CASE MarkRejected(h)
  <2>1. PICK w \in commits[h] :
          /\ rows' = [rows EXCEPT ![w.assetId] =
               IF @.status = "pending"
                 THEN [status |-> "rejected", userId |-> @.userId,
                       declared |-> @.declared, pendingExpiresAt |-> Never]
                 ELSE @]
          /\ Goto(h, w, "tellRejected")
          /\ UNCHANGED <<intents, grants, puts, quarantine, objects, answers, now>>
    BY <1>3 DEF MarkRejected, At
  <2>2. rows[w.assetId].status = "pending" =>
          [status |-> "rejected", userId |-> rows[w.assetId].userId,
           declared |-> rows[w.assetId].declared, pendingExpiresAt |-> Never] \in Row
    BY <1>a, RowTypes DEF Row, CommitRequest
  <2>3. rows' \in [Assets -> Row]
    BY <2>1, <2>2, <1>a DEF CommitRequest
  <2>4. OneIn(commits', Handlers, CommitRequest)
    BY <2>1, GotoTypes, OneClear DEF Goto
  <2> QED BY <2>1, <2>3, <2>4
<1>4. CASE CopyObject(h)
  <2>1. PICK w \in commits[h], c \in Contents :
          /\ objects' = [objects EXCEPT ![w.assetId] =
               {[content |-> c, contentType |-> w.contentType]}]
          /\ Goto(h, w, "mark")
          /\ UNCHANGED <<rows, intents, grants, puts, quarantine, answers, now>>
    BY <1>4, <1>b DEF CopyObject, At
  <2>2. [content |-> c, contentType |-> w.contentType] \in Object /\ w.assetId \in Assets
    BY <1>a DEF Object, CommitRequest
  <2>3. OneIn(objects', Assets, Object)
    BY <2>1, <2>2, OneFill
  <2>4. OneIn(commits', Handlers, CommitRequest)
    BY <2>1, GotoTypes, OneClear DEF Goto
  <2> QED BY <2>1, <2>3, <2>4
<1>5. CASE MarkCommitted(h)
  <2>1. PICK w \in commits[h] :
          \/ /\ rows[w.assetId].status = "pending"
             /\ rows' = [rows EXCEPT ![w.assetId] =
                  [status |-> "committed", userId |-> @.userId, declared |-> @.declared,
                   pendingExpiresAt |-> Never,
                   actual |-> [byteSize |-> w.byteSize, contentType |-> w.contentType]]]
             /\ Goto(h, w, "tellCommitted")
             /\ UNCHANGED answers
          \/ /\ answers' = [answers EXCEPT ![w.assetId] = @ \cup {"committed"}]
             /\ commits' = [commits EXCEPT ![h] = {}]
             /\ UNCHANGED rows
    BY <1>5 DEF MarkCommitted, At
  <2>2. w \in CommitRequest
    BY <1>a
  <2>2a. rows[w.assetId].status = "pending" =>
           [status |-> "committed", userId |-> rows[w.assetId].userId,
            declared |-> rows[w.assetId].declared, pendingExpiresAt |-> Never,
            actual |-> [byteSize |-> w.byteSize, contentType |-> w.contentType]] \in Row
    BY <2>2, RowTypes DEF Row, CommitRequest, Actual
  <2>3. rows' \in [Assets -> Row]
    BY <2>1, <2>2, <2>2a DEF CommitRequest
  <2>4. answers' \in [Assets -> SUBSET {"committed", "rejected"}]
    BY <2>1, <2>2 DEF CommitRequest
  <2>5a. /\ OneIn([commits EXCEPT ![h] = {[w EXCEPT !.step = "tellCommitted"]}],
                  Handlers, CommitRequest)
         /\ OneIn([commits EXCEPT ![h] = {}], Handlers, CommitRequest)
    BY GotoTypes, OneClear
  <2>5. OneIn(commits', Handlers, CommitRequest)
    BY <2>1, <2>5a DEF Goto
  <2>6. UNCHANGED <<intents, grants, puts, quarantine, objects, now>>
    BY <1>5 DEF MarkCommitted
  <2> QED BY <2>3, <2>4, <2>5, <2>6
<1>6. CASE DeleteAndAnswer(h)
  <2>1. PICK w \in commits[h], decision \in {"committed", "rejected"} :
          /\ quarantine' \in {[quarantine EXCEPT ![w.assetId] = {}], quarantine}
          /\ answers' = [answers EXCEPT ![w.assetId] = @ \cup {decision}]
          /\ commits' = [commits EXCEPT ![h] = {}]
          /\ UNCHANGED <<rows, intents, grants, puts, objects, now>>
    BY <1>6 DEF DeleteAndAnswer, At
  <2>2. OneIn(quarantine', Assets, Contents)
    <3>1. w.assetId \in Assets
      BY <1>a DEF CommitRequest
    <3>2. OneIn([quarantine EXCEPT ![w.assetId] = {}], Assets, Contents)
      BY <3>1, OneClear DEF TypeOK
    <3>3. quarantine' = [quarantine EXCEPT ![w.assetId] = {}] \/ quarantine' = quarantine
      BY <2>1
    <3> QED BY <3>2, <3>3, Zenon DEF TypeOK
  <2>3. OneIn(commits', Handlers, CommitRequest)
    BY <2>1, OneClear
  <2>4. answers' \in [Assets -> SUBSET {"committed", "rejected"}]
    BY <2>1
  <2> QED BY <2>1, <2>2, <2>3, <2>4
<1>7. CASE CommitEndsUndecided(h)
  BY <1>7, OneClear DEF CommitEndsUndecided
<1> QED BY <1>1, <1>2, <1>3, <1>4, <1>5, <1>6, <1>7

LEMMA ClockTypes ==
  ASSUME TypeOK,
         \/ \E u \in Users, a \in Assets : AnswerSettled(u, a)
         \/ \E a \in Assets : Reap(a) \/ ExpireQuarantine(a)
         \/ Tick
         \/ UNCHANGED vars
  PROVE  TypeOK'
<1> USE DEF TypeOK
<1>1. ASSUME NEW u \in Users, NEW a \in Assets, AnswerSettled(u, a) PROVE TypeOK'
  BY <1>1 DEF AnswerSettled
<1>2. ASSUME NEW a \in Assets, Reap(a) PROVE TypeOK'
  BY <1>2 DEF Reap, Row
<1>3. ASSUME NEW a \in Assets, ExpireQuarantine(a) PROVE TypeOK'
  BY <1>3, OneClear DEF ExpireQuarantine
<1>4. CASE Tick
  BY <1>4 DEF Tick
<1>5. CASE UNCHANGED vars
  BY <1>5 DEF vars
<1> QED BY <1>1, <1>2, <1>3, <1>4, <1>5

LEMMA StepTypes == TypeOK /\ [Next]_vars => TypeOK'
BY IntentTypes, PutTypes, BeginCommitTypes, CommitTypes, ClockTypes DEF Next

\* Type correctness; with it, that a row is in the TTL index exactly while it
\* is PENDING.
THEOREM TypeCorrect == Spec => []TypeOK
BY InitTypes, StepTypes, PTL DEF Spec
-----------------------------------------------------------------------------
(* One declaration per asset.                                              *)

LEMMA SignedIff ==
  ASSUME NEW a
  PROVE  /\ \A g : g \in Signed(a) <=>
              g \in grants[a] \/ \E q \in Slots : \E i \in intents[q] : g \in i.tickets[a]
         /\ \A g : g \in Signed(a)' <=>
              g \in grants'[a] \/ \E q \in Slots : \E i \in intents'[q] : g \in i.tickets[a]
BY DEF Signed

LEMMA RequestTypes ==
  ASSUME TypeOK, NEW h \in Handlers, NEW w \in commits[h]
  PROVE  /\ w \in CommitRequest /\ w.assetId \in Assets /\ w.declared \in Files
         /\ commits[h] = {w}
<1>1. w \in CommitRequest /\ commits[h] = {w}
  BY DEF TypeOK, OneIn
<1> QED BY <1>1 DEF CommitRequest

LEMMA IntentTypesOf ==
  ASSUME TypeOK, NEW q \in Slots, NEW i \in intents[q]
  PROVE  i \in IntentRequest /\ intents[q] = {i}
BY DEF TypeOK, OneIn

\* A commit step keeps what its request is about.
CommitStep(h) ==
  \/ HeadObject(h) \/ ReadHeader(h) \/ MarkRejected(h) \/ CopyObject(h)
  \/ MarkCommitted(h) \/ DeleteAndAnswer(h) \/ CommitEndsUndecided(h)

LEMMA CommitKeeps ==
  ASSUME TypeOK, NEW h \in Handlers, CommitStep(h)
  PROVE  /\ UNCHANGED <<intents, grants, puts, now>>
         /\ \A k \in Handlers : \A v \in commits'[k] : \E w \in commits[k] :
              w.assetId = v.assetId /\ w.declared = v.declared
         /\ \A k \in Handlers : k # h => commits'[k] = commits[k]
<1>1. \A w \in commits[h] : w \in CommitRequest
  BY OneMember DEF TypeOK
<1>2. commits = [k \in Handlers |-> commits[k]]
  BY DEF TypeOK, OneIn
<1> HIDE DEF TypeOK
<1>3. CASE HeadObject(h)
  <2>1. PICK w \in commits[h] : \E c \in quarantine[w.assetId] :
          commits' = [commits EXCEPT ![h] =
            {[w EXCEPT !.step = "read", !.byteSize = c.byteSize]}]
    BY <1>3 DEF HeadObject, At
  <2>a. PICK c \in quarantine[w.assetId] :
          commits' = [commits EXCEPT ![h] =
            {[w EXCEPT !.step = "read", !.byteSize = c.byteSize]}]
    BY <2>1
  <2> DEFINE v == [w EXCEPT !.step = "read", !.byteSize = c.byteSize]
  <2>b. v.assetId = w.assetId /\ v.declared = w.declared
    BY <1>1 DEF CommitRequest
  <2>2. commits' = [commits EXCEPT ![h] = {v}]
    BY <2>a
  <2> HIDE DEF v
  <2> QED BY <1>2, <1>3, <2>2, <2>b DEF HeadObject
<1>4. CASE ReadHeader(h)
  <2>1. PICK w \in commits[h] : \E c \in quarantine[w.assetId] :
          commits' = [commits EXCEPT ![h] =
            IF inspectUpload(w.declared, w.byteSize, c)
              THEN {[w EXCEPT !.step = "copy", !.contentType = c.contentType]}
              ELSE {[w EXCEPT !.step = "reject"]}]
    BY <1>4 DEF ReadHeader, At
  <2>a. PICK c \in quarantine[w.assetId] :
          commits' = [commits EXCEPT ![h] =
            IF inspectUpload(w.declared, w.byteSize, c)
              THEN {[w EXCEPT !.step = "copy", !.contentType = c.contentType]}
              ELSE {[w EXCEPT !.step = "reject"]}]
    BY <2>1
  <2> DEFINE v == IF inspectUpload(w.declared, w.byteSize, c)
                    THEN [w EXCEPT !.step = "copy", !.contentType = c.contentType]
                    ELSE [w EXCEPT !.step = "reject"]
  <2>b. v.assetId = w.assetId /\ v.declared = w.declared
    BY <1>1 DEF CommitRequest
  <2>2. commits' = [commits EXCEPT ![h] = {v}]
    BY <2>a
  <2> HIDE DEF v
  <2> QED BY <1>2, <1>4, <2>2, <2>b DEF ReadHeader
<1>5. CASE MarkRejected(h)
  BY <1>1, <1>2, <1>5 DEF MarkRejected, Goto, At, CommitRequest
<1>6. CASE CopyObject(h)
  BY <1>1, <1>2, <1>6 DEF CopyObject, Goto, At, CommitRequest
<1>7. CASE MarkCommitted(h)
  BY <1>1, <1>2, <1>7 DEF MarkCommitted, Goto, At, CommitRequest
<1>8. CASE DeleteAndAnswer(h)
  BY <1>1, <1>2, <1>8 DEF DeleteAndAnswer, At, CommitRequest
<1>9. CASE CommitEndsUndecided(h)
  BY <1>1, <1>2, <1>9 DEF CommitEndsUndecided
<1> QED BY <1>3, <1>4, <1>5, <1>6, <1>7, <1>8, <1>9 DEF CommitStep

\* And what it does to rows: a pending one may be settled, keeping its declaration.
LEMMA CommitSettles ==
  ASSUME TypeOK, NEW h \in Handlers, CommitStep(h), NEW a \in Assets
  PROVE  \/ rows'[a] = rows[a]
         \/ /\ rows[a].status = "pending"
            /\ rows'[a].status \in {"committed", "rejected"}
            /\ rows'[a].userId = rows[a].userId
            /\ rows'[a].declared = rows[a].declared
<1>1. rows = [b \in Assets |-> rows[b]]
  BY DEF TypeOK
<1>5. CASE MarkRejected(h)
  BY <1>1, <1>5 DEF MarkRejected, At
<1>7. CASE MarkCommitted(h)
  BY <1>1, <1>7 DEF MarkCommitted, At
<1>8. CASE UNCHANGED rows
  BY <1>8
<1> QED BY <1>5, <1>7, <1>8
  DEF CommitStep, HeadObject, ReadHeader, CopyObject, DeleteAndAnswer, CommitEndsUndecided

Lineage == Fresh /\ OneUrl /\ Faithful

\* Rows only move along, and nothing new is signed or begun.
LEMMA QuietLineage ==
  ASSUME TypeOK, Lineage,
         UNCHANGED <<intents, grants>>,
         \A a \in Assets :
           \/ rows'[a] = rows[a]
           \/ rows[a].status # "unminted" /\ rows'[a].status = "reaped"
           \/ /\ rows[a].status = "pending"
              /\ rows'[a].status \in {"committed", "rejected"}
              /\ rows'[a].declared = rows[a].declared,
         \A k \in Handlers : \A v \in commits'[k] : \E w \in commits[k] :
           w.assetId = v.assetId /\ w.declared = v.declared
  PROVE  Lineage'
<1>1. \A a : Signed(a)' = Signed(a)
  BY DEF Signed
<1>2. Fresh'
  <2> SUFFICES ASSUME NEW q \in Slots, NEW r \in Slots,
                      NEW i \in intents[q], NEW j \in intents[r], NEW a \in Assets
               PROVE  /\ i.todo[a] # {} => rows'[a].status = "unminted"
                      /\ i.todo[a] # {} /\ j.todo[a] # {} => q = r
    BY DEF Fresh
  <2>1. i.todo[a] # {} => rows[a].status = "unminted"
    BY DEF Lineage, Fresh
  <2> QED BY <2>1 DEF Lineage, Fresh
<1>3. OneUrl'
  BY <1>1 DEF Lineage, OneUrl
<1>4. Faithful'
  <2> SUFFICES ASSUME NEW k \in Handlers, NEW v \in commits'[k]
               PROVE  /\ rows'[v.assetId].status # "unminted"
                      /\ rows'[v.assetId].status # "reaped"
                           => rows'[v.assetId].declared = v.declared
                      /\ \A g \in Signed(v.assetId) : g.declared = v.declared
    BY <1>1 DEF Faithful
  <2>1. PICK w \in commits[k] : w.assetId = v.assetId /\ w.declared = v.declared
    OBVIOUS
  <2>2. w.assetId \in Assets
    BY RequestTypes
  <2>3. /\ rows[w.assetId].status # "unminted"
        /\ rows[w.assetId].status # "reaped" => rows[w.assetId].declared = w.declared
        /\ \A g \in Signed(w.assetId) : g.declared = w.declared
    BY DEF Lineage, Faithful
  <2> QED BY <2>1, <2>2, <2>3
<1> QED BY <1>2, <1>3, <1>4 DEF Lineage

LEMMA CommitLineage ==
  ASSUME TypeOK, Lineage, NEW h \in Handlers, CommitStep(h)
  PROVE  Lineage'
BY CommitKeeps, CommitSettles, QuietLineage

LEMMA BeginCommitLineage ==
  ASSUME TypeOK, Lineage, NEW h \in Handlers, NEW u \in Users, NEW a \in Assets,
         BeginCommit(h, u, a)
  PROVE  Lineage'
<1>1. \A b : Signed(b)' = Signed(b)
  BY DEF BeginCommit, Signed
<1>2. Fresh' /\ OneUrl'
  BY <1>1 DEF BeginCommit, Lineage, Fresh, OneUrl
<1>3. Faithful'
  <2> DEFINE w == [assetId |-> a, declared |-> rows[a].declared, step |-> "head",
                   byteSize |-> 0, contentType |-> "none"]
  <2>1. commits' = [commits EXCEPT ![h] = {w}] /\ rows' = rows /\ rows[a].status = "pending"
    BY DEF BeginCommit, InWindow
  <2>2. commits = [k \in Handlers |-> commits[k]]
    BY DEF TypeOK, OneIn
  <2>3. \A g \in Signed(a) : g.declared = w.declared
    BY <2>1 DEF Lineage, OneUrl
  <2>4. w.assetId = a /\ w.declared = rows[a].declared
    OBVIOUS
  <2> HIDE DEF w
  <2> QED BY <1>1, <2>1, <2>2, <2>3, <2>4 DEF Lineage, Faithful
<1> QED BY <1>2, <1>3 DEF Lineage

LEMMA IntentLineage ==
  ASSUME TypeOK, Lineage, NEW q \in Slots,
         Intent(q) \/ CreateRow(q) \/ IntentReturns(q) \/ IntentFails(q)
  PROVE  Lineage'
<1>0. intents = [r \in Slots |-> intents[r]]
  BY DEF TypeOK, OneIn
<1>1. CASE Intent(q)
  <2>1. PICK u \in Users, b \in Batches : \E files \in [b -> Files] : AdmitIntent(q, u, files)
    BY <1>1 DEF Intent
  <2>2. PICK files \in [b -> Files] : AdmitIntent(q, u, files)
    BY <2>1
  <2> DEFINE i == [userId |-> u, expiresAt |-> now + CommitWindow,
                   todo |-> [a \in Assets |-> IF a \in DOMAIN files THEN {files[a]} ELSE {}],
                   tickets |-> [a \in Assets |-> {}]]
  <2>3. /\ intents' = [intents EXCEPT ![q] = {i}] /\ intents[q] = {}
        /\ UNCHANGED <<rows, grants, commits>>
    BY <2>2 DEF AdmitIntent
  <2>4. \A a \in Assets : i.tickets[a] = {} /\ (i.todo[a] # {} => a \in b)
    OBVIOUS
  <2>5. \A a \in b : /\ rows[a].status = "unminted"
                     /\ \A r \in Slots : \A j \in intents[r] : a \in Assets => j.todo[a] = {}
    BY <2>2 DEF AdmitIntent, Reserved, ToCreate
  <2> HIDE DEF i
  <2>6. \A a \in Assets : Signed(a)' = Signed(a)
    <3> SUFFICES ASSUME NEW a \in Assets, NEW g
                 PROVE  g \in Signed(a)' <=> g \in Signed(a)
      OBVIOUS
    <3>1. intents'[q] = {i} /\ \A r \in Slots : r # q => intents'[r] = intents[r]
      BY <1>0, <2>3
    <3>2. (\E r \in Slots : \E j \in intents'[r] : g \in j.tickets[a])
            <=> \E r \in Slots : \E j \in intents[r] : g \in j.tickets[a]
      BY <3>1, <2>3, <2>4
    <3> QED BY <3>2, <2>3, SignedIff
  <2>7. Fresh'
    BY <1>0, <2>3, <2>4, <2>5 DEF Lineage, Fresh
  <2>8. OneUrl'
    BY <2>3, <2>6 DEF Lineage, OneUrl
  <2>9. Faithful'
    <3>1. \A h \in Handlers : \A w \in commits[h] : w.assetId \in Assets
      BY RequestTypes
    <3> QED BY <2>3, <2>6, <3>1 DEF Lineage, Faithful
  <2> QED BY <2>7, <2>8, <2>9 DEF Lineage
<1>2. CASE CreateRow(q)
  <2>1. PICK i \in intents[q], a \in Assets : \E f \in i.todo[a] : CreateOne(q, i, a, f)
    BY <1>2 DEF CreateRow
  <2>2. PICK f \in i.todo[a] : CreateOne(q, i, a, f)
    BY <2>1
  <2> DEFINE url == [declared |-> f, expiresAt |-> now + UploadUrlTtl]
             j == [i EXCEPT !.todo[a] = {}, !.tickets[a] = {url}]
  <2>3. i \in IntentRequest /\ intents[q] = {i}
    BY IntentTypesOf
  <2>4. /\ j.todo[a] = {} /\ j.tickets[a] = {url}
        /\ \A b \in Assets : b # a => j.todo[b] = i.todo[b] /\ j.tickets[b] = i.tickets[b]
    BY <2>3 DEF IntentRequest
  <2>5. /\ intents' = [intents EXCEPT ![q] = {j}]
        /\ rows' = [rows EXCEPT ![a] = Pending(i.userId, f, i.expiresAt)]
        /\ UNCHANGED <<grants, commits>>
    BY <2>2 DEF CreateOne
  <2>6. url.declared = f
    OBVIOUS
  <2> HIDE DEF j, url
  <2>7. intents'[q] = {j} /\ \A r \in Slots : r # q => intents'[r] = intents[r]
    BY <1>0, <2>5
  <2>8. /\ rows'[a].status = "pending" /\ rows'[a].declared = f
        /\ \A b \in Assets : b # a => rows'[b] = rows[b]
    BY <2>5 DEF Pending, TypeOK
  <2>9. rows[a].status = "unminted" /\ \A r \in Slots : \A k \in intents[r] :
                                         k.todo[a] # {} => r = q
    BY <2>2 DEF Lineage, Fresh
  <2>10. \A g : g \notin Signed(a)
    BY <2>9 DEF Lineage, OneUrl
  <2>11. \A g : g \in Signed(a)' => g = url
    <3>1. \A g : /\ g \notin grants[a]
                 /\ \A r \in Slots : \A k \in intents[r] : g \notin k.tickets[a]
      BY <2>10, SignedIff
    <3>2. \A r \in Slots : \A k \in intents'[r] : \A g \in k.tickets[a] : g = url
      BY <3>1, <2>4, <2>7
    <3> QED BY <3>1, <3>2, <2>5, SignedIff
  <2>12. \A b \in Assets : b # a => Signed(b)' = Signed(b)
    <3> SUFFICES ASSUME NEW b \in Assets, b # a, NEW g
                 PROVE  g \in Signed(b)' <=> g \in Signed(b)
      OBVIOUS
    <3>1. (\E r \in Slots : \E k \in intents'[r] : g \in k.tickets[b])
            <=> \E r \in Slots : \E k \in intents[r] : g \in k.tickets[b]
      BY <2>3, <2>4, <2>7
    <3> QED BY <3>1, <2>5, SignedIff
  <2>13. Fresh'
    <3> SUFFICES ASSUME NEW r \in Slots, NEW t \in Slots,
                        NEW k \in intents'[r], NEW l \in intents'[t], NEW b \in Assets
                 PROVE  /\ k.todo[b] # {} => rows'[b].status = "unminted"
                        /\ k.todo[b] # {} /\ l.todo[b] # {} => r = t
      BY DEF Fresh
    <3>1. CASE b = a
      BY <3>1, <2>4, <2>7, <2>9
    <3>2. CASE b # a
      <4>1. /\ \E m \in intents[r] : k.todo[b] = m.todo[b]
            /\ \E m \in intents[t] : l.todo[b] = m.todo[b]
        BY <3>2, <2>3, <2>4, <2>7
      <4> QED BY <3>2, <4>1, <2>8 DEF Lineage, Fresh
    <3> QED BY <3>1, <3>2
  <2>14. OneUrl'
    BY <2>6, <2>8, <2>11, <2>12 DEF Lineage, OneUrl
  <2>15. Faithful'
    <3>1. \A h \in Handlers : \A w \in commits[h] : w.assetId \in Assets /\ w.assetId # a
      BY RequestTypes, <2>9 DEF Lineage, Faithful
    <3> QED BY <3>1, <2>5, <2>8, <2>12 DEF Lineage, Faithful
  <2> QED BY <2>13, <2>14, <2>15 DEF Lineage
<1>3. CASE IntentReturns(q) \/ IntentFails(q)
  <2>1. /\ intents'[q] = {} /\ \A r \in Slots : r # q => intents'[r] = intents[r]
        /\ UNCHANGED <<rows, commits>>
    BY <1>0, <1>3 DEF IntentReturns, IntentFails
  <2>2. \A a \in Assets : \A g : g \in grants'[a] => g \in Signed(a)
    <3>1. CASE IntentReturns(q)
      <4>1. PICK i \in intents[q] :
              grants' = [a \in Assets |->
                           IF i.tickets[a] # {} THEN i.tickets[a] ELSE grants[a]]
        BY <3>1 DEF IntentReturns
      <4> QED BY <4>1, SignedIff
    <3>2. CASE IntentFails(q)
      BY <3>2, SignedIff DEF IntentFails
    <3> QED BY <1>3, <3>1, <3>2
  <2>3. \A a \in Assets : \A g : g \in Signed(a)' => g \in Signed(a)
    <3> SUFFICES ASSUME NEW a \in Assets, NEW g, g \in Signed(a)' PROVE g \in Signed(a)
      OBVIOUS
    <3>1. g \in grants'[a] \/ \E r \in Slots : \E i \in intents[r] : g \in i.tickets[a]
      BY <2>1, SignedIff
    <3> QED BY <3>1, <2>2, SignedIff
  <2>4. Fresh'
    BY <2>1 DEF Lineage, Fresh
  <2>5. OneUrl'
    BY <2>1, <2>3 DEF Lineage, OneUrl
  <2>6. Faithful'
    <3>1. \A h \in Handlers : \A w \in commits[h] : w.assetId \in Assets
      BY RequestTypes
    <3> QED BY <2>1, <2>3, <3>1 DEF Lineage, Faithful
  <2> QED BY <2>4, <2>5, <2>6 DEF Lineage
<1> QED BY <1>1, <1>2, <1>3
LEMMA InitLineage == Init => Lineage
BY DEF Init, Lineage, Fresh, OneUrl, Faithful, Signed

LEMMA StepLineage == TypeOK /\ Lineage /\ [Next]_vars => Lineage'
<1> SUFFICES ASSUME TypeOK, Lineage, [Next]_vars PROVE Lineage'
  OBVIOUS
<1>1. ASSUME NEW q \in Slots, Intent(q) \/ CreateRow(q) \/ IntentReturns(q) \/ IntentFails(q)
      PROVE  Lineage'
  BY <1>1, IntentLineage
<1>2. ASSUME NEW h \in Handlers, CommitStep(h) PROVE Lineage'
  BY <1>2, CommitLineage
<1>3. ASSUME NEW h \in Handlers, NEW u \in Users, NEW a \in Assets, BeginCommit(h, u, a)
      PROVE  Lineage'
  BY <1>3, BeginCommitLineage
<1>4. ASSUME UNCHANGED <<intents, grants, commits, rows>> PROVE Lineage'
  BY <1>4, QuietLineage
<1>5. ASSUME NEW a \in Assets, Reap(a) PROVE Lineage'
  <2>1. \A b \in Assets : \/ rows'[b] = rows[b]
                          \/ rows[b].status # "unminted" /\ rows'[b].status = "reaped"
    BY <1>5 DEF Reap, Reaped, TypeOK
  <2> QED BY <1>5, <2>1, QuietLineage DEF Reap
<1> QED BY <1>1, <1>2, <1>3, <1>4, <1>5
  DEF Next, CommitStep, vars, BeginPut, FinishPut, PutFails, AnswerSettled,
      ExpireQuarantine, Tick

-----------------------------------------------------------------------------
(* Rows only move forward.                                                 *)

Forward(a) ==
  \/ rows'[a] = rows[a]
  \/ rows[a].status = "unminted" /\ rows'[a].status = "pending"
  \/ rows[a].status = "pending" /\ rows'[a].status \in {"committed", "rejected", "reaped"}

LEMMA RowsMoveForward ==
  ASSUME TypeOK, Lineage, [Next]_vars
  PROVE  \A a \in Assets : Forward(a)
<1>1. ASSUME NEW q \in Slots, CreateRow(q) PROVE \A a \in Assets : Forward(a)
  <2>1. PICK i \in intents[q], a \in Assets : \E f \in i.todo[a] : CreateOne(q, i, a, f)
    BY <1>1 DEF CreateRow
  <2>2. PICK f \in i.todo[a] : CreateOne(q, i, a, f)
    BY <2>1
  <2>3. rows[a].status = "unminted"
    BY <2>2 DEF Lineage, Fresh
  <2> QED BY <2>2, <2>3 DEF CreateOne, Pending, TypeOK, Forward
<1>2. ASSUME NEW h \in Handlers, CommitStep(h) PROVE \A a \in Assets : Forward(a)
  BY <1>2, CommitSettles DEF Forward
<1>3. ASSUME UNCHANGED rows PROVE \A a \in Assets : Forward(a)
  BY <1>3 DEF Forward
<1>4. ASSUME NEW b \in Assets, Reap(b) PROVE \A a \in Assets : Forward(a)
  BY <1>4 DEF Reap, Reaped, TypeOK, Forward
<1> QED BY <1>1, <1>2, <1>3, <1>4
  DEF Next, CommitStep, vars, Intent, AdmitIntent, IntentReturns, IntentFails, BeginCommit,
      BeginPut, FinishPut, PutFails, AnswerSettled, ExpireQuarantine, Tick

-----------------------------------------------------------------------------
(* One content per declaration, in both buckets.                           *)

LEMMA OneContent ==
  ASSUME NEW f, NEW c \in Contents, NEW d \in Contents, Declared(f, c), Declared(f, d)
  PROVE  c = d
BY AssetAssumption DEF Declared

Buckets == Pinned /\ DeliveredWasInspected /\ CommittedIsServed

LEMMA GrantsAreSigned == \A a \in Assets : \A g \in grants[a] : g \in Signed(a)
BY SignedIff

LEMMA QuietBuckets ==
  ASSUME TypeOK, Buckets,
         \A a \in Assets : quarantine'[a] \subseteq quarantine[a],
         UNCHANGED <<grants, objects>>,
         \A a \in Assets : rows'[a].status = "committed" => rows'[a] = rows[a]
  PROVE  Buckets'
<1>1. Pinned'
  BY DEF Buckets, Pinned
<1>2. DeliveredWasInspected'
  BY DEF Buckets, DeliveredWasInspected
<1>3. CommittedIsServed'
  BY DEF Buckets, CommittedIsServed
<1> QED BY <1>1, <1>2, <1>3 DEF Buckets

LEMMA FinishPutBuckets ==
  ASSUME TypeOK, Lineage, Buckets, NEW a \in Assets, NEW c \in Contents, FinishPut(a, c)
  PROVE  Buckets'
<1>1. PICK g \in grants[a] : Declared(g.declared, c)
  BY DEF FinishPut, MatchesGrant, Declared
<1>2. /\ quarantine'[a] = {c} /\ \A b \in Assets : b # a => quarantine'[b] = quarantine[b]
      /\ UNCHANGED <<rows, grants, objects>>
  BY DEF FinishPut, TypeOK, OneIn
<1>3. Pinned'
  BY <1>1, <1>2 DEF Buckets, Pinned
<1> QED BY <1>2, <1>3 DEF Buckets, DeliveredWasInspected, CommittedIsServed

LEMMA IntentReturnsBuckets ==
  ASSUME TypeOK, Lineage, Buckets, NEW q \in Slots, IntentReturns(q)
  PROVE  Buckets'
<1>1. PICK i \in intents[q] :
        /\ grants' = [a \in Assets |-> IF i.tickets[a] # {} THEN i.tickets[a] ELSE grants[a]]
        /\ UNCHANGED <<rows, quarantine, objects>>
  BY DEF IntentReturns
<1>2. \A a \in Assets : \A g \in grants'[a] : g \in Signed(a)
  BY <1>1, SignedIff
<1>3. \A a \in Assets : grants[a] # {} => grants'[a] = grants[a]
  <2> SUFFICES ASSUME NEW a \in Assets, NEW g \in grants[a] PROVE grants'[a] = grants[a]
    OBVIOUS
  <2>1. \A x : x \in grants[a] \/ x \in grants'[a] => x = g
    BY <1>2, GrantsAreSigned DEF Lineage, OneUrl
  <2>2. grants'[a] # {}
    BY <1>1
  <2> QED BY <2>1, <2>2
<1>4. Pinned'
  <2>1. \A a \in Assets : quarantine[a] # {} \/ objects[a] # {} => grants[a] # {}
    BY DEF Buckets, Pinned
  <2> QED BY <1>1, <1>3, <2>1 DEF Buckets, Pinned
<1>5. DeliveredWasInspected'
  <2>1. \A a \in Assets : objects[a] # {} => grants'[a] = grants[a]
    BY <1>3 DEF Buckets, Pinned
  <2> QED BY <1>1, <2>1 DEF Buckets, DeliveredWasInspected
<1>6. CommittedIsServed'
  BY <1>1 DEF Buckets, CommittedIsServed
<1> QED BY <1>4, <1>5, <1>6 DEF Buckets

\* What the verdict of a request says of the content its asset's buckets hold.
LEMMA VerdictOfBuckets ==
  ASSUME TypeOK, Lineage, Buckets, NEW h \in Handlers, NEW w \in commits[h],
         NEW accepted \in BOOLEAN, Verdict(w, accepted)
  PROVE  \E d \in Contents :
           /\ Declared(w.declared, d) /\ w.byteSize = d.byteSize
           /\ accepted <=> inspectUpload(w.declared, w.byteSize, d)
           /\ accepted => w.contentType = d.contentType
           /\ \A c \in quarantine[w.assetId] : c = d
           /\ \A o \in objects[w.assetId] : o.content = d
           /\ \A g \in grants[w.assetId] : g.declared = w.declared
<1>1. w.assetId \in Assets
  BY RequestTypes
<1>2. PICK d \in Contents :
        /\ Declared(w.declared, d) /\ w.byteSize = d.byteSize
        /\ accepted <=> inspectUpload(w.declared, w.byteSize, d)
        /\ accepted => w.contentType = d.contentType
  BY DEF Verdict
<1>3. \A g \in grants[w.assetId] : g.declared = w.declared
  BY <1>1, GrantsAreSigned DEF Lineage, Faithful
<1>4. \A c \in quarantine[w.assetId] : c \in Contents /\ Declared(w.declared, c)
  BY <1>1, <1>3 DEF Buckets, Pinned, TypeOK, OneIn
<1>5. \A o \in objects[w.assetId] : o.content \in Contents /\ Declared(w.declared, o.content)
  <2>1. \A o \in objects[w.assetId] : o \in Object
    BY <1>1 DEF TypeOK, OneIn
  <2> QED BY <1>1, <1>3, <2>1 DEF Buckets, Pinned, Object
<1> QED BY <1>2, <1>3, <1>4, <1>5, OneContent

LEMMA CopyObjectBuckets ==
  ASSUME TypeOK, Lineage, Buckets, Concluded, NEW h \in Handlers, CopyObject(h)
  PROVE  Buckets'
<1>1. PICK w \in commits[h] : w.step = "copy" /\ \E c \in quarantine[w.assetId] :
        /\ objects' = [objects EXCEPT ![w.assetId] =
             {[content |-> c, contentType |-> w.contentType]}]
        /\ UNCHANGED <<rows, grants, quarantine>>
  BY DEF CopyObject, At
<1>2. PICK c \in quarantine[w.assetId] :
        /\ objects' = [objects EXCEPT ![w.assetId] =
             {[content |-> c, contentType |-> w.contentType]}]
        /\ UNCHANGED <<rows, grants, quarantine>>
  BY <1>1
<1>3. w.assetId \in Assets
  BY RequestTypes
<1>4. Verdict(w, TRUE)
  BY <1>1 DEF Concluded
<1>5. /\ Declared(w.declared, c) /\ w.byteSize = c.byteSize
      /\ inspectUpload(w.declared, w.byteSize, c) /\ w.contentType = c.contentType
      /\ \A g \in grants[w.assetId] : g.declared = w.declared
      /\ grants[w.assetId] # {}
  <2>1. PICK d \in Contents :
          /\ Declared(w.declared, d) /\ w.byteSize = d.byteSize
          /\ inspectUpload(w.declared, w.byteSize, d)
          /\ w.contentType = d.contentType
          /\ \A e \in quarantine[w.assetId] : e = d
          /\ \A g \in grants[w.assetId] : g.declared = w.declared
    BY <1>4, VerdictOfBuckets
  <2>2. grants[w.assetId] # {}
    BY <1>2, <1>3 DEF Buckets, Pinned
  <2>3. c = d
    BY <2>1
  <2> QED BY <2>1, <2>2, <2>3
<1> DEFINE o == [content |-> c, contentType |-> w.contentType]
<1>6. o.content = c /\ o.contentType = w.contentType
  OBVIOUS
<1>7. /\ objects'[w.assetId] = {o}
      /\ \A a \in Assets : a # w.assetId => objects'[a] = objects[a]
  BY <1>2, <1>3 DEF TypeOK, OneIn
<1> HIDE DEF o
<1>8. Pinned'
  BY <1>2, <1>3, <1>5, <1>6, <1>7 DEF Buckets, Pinned
<1>9. DeliveredWasInspected'
  BY <1>2, <1>3, <1>5, <1>6, <1>7 DEF Buckets, DeliveredWasInspected
<1>10. CommittedIsServed'
  <2> SUFFICES ASSUME NEW a \in Assets, rows[a].status = "committed"
               PROVE  \E p \in objects'[a] :
                        /\ p.content.sha256 = rows[a].declared.sha256
                        /\ p.contentType = rows[a].actual.contentType
                        /\ p.content.byteSize = rows[a].actual.byteSize
    BY <1>2 DEF CommittedIsServed
  <2>1. PICK p \in objects[a] : /\ p.content.sha256 = rows[a].declared.sha256
                                /\ p.contentType = rows[a].actual.contentType
                                /\ p.content.byteSize = rows[a].actual.byteSize
    BY DEF Buckets, CommittedIsServed
  <2>2. CASE a = w.assetId
    <3>1. p.content = c
      BY <2>1, <2>2, <1>4, <1>2, VerdictOfBuckets
    <3>2. p.contentType = c.contentType
      BY <1>5, <2>1, <2>2, <3>1 DEF Buckets, DeliveredWasInspected
    <3> QED BY <2>1, <2>2, <3>1, <3>2, <1>5, <1>6, <1>7
  <2>3. CASE a # w.assetId
    BY <2>1, <2>3, <1>7
  <2> QED BY <2>2, <2>3
<1> QED BY <1>8, <1>9, <1>10 DEF Buckets

LEMMA MarkCommittedBuckets ==
  ASSUME TypeOK, Lineage, Buckets, Concluded, NEW h \in Handlers, MarkCommitted(h)
  PROVE  Buckets'
<1>1. UNCHANGED <<grants, quarantine, objects>>
  BY DEF MarkCommitted
<1>2. Pinned' /\ DeliveredWasInspected'
  BY <1>1 DEF Buckets, Pinned, DeliveredWasInspected
<1>3. PICK w \in commits[h] :
        /\ w.step = "mark"
        /\ \/ /\ rows[w.assetId].status = "pending"
              /\ rows' = [rows EXCEPT ![w.assetId] =
                   [status |-> "committed", userId |-> @.userId, declared |-> @.declared,
                    pendingExpiresAt |-> Never,
                    actual |-> [byteSize |-> w.byteSize, contentType |-> w.contentType]]]
           \/ UNCHANGED rows
  BY DEF MarkCommitted, At
<1>4. CASE UNCHANGED rows
  BY <1>1, <1>2, <1>4 DEF Buckets, CommittedIsServed
<1>5. ASSUME rows[w.assetId].status = "pending",
             rows' = [rows EXCEPT ![w.assetId] =
               [status |-> "committed", userId |-> @.userId, declared |-> @.declared,
                pendingExpiresAt |-> Never,
                actual |-> [byteSize |-> w.byteSize, contentType |-> w.contentType]]]
      PROVE  CommittedIsServed'
  <2>1. w.assetId \in Assets
    BY RequestTypes
  <2>2. Verdict(w, TRUE) /\ objects[w.assetId] # {}
    BY <1>3 DEF Concluded
  <2>3. PICK o \in objects[w.assetId] :
          /\ Declared(w.declared, o.content) /\ w.byteSize = o.content.byteSize
          /\ w.contentType = o.content.contentType
    BY <2>2, VerdictOfBuckets
  <2>4. o.contentType = o.content.contentType
    BY <2>1, <2>3 DEF Buckets, DeliveredWasInspected, Pinned
  <2>5. rows[w.assetId].declared = w.declared
    BY <1>5 DEF Lineage, Faithful
  <2>6. /\ rows'[w.assetId].declared = w.declared
        /\ rows'[w.assetId].actual.byteSize = w.byteSize
        /\ rows'[w.assetId].actual.contentType = w.contentType
        /\ \A a \in Assets : a # w.assetId => rows'[a] = rows[a]
    BY <1>5, <2>1, <2>5 DEF TypeOK
  <2> QED BY <1>1, <2>3, <2>4, <2>6 DEF Buckets, CommittedIsServed, Declared
<1> QED BY <1>2, <1>3, <1>4, <1>5 DEF Buckets

LEMMA StepBuckets ==
  ASSUME TypeOK, Lineage, Buckets, Concluded, [Next]_vars
  PROVE  Buckets'
<1>1. ASSUME \A a \in Assets : quarantine'[a] \subseteq quarantine[a],
             UNCHANGED <<grants, objects>>,
             \A a \in Assets : rows'[a].status = "committed" => rows'[a] = rows[a]
      PROVE  Buckets'
  BY <1>1, QuietBuckets
<1>2. ASSUME UNCHANGED <<rows, quarantine, grants, objects>> PROVE Buckets'
  BY <1>1, <1>2
<1>3. ASSUME NEW q \in Slots, CreateRow(q) PROVE Buckets'
  <2>1. PICK i \in intents[q], a \in Assets : \E f \in i.todo[a] : CreateOne(q, i, a, f)
    BY <1>3 DEF CreateRow
  <2>2. \A b \in Assets : rows'[b].status = "committed" => rows'[b] = rows[b]
    BY <2>1 DEF CreateOne, Pending, TypeOK
  <2> QED BY <1>1, <2>1, <2>2 DEF CreateOne
<1>4. ASSUME NEW h \in Handlers, MarkRejected(h) PROVE Buckets'
  <2>1. \A a \in Assets : rows'[a].status = "committed" => rows'[a] = rows[a]
    BY <1>4 DEF MarkRejected, At, TypeOK
  <2> QED BY <1>1, <1>4, <2>1 DEF MarkRejected
<1>5. ASSUME NEW h \in Handlers, DeleteAndAnswer(h) PROVE Buckets'
  <2>1. \A a \in Assets : quarantine'[a] \subseteq quarantine[a]
    BY <1>5 DEF DeleteAndAnswer, TypeOK, OneIn
  <2> QED BY <1>1, <1>5, <2>1 DEF DeleteAndAnswer
<1>6. ASSUME NEW a \in Assets, Reap(a) PROVE Buckets'
  <2>1. \A b \in Assets : rows'[b].status = "committed" => rows'[b] = rows[b]
    BY <1>6 DEF Reap, Reaped, TypeOK
  <2> QED BY <1>1, <1>6, <2>1 DEF Reap
<1>7. ASSUME NEW a \in Assets, ExpireQuarantine(a) PROVE Buckets'
  <2>1. \A b \in Assets : quarantine'[b] \subseteq quarantine[b]
    BY <1>7 DEF ExpireQuarantine, TypeOK, OneIn
  <2> QED BY <1>1, <1>7, <2>1 DEF ExpireQuarantine
<1> QED BY <1>2, <1>3, <1>4, <1>5, <1>6, <1>7, FinishPutBuckets, IntentReturnsBuckets,
           CopyObjectBuckets, MarkCommittedBuckets
  DEF Next, vars, Intent, AdmitIntent, IntentFails, BeginCommit, HeadObject, ReadHeader,
      CommitEndsUndecided, BeginPut, PutFails, AnswerSettled, Tick

-----------------------------------------------------------------------------
(* Verdicts stay true until they are acted on.                             *)

\* What Concluded says of one request.
Sound(w) ==
  /\ w.step = "read" => w.byteSize = w.declared.byteSize
  /\ w.step \in {"copy", "mark"} => Verdict(w, TRUE)
  /\ w.step = "mark" => objects[w.assetId] # {}
  /\ w.step = "tellCommitted" => rows[w.assetId].status = "committed"
  /\ w.step \in {"reject", "tellRejected"} => Verdict(w, FALSE)
  /\ w.step = "tellRejected" => rows[w.assetId].status \in {"rejected", "reaped"}

LEMMA StaysSound ==
  ASSUME TypeOK, Lineage, [Next]_vars, NEW h \in Handlers, NEW w \in commits[h], Sound(w)
  PROVE  Sound(w)'
<1>1. w.assetId \in Assets
  BY RequestTypes
<1>2. Forward(w.assetId)
  BY <1>1, RowsMoveForward
<1>3. objects[w.assetId] # {} => objects'[w.assetId] # {}
  <2>1. ASSUME NEW k \in Handlers, CopyObject(k)
        PROVE  objects[w.assetId] # {} => objects'[w.assetId] # {}
    <3>1. PICK x \in commits[k] : \E c \in quarantine[x.assetId] :
            objects' = [objects EXCEPT ![x.assetId] =
              {[content |-> c, contentType |-> x.contentType]}]
      BY <2>1 DEF CopyObject, At
    <3>2. PICK o : objects' = [objects EXCEPT ![x.assetId] = {o}]
      BY <3>1
    <3>3. objects = [a \in Assets |-> objects[a]]
      BY DEF TypeOK, OneIn
    <3> QED BY <1>1, <3>2, <3>3
  <2>2. CASE UNCHANGED objects
    BY <2>2
  <2> QED BY <2>1, <2>2
    DEF Next, vars, Intent, AdmitIntent, CreateRow, CreateOne, IntentReturns, IntentFails,
        BeginCommit, HeadObject, ReadHeader, MarkRejected, MarkCommitted, DeleteAndAnswer,
        CommitEndsUndecided, BeginPut, FinishPut, PutFails, AnswerSettled, Reap,
        ExpireQuarantine, Tick
<1>4. \A accepted \in BOOLEAN : Verdict(w, accepted)' <=> Verdict(w, accepted)
  BY DEF Verdict
<1> QED BY <1>2, <1>3, <1>4 DEF Sound, Forward

LEMMA StepConcluded ==
  ASSUME TypeOK, Lineage, Buckets, Concluded, [Next]_vars
  PROVE  Concluded'
<1>0. \A h \in Handlers : \A w \in commits[h] : Sound(w) /\ Sound(w)'
  BY StaysSound DEF Concluded, Sound
<1>1. SUFFICES \A h \in Handlers : \A w \in commits'[h] : Sound(w)'
  BY DEF Concluded, Sound
<1>2. ASSUME \A h \in Handlers : commits'[h] \subseteq commits[h]
      PROVE  \A h \in Handlers : \A w \in commits'[h] : Sound(w)'
  BY <1>0, <1>2
\* One request v takes the place of w, or of nothing.
<1>3. ASSUME NEW h \in Handlers, NEW v, commits' = [commits EXCEPT ![h] = {v}], Sound(v)'
      PROVE  \A k \in Handlers : \A w \in commits'[k] : Sound(w)'
  <2>1. commits = [k \in Handlers |-> commits[k]]
    BY DEF TypeOK, OneIn
  <2> QED BY <1>0, <1>3, <2>1
<1>4. ASSUME NEW h \in Handlers, NEW u \in Users, NEW a \in Assets, BeginCommit(h, u, a)
      PROVE  \A k \in Handlers : \A w \in commits'[k] : Sound(w)'
  <2>1. PICK v : /\ commits' = [commits EXCEPT ![h] = {v}]
                 /\ v = [assetId |-> a, declared |-> rows[a].declared, step |-> "head",
                         byteSize |-> 0, contentType |-> "none"]
    BY <1>4 DEF BeginCommit
  <2>2. v.step = "head"
    BY <2>1
  <2>3. Sound(v)'
    BY <2>2 DEF Sound
  <2> QED BY <2>1, <2>3, <1>3
<1>5. ASSUME NEW h \in Handlers, HeadObject(h)
      PROVE  \A k \in Handlers : \A w \in commits'[k] : Sound(w)'
  <2>1. PICK w \in commits[h] : \E c \in quarantine[w.assetId] :
          commits' = [commits EXCEPT ![h] =
            {[w EXCEPT !.step = "read", !.byteSize = c.byteSize]}]
    BY <1>5 DEF HeadObject, At
  <2>2. PICK c \in quarantine[w.assetId] :
          commits' = [commits EXCEPT ![h] =
            {[w EXCEPT !.step = "read", !.byteSize = c.byteSize]}]
    BY <2>1
  <2>3. w \in CommitRequest /\ w.assetId \in Assets
    BY RequestTypes
  <2>4. PICK v : v = [w EXCEPT !.step = "read", !.byteSize = c.byteSize]
    OBVIOUS
  <2>5. v.step = "read" /\ v.declared = w.declared /\ v.byteSize = c.byteSize
    BY <2>3, <2>4 DEF CommitRequest
  <2>6. Declared(w.declared, c)
    BY <2>3, GrantsAreSigned DEF Buckets, Pinned, Lineage, Faithful
  <2>7. Sound(v)'
    BY <2>5, <2>6 DEF Sound, Declared
  <2> QED BY <2>2, <2>4, <2>7, <1>3
<1>6. ASSUME NEW h \in Handlers, ReadHeader(h)
      PROVE  \A k \in Handlers : \A w \in commits'[k] : Sound(w)'
  <2>1. PICK w \in commits[h] : w.step = "read" /\ \E c \in quarantine[w.assetId] :
          commits' = [commits EXCEPT ![h] =
            IF inspectUpload(w.declared, w.byteSize, c)
              THEN {[w EXCEPT !.step = "copy", !.contentType = c.contentType]}
              ELSE {[w EXCEPT !.step = "reject"]}]
    BY <1>6 DEF ReadHeader, At
  <2>2. PICK c \in quarantine[w.assetId] :
          commits' = [commits EXCEPT ![h] =
            IF inspectUpload(w.declared, w.byteSize, c)
              THEN {[w EXCEPT !.step = "copy", !.contentType = c.contentType]}
              ELSE {[w EXCEPT !.step = "reject"]}]
    BY <2>1
  <2>3. w \in CommitRequest /\ w.assetId \in Assets
    BY RequestTypes
  <2>4. c \in Contents /\ Declared(w.declared, c) /\ w.byteSize = c.byteSize
    <3>1. Declared(w.declared, c)
      BY <2>3, GrantsAreSigned DEF Buckets, Pinned, Lineage, Faithful
    <3>2. c \in Contents
      BY <2>3 DEF TypeOK, OneIn
    <3>3. w.byteSize = w.declared.byteSize
      BY <1>0, <2>1 DEF Sound
    <3> QED BY <3>1, <3>2, <3>3 DEF Declared
  <2>5. CASE inspectUpload(w.declared, w.byteSize, c)
    <3>1. PICK v : v = [w EXCEPT !.step = "copy", !.contentType = c.contentType]
      OBVIOUS
    <3>2. /\ v.step = "copy" /\ v.declared = w.declared
          /\ v.byteSize = w.byteSize /\ v.contentType = c.contentType
      BY <2>3, <3>1 DEF CommitRequest
    <3>3. Verdict(v, TRUE)
      BY <2>4, <2>5, <3>2 DEF Verdict
    <3>4. Sound(v)'
      BY <3>2, <3>3 DEF Sound, Verdict
    <3> QED BY <2>2, <2>5, <3>1, <3>4, <1>3
  <2>6. CASE ~inspectUpload(w.declared, w.byteSize, c)
    <3>1. PICK v : v = [w EXCEPT !.step = "reject"]
      OBVIOUS
    <3>2. v.step = "reject" /\ v.declared = w.declared /\ v.byteSize = w.byteSize
      BY <2>3, <3>1 DEF CommitRequest
    <3>3. Verdict(v, FALSE)
      BY <2>4, <2>6, <3>2 DEF Verdict
    <3>4. Sound(v)'
      BY <3>2, <3>3 DEF Sound, Verdict
    <3> QED BY <2>2, <2>6, <3>1, <3>4, <1>3
  <2> QED BY <2>5, <2>6
<1>7. ASSUME NEW h \in Handlers, MarkRejected(h)
      PROVE  \A k \in Handlers : \A w \in commits'[k] : Sound(w)'
  <2>1. PICK w \in commits[h] :
          /\ w.step = "reject"
          /\ rows' = [rows EXCEPT ![w.assetId] =
               IF @.status = "pending"
                 THEN [status |-> "rejected", userId |-> @.userId,
                       declared |-> @.declared, pendingExpiresAt |-> Never]
                 ELSE @]
          /\ commits' = [commits EXCEPT ![h] = {[w EXCEPT !.step = "tellRejected"]}]
    BY <1>7 DEF MarkRejected, At, Goto
  <2>2. w \in CommitRequest /\ w.assetId \in Assets
    BY RequestTypes
  <2>3. Verdict(w, FALSE)
    BY <1>0, <2>1 DEF Sound
  <2>4. rows[w.assetId].status # "unminted"
    BY DEF Lineage, Faithful
  \* The same bytes cannot have been accepted by somebody else.
  <2>5. rows[w.assetId].status # "committed"
    <3> SUFFICES ASSUME rows[w.assetId].status = "committed" PROVE FALSE
      OBVIOUS
    <3>1. PICK o \in objects[w.assetId] : TRUE
      BY <2>2 DEF Buckets, CommittedIsServed
    <3>2. PICK d \in Contents :
            /\ w.byteSize = d.byteSize /\ ~inspectUpload(w.declared, w.byteSize, d)
            /\ o.content = d
            /\ \A g \in grants[w.assetId] : g.declared = w.declared
      BY <2>3, VerdictOfBuckets
    <3>3. PICK g \in grants[w.assetId] : TRUE
      BY <2>2 DEF Buckets, Pinned
    <3> QED BY <2>2, <3>2 DEF Buckets, DeliveredWasInspected
  <2>6. rows'[w.assetId].status \in {"rejected", "reaped"}
    <3>1. rows[w.assetId].status \in {"pending", "rejected", "reaped"}
      BY <2>2, <2>4, <2>5, RowTypes
    <3> QED BY <2>1, <2>2, <3>1 DEF TypeOK
  <2>7. PICK v : v = [w EXCEPT !.step = "tellRejected"]
    OBVIOUS
  <2>8. /\ v.step = "tellRejected" /\ v.declared = w.declared
        /\ v.byteSize = w.byteSize /\ v.assetId = w.assetId
    BY <2>2, <2>7 DEF CommitRequest
  <2>9. Sound(v)'
    BY <2>3, <2>6, <2>8 DEF Sound, Verdict
  <2> QED BY <2>1, <2>7, <2>9, <1>3
<1>8. ASSUME NEW h \in Handlers, CopyObject(h)
      PROVE  \A k \in Handlers : \A w \in commits'[k] : Sound(w)'
  <2>0. PICK w \in commits[h] :
          /\ w.step = "copy"
          /\ \E o : objects' = [objects EXCEPT ![w.assetId] = {o}]
          /\ commits' = [commits EXCEPT ![h] = {[w EXCEPT !.step = "mark"]}]
    BY <1>8 DEF CopyObject, At, Goto
  <2>1. /\ w.step = "copy" /\ objects'[w.assetId] # {}
        /\ commits' = [commits EXCEPT ![h] = {[w EXCEPT !.step = "mark"]}]
    <3>1. objects = [a \in Assets |-> objects[a]] /\ w.assetId \in Assets
      BY RequestTypes DEF TypeOK, OneIn
    <3> QED BY <2>0, <3>1
  <2>2. w \in CommitRequest
    BY RequestTypes
  <2>3. Verdict(w, TRUE)
    BY <1>0, <2>1 DEF Sound
  <2>4. PICK v : v = [w EXCEPT !.step = "mark"]
    OBVIOUS
  <2>5. /\ v.step = "mark" /\ v.declared = w.declared /\ v.assetId = w.assetId
        /\ v.byteSize = w.byteSize /\ v.contentType = w.contentType
    BY <2>2, <2>4 DEF CommitRequest
  <2>6. Sound(v)'
    BY <2>1, <2>3, <2>5 DEF Sound, Verdict
  <2> QED BY <2>1, <2>4, <2>6, <1>3
<1>9. ASSUME NEW h \in Handlers, MarkCommitted(h)
      PROVE  \A k \in Handlers : \A w \in commits'[k] : Sound(w)'
  <2>1. CASE commits' = [commits EXCEPT ![h] = {}]
    <3>1. \A k \in Handlers : commits'[k] \subseteq commits[k]
      BY <2>1 DEF TypeOK, OneIn
    <3> QED BY <3>1, <1>2
  <2>2. ASSUME NEW w \in commits[h], rows'[w.assetId].status = "committed",
               commits' = [commits EXCEPT ![h] = {[w EXCEPT !.step = "tellCommitted"]}]
        PROVE  \A k \in Handlers : \A x \in commits'[k] : Sound(x)'
    <3>1. PICK v : v = [w EXCEPT !.step = "tellCommitted"]
      OBVIOUS
    <3>2. v.step = "tellCommitted" /\ v.assetId = w.assetId
      BY <3>1, RequestTypes DEF CommitRequest
    <3>3. Sound(v)'
      BY <2>2, <3>2 DEF Sound
    <3> QED BY <2>2, <3>1, <3>3, <1>3
  <2>3. \/ commits' = [commits EXCEPT ![h] = {}]
        \/ \E w \in commits[h] :
             /\ rows'[w.assetId].status = "committed"
             /\ commits' = [commits EXCEPT ![h] = {[w EXCEPT !.step = "tellCommitted"]}]
    <3>1. PICK w \in commits[h] :
            \/ /\ rows' = [rows EXCEPT ![w.assetId] =
                    [status |-> "committed", userId |-> @.userId, declared |-> @.declared,
                     pendingExpiresAt |-> Never,
                     actual |-> [byteSize |-> w.byteSize, contentType |-> w.contentType]]]
               /\ commits' = [commits EXCEPT ![h] = {[w EXCEPT !.step = "tellCommitted"]}]
            \/ commits' = [commits EXCEPT ![h] = {}]
      BY <1>9 DEF MarkCommitted, At, Goto
    <3>2. w.assetId \in Assets
      BY RequestTypes
    <3> QED BY <3>1, <3>2 DEF TypeOK
  <2> QED BY <2>1, <2>2, <2>3
<1>10. ASSUME NEW h \in Handlers, DeleteAndAnswer(h) \/ CommitEndsUndecided(h)
       PROVE  \A k \in Handlers : \A w \in commits'[k] : Sound(w)'
  <2>1. \A k \in Handlers : commits'[k] \subseteq commits[k]
    BY <1>10 DEF DeleteAndAnswer, CommitEndsUndecided, TypeOK, OneIn
  <2> QED BY <2>1, <1>2
<1>11. ASSUME UNCHANGED commits
       PROVE  \A k \in Handlers : \A w \in commits'[k] : Sound(w)'
  BY <1>2, <1>11
<1> QED BY <1>4, <1>5, <1>6, <1>7, <1>8, <1>9, <1>10, <1>11
  DEF Next, vars, Intent, AdmitIntent, CreateRow, CreateOne, IntentReturns, IntentFails,
      BeginPut, FinishPut, PutFails, AnswerSettled, Reap, ExpireQuarantine, Tick
-----------------------------------------------------------------------------
(* Answers, and the theorems.                                              *)

LEMMA StepAnswers ==
  ASSUME TypeOK, Lineage, Concluded, AnswersAreTrue, [Next]_vars
  PROVE  AnswersAreTrue'
<1>1. \A a \in Assets : Forward(a)
  BY RowsMoveForward
\* One decision d more is told of b.
<1>2. ASSUME NEW b \in Assets, NEW d \in {"committed", "rejected"},
             answers' = [answers EXCEPT ![b] = @ \cup {d}],
             \/ d = "committed" /\ rows[b].status = "committed"
             \/ d = "rejected" /\ rows[b].status \in {"rejected", "reaped"}
      PROVE  AnswersAreTrue'
  <2> SUFFICES ASSUME NEW a \in Assets
               PROVE  /\ "committed" \in answers'[a] => rows'[a].status = "committed"
                      /\ "rejected" \in answers'[a] => rows'[a].status \in {"rejected", "reaped"}
    BY DEF AnswersAreTrue
  <2>1. answers'[a] = IF a = b THEN answers[a] \cup {d} ELSE answers[a]
    BY <1>2 DEF TypeOK
  <2> QED BY <1>1, <1>2, <2>1 DEF AnswersAreTrue, Forward
<1>3. ASSUME UNCHANGED answers PROVE AnswersAreTrue'
  BY <1>1, <1>3 DEF AnswersAreTrue, Forward
<1>4. ASSUME NEW u \in Users, NEW b \in Assets, AnswerSettled(u, b) PROVE AnswersAreTrue'
  BY <1>2, <1>4 DEF AnswerSettled
<1>5. ASSUME NEW h \in Handlers, MarkCommitted(h) PROVE AnswersAreTrue'
  <2>1. \/ UNCHANGED answers
        \/ \E w \in commits[h] :
             /\ rows[w.assetId].status = "committed"
             /\ answers' = [answers EXCEPT ![w.assetId] = @ \cup {"committed"}]
    BY <1>5 DEF MarkCommitted, At
  <2> QED BY <2>1, <1>2, <1>3, RequestTypes
<1>6. ASSUME NEW h \in Handlers, DeleteAndAnswer(h) PROVE AnswersAreTrue'
  <2>1. \E w \in commits[h] : \E d \in {"committed", "rejected"} :
          /\ w.step = IF d = "committed" THEN "tellCommitted" ELSE "tellRejected"
          /\ answers' = [answers EXCEPT ![w.assetId] = @ \cup {d}]
    BY <1>6 DEF DeleteAndAnswer, At
  <2> QED BY <2>1, <1>2, RequestTypes DEF Concluded
<1> QED BY <1>3, <1>4, <1>5, <1>6
  DEF Next, vars, Intent, AdmitIntent, CreateRow, CreateOne, IntentReturns, IntentFails,
      BeginCommit, HeadObject, ReadHeader, MarkRejected, CopyObject,
      CommitEndsUndecided, BeginPut, FinishPut, PutFails, Reap, ExpireQuarantine, Tick

LEMMA InitInv == Init => UploadInv
BY InitTypes, InitLineage
  DEF Init, UploadInv, Lineage, Pinned, Concluded, DeliveredWasInspected,
      CommittedIsServed, AnswersAreTrue, Unminted

LEMMA StepInv == UploadInv /\ [Next]_vars => UploadInv'
BY StepTypes, StepLineage, StepBuckets, StepConcluded, StepAnswers
  DEF UploadInv, Lineage, Buckets

\* The strengthening of the three properties below is inductive.
THEOREM Invariance == Spec => []UploadInv
BY InitInv, StepInv, PTL DEF Spec

\* Whatever a client uploads, and however often and late, the content in the
\* asset bucket is one that inspectUpload accepts for what was declared.
THEOREM OnlyInspectedIsDelivered == Spec => []DeliveredWasInspected
BY Invariance, PTL DEF UploadInv

\* A COMMITTED row always has its object, with the digest, size and type it says.
THEOREM CommittedHasItsObject == Spec => []CommittedIsServed
BY Invariance, PTL DEF UploadInv

\* No two clients are told opposite decisions, and none a decision taken back.
THEOREM AnswersNeverContradict == Spec => []AnswersAreTrue
BY Invariance, PTL DEF UploadInv
-----------------------------------------------------------------------------
(* Refinement: every step of the module is one decision of an upload, or   *)
(* nothing at all.                                                         *)

phase == [a \in Assets |-> rows[a].status]

shown == [a \in Assets |->
            IF rows[a].status = "committed" THEN {o.content : o \in objects[a]} ELSE {}]

ShowsOne ==
  \A a \in Assets : rows[a].status = "committed" =>
    \E c \in Contents : /\ shown[a] = {c} /\ Fit(c)
                        /\ c.sha256 = rows[a].declared.sha256

LEMMA CommittedShowsOne == UploadInv => ShowsOne
<1> SUFFICES ASSUME UploadInv, NEW a \in Assets, rows[a].status = "committed"
             PROVE  \E c \in Contents : /\ shown[a] = {c} /\ Fit(c)
                                        /\ c.sha256 = rows[a].declared.sha256
  BY DEF ShowsOne
<1>1. PICK o \in objects[a] : o.content.sha256 = rows[a].declared.sha256
  BY DEF UploadInv, CommittedIsServed
<1>2. objects[a] = {o} /\ o \in Object
  BY DEF UploadInv, TypeOK, OneIn
<1>3. PICK g \in grants[a] : TRUE
  BY <1>1 DEF UploadInv, Pinned
<1>4. inspectUpload(g.declared, o.content.byteSize, o.content)
  BY DEF UploadInv, DeliveredWasInspected
<1>5. g.declared \in Files
  BY DEF UploadInv, TypeOK, Url
<1>6. Fit(o.content)
  BY <1>4, <1>5 DEF Fit
<1>7. o.content \in Contents
  BY <1>2 DEF Object
<1>8. shown[a] = {o.content}
  BY <1>2 DEF shown
<1> QED BY <1>1, <1>6, <1>7, <1>8

LEMMA OneRowMoves ==
  ASSUME TypeOK, [Next]_vars
  PROVE  \/ UNCHANGED rows
         \/ \E a \in Assets : \A b \in Assets : b # a => rows'[b] = rows[b]
<1> DEFINE One == \E a \in Assets : \A b \in Assets : b # a => rows'[b] = rows[b]
<1>0. rows = [b \in Assets |-> rows[b]]
  BY DEF TypeOK
<1>1. ASSUME NEW q \in Slots, CreateRow(q) PROVE One
  BY <1>0, <1>1 DEF CreateRow, CreateOne
<1>2. ASSUME NEW h \in Handlers, MarkRejected(h) PROVE One
  BY <1>0, <1>2, RequestTypes DEF MarkRejected, At
<1>3. ASSUME NEW h \in Handlers, MarkCommitted(h) PROVE One
  BY <1>0, <1>3, RequestTypes DEF MarkCommitted, At
<1>4. ASSUME NEW a \in Assets, Reap(a) PROVE One
  BY <1>0, <1>4 DEF Reap
<1> HIDE DEF One
<1>5. UNCHANGED rows \/ One
  BY <1>1, <1>2, <1>3, <1>4
    DEF Next, vars, Intent, AdmitIntent, IntentReturns, IntentFails, BeginCommit, HeadObject,
        ReadHeader, CopyObject, DeleteAndAnswer, CommitEndsUndecided, BeginPut, FinishPut,
        PutFails, AnswerSettled, ExpireQuarantine, Tick
<1> QED BY <1>5 DEF One

LEMMA StepRefines ==
  ASSUME UploadInv, ShowsOne, ShowsOne', [Next]_vars
  PROVE  [Promise!Next]_(Promise!vars)
<1>1. \A a \in Assets : Forward(a)
  BY RowsMoveForward DEF UploadInv, Lineage
\* A row that does not move shows what it showed: the one content of its digest.
<1>2. ASSUME NEW a \in Assets, rows'[a] = rows[a] PROVE shown'[a] = shown[a]
  <2>1. CASE rows[a].status = "committed"
    <3>1. PICK c \in Contents : shown[a] = {c} /\ c.sha256 = rows[a].declared.sha256
      BY <2>1 DEF ShowsOne
    <3>2. PICK d \in Contents : shown'[a] = {d} /\ d.sha256 = rows'[a].declared.sha256
      BY <1>2, <2>1 DEF ShowsOne
    <3> QED BY <1>2, <3>1, <3>2, AssetAssumption
  <2>2. CASE rows[a].status # "committed"
    BY <1>2, <2>2 DEF shown
  <2> QED BY <2>1, <2>2
<1>3. CASE \A a \in Assets : rows'[a] = rows[a]
  <2>1. phase' = phase
    BY <1>3 DEF phase
  <2>2. shown' = shown
    BY <1>2, <1>3 DEF shown
  <2> QED BY <2>1, <2>2 DEF Promise!vars, phase, shown
<1>4. ASSUME NEW a \in Assets, rows'[a] # rows[a],
             \A b \in Assets : b # a => rows'[b] = rows[b]
      PROVE  Promise!Next
  <2>1. phase' = [phase EXCEPT ![a] = rows'[a].status]
    BY <1>4 DEF phase
  <2>2. \A b \in Assets : b # a => shown'[b] = shown[b]
    BY <1>2, <1>4
  <2>3. shown' = [shown EXCEPT ![a] = shown'[a]]
    BY <2>2 DEF shown
  <2>4. CASE rows[a].status = "unminted" /\ rows'[a].status = "pending"
    <3>1. shown' = shown
      BY <2>3, <2>4 DEF shown
    <3>2. Promise!Intend(a)
      BY <2>1, <2>4, <3>1 DEF Promise!Intend, phase, shown
    <3> QED BY <3>2 DEF Promise!Next
  <2>5. CASE rows[a].status = "pending" /\ rows'[a].status = "committed"
    <3>1. PICK c \in Contents : shown'[a] = {c} /\ Fit(c)
      BY <2>5 DEF ShowsOne
    <3>2. Promise!Commit(a)
      BY <2>1, <2>3, <2>5, <3>1 DEF Promise!Commit, phase, shown
    <3> QED BY <3>2 DEF Promise!Next
  <2>6. CASE rows[a].status = "pending" /\ rows'[a].status \in {"rejected", "reaped"}
    <3>1. shown' = shown
      BY <2>3, <2>6 DEF shown
    <3>2. Promise!Withdraw(a)
      BY <2>1, <2>6, <3>1 DEF Promise!Withdraw, phase, shown
    <3> QED BY <3>2 DEF Promise!Next
  <2> QED BY <1>1, <1>4, <2>4, <2>5, <2>6 DEF Forward
<1> QED BY <1>3, <1>4, OneRowMoves DEF UploadInv

\* The rows and the asset bucket implement the abstract upload: one decision per
\* intent, never left, and a committed upload goes on showing one fit content.
THEOREM Refinement == Spec => ImplementsUpload
<1>1. Init => Promise!Init
  BY DEF Init, Promise!Init, Unminted
<1>2. UploadInv /\ ShowsOne /\ ShowsOne' /\ [Next]_vars
        => [Promise!Next]_(Promise!vars)
  BY StepRefines
<1> QED BY <1>1, <1>2, CommittedShowsOne, Invariance, PTL DEF Spec, ImplementsUpload, Promise!Spec

-----------------------------------------------------------------------------
(* The quota.  Outstanding(u) is all that counts, or may come to count,    *)
(* against u: it only grows when an intent of u is admitted, and then from *)
(* a state whose every part is bounded.                                    *)

Outstanding(u) == Held(u) \cup Waiting(u) \cup Doomed(u)

\* A batch is never larger than the interface admits.
BatchesFit == \A q \in Slots : \A i \in intents[q] : Cardinality(ToCreate(i)) <= FilesPerIntent

QuotaInv == UploadInv /\ BatchesFit /\ QuotaOvershoot

LEMMA HeldIff ==
  ASSUME NEW u, NEW a \in Assets
  PROVE  /\ a \in Held(u) <=>
              /\ rows[a].status \in {"pending", "committed"} /\ rows[a].userId = u
              /\ rows[a].status = "pending" => rows[a].pendingExpiresAt > now
         /\ a \in Held(u)' <=>
              /\ rows'[a].status \in {"pending", "committed"} /\ rows'[a].userId = u
              /\ rows'[a].status = "pending" => rows'[a].pendingExpiresAt > now'
BY DEF Held

LEMMA DoomedIff ==
  ASSUME NEW u, NEW a \in Assets
  PROVE  /\ a \in Doomed(u) <=>
              /\ rows[a].status = "pending" /\ rows[a].userId = u
              /\ ~(rows[a].pendingExpiresAt > now)
              /\ \E h \in Handlers : \E w \in commits[h] : w.assetId = a
         /\ a \in Doomed(u)' <=>
              /\ rows'[a].status = "pending" /\ rows'[a].userId = u
              /\ ~(rows'[a].pendingExpiresAt > now')
              /\ \E h \in Handlers : \E w \in commits'[h] : w.assetId = a
BY DEF Doomed, InWindow

LEMMA WaitingIff ==
  ASSUME NEW u, NEW a \in Assets
  PROVE  /\ a \in Waiting(u) <=>
              \E q \in Slots : \E i \in intents[q] : i.userId = u /\ i.todo[a] # {}
         /\ a \in Waiting(u)' <=>
              \E q \in Slots : \E i \in intents'[q] : i.userId = u /\ i.todo[a] # {}
BY DEF Waiting, ToCreate

LEMMA PartsAreAssets ==
  ASSUME NEW u
  PROVE  /\ Held(u) \subseteq Assets /\ Waiting(u) \subseteq Assets /\ Doomed(u) \subseteq Assets
         /\ Held(u)' \subseteq Assets /\ Waiting(u)' \subseteq Assets /\ Doomed(u)' \subseteq Assets
BY DEF Held, Waiting, Doomed, ToCreate

\* The three parts have no asset in common.
Apart(u) ==
  /\ Held(u) \cap Waiting(u) = {}
  /\ Held(u) \cap Doomed(u) = {}
  /\ Waiting(u) \cap Doomed(u) = {}

LEMMA PartsAreApart == ASSUME NEW u, Fresh PROVE Apart(u)
<1>1. \A a \in Assets : a \in Waiting(u) => rows[a].status = "unminted"
  BY WaitingIff DEF Fresh
<1>2. \A a \in Assets : a \in Held(u) => a \notin Waiting(u) /\ a \notin Doomed(u)
  BY <1>1, HeldIff, DoomedIff
<1>3. \A a \in Assets : a \in Doomed(u) => a \notin Waiting(u)
  BY <1>1, DoomedIff
<1> QED BY <1>2, <1>3, PartsAreAssets, Zenon DEF Apart

AddUp(A, B, C) ==
  Cardinality(A \cup B \cup C) = Cardinality(A) + Cardinality(B) + Cardinality(C)

LEMMA ThreeApart ==
  ASSUME NEW A, NEW B, NEW C, IsFiniteSet(A), IsFiniteSet(B), IsFiniteSet(C),
         A \cap B = {}, A \cap C = {}, B \cap C = {}
  PROVE  AddUp(A, B, C)
<1>0. Cardinality(A) \in Nat /\ Cardinality(B) \in Nat /\ Cardinality(C) \in Nat
  BY FS_CardinalityType
<1>1. IsFiniteSet(A \cup B) /\ Cardinality(A \cup B) = Cardinality(A) + Cardinality(B)
  <2>1. /\ IsFiniteSet(A \cup B)
        /\ Cardinality(A \cup B) = Cardinality(A) + Cardinality(B) - Cardinality(A \cap B)
    BY FS_Union, Zenon
  <2>2. Cardinality(A \cap B) = 0
    BY FS_EmptySet, Zenon
  <2> QED BY <1>0, <2>1, <2>2
<1>2. (A \cup B) \cap C = {}
  OBVIOUS
<1>3. /\ IsFiniteSet((A \cup B) \cup C)
      /\ Cardinality((A \cup B) \cup C)
           = Cardinality(A \cup B) + Cardinality(C) - Cardinality((A \cup B) \cap C)
  BY <1>1, FS_Union, Zenon
<1>4. Cardinality((A \cup B) \cap C) = 0
  BY <1>2, FS_EmptySet, Zenon
<1> QED BY <1>0, <1>1, <1>3, <1>4 DEF AddUp

LEMMA OutstandingIsTheSum ==
  ASSUME NEW u
  PROVE  /\ Apart(u) => /\ IsFiniteSet(Outstanding(u))
                        /\ AddUp(Held(u), Waiting(u), Doomed(u))
         /\ Apart(u)' => /\ IsFiniteSet(Outstanding(u)')
                         /\ AddUp(Held(u)', Waiting(u)', Doomed(u)')
<1>1. /\ IsFiniteSet(Held(u)) /\ IsFiniteSet(Waiting(u)) /\ IsFiniteSet(Doomed(u))
      /\ IsFiniteSet(Held(u)') /\ IsFiniteSet(Waiting(u)') /\ IsFiniteSet(Doomed(u)')
  BY PartsAreAssets, FS_Subset, AssetAssumption
<1>2. IsFiniteSet(Outstanding(u)) /\ IsFiniteSet(Outstanding(u)')
  <2>1. Outstanding(u) \subseteq Assets /\ Outstanding(u)' \subseteq Assets
    BY PartsAreAssets DEF Outstanding
  <2> QED BY <2>1, FS_Subset, AssetAssumption
<1>3. Apart(u) => AddUp(Held(u), Waiting(u), Doomed(u))
  BY <1>1, ThreeApart, Zenon DEF Apart
<1>4. Apart(u)' => AddUp(Held(u)', Waiting(u)', Doomed(u)')
  BY <1>1, ThreeApart, Zenon DEF Apart
<1> QED BY <1>2, <1>3, <1>4

\* What a step may do to what counts against a user without adding to it: settle
\* rows, and commit one only if a commit of it is under way; let time pass; end
\* intents and commits; begin a commit inside the window.
Settling ==
  /\ \A a \in Assets :
       \/ rows'[a] = rows[a]
       \/ rows'[a].status \notin {"pending", "committed"}
       \/ /\ rows[a].status = "pending" /\ rows'[a].userId = rows[a].userId
          /\ rows'[a].status = "committed"
          /\ \E h \in Handlers : \E w \in commits[h] : w.assetId = a
  /\ \A q \in Slots : intents'[q] \subseteq intents[q]
  /\ now' >= now
  /\ \A h \in Handlers : \A v \in commits'[h] :
       \/ \E w \in commits[h] : w.assetId = v.assetId
       \/ rows'[v.assetId].pendingExpiresAt > now'

LEMMA SettlingAddsNothing ==
  ASSUME TypeOK, now' \in Nat, Settling, NEW u
  PROVE  Outstanding(u)' \subseteq Outstanding(u)
<1> SUFFICES ASSUME NEW a \in Assets, a \in Outstanding(u)'
             PROVE  a \in Outstanding(u)
  BY PartsAreAssets DEF Outstanding
<1>0. now \in Nat /\ (rows[a].status = "pending" => rows[a].pendingExpiresAt \in Nat)
  <2>1. rows[a] \in Row /\ now \in Nat
    BY DEF TypeOK
  <2> QED BY <2>1 DEF Row, Unminted, Reaped
\* A live row that a commit of it is under way to settle counts, one way or the other.
<1>1. ASSUME rows[a].status = "pending", rows[a].userId = u,
             \E h \in Handlers : \E w \in commits[h] : w.assetId = a
      PROVE  a \in Outstanding(u)
  <2>1. CASE rows[a].pendingExpiresAt > now
    BY <1>1, <2>1, HeldIff DEF Outstanding
  <2>2. CASE ~(rows[a].pendingExpiresAt > now)
    BY <1>1, <2>2, DoomedIff DEF Outstanding
  <2> QED BY <2>1, <2>2
<1>2. CASE a \in Held(u)'
  <2>1. /\ rows'[a].status \in {"pending", "committed"} /\ rows'[a].userId = u
        /\ rows'[a].status = "pending" => rows'[a].pendingExpiresAt > now'
    BY <1>2, HeldIff
  <2>2. CASE rows'[a] = rows[a]
    <3>1. now' >= now
      BY DEF Settling
    <3>2. rows[a].status = "pending" => rows[a].pendingExpiresAt > now
      BY <1>0, <2>1, <2>2, <3>1
    <3> QED BY <2>1, <2>2, <3>2, HeldIff DEF Outstanding
  <2>3. CASE rows'[a] # rows[a]
    BY <1>1, <2>1, <2>3 DEF Settling
  <2> QED BY <2>2, <2>3
<1>3. CASE a \in Waiting(u)'
  <2>1. PICK q \in Slots : \E i \in intents'[q] : i.userId = u /\ i.todo[a] # {}
    BY <1>3, WaitingIff
  <2> QED BY <2>1, WaitingIff DEF Settling, Outstanding
<1>4. CASE a \in Doomed(u)'
  <2>1. /\ rows'[a].status = "pending" /\ rows'[a].userId = u
        /\ ~(rows'[a].pendingExpiresAt > now')
        /\ \E h \in Handlers : \E w \in commits'[h] : w.assetId = a
    BY <1>4, DoomedIff
  <2>2. rows'[a] = rows[a]
    BY <2>1 DEF Settling
  <2>3. \E h \in Handlers : \E w \in commits[h] : w.assetId = a
    BY <2>1 DEF Settling
  <2> QED BY <1>1, <2>1, <2>2, <2>3
<1> QED BY <1>2, <1>3, <1>4 DEF Outstanding

\* The row made for a file that was waiting counts as the file did.
LEMMA CreateRowAddsNothing ==
  ASSUME UploadInv, NEW q \in Slots, CreateRow(q), NEW u
  PROVE  Outstanding(u)' \subseteq Outstanding(u)
<1> SUFFICES ASSUME NEW a \in Assets, a \in Outstanding(u)'
             PROVE  a \in Outstanding(u)
  BY PartsAreAssets DEF Outstanding
<1> USE DEF UploadInv
<1>1. PICK i \in intents[q], b \in Assets : \E f \in i.todo[b] : CreateOne(q, i, b, f)
  BY DEF CreateRow
<1>2. PICK f \in i.todo[b] : CreateOne(q, i, b, f)
  BY <1>1
<1>3. i \in IntentRequest
  BY IntentTypesOf
<1>4. \A c \in Assets : rows'[c] = IF c = b THEN Pending(i.userId, f, i.expiresAt) ELSE rows[c]
  BY <1>2 DEF CreateOne, TypeOK
<1>5. CASE a = b
  <2>1. rows'[a].userId = i.userId /\ rows'[a].status = "pending"
    BY <1>4, <1>5 DEF Pending
  <2>2. a \in Waiting(i.userId)
    BY <1>2, <1>5, WaitingIff
  <2>3. \A r \in Slots : \A j \in intents'[r] : j.todo[a] # {} => FALSE
    <3>1. \A r \in Slots : r # q => \A j \in intents[r] : j.todo[a] = {}
      BY <1>2, <1>5 DEF Fresh
    <3>2. \A r \in Slots : \A j \in intents'[r] :
            \/ r # q /\ j \in intents[r]
            \/ j.todo[a] = {}
      <4> DEFINE url == [declared |-> f, expiresAt |-> now + UploadUrlTtl]
                 k == [i EXCEPT !.todo[b] = {}, !.tickets[b] = {url}]
      <4>1. k.todo[a] = {}
        BY <1>3, <1>5 DEF IntentRequest
      <4> HIDE DEF k
      <4>2. intents' = [intents EXCEPT ![q] = {k}]
        BY <1>2 DEF CreateOne, k
      <4>3. intents = [r \in Slots |-> intents[r]]
        BY DEF TypeOK, OneIn
      <4> QED BY <4>1, <4>2, <4>3
    <3> QED BY <3>1, <3>2
  <2>4. u = i.userId
    BY <2>1, <2>3, HeldIff, DoomedIff, WaitingIff DEF Outstanding
  <2> QED BY <2>2, <2>4 DEF Outstanding
<1>6. CASE a # b
  <2>1. rows'[a] = rows[a] /\ now' = now /\ commits' = commits
    BY <1>2, <1>4, <1>6 DEF CreateOne
  <2>2. a \in Waiting(u)' => a \in Waiting(u)
    <3> DEFINE url == [declared |-> f, expiresAt |-> now + UploadUrlTtl]
               k == [i EXCEPT !.todo[b] = {}, !.tickets[b] = {url}]
    <3>1. k.todo[a] = i.todo[a] /\ k.userId = i.userId
      BY <1>3, <1>6 DEF IntentRequest
    <3> HIDE DEF k
    <3>2. intents' = [intents EXCEPT ![q] = {k}]
      BY <1>2 DEF CreateOne, k
    <3>3. intents = [r \in Slots |-> intents[r]]
      BY DEF TypeOK, OneIn
    <3> QED BY <3>1, <3>2, <3>3, WaitingIff
  <2> QED BY <2>1, <2>2, HeldIff, DoomedIff DEF Outstanding
<1> QED BY <1>5, <1>6


LEMMA CommitStepSettles ==
  ASSUME TypeOK, NEW h \in Handlers, CommitStep(h)
  PROVE  Settling
<1>1. ASSUME NEW a \in Assets, rows'[a] # rows[a]
      PROVE  /\ rows[a].status = "pending" /\ rows'[a].userId = rows[a].userId
             /\ rows'[a].status \in {"committed", "rejected"}
             /\ \E w \in commits[h] : w.assetId = a
  <2>1. /\ rows[a].status = "pending" /\ rows'[a].userId = rows[a].userId
        /\ rows'[a].status \in {"committed", "rejected"}
    BY <1>1, CommitSettles
  <2>2. ~UNCHANGED rows => MarkRejected(h) \/ MarkCommitted(h)
    BY DEF CommitStep, HeadObject, ReadHeader, CopyObject, DeleteAndAnswer, CommitEndsUndecided
  <2>3. MarkRejected(h) => \E w \in commits[h] : \A c \in Assets : c # w.assetId => rows'[c] = rows[c]
    BY DEF MarkRejected, At, TypeOK
  <2>4. MarkCommitted(h) => \E w \in commits[h] : \A c \in Assets : c # w.assetId => rows'[c] = rows[c]
    BY DEF MarkCommitted, At, TypeOK
  <2> QED BY <1>1, <2>1, <2>2, <2>3, <2>4
<1>2. /\ UNCHANGED <<intents, now>>
      /\ \A k \in Handlers : \A v \in commits'[k] : \E w \in commits[k] : w.assetId = v.assetId
  BY CommitKeeps
<1>3. now' >= now
  BY <1>2 DEF TypeOK
<1> QED BY <1>1, <1>2, <1>3 DEF Settling

LEMMA BeginCommitSettles ==
  ASSUME TypeOK, NEW h \in Handlers, NEW u \in Users, NEW a \in Assets, BeginCommit(h, u, a)
  PROVE  Settling
<1>1. \A k \in Handlers : \A v \in commits'[k] :
        v \in commits[k] \/ v.assetId = a
  BY DEF BeginCommit, TypeOK, OneIn
<1>2. rows'[a].pendingExpiresAt > now' /\ now' >= now /\ UNCHANGED <<rows, intents>>
  BY DEF BeginCommit, InWindow, TypeOK
<1> QED BY <1>1, <1>2 DEF Settling

LEMMA OtherStepsSettle ==
  ASSUME TypeOK,
         \/ \E q \in Slots : IntentReturns(q) \/ IntentFails(q)
         \/ \E a \in Assets, c \in Contents : BeginPut(a, c) \/ FinishPut(a, c) \/ PutFails(a, c)
         \/ \E u \in Users, a \in Assets : AnswerSettled(u, a)
         \/ \E a \in Assets : Reap(a) \/ ExpireQuarantine(a)
         \/ Tick
         \/ UNCHANGED vars
  PROVE  Settling
<1>0. now \in Nat /\ intents = [q \in Slots |-> intents[q]]
  BY DEF TypeOK, OneIn
<1>1. ASSUME NEW q \in Slots, IntentReturns(q) \/ IntentFails(q) PROVE Settling
  BY <1>0, <1>1 DEF IntentReturns, IntentFails, Settling
<1>2. ASSUME NEW a \in Assets, Reap(a) PROVE Settling
  <2>1. \A b \in Assets : rows'[b] = rows[b] \/ rows'[b].status = "reaped"
    BY <1>2 DEF Reap, Reaped, TypeOK
  <2> QED BY <1>0, <1>2, <2>1 DEF Reap, Settling
<1>3. CASE UNCHANGED <<rows, intents, commits>> /\ now' >= now
  BY <1>3 DEF Settling
<1> QED BY <1>0, <1>1, <1>2, <1>3
  DEF BeginPut, FinishPut, PutFails, AnswerSettled, ExpireQuarantine, Tick, vars

\* The batches of the intents under way stay as small as they were admitted.
LEMMA StepBatches ==
  ASSUME UploadInv, BatchesFit, [Next]_vars
  PROVE  BatchesFit'
<1> USE DEF UploadInv
<1>0. intents = [r \in Slots |-> intents[r]]
  BY DEF TypeOK, OneIn
<1>1. ASSUME NEW q \in Slots, Intent(q) PROVE BatchesFit'
  <2>1. PICK u \in Users, b \in Batches : \E files \in [b -> Files] : AdmitIntent(q, u, files)
    BY <1>1 DEF Intent
  <2>2. PICK files \in [b -> Files] : AdmitIntent(q, u, files)
    BY <2>1
  <2> DEFINE i == [userId |-> u, expiresAt |-> now + CommitWindow,
                   todo |-> [a \in Assets |-> IF a \in DOMAIN files THEN {files[a]} ELSE {}],
                   tickets |-> [a \in Assets |-> {}]]
  <2>3. intents' = [intents EXCEPT ![q] = {i}]
    BY <2>2 DEF AdmitIntent
  <2>4. ToCreate(i) = b
    BY DEF ToCreate, Batches
  <2>5. Cardinality(b) <= FilesPerIntent
    BY DEF Batches
  <2> HIDE DEF i
  <2> QED BY <1>0, <2>3, <2>4, <2>5 DEF BatchesFit
<1>2. ASSUME NEW q \in Slots, CreateRow(q) PROVE BatchesFit'
  <2>1. PICK i \in intents[q], a \in Assets : \E f \in i.todo[a] : CreateOne(q, i, a, f)
    BY <1>2 DEF CreateRow
  <2>2. PICK f \in i.todo[a] : CreateOne(q, i, a, f)
    BY <2>1
  <2> DEFINE url == [declared |-> f, expiresAt |-> now + UploadUrlTtl]
             j == [i EXCEPT !.todo[a] = {}, !.tickets[a] = {url}]
  <2>3. i \in IntentRequest
    BY IntentTypesOf
  <2>4. ToCreate(j) \subseteq ToCreate(i) /\ ToCreate(i) \subseteq Assets
    BY <2>3 DEF ToCreate, IntentRequest
  <2>5. Cardinality(ToCreate(j)) <= Cardinality(ToCreate(i))
    BY <2>4, FS_Subset, AssetAssumption
  <2>6. Cardinality(ToCreate(j)) <= FilesPerIntent
    <3>1. Cardinality(ToCreate(i)) <= FilesPerIntent
      BY DEF BatchesFit
    <3>2. Cardinality(ToCreate(i)) \in Nat /\ Cardinality(ToCreate(j)) \in Nat
      BY <2>4, FS_Subset, FS_CardinalityType, AssetAssumption
    <3> HIDE DEF j
    <3> QED BY <2>5, <3>1, <3>2, AssetAssumption
  <2>7. intents' = [intents EXCEPT ![q] = {j}]
    BY <2>2 DEF CreateOne
  <2> HIDE DEF j
  <2> QED BY <1>0, <2>6, <2>7 DEF BatchesFit
<1>3. ASSUME NEW q \in Slots, IntentReturns(q) \/ IntentFails(q) PROVE BatchesFit'
  BY <1>0, <1>3 DEF IntentReturns, IntentFails, BatchesFit
<1>4. CASE UNCHANGED intents
  BY <1>4 DEF BatchesFit, ToCreate
<1>5. ASSUME NEW h \in Handlers, CommitStep(h) PROVE UNCHANGED intents
  BY <1>5, CommitKeeps
<1> QED BY <1>1, <1>2, <1>3, <1>4, <1>5
  DEF Next, vars, CommitStep, BeginPut, FinishPut, PutFails, AnswerSettled, BeginCommit, Reap,
      ExpireQuarantine, Tick


-----------------------------------------------------------------------------
(* How much the other intents and the commits under way can hold.          *)

\* A family of sets of at most n elements each.
LEMMA FamilyBound ==
  ASSUME NEW D, IsFiniteSet(D), NEW T, NEW n \in Nat,
         \A d \in D : IsFiniteSet(T[d]) /\ Cardinality(T[d]) <= n
  PROVE  /\ IsFiniteSet(UNION {T[d] : d \in D})
         /\ Cardinality(UNION {T[d] : d \in D}) <= Cardinality(D) * n
<1> DEFINE U == UNION {T[d] : d \in D}
           e == [d \in D |-> CHOOSE f : f \in Bijection(1 .. Cardinality(T[d]), T[d])]
           home == [x \in U |-> CHOOSE d \in D : x \in T[d]]
           place == [x \in U |-> CHOOSE k \in 1 .. n : k \in DOMAIN e[home[x]] /\ e[home[x]][k] = x]
           f == [x \in U |-> <<home[x], place[x]>>]
<1>1. \A d \in D : Cardinality(T[d]) \in Nat /\ e[d] \in Bijection(1 .. Cardinality(T[d]), T[d])
  <2>1. ASSUME NEW d \in D
        PROVE  /\ Cardinality(T[d]) \in Nat
               /\ \E g : g \in Bijection(1 .. Cardinality(T[d]), T[d])
    BY FS_CardinalityType, Zenon DEF ExistsBijection
  <2> QED BY <2>1
<1>2. \A x \in U : home[x] \in D /\ x \in T[home[x]]
  OBVIOUS
<1> HIDE DEF e, home
<1>3. ASSUME NEW x \in U
      PROVE  /\ place[x] \in 1 .. n
             /\ e[home[x]][place[x]] = x
  <2>1. PICK d \in D : d = home[x] /\ x \in T[d]
    BY <1>2
  <2>2. PICK k \in 1 .. Cardinality(T[d]) : e[d][k] = x
    BY <1>1, <2>1 DEF Bijection, Surjection
  <2>3. k \in 1 .. n
    BY <1>1
  <2>4. k \in DOMAIN e[d]
    BY <1>1 DEF Bijection, Surjection
  <2>5. \E l \in 1 .. n : l \in DOMAIN e[home[x]] /\ e[home[x]][l] = x
    BY <2>1, <2>2, <2>3, <2>4
  <2> QED BY <2>5
<1> HIDE DEF place
<1>4. f \in Injection(U, D \X (1 .. n))
  <2>1. f \in [U -> D \X (1 .. n)]
    BY <1>2, <1>3
  <2>2. \A x, y \in U : f[x] = f[y] => x = y
    BY <1>3
  <2> QED BY <2>1, <2>2 DEF Injection, IsInjective
<1>5. IsFiniteSet(1 .. n) /\ Cardinality(1 .. n) = n
  BY FS_Interval
<1>6. IsFiniteSet(D \X (1 .. n)) /\ Cardinality(D \X (1 .. n)) = Cardinality(D) * n
  BY <1>5, FS_Product
<1> HIDE DEF f, U
<1>7. IsFiniteSet(U) /\ Cardinality(U) <= Cardinality(D) * n
  BY <1>4, <1>6, FS_Injection
<1> QED BY <1>7 DEF U

\* Each commit under way is about one asset.
LEMMA DoomedBound ==
  ASSUME TypeOK, NEW u
  PROVE  IsFiniteSet(Doomed(u)) /\ Cardinality(Doomed(u)) <= Cardinality(Handlers)
<1> DEFINE f == [a \in Doomed(u) |-> CHOOSE h \in Handlers : \E w \in commits[h] : w.assetId = a]
<1>1. \A a \in Doomed(u) : \E h \in Handlers : \E w \in commits[h] : w.assetId = a
  BY DEF Doomed
<1>2. \A a \in Doomed(u) : f[a] \in Handlers /\ \E w \in commits[f[a]] : w.assetId = a
  BY <1>1
<1> HIDE DEF f
<1>3. \A a, b \in Doomed(u) : f[a] = f[b] => a = b
  BY <1>2, RequestTypes
<1>4. f \in Injection(Doomed(u), Handlers)
  BY <1>2, <1>3 DEF Injection, IsInjective, f
<1> QED BY <1>4, FS_Injection, AssetAssumption

\* What the intents in all slots but q have still to create.
WaitingElsewhere(q) ==
  UNION {UNION {ToCreate(i) : i \in intents[r]} : r \in Slots \ {q}}

LEMMA WaitingElsewhereBound ==
  ASSUME TypeOK, BatchesFit, NEW q \in Slots
  PROVE  /\ IsFiniteSet(WaitingElsewhere(q))
         /\ Cardinality(WaitingElsewhere(q)) <= (Cardinality(Slots) - 1) * FilesPerIntent
<1> DEFINE T == [r \in Slots \ {q} |-> UNION {ToCreate(i) : i \in intents[r]}]
<1>1. IsFiniteSet(Slots \ {q}) /\ Cardinality(Slots \ {q}) = Cardinality(Slots) - 1
  BY FS_RemoveElement, AssetAssumption
<1>2. ASSUME NEW r \in Slots \ {q} PROVE IsFiniteSet(T[r]) /\ Cardinality(T[r]) <= FilesPerIntent
  <2>1. CASE intents[r] = {}
    <3>1. T[r] = {}
      BY <2>1
    <3> QED BY <3>1, FS_EmptySet, AssetAssumption
  <2>2. ASSUME NEW i \in intents[r] PROVE IsFiniteSet(T[r]) /\ Cardinality(T[r]) <= FilesPerIntent
    <3>1. intents[r] = {i}
      BY IntentTypesOf
    <3>2. T[r] = ToCreate(i)
      BY <3>1
    <3>3. ToCreate(i) \subseteq Assets
      BY DEF ToCreate
    <3>4. Cardinality(ToCreate(i)) <= FilesPerIntent
      BY DEF BatchesFit
    <3> QED BY <3>2, <3>3, <3>4, FS_Subset, AssetAssumption
  <2> QED BY <2>1, <2>2
<1>3. WaitingElsewhere(q) = UNION {T[r] : r \in Slots \ {q}}
  BY DEF WaitingElsewhere
<1> HIDE DEF T
<1>4. /\ IsFiniteSet(UNION {T[r] : r \in Slots \ {q}})
      /\ Cardinality(UNION {T[r] : r \in Slots \ {q}}) <= Cardinality(Slots \ {q}) * FilesPerIntent
  BY <1>1, <1>2, FamilyBound, AssetAssumption
<1> QED BY <1>1, <1>3, <1>4


LEMMA UnionIsNoLarger ==
  ASSUME NEW A, NEW B, IsFiniteSet(A), IsFiniteSet(B)
  PROVE  /\ IsFiniteSet(A \cup B) /\ Cardinality(A) \in Nat /\ Cardinality(B) \in Nat
         /\ Cardinality(A \cup B) \in Nat
         /\ Cardinality(A \cup B) <= Cardinality(A) + Cardinality(B)
<1>1. /\ IsFiniteSet(A \cup B)
      /\ Cardinality(A \cup B) = Cardinality(A) + Cardinality(B) - Cardinality(A \cap B)
  BY FS_Union, Zenon
<1>2. IsFiniteSet(A \cap B)
  BY FS_Intersection, Zenon
<1>3. /\ Cardinality(A \cap B) \in Nat /\ Cardinality(A) \in Nat
      /\ Cardinality(B) \in Nat /\ Cardinality(A \cup B) \in Nat
  BY <1>1, <1>2, FS_CardinalityType, Zenon
<1> QED BY <1>1, <1>3

Bound == AssetsPerUser + (Cardinality(Slots) - 1) * FilesPerIntent + Cardinality(Handlers)

LEMMA UsageIsWhatIsHeld == ASSUME TypeOK, NEW u PROVE usageFor(u) = Held(u)
BY DEF usageFor, Held, InWindow

LEMMA AdmissionOfAnother ==
  ASSUME TypeOK, NEW q \in Slots, NEW u, NEW files, AdmitIntent(q, u, files), NEW v, v # u
  PROVE  Outstanding(v)' \subseteq Outstanding(v)
<1> SUFFICES ASSUME NEW a \in Assets, a \in Outstanding(v)' PROVE a \in Outstanding(v)
  BY PartsAreAssets DEF Outstanding
<1> DEFINE i == [userId |-> u, expiresAt |-> now + CommitWindow,
                 todo |-> [c \in Assets |-> IF c \in DOMAIN files THEN {files[c]} ELSE {}],
                 tickets |-> [c \in Assets |-> {}]]
<1>1. i.userId # v
  OBVIOUS
<1>2. intents' = [intents EXCEPT ![q] = {i}] /\ UNCHANGED <<rows, commits, now>>
  BY DEF AdmitIntent
<1>3. intents = [r \in Slots |-> intents[r]]
  BY DEF TypeOK, OneIn
<1> HIDE DEF i
<1>4. a \in Waiting(v)' => a \in Waiting(v)
  BY <1>1, <1>2, <1>3, WaitingIff
<1> QED BY <1>2, <1>4, HeldIff, DoomedIff DEF Outstanding

\* Right after the quota check, everything that counts against u is what the
\* check counted, the batch itself, and what other intents and late commits hold.
LEMMA AdmissionOfOwn ==
  ASSUME TypeOK, BatchesFit, NEW q \in Slots, NEW u, NEW b \in Batches,
         NEW files \in [b -> Files], AdmitIntent(q, u, files)
  PROVE  Cardinality(Outstanding(u)') <= Bound
<1>1. Cardinality(Held(u)) + Cardinality(b) <= AssetsPerUser
  <2>1. Cardinality(usageFor(u)) + Cardinality(DOMAIN files) <= AssetsPerUser
    BY DEF AdmitIntent, assertWithinQuota
  <2> QED BY <2>1, UsageIsWhatIsHeld
<1>2. Outstanding(u)' \subseteq (Held(u) \cup b) \cup (WaitingElsewhere(q) \cup Doomed(u))
  <2> SUFFICES ASSUME NEW a \in Assets, a \in Outstanding(u)'
               PROVE  a \in (Held(u) \cup b) \cup (WaitingElsewhere(q) \cup Doomed(u))
    BY PartsAreAssets DEF Outstanding
  <2> DEFINE i == [userId |-> u, expiresAt |-> now + CommitWindow,
                   todo |-> [c \in Assets |-> IF c \in DOMAIN files THEN {files[c]} ELSE {}],
                   tickets |-> [c \in Assets |-> {}]]
  <2>1. i.todo[a] # {} => a \in b
    OBVIOUS
  <2>2. intents' = [intents EXCEPT ![q] = {i}] /\ UNCHANGED <<rows, commits, now>>
    BY DEF AdmitIntent
  <2>3. intents = [r \in Slots |-> intents[r]]
    BY DEF TypeOK, OneIn
  <2> HIDE DEF i
  <2>4. ASSUME a \in Waiting(u)' PROVE a \in b \cup WaitingElsewhere(q)
    <3>1. PICK r \in Slots : \E j \in intents'[r] : j.todo[a] # {}
      BY <2>4, WaitingIff
    <3>2. CASE r = q
      BY <2>1, <2>2, <2>3, <3>1, <3>2
    <3>3. CASE r # q
      <4>1. PICK j \in intents[r] : j.todo[a] # {}
        BY <2>2, <2>3, <3>1, <3>3
      <4>2. a \in ToCreate(j)
        BY <4>1 DEF ToCreate
      <4> QED BY <3>3, <4>2 DEF WaitingElsewhere
    <3> QED BY <3>2, <3>3
  <2> QED BY <2>2, <2>4, HeldIff, DoomedIff DEF Outstanding
<1>3. IsFiniteSet(Held(u)) /\ IsFiniteSet(b)
  BY PartsAreAssets, FS_Subset, AssetAssumption DEF Batches
<1>4. /\ IsFiniteSet(WaitingElsewhere(q)) /\ IsFiniteSet(Doomed(u))
      /\ Cardinality(WaitingElsewhere(q)) <= (Cardinality(Slots) - 1) * FilesPerIntent
      /\ Cardinality(Doomed(u)) <= Cardinality(Handlers)
  BY WaitingElsewhereBound, DoomedBound
<1> DEFINE X == Held(u) \cup b
           Y == WaitingElsewhere(q) \cup Doomed(u)
<1>5. /\ IsFiniteSet(X) /\ Cardinality(X) \in Nat
      /\ Cardinality(X) <= Cardinality(Held(u)) + Cardinality(b)
  BY <1>3, UnionIsNoLarger, Zenon
<1>6. /\ IsFiniteSet(Y) /\ Cardinality(Y) \in Nat
      /\ Cardinality(Y) <= Cardinality(WaitingElsewhere(q)) + Cardinality(Doomed(u))
  BY <1>4, UnionIsNoLarger, Zenon
<1>7. Outstanding(u)' \subseteq X \cup Y
  BY <1>2
<1>8. /\ Cardinality(Held(u)) \in Nat /\ Cardinality(b) \in Nat
      /\ Cardinality(WaitingElsewhere(q)) \in Nat /\ Cardinality(Doomed(u)) \in Nat
      /\ Cardinality(Slots) \in Nat /\ Cardinality(Handlers) \in Nat
  BY <1>3, <1>4, FS_CardinalityType, AssetAssumption
<1> HIDE DEF X, Y
<1>9. IsFiniteSet(X \cup Y) /\ Cardinality(X \cup Y) \in Nat
      /\ Cardinality(X \cup Y) <= Cardinality(X) + Cardinality(Y)
  BY <1>5, <1>6, UnionIsNoLarger, Zenon
<1>10. Cardinality(Outstanding(u)') <= Cardinality(X \cup Y) /\ Cardinality(Outstanding(u)') \in Nat
  BY <1>7, <1>9, FS_Subset, FS_CardinalityType
<1>11. (Cardinality(Slots) - 1) * FilesPerIntent \in Int
  BY <1>8, AssetAssumption
<1> QED BY <1>1, <1>4, <1>5, <1>6, <1>8, <1>9, <1>10, <1>11, AssetAssumption DEF Bound

-----------------------------------------------------------------------------

LEMMA AllApart == Fresh => \A u \in Users : Apart(u)
BY PartsAreApart

LEMMA QuotaIsTheBound ==
  /\ Fresh => (QuotaOvershoot <=> \A u \in Users : Cardinality(Outstanding(u)) <= Bound)
  /\ Fresh' => (QuotaOvershoot' <=> \A u \in Users : Cardinality(Outstanding(u)') <= Bound)
<1>1. Fresh => \A u \in Users : AddUp(Held(u), Waiting(u), Doomed(u))
  BY PartsAreApart, OutstandingIsTheSum
<1>2. Fresh' => (\A u \in Users : Apart(u))'
  BY AllApart, PTL
<1>3. Fresh' => \A u \in Users : AddUp(Held(u)', Waiting(u)', Doomed(u)')
  BY <1>2, OutstandingIsTheSum
<1> QED BY <1>1, <1>3 DEF QuotaOvershoot, AddUp, Outstanding, Bound


LEMMA StepQuota ==
  ASSUME QuotaInv, UploadInv', [Next]_vars
  PROVE  QuotaOvershoot'
<1> USE DEF QuotaInv
<1>0. Fresh /\ Fresh' /\ TypeOK /\ now' \in Nat
  BY DEF UploadInv, TypeOK
<1> SUFFICES ASSUME NEW v \in Users PROVE Cardinality(Outstanding(v)') <= Bound
  BY <1>0, QuotaIsTheBound
<1>2. /\ IsFiniteSet(Outstanding(v)) /\ Cardinality(Outstanding(v)) \in Nat
      /\ Cardinality(Outstanding(v)) <= Bound
  <2>1. Cardinality(Outstanding(v)) <= Bound
    BY <1>0, QuotaIsTheBound
  <2>2. Outstanding(v) \subseteq Assets
    BY PartsAreAssets DEF Outstanding
  <2> QED BY <2>1, <2>2, FS_Subset, FS_CardinalityType, AssetAssumption
<1>3. Bound \in Int
  BY FS_CardinalityType, AssetAssumption DEF Bound
<1>4. ASSUME Outstanding(v)' \subseteq Outstanding(v)
      PROVE  Cardinality(Outstanding(v)') <= Bound
  <2>1. Cardinality(Outstanding(v)') \in Nat
    BY <1>2, <1>4, FS_Subset, FS_CardinalityType
  <2>2. Cardinality(Outstanding(v)') <= Cardinality(Outstanding(v))
    BY <1>2, <1>4, FS_Subset
  <2> QED BY <1>2, <1>3, <2>1, <2>2
<1>5. ASSUME NEW q \in Slots, Intent(q) PROVE Cardinality(Outstanding(v)') <= Bound
  <2>1. PICK u \in Users, b \in Batches : \E files \in [b -> Files] : AdmitIntent(q, u, files)
    BY <1>5 DEF Intent
  <2>2. PICK files \in [b -> Files] : AdmitIntent(q, u, files)
    BY <2>1
  <2>3. CASE v = u
    BY <1>0, <2>2, <2>3, AdmissionOfOwn
  <2>4. CASE v # u
    BY <1>0, <1>4, <2>2, <2>4, AdmissionOfAnother
  <2> QED BY <2>3, <2>4
<1>6. ASSUME NEW q \in Slots, CreateRow(q) PROVE Cardinality(Outstanding(v)') <= Bound
  BY <1>4, <1>6, CreateRowAddsNothing
<1>7. ASSUME Settling PROVE Cardinality(Outstanding(v)') <= Bound
  BY <1>0, <1>4, <1>7, SettlingAddsNothing
<1>8. ASSUME NEW h \in Handlers, CommitStep(h) PROVE Settling
  BY <1>0, <1>8, CommitStepSettles
<1>9. ASSUME NEW h \in Handlers, NEW u \in Users, NEW a \in Assets, BeginCommit(h, u, a)
      PROVE  Settling
  BY <1>0, <1>9, BeginCommitSettles
<1> QED BY <1>0, <1>5, <1>6, <1>7, <1>8, <1>9, OtherStepsSettle DEF Next, CommitStep

LEMMA InitQuota == Init => QuotaInv
<1> SUFFICES ASSUME Init PROVE QuotaInv
  OBVIOUS
<1>1. BatchesFit
  BY DEF Init, BatchesFit
<1>2. \A u \in Users : Outstanding(u) = {}
  BY DEF Init, Outstanding, Held, Waiting, Doomed, Unminted
<1>3. 0 <= Bound
  <2>1. Cardinality(Slots) \in Nat /\ Cardinality(Slots) # 0 /\ Cardinality(Handlers) \in Nat
    BY FS_CardinalityType, FS_EmptySet, AssetAssumption
  <2>2. (Cardinality(Slots) - 1) \in Nat
    BY <2>1
  <2>3. (Cardinality(Slots) - 1) * FilesPerIntent \in Nat
    BY <2>2, AssetAssumption
  <2> QED BY <2>1, <2>3, AssetAssumption DEF Bound
<1>4. \A u \in Users : Cardinality(Outstanding(u)) <= Bound
  BY <1>2, <1>3, FS_EmptySet
<1> QED BY <1>1, <1>4, InitInv, QuotaIsTheBound DEF QuotaInv, UploadInv

LEMMA QuotaInductive == QuotaInv /\ [Next]_vars => QuotaInv'
BY StepInv, StepBatches, StepQuota DEF QuotaInv

\* However many intents of a user are admitted side by side, and however late its
\* commits finish, what counts against the user stays below the quota plus one
\* batch for each other intent and one asset for each commit under way.
THEOREM QuotaIsNearlyKept == Spec => []QuotaOvershoot
BY InitQuota, QuotaInductive, PTL DEF Spec, QuotaInv

=============================================================================
