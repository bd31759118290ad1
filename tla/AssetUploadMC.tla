---------------------------- MODULE AssetUploadMC ----------------------------
(* AssetUpload on small instances: one kind of asset, and contents of one    *)
(* size, so that only the digest tells a good one from a bad one.            *)
EXTENDS AssetUpload, TLC

Png(sha256, width) ==
  [sha256 |-> sha256, byteSize |-> 1, contentType |-> "image/png",
   width |-> width, height |-> 1]

GoodAndBomb == {Png("good", 1), Png("bomb", 9)}
GoodOnly == {Png("good", 1)}

Declare(sha256) ==
  [kind |-> "logo", contentType |-> "image/png", byteSize |-> 1, sha256 |-> sha256]

DeclareEither == {Declare("good"), Declare("bomb")}
DeclareGood == {Declare("good")}

LogoPolicy ==
  [logo |-> [maxSizeInBytes |-> 1, maxPixels |-> 4, maxEdge |-> 2,
             allowedContentTypes |-> {"image/png"}]]

Symmetry ==
  Permutations(Assets) \cup Permutations(Slots) \cup Permutations(Handlers)

\* What the quota run compares states by.  objects and answers are only written:
\* no guard and no quota reads them.  Where the bytes of an asset are matters as
\* long as a commit of it is under way or can still begin, and no longer.
Undecided(a) ==
  \/ rows[a].status = "unminted"
  \/ InWindow(a)
  \/ \E h \in Handlers : \E w \in commits[h] : w.assetId = a

QuotaView ==
  <<rows, intents, commits, now,
    [a \in Assets |-> IF Undecided(a) THEN <<grants[a], puts[a], quarantine[a]>>
                      ELSE <<>>]>>
=============================================================================
