--------------------------------- MODULE Auth ---------------------------------
(***************************************************************************)
(* The auth module: accounts, one-time codes and token pairs.  A code is   *)
(* upserted per e-mail and purpose and mailed; presenting it verifies the  *)
(* e-mail or logs in; a login signs a token pair and stores the hash of    *)
(* its refresh token on the account, a refresh replaces that hash, logout  *)
(* clears it.  Nothing spans two awaits: a request reads in one step and   *)
(* writes in later ones, while others run, and may die in between.         *)
(*                                                                         *)
(* Folded: a user document is only ever created and verified, so that the  *)
(* read of it joins the next one; existsByEmail and create are one step    *)
(* under the unique index; sendOtp stores nothing, so that a request is    *)
(* over when the code is.  Codes are drawn at random: no two are equal.    *)
(***************************************************************************)
EXTENDS Integers, FiniteSets

CONSTANTS
  Emails,      \* addresses, up to case; one account each
  Codes,       \* one-time codes, each drawn at most once
  Slots,       \* requests the API processes can run at once
  OtpTtl,      \* OTP_EXPIRY_MINUTES, in ticks
  AccessTtl,   \* JWT_ACCESS_EXPIRY_SECONDS, in ticks
  RefreshTtl,  \* JWT_REFRESH_EXPIRY_SECONDS, in ticks
  MaxTime      \* bound on the clock

ASSUME AuthAssumption ==
  /\ IsFiniteSet(Slots)
  /\ OtpTtl \in Nat
  /\ AccessTtl \in Nat
  /\ RefreshTtl \in Nat
  /\ MaxTime \in Nat

VARIABLES
  registered,  \* e-mails with an account
  verified,    \* those with isEmailVerified
  session,     \* [Emails -> {} or {the refresh token whose hash is stored}]
  otps,        \* the collection
  requests,    \* [Slots -> {} or {a request between two awaits}]
  tokens,      \* token pairs clients have been given
  issued,      \* history: codes drawn, with e-mail and purpose
  used,        \* history: codes accepted, with e-mail and purpose
  spent,       \* history: codes whose use got as far as deleting them
  logins,      \* history: [Codes -> token pairs stored for the code]
  now

vars == <<registered, verified, session, otps, requests, tokens, issued, used,
          spent, logins, now>>

-----------------------------------------------------------------------------

Verification == "email_verification"
LoginPurpose == "login"
OtpPurpose == {Verification, LoginPurpose}

\* A code for an e-mail and a purpose.
Code == [code : Codes, email : Emails, purpose : OtpPurpose]

\* expiresAt is OtpTtl after createdAt.
Otp == [for : Code, createdAt : Nat]

\* Two pairs signed for one account in one tick are the same pair: the payload
\* is the account and the time.
Token == [email : Emails, iat : Nat]

\* shown is what a login or a refresh was given for the pair it is about to store.
Request ==
  [step : {"send"}, email : Emails, purpose : OtpPurpose]
    \cup [step : {"insert"}, otp : Otp]
    \cup [step : {"mark", "delete"}, code : Code]
    \cup [step : {"store"}, token : Token, by : {"password", "otp"}, shown : SUBSET Code]
    \cup [step : {"store"}, token : Token, by : {"refresh"}, shown : SUBSET Token]

At(r, step) == {w \in requests[r] : w.step = step}

Idle(r) == requests[r] = {}

MutantGoto(r, w) == requests' = [requests EXCEPT ![r] = @ \cup {w}]

Goto(r, w) == requests' = [requests EXCEPT ![r] = {w}]

Done(r) == requests' = [requests EXCEPT ![r] = {}]

Init ==
  /\ registered = {}
  /\ verified = {}
  /\ session = [e \in Emails |-> {}]
  /\ otps = {}
  /\ requests = [r \in Slots |-> {}]
  /\ tokens = {}
  /\ issued = {}
  /\ used = {}
  /\ spent = {}
  /\ logins = [c \in Codes |-> 0]
  /\ now = 0

-----------------------------------------------------------------------------
(* Codes: register, resendVerificationOtp, requestLoginOtp.                *)

Sending(e, purpose) == [step |-> "send", email |-> e, purpose |-> purpose]

Register(r, e) ==
  /\ Idle(r)
  /\ e \notin registered
  /\ registered' = registered \cup {e}
  /\ Goto(r, Sending(e, Verification))
  /\ UNCHANGED <<verified, session, otps, tokens, issued, used, spent, logins, now>>

Resend(r, e) ==
  /\ Idle(r)
  /\ e \in registered \ verified
  /\ Goto(r, Sending(e, Verification))
  /\ UNCHANGED <<registered, verified, session, otps, tokens, issued, used, spent, logins, now>>

RequestLoginOtp(r, e) ==
  /\ Idle(r)
  /\ e \in registered \cap verified
  /\ Goto(r, Sending(e, LoginPurpose))
  /\ UNCHANGED <<registered, verified, session, otps, tokens, issued, used, spent, logins, now>>

Stored(e, purpose) == {o \in otps : o.for.email = e /\ o.for.purpose = purpose}

MutantReplace(o) == otps' = otps \cup {o}

\* findOneAndReplace: the match may be any one of several.
Replace(o) ==
  \E old \in Stored(o.for.email, o.for.purpose) : otps' = (otps \ {old}) \cup {o}

NewOtp(w, c) ==
  [for |-> [code |-> c, email |-> w.email, purpose |-> w.purpose], createdAt |-> now]

\* The upsert.  A match is replaced at once; without one the document is
\* inserted, a step in which other upserts may do the same, since the index on
\* e-mail and purpose is not unique.
Upsert(r) ==
  \E w \in At(r, "send") : \E c \in Codes :
    /\ \A i \in issued : i.code # c
    /\ issued' = issued \cup {NewOtp(w, c).for}
    /\ \/ /\ Stored(w.email, w.purpose) # {}
          /\ Replace(NewOtp(w, c))
          /\ Done(r)
       \/ /\ Stored(w.email, w.purpose) = {}
          /\ Goto(r, [step |-> "insert", otp |-> NewOtp(w, c)])
          /\ UNCHANGED otps
    /\ UNCHANGED <<registered, verified, session, tokens, used, spent, logins, now>>

Insert(r) ==
  \E w \in At(r, "insert") :
    /\ otps' = otps \cup {w.otp}
    /\ Done(r)
    /\ UNCHANGED <<registered, verified, session, tokens, issued, used, spent, logins, now>>

-----------------------------------------------------------------------------
(* verifyEmail and loginWithOtp.                                           *)

MutantFindLatest(e, purpose) ==
  {o \in otps : /\ o.for.email = e
                /\ \A p \in otps : p.for.email = e => p.createdAt <= o.createdAt}

\* The newest by createdAt; between equals the database chooses.
findLatest(e, purpose) ==
  {o \in Stored(e, purpose) :
     \A p \in Stored(e, purpose) : p.createdAt <= o.createdAt}

MutantRequireEmailVerified(e) == TRUE

requireEmailVerified(e) == e \in verified

\* Read, check expiry, compare.  A missing, expired or wrong code (422) changes
\* nothing.  used remembers what the code was taken for.
validateOtp(r, e, purpose, step) ==
  \E o \in findLatest(e, purpose) :
    LET c == [o.for EXCEPT !.purpose = purpose]
    IN  /\ o.createdAt + OtpTtl >= now
        /\ used' = used \cup {c}
        /\ Goto(r, [step |-> step, code |-> c])

VerifyEmail(r, e) ==
  /\ Idle(r)
  /\ e \in registered
  /\ validateOtp(r, e, Verification, "mark")
  /\ UNCHANGED <<registered, verified, session, otps, tokens, issued, spent, logins, now>>

LoginWithOtp(r, e) ==
  /\ Idle(r)
  /\ e \in registered
  /\ requireEmailVerified(e)
  /\ validateOtp(r, e, LoginPurpose, "delete")
  /\ UNCHANGED <<registered, verified, session, otps, tokens, issued, spent, logins, now>>

MarkEmailVerified(r) ==
  \E w \in At(r, "mark") :
    /\ verified' = verified \cup {w.code.email}
    /\ Goto(r, [w EXCEPT !.step = "delete"])
    /\ UNCHANGED <<registered, session, otps, tokens, issued, used, spent, logins, now>>

Signed(e) == [email |-> e, iat |-> now]

MutantDeleteOne(c) == otps' \in {otps \ {o} : o \in Stored(c.email, c.purpose)}

MutantDeletePurpose(c) == otps' = otps \ Stored(c.email, Verification)

\* deleteMany.
deleteByEmailAndPurpose(c) == otps' = otps \ Stored(c.email, c.purpose)

\* Ends verifyEmail; loginWithOtp goes on to sign a pair.
DeleteCodes(r) ==
  \E w \in At(r, "delete") :
    /\ deleteByEmailAndPurpose(w.code)
    /\ spent' = spent \cup {w.code.code}
    /\ requests' = [requests EXCEPT ![r] =
         IF w.code.purpose = Verification THEN {}
         ELSE {[step |-> "store", token |-> Signed(w.code.email), by |-> "otp",
                shown |-> {w.code}]}]
    /\ UNCHANGED <<registered, verified, session, tokens, issued, used, logins, now>>

-----------------------------------------------------------------------------
(* login, refreshTokens, logout, issueTokenPair.                           *)

\* The account exists, is verified, and the password matches.
Login(r, e) ==
  /\ Idle(r)
  /\ e \in registered
  /\ requireEmailVerified(e)
  /\ Goto(r, [step |-> "store", token |-> Signed(e), by |-> "password", shown |-> {}])
  /\ UNCHANGED <<registered, verified, session, otps, tokens, issued, used, spent, logins, now>>

\* What bcrypt hashes of a refresh token: the first 72 of its bytes, which are
\* the JWT header and the beginning of the subject.
Hashed(t) == t.email

MutantMatches(t) == \A s \in session[t.email] : Hashed(t) = Hashed(s)

\* There is a stored hash (else 401), and it is the token's.
Matches(t) == \E s \in session[t.email] : Hashed(t) = Hashed(s)

\* A token whose signature and expiry hold.  A stored hash that is not the
\* token's is cleared, by a write of its own that is folded in: given what
\* bcrypt hashes it never happens.
Refresh(r, t) ==
  /\ Idle(r)
  /\ t \in tokens
  /\ now < t.iat + RefreshTtl
  /\ IF Matches(t)
       THEN /\ Goto(r, [step |-> "store", token |-> Signed(t.email), by |-> "refresh",
                        shown |-> {t}])
            /\ UNCHANGED session
       ELSE /\ session' = [session EXCEPT ![t.email] = {}]
            /\ UNCHANGED requests
  /\ UNCHANGED <<registered, verified, otps, tokens, issued, used, spent, logins, now>>

\* The rest of issueTokenPair.  The response with the pair may be lost.
StoreHash(r) ==
  \E w \in At(r, "store") :
    /\ session' = [session EXCEPT ![w.token.email] = {w.token}]
    /\ tokens' \in {tokens \cup {w.token}, tokens}
    /\ logins' = [c \in Codes |->
         IF w.by = "otp" /\ \E s \in w.shown : s.code = c THEN logins[c] + 1 ELSE logins[c]]
    /\ Done(r)
    /\ UNCHANGED <<registered, verified, otps, issued, used, spent, now>>

\* With an access token that has not expired.
Logout(t) ==
  /\ t \in tokens
  /\ now < t.iat + AccessTtl
  /\ session' = [session EXCEPT ![t.email] = {}]
  /\ UNCHANGED <<registered, verified, otps, requests, tokens, issued, used, spent, logins, now>>

-----------------------------------------------------------------------------

\* A call throws, the mail included, or the process dies.
RequestFails(r) ==
  /\ ~Idle(r)
  /\ Done(r)
  /\ UNCHANGED <<registered, verified, session, otps, tokens, issued, used, spent, logins, now>>

\* The TTL monitor of the database, which may lag.
Reap(o) ==
  /\ o.createdAt + OtpTtl <= now
  /\ otps' = otps \ {o}
  /\ UNCHANGED <<registered, verified, session, requests, tokens, issued, used, spent, logins, now>>

Tick ==
  /\ now < MaxTime
  /\ now' = now + 1
  /\ UNCHANGED <<registered, verified, session, otps, requests, tokens, issued, used, spent, logins>>

Next ==
  \/ \E r \in Slots, e \in Emails : Register(r, e) \/ Resend(r, e) \/ RequestLoginOtp(r, e)
  \/ \E r \in Slots : Upsert(r) \/ Insert(r)
  \/ \E r \in Slots, e \in Emails : VerifyEmail(r, e) \/ LoginWithOtp(r, e) \/ Login(r, e)
  \/ \E r \in Slots : MarkEmailVerified(r) \/ DeleteCodes(r) \/ StoreHash(r) \/ RequestFails(r)
  \/ \E r \in Slots, t \in tokens : Refresh(r, t)
  \/ \E t \in tokens : Logout(t)
  \/ \E o \in otps : Reap(o)
  \/ Tick

Spec == Init /\ [][Next]_vars

-----------------------------------------------------------------------------
(* Properties.                                                             *)

AtMostOne(S) == \A x, y \in S : x = y

TypeOK ==
  /\ registered \subseteq Emails
  /\ verified \subseteq Emails
  /\ session \in [Emails -> SUBSET Token]
  /\ \A e \in Emails : AtMostOne(session[e])
  /\ otps \subseteq Otp
  /\ requests \in [Slots -> SUBSET Request]
  /\ \A r \in Slots : AtMostOne(requests[r])
  /\ tokens \subseteq Token
  /\ issued \subseteq Code
  /\ used \subseteq Code
  /\ spent \subseteq Codes
  /\ logins \in [Codes -> Nat]
  /\ now \in Nat

\* A code is only ever accepted for the e-mail and the purpose it was issued for.
CodesKeepTheirPurpose == used \subseteq issued

\* Who holds a session, or is about to, has a verified e-mail, and an e-mail is
\* verified by a verification code that was issued for it.
Entering(e) == {r \in Slots : \E w \in At(r, "store") : w.token.email = e}

Proved(e) == \E c \in used : c.email = e /\ c.purpose = Verification

SessionsAreEarned ==
  \A e \in Emails :
    /\ session[e] # {} \/ Entering(e) # {} => e \in verified
    /\ e \in verified => Proved(e)

\* Once a request that used a code has deleted it, the code is in no document
\* and never comes back, whatever duplicates and late upserts there were: only
\* requests that had read it before can still go through with it.
SpentCodesAreGone == \A o \in otps : o.for.code \notin spent

\* Why: a code is drawn once (Drawn), is on its way into the collection in one
\* request only, and is not there yet, nor used (OnItsWay); what a request is
\* holding after validateOtp has been used, and what it is about to sign for has
\* been deleted and belongs to a verified e-mail (Holding).
Drawn ==
  /\ \A c, d \in issued : c.code = d.code => c = d
  /\ \A o \in otps : o.for \in issued
  /\ \A c \in spent : \E u \in used : u.code = c

OnItsWay ==
  \A r \in Slots : \A w \in At(r, "insert") :
    /\ w.otp.for \in issued
    /\ \A o \in otps : o.for # w.otp.for
    /\ w.otp.for \notin used
    /\ \A s \in Slots : \A v \in At(s, "insert") : v.otp.for = w.otp.for => r = s

Holding ==
  \A r \in Slots : \A w \in requests[r] :
    /\ w.step \in {"mark", "delete"} => w.code \in used
    /\ w.step = "mark" => w.code.purpose = Verification
    /\ w.step = "delete" => w.code.email \in verified
    /\ w.step = "store" /\ w.by = "otp" => \A c \in w.shown : c.code \in spent

AuthInv ==
  /\ TypeOK
  /\ CodesKeepTheirPurpose
  /\ SessionsAreEarned
  /\ SpentCodesAreGone
  /\ Drawn
  /\ OnItsWay
  /\ Holding

\* So a code gives at most as many token pairs as there were requests between
\* findLatest and deleteMany: at most one per request that can run at once.
LoginsPerCode == \A c \in Codes : logins[c] <= Cardinality(Slots)

\* The upsert keeps codes from piling up: of one e-mail and purpose there are
\* never more documents than upserts that can run at once, however many were
\* requested.
Inserting(e, purpose) ==
  {r \in Slots : \E w \in At(r, "insert") :
     w.otp.for.email = e /\ w.otp.for.purpose = purpose}

CodesDoNotPileUp ==
  \A e \in Emails, purpose \in OtpPurpose :
    Cardinality(Stored(e, purpose)) + Cardinality(Inserting(e, purpose))
      <= Cardinality(Slots)

\* After a logout that no login or refresh was overtaking, the account stays
\* without a session until somebody logs in: no refresh token brings it back.
Closed(e) == session[e] = {} /\ Entering(e) = {}

LogoutIsFinal ==
  [][\A e \in Emails : Closed(e) /\ ~Closed(e)' =>
       \E r \in Slots : \E w \in requests'[r] :
         w.step = "store" /\ w.token.email = e /\ w.by # "refresh"]_vars

\* A refresh token that is not the stored one gets no new pair ("reuse of a
\* stale refresh token revokes the session", docs/plan/PLAN.md).
StaleTokensAreRefused ==
  [][\A r \in Slots : Idle(r) => \A w \in requests'[r] :
       w.step = "store" /\ w.by = "refresh" => w.shown \subseteq session[w.token.email]]_vars
=============================================================================
