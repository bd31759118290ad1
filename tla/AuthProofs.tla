------------------------------ MODULE AuthProofs ------------------------------
(***************************************************************************)
(* Theorems about Auth, for any e-mails, codes and concurrent requests.    *)
(***************************************************************************)
EXTENDS Auth, FiniteSetTheorems, TLAPS

-----------------------------------------------------------------------------
(* Types.                                                                  *)

OneEach(q) == q \in [Slots -> SUBSET Request] /\ \A s \in Slots : AtMostOne(q[s])

LEMMA GotoTypes ==
  ASSUME TypeOK, NEW r \in Slots, NEW w \in Request
  PROVE  Goto(r, w) => OneEach(requests')
BY DEF Goto, OneEach, TypeOK, AtMostOne

LEMMA DoneTypes ==
  ASSUME TypeOK, NEW r \in Slots
  PROVE  Done(r) => OneEach(requests')
BY DEF Done, OneEach, TypeOK, AtMostOne

LEMMA CodesActionsTypes ==
  ASSUME TypeOK, NEW r \in Slots
  PROVE  /\ \A e \in Emails : Register(r, e) \/ Resend(r, e) \/ RequestLoginOtp(r, e) => TypeOK'
         /\ Upsert(r) => TypeOK'
         /\ Insert(r) => TypeOK'
<1>1. \A e \in Emails : Register(r, e) \/ Resend(r, e) \/ RequestLoginOtp(r, e) => TypeOK'
  BY DEF Register, Resend, RequestLoginOtp, TypeOK, AtMostOne, Goto, Sending, Request,
         OtpPurpose
<1>2. ASSUME Upsert(r) PROVE TypeOK'
  <2>1. PICK w \in At(r, "send"), c \in Codes :
          /\ issued' = issued \cup {NewOtp(w, c).for}
          /\ \/ Replace(NewOtp(w, c)) /\ Done(r)
             \/ Goto(r, [step |-> "insert", otp |-> NewOtp(w, c)]) /\ UNCHANGED otps
          /\ UNCHANGED <<registered, verified, session, tokens, used, spent, logins, now>>
    BY <1>2 DEF Upsert
  <2>2. w.email \in Emails /\ w.purpose \in OtpPurpose
    BY DEF At, TypeOK, Request
  <2>3. NewOtp(w, c).for \in Code /\ NewOtp(w, c) \in Otp
    BY <2>2 DEF Code, Otp, TypeOK, NewOtp
  <2>4. otps' \subseteq Otp
    BY <2>1, <2>3 DEF Replace, TypeOK
  <2>5. OneEach(requests')
    <3>1. [step |-> "insert", otp |-> NewOtp(w, c)] \in Request
      BY <2>3 DEF Request
    <3> QED BY <2>1, <3>1, GotoTypes, DoneTypes
  <2> QED BY <2>1, <2>3, <2>4, <2>5 DEF TypeOK, OneEach
<1>3. ASSUME Insert(r) PROVE TypeOK'
  BY <1>3 DEF Insert, At, TypeOK, AtMostOne, Done, Request
<1> QED BY <1>1, <1>2, <1>3

LEMMA UseTypes ==
  ASSUME TypeOK, NEW r \in Slots
  PROVE  /\ \A e \in Emails : VerifyEmail(r, e) \/ LoginWithOtp(r, e) => TypeOK'
         /\ MarkEmailVerified(r) => TypeOK'
         /\ DeleteCodes(r) => TypeOK'
<1>1. ASSUME NEW e \in Emails, NEW purpose \in OtpPurpose, NEW step \in {"mark", "delete"},
             validateOtp(r, e, purpose, step),
             UNCHANGED <<registered, verified, session, otps, tokens, issued, spent, logins, now>>
      PROVE  TypeOK'
  <2>1. PICK o \in otps :
          /\ used' = used \cup {[o.for EXCEPT !.purpose = purpose]}
          /\ Goto(r, [step |-> step, code |-> [o.for EXCEPT !.purpose = purpose]])
    BY <1>1 DEF validateOtp, findLatest, Stored
  <2>2. [o.for EXCEPT !.purpose = purpose] \in Code
    BY DEF TypeOK, Otp, Code
  <2>3. OneEach(requests')
    <3> DEFINE w == [step |-> step, code |-> [o.for EXCEPT !.purpose = purpose]]
    <3>1. w \in Request
      BY <2>2 DEF Request
    <3>2. Goto(r, w)
      BY <2>1
    <3> HIDE DEF w
    <3> QED BY <3>1, <3>2, GotoTypes
  <2> QED BY <1>1, <2>1, <2>2, <2>3 DEF TypeOK, OneEach
<1>2. ASSUME MarkEmailVerified(r) PROVE TypeOK'
  <2>1. PICK w \in At(r, "mark") :
          /\ verified' = verified \cup {w.code.email}
          /\ Goto(r, [w EXCEPT !.step = "delete"])
    BY <1>2 DEF MarkEmailVerified
  <2>2. w \in [step : {"mark", "delete"}, code : Code]
    BY DEF At, TypeOK, Request
  <2>3. OneEach(requests')
    <3>1. [w EXCEPT !.step = "delete"] \in Request
      BY <2>2 DEF Request
    <3> QED BY <2>1, <3>1, GotoTypes
  <2>4. w.code.email \in Emails
    BY <2>2 DEF Code
  <2> QED BY <1>2, <2>1, <2>3, <2>4 DEF MarkEmailVerified, TypeOK, OneEach
<1>3. ASSUME DeleteCodes(r) PROVE TypeOK'
  <2>1. PICK w \in At(r, "delete") :
          /\ spent' = spent \cup {w.code.code}
          /\ requests' = [requests EXCEPT ![r] =
               IF w.code.purpose = Verification THEN {}
               ELSE {[step |-> "store", token |-> Signed(w.code.email), by |-> "otp",
                      shown |-> {w.code}]}]
    BY <1>3 DEF DeleteCodes
  <2>2. w \in [step : {"mark", "delete"}, code : Code]
    BY DEF At, TypeOK, Request
  <2>3. w.code \in Code /\ w.code.code \in Codes /\ Signed(w.code.email) \in Token
    BY <2>2 DEF Code, Signed, Token, TypeOK
  <2>4. [step |-> "store", token |-> Signed(w.code.email), by |-> "otp", shown |-> {w.code}]
          \in Request
    BY <2>3 DEF Request
  <2>5. OneEach(requests')
    <3>1. Done(r) \/ Goto(r, [step |-> "store", token |-> Signed(w.code.email), by |-> "otp",
                              shown |-> {w.code}])
      BY <2>1 DEF Done, Goto
    <3> QED BY <2>4, <3>1, GotoTypes, DoneTypes
  <2>6. otps' \subseteq Otp
    BY <1>3 DEF DeleteCodes, deleteByEmailAndPurpose, TypeOK
  <2> QED BY <1>3, <2>1, <2>3, <2>5, <2>6 DEF DeleteCodes, TypeOK, OneEach
<1> QED BY <1>1, <1>2, <1>3 DEF VerifyEmail, LoginWithOtp, OtpPurpose

LEMMA PairTypes ==
  ASSUME TypeOK, NEW r \in Slots
  PROVE  /\ \A e \in Emails : Login(r, e) => TypeOK'
         /\ \A t \in tokens : Refresh(r, t) => TypeOK'
         /\ StoreHash(r) => TypeOK'
<1>1. ASSUME NEW e \in Emails, Login(r, e) PROVE TypeOK'
  <2>1. Signed(e) \in Token
    BY DEF Signed, Token, TypeOK
  <2>2. [step |-> "store", token |-> Signed(e), by |-> "password", shown |-> {}] \in Request
    BY <2>1 DEF Request
  <2>3. OneEach(requests')
    BY <1>1, <2>2, GotoTypes DEF Login
  <2> QED BY <1>1, <2>3 DEF Login, TypeOK, OneEach
<1>2. ASSUME NEW t \in tokens, Refresh(r, t) PROVE TypeOK'
  <2>1. t \in Token /\ t.email \in Emails /\ Signed(t.email) \in Token
    BY DEF Signed, Token, TypeOK
  <2>2. [step |-> "store", token |-> Signed(t.email), by |-> "refresh", shown |-> {t}]
          \in Request
    BY <2>1 DEF Request
  <2>3. OneEach(requests')
    BY <1>2, <2>2, GotoTypes DEF Refresh, OneEach, TypeOK
  <2>4. session' \in [Emails -> SUBSET Token] /\ \A e \in Emails : AtMostOne(session'[e])
    BY <1>2, <2>1 DEF Refresh, TypeOK, AtMostOne
  <2> QED BY <1>2, <2>3, <2>4 DEF Refresh, TypeOK, OneEach
<1>3. ASSUME StoreHash(r) PROVE TypeOK'
  <2>1. PICK w \in At(r, "store") :
          /\ session' = [session EXCEPT ![w.token.email] = {w.token}]
          /\ tokens' \in {tokens \cup {w.token}, tokens}
    BY <1>3 DEF StoreHash
  <2>2. w.token \in Token /\ w.token.email \in Emails
    BY DEF At, TypeOK, Request, Token
  <2>3. session' \in [Emails -> SUBSET Token] /\ \A e \in Emails : AtMostOne(session'[e])
    BY <2>1, <2>2 DEF TypeOK, AtMostOne
  <2>4. OneEach(requests')
    BY <1>3, DoneTypes DEF StoreHash
  <2>5. logins' \in [Codes -> Nat]
    BY <1>3 DEF StoreHash, TypeOK
  <2>6. tokens' \subseteq Token
    BY <2>1, <2>2 DEF TypeOK
  <2> QED BY <1>3, <2>3, <2>4, <2>5, <2>6 DEF StoreHash, TypeOK, OneEach
<1> QED BY <1>1, <1>2, <1>3

LEMMA WorldTypes ==
  ASSUME TypeOK
  PROVE  /\ \A t \in tokens : Logout(t) => TypeOK'
         /\ \A r \in Slots : RequestFails(r) => TypeOK'
         /\ \A o \in otps : Reap(o) => TypeOK'
         /\ Tick => TypeOK'
<1>1. \A t \in tokens : Logout(t) => TypeOK'
  BY DEF Logout, TypeOK, AtMostOne, Token
<1>2. \A r \in Slots : RequestFails(r) => TypeOK'
  BY DEF RequestFails, Done, TypeOK, AtMostOne
<1>3. (\A o \in otps : Reap(o) => TypeOK') /\ (Tick => TypeOK')
  BY DEF Reap, Tick, TypeOK
<1> QED BY <1>1, <1>2, <1>3

LEMMA StepTypes == TypeOK /\ [Next]_vars => TypeOK'
<1> SUFFICES ASSUME TypeOK, [Next]_vars PROVE TypeOK'
  OBVIOUS
<1>1. CASE UNCHANGED vars
  BY <1>1 DEF vars, TypeOK
<1>2. CASE Next
  BY <1>2, CodesActionsTypes, UseTypes, PairTypes, WorldTypes DEF Next
<1> QED BY <1>1, <1>2

\* Every reachable state is typed.
THEOREM TypeCorrect == Spec => []TypeOK
<1>1. Init => TypeOK
  BY DEF Init, TypeOK, AtMostOne
<1> QED BY <1>1, StepTypes, PTL DEF Spec

-----------------------------------------------------------------------------
(* Codes.  A code is drawn once, is on its way into the collection in one  *)
(* request, and what has been accepted has been issued; hence a deleted    *)
(* code can only be one that was in the collection, and is there no more.  *)

Accepted(r) == {w \in requests[r] : w.step \in {"mark", "delete"}}

CodesInv ==
  /\ CodesKeepTheirPurpose
  /\ SpentCodesAreGone
  /\ Drawn
  /\ OnItsWay
  /\ \A r \in Slots : \A w \in Accepted(r) : w.code \in used

\* Steps that draw, store, accept and delete no code.
LEMMA KeepsCodes ==
  ASSUME CodesInv, UNCHANGED <<issued, used, spent>>, otps' \subseteq otps,
         \A s \in Slots : At(s, "insert")' \subseteq At(s, "insert"),
         \A s \in Slots : \A w \in Accepted(s)' : w.code \in used
  PROVE  CodesInv'
<1>1. CodesKeepTheirPurpose' /\ SpentCodesAreGone' /\ Drawn'
  BY DEF CodesInv, CodesKeepTheirPurpose, SpentCodesAreGone, Drawn
<1>2. OnItsWay'
  BY DEF CodesInv, OnItsWay
<1> QED BY <1>1, <1>2 DEF CodesInv

LEMMA UpsertCodes ==
  ASSUME TypeOK, CodesInv, NEW r \in Slots, Upsert(r)
  PROVE  CodesInv'
<1>1. PICK w \in At(r, "send"), c \in Codes :
        /\ \A i \in issued : i.code # c
        /\ issued' = issued \cup {NewOtp(w, c).for}
        /\ \/ Replace(NewOtp(w, c)) /\ Done(r)
           \/ Goto(r, [step |-> "insert", otp |-> NewOtp(w, c)]) /\ UNCHANGED otps
        /\ UNCHANGED <<used, spent>>
  BY DEF Upsert
<1> DEFINE o == NewOtp(w, c)
<1>2. o.for.code = c
  BY DEF NewOtp
<1>3. o.for \notin issued /\ o.for \notin used /\ c \notin spent
  BY <1>1, <1>2 DEF CodesInv, CodesKeepTheirPurpose, Drawn
<1>4. otps' \subseteq otps \cup {o}
  BY <1>1 DEF Replace
<1>5. \A s \in Slots : /\ s # r => requests'[s] = requests[s]
                       /\ At(r, "insert")' \subseteq {[step |-> "insert", otp |-> o]}
                       /\ Accepted(r)' = {}
  BY <1>1 DEF Done, Goto, At, Accepted, TypeOK
<1> HIDE DEF o
<1>6. CodesKeepTheirPurpose' /\ SpentCodesAreGone' /\ Drawn'
  BY <1>1, <1>2, <1>3, <1>4 DEF CodesInv, CodesKeepTheirPurpose, SpentCodesAreGone, Drawn, o
<1>7. OnItsWay'
  <2>1. \A s \in Slots : \A v \in At(s, "insert") : v.otp.for # o.for
    BY <1>3 DEF CodesInv, OnItsWay
  <2>2. \A p \in otps : p.for # o.for
    BY <1>3 DEF CodesInv, Drawn
  <2>3. At(r, "insert")' # {} => otps' = otps
    BY <1>1 DEF Done, At, TypeOK
  <2>4. \A s \in Slots : s # r => At(s, "insert")' = At(s, "insert")
    BY <1>5 DEF At
  <2> QED BY <1>1, <1>3, <1>4, <1>5, <2>1, <2>2, <2>3, <2>4 DEF CodesInv, OnItsWay, o
<1>8. \A s \in Slots : \A v \in Accepted(s)' : v.code \in used'
  BY <1>1, <1>5 DEF CodesInv, Accepted, At
<1> QED BY <1>6, <1>7, <1>8 DEF CodesInv

LEMMA InsertCodes ==
  ASSUME TypeOK, CodesInv, NEW r \in Slots, Insert(r)
  PROVE  CodesInv'
<1>1. PICK w \in At(r, "insert") :
        otps' = otps \cup {w.otp} /\ Done(r) /\ UNCHANGED <<issued, used, spent>>
  BY DEF Insert
<1>2. At(r, "insert")' = {} /\ Accepted(r)' = {}
  BY <1>1 DEF Done, At, Accepted, TypeOK
<1>3. \A s \in Slots : s # r => requests'[s] = requests[s]
  BY <1>1 DEF Done, TypeOK
<1>4. w.otp.for.code \notin spent
  BY DEF CodesInv, OnItsWay, Drawn, CodesKeepTheirPurpose
<1>5. CodesKeepTheirPurpose' /\ SpentCodesAreGone' /\ Drawn'
  BY <1>1, <1>4
    DEF CodesInv, CodesKeepTheirPurpose, SpentCodesAreGone, Drawn, OnItsWay
<1>6. OnItsWay'
  BY <1>1, <1>2, <1>3 DEF CodesInv, OnItsWay, At
<1>7. \A s \in Slots : \A v \in Accepted(s)' : v.code \in used'
  BY <1>1, <1>2, <1>3 DEF CodesInv, Accepted, At
<1> QED BY <1>5, <1>6, <1>7 DEF CodesInv

LEMMA ValidateCodes ==
  ASSUME TypeOK, CodesInv, NEW r \in Slots, NEW e \in Emails, NEW purpose \in OtpPurpose,
         NEW step \in {"mark", "delete"}, validateOtp(r, e, purpose, step),
         UNCHANGED <<otps, issued, spent>>
  PROVE  CodesInv'
<1>1. PICK o \in Stored(e, purpose) :
        /\ used' = used \cup {[o.for EXCEPT !.purpose = purpose]}
        /\ Goto(r, [step |-> step, code |-> [o.for EXCEPT !.purpose = purpose]])
  BY DEF validateOtp, findLatest
<1>2. o \in otps /\ [o.for EXCEPT !.purpose = purpose] = o.for
  BY DEF Stored, TypeOK, Otp, Code
<1>3. o.for \in issued
  BY <1>2 DEF CodesInv, Drawn
<1>4. /\ At(r, "insert")' = {}
      /\ \A w \in Accepted(r)' : w.code = o.for
  BY <1>1, <1>2 DEF Goto, At, Accepted, TypeOK
<1>5. \A s \in Slots : s # r => requests'[s] = requests[s]
  BY <1>1 DEF Goto, TypeOK
<1>6. CodesKeepTheirPurpose' /\ SpentCodesAreGone' /\ Drawn'
  BY <1>1, <1>2, <1>3 DEF CodesInv, CodesKeepTheirPurpose, SpentCodesAreGone, Drawn
<1>7. OnItsWay'
  BY <1>1, <1>2, <1>4, <1>5 DEF CodesInv, OnItsWay, At
<1>8. \A s \in Slots : \A v \in Accepted(s)' : v.code \in used'
  BY <1>1, <1>2, <1>4, <1>5 DEF CodesInv, Accepted, At
<1> QED BY <1>6, <1>7, <1>8 DEF CodesInv

LEMMA DeleteCodesCodes ==
  ASSUME TypeOK, CodesInv, NEW r \in Slots, DeleteCodes(r)
  PROVE  CodesInv'
<1>1. PICK w \in At(r, "delete") :
        /\ otps' = otps \ Stored(w.code.email, w.code.purpose)
        /\ spent' = spent \cup {w.code.code}
        /\ UNCHANGED <<issued, used>>
  BY DEF DeleteCodes, deleteByEmailAndPurpose
<1>2. w.code \in used /\ w.code \in issued
  BY DEF CodesInv, CodesKeepTheirPurpose, Accepted, At
<1>3. \A o \in otps : o.for.code = w.code.code => o.for = w.code
  BY <1>2 DEF CodesInv, Drawn
<1>4. \A s \in Slots : /\ s # r => requests'[s] = requests[s]
                       /\ At(r, "insert")' = {} /\ Accepted(r)' = {}
  BY DEF DeleteCodes, At, Accepted, TypeOK
<1>5. CodesKeepTheirPurpose' /\ SpentCodesAreGone' /\ Drawn'
  BY <1>1, <1>2, <1>3
    DEF CodesInv, CodesKeepTheirPurpose, SpentCodesAreGone, Drawn, Stored
<1>6. OnItsWay'
  BY <1>1, <1>4 DEF CodesInv, OnItsWay, At
<1>7. \A s \in Slots : \A v \in Accepted(s)' : v.code \in used'
  BY <1>1, <1>4 DEF CodesInv, Accepted, At
<1> QED BY <1>5, <1>6, <1>7 DEF CodesInv

LEMMA StepCodes ==
  ASSUME TypeOK, CodesInv, [Next]_vars
  PROVE  CodesInv'
<1> DEFINE Quiet == /\ UNCHANGED <<issued, used, spent>> /\ otps' \subseteq otps
                    /\ \A s \in Slots : /\ At(s, "insert")' \subseteq At(s, "insert")
                                        /\ \A v \in Accepted(s)' : v.code \in used
<1>1. CASE UNCHANGED vars
  BY <1>1, KeepsCodes DEF vars, At, Accepted, CodesInv
<1>2. ASSUME NEW r \in Slots, NEW e \in Emails,
             Register(r, e) \/ Resend(r, e) \/ RequestLoginOtp(r, e) \/ Login(r, e)
      PROVE  Quiet
  BY <1>2 DEF Register, Resend, RequestLoginOtp, Login, Goto, Sending, At, Accepted, TypeOK, CodesInv
<1>3. ASSUME NEW r \in Slots, StoreHash(r) \/ RequestFails(r) PROVE Quiet
  BY <1>3 DEF StoreHash, RequestFails, Done, At, Accepted, TypeOK, CodesInv
<1>4. ASSUME NEW r \in Slots, MarkEmailVerified(r) PROVE Quiet
  <2>1. PICK w \in At(r, "mark") : Goto(r, [w EXCEPT !.step = "delete"])
    BY <1>4 DEF MarkEmailVerified
  <2>2. /\ [w EXCEPT !.step = "delete"].step = "delete"
        /\ [w EXCEPT !.step = "delete"].code = w.code
    BY DEF At, TypeOK, Request
  <2>3. \A s \in Slots : /\ At(s, "insert")' \subseteq At(s, "insert")
                         /\ \A v \in Accepted(s)' : v.code \in used
    BY <2>1, <2>2 DEF Goto, At, Accepted, TypeOK, CodesInv
  <2> QED BY <1>4, <2>3 DEF MarkEmailVerified
<1>5. ASSUME NEW r \in Slots, NEW t \in tokens, Refresh(r, t) PROVE Quiet
  BY <1>5 DEF Refresh, Goto, At, Accepted, TypeOK, CodesInv
<1>6. ASSUME (\E t \in tokens : Logout(t)) \/ (\E o \in otps : Reap(o)) \/ Tick PROVE Quiet
  BY <1>6 DEF Logout, Reap, Tick, At, Accepted, CodesInv
<1>7. Quiet => CodesInv'
  BY KeepsCodes
<1>8. ASSUME NEW r \in Slots, NEW e \in Emails, VerifyEmail(r, e) \/ LoginWithOtp(r, e)
      PROVE  CodesInv'
  BY <1>8, ValidateCodes DEF VerifyEmail, LoginWithOtp, OtpPurpose
<1> HIDE DEF Quiet
<1> QED BY <1>1, <1>2, <1>3, <1>4, <1>5, <1>6, <1>7, <1>8, UpsertCodes, InsertCodes,
           DeleteCodesCodes DEF Next

\* What has been accepted was issued for that e-mail and purpose, and a code that
\* was used and deleted never comes back into the collection.
THEOREM CodesInvariance == Spec => [](CodesKeepTheirPurpose /\ SpentCodesAreGone)
<1>1. Init => CodesInv
  BY DEF Init, CodesInv, CodesKeepTheirPurpose, SpentCodesAreGone, Drawn, OnItsWay, Accepted, At
<1>2. TypeOK /\ CodesInv /\ [Next]_vars => CodesInv'
  BY StepCodes
<1>3. CodesInv => CodesKeepTheirPurpose /\ SpentCodesAreGone
  BY DEF CodesInv
<1> QED BY <1>1, <1>2, <1>3, TypeCorrect, PTL DEF Spec

\* A code that was used and deleted never comes back into the collection.
THEOREM SpentCodesStayGone == Spec => []SpentCodesAreGone
<1> QED BY CodesInvariance, PTL

-----------------------------------------------------------------------------
(* Sessions.  A closed account is opened only by a login, which demands a  *)
(* verified e-mail; and only a verification code verifies one.             *)

Bearing ==
  \A r \in Slots : \A w \in Accepted(r) :
    /\ w.step = "mark" => w.code.purpose = Verification
    /\ w.step = "delete" => w.code.email \in verified

EarnedInv == SessionsAreEarned /\ Bearing

LoggingIn(e) ==
  \E r \in Slots : \E w \in requests'[r] :
    w.step = "store" /\ w.token.email = e /\ w.by # "refresh"

LEMMA StaysClosed ==
  ASSUME NEW e \in Emails, Closed(e), session'[e] \subseteq session[e],
         \A s \in Slots : At(s, "store")' \subseteq At(s, "store")
  PROVE  Closed(e)'
BY DEF Closed, Entering

LEMMA Opens ==
  ASSUME TypeOK, EarnedInv, [Next]_vars, NEW e \in Emails, Closed(e), ~Closed(e)'
  PROVE  e \in verified /\ LoggingIn(e)
<1> DEFINE Quiet == /\ session'[e] \subseteq session[e]
                    /\ \A s \in Slots : At(s, "store")' \subseteq At(s, "store")
<1>1. ~Quiet
  BY StaysClosed
<1>2. ~UNCHANGED vars
  BY <1>1 DEF vars, At
<1>3. \A r \in Slots, f \in Emails :
        ~(Register(r, f) \/ Resend(r, f) \/ RequestLoginOtp(r, f))
  BY <1>1 DEF Register, Resend, RequestLoginOtp, Goto, Sending, At, TypeOK
<1>4. \A r \in Slots : ~(Upsert(r) \/ Insert(r) \/ RequestFails(r))
  BY <1>1 DEF Upsert, Insert, RequestFails, Goto, Done, At, TypeOK
<1>5. \A r \in Slots, f \in Emails : ~(VerifyEmail(r, f) \/ LoginWithOtp(r, f))
  BY <1>1 DEF VerifyEmail, LoginWithOtp, validateOtp, Goto, At, TypeOK
<1>6. \A r \in Slots : ~MarkEmailVerified(r)
  <2> SUFFICES ASSUME NEW r \in Slots, MarkEmailVerified(r) PROVE Quiet
    BY <1>1
  <2>1. PICK w \in At(r, "mark") : Goto(r, [w EXCEPT !.step = "delete"])
    BY DEF MarkEmailVerified
  <2>2. [w EXCEPT !.step = "delete"].step = "delete"
    BY DEF At, TypeOK, Request
  <2> QED BY <2>1, <2>2 DEF MarkEmailVerified, Goto, At, TypeOK
<1>7. ~((\E t \in tokens : Logout(t)) \/ (\E o \in otps : Reap(o)) \/ Tick)
  BY <1>1 DEF Logout, Reap, Tick, At, TypeOK
<1>8. \A r \in Slots : ~StoreHash(r)
  <2> SUFFICES ASSUME NEW r \in Slots, StoreHash(r) PROVE Quiet
    BY <1>1
  <2>1. PICK w \in At(r, "store") : session' = [session EXCEPT ![w.token.email] = {w.token}]
    BY DEF StoreHash
  <2>2. w.token.email # e
    BY DEF Closed, Entering
  <2>3. \A s \in Slots : At(s, "store")' \subseteq At(s, "store")
    BY DEF StoreHash, Done, At, TypeOK
  <2> QED BY <2>1, <2>2, <2>3 DEF TypeOK
<1>9. \A r \in Slots, t \in tokens : ~Refresh(r, t)
  <2> SUFFICES ASSUME NEW r \in Slots, NEW t \in tokens, Refresh(r, t) PROVE Closed(e)'
    OBVIOUS
  <2>1. CASE Matches(t)
    <3>1. t.email # e
      BY <2>1 DEF Matches, Closed
    <3>2. /\ Goto(r, [step |-> "store", token |-> Signed(t.email), by |-> "refresh",
                      shown |-> {t}])
          /\ UNCHANGED session
      BY <2>1 DEF Refresh
    <3>3. \A s \in Slots : \A w \in At(s, "store")' : w.token.email = e => w \in At(s, "store")
      BY <3>1, <3>2 DEF Goto, At, TypeOK, Signed
    <3> QED BY <3>2, <3>3 DEF Closed, Entering
  <2>2. CASE ~Matches(t)
    BY <2>2, StaysClosed DEF Refresh, At, TypeOK
  <2> QED BY <2>1, <2>2
<1>10. ASSUME NEW r \in Slots, NEW f \in Emails, Login(r, f)
       PROVE  e \in verified /\ LoggingIn(e)
  <2> DEFINE w == [step |-> "store", token |-> Signed(f), by |-> "password", shown |-> {}]
  <2>1. requests' = [requests EXCEPT ![r] = {w}] /\ UNCHANGED session
    BY <1>10 DEF Login, Goto
  <2>2. w.step = "store" /\ w.token.email = f /\ w.by # "refresh"
    BY DEF Signed
  <2> HIDE DEF w
  <2>3. f = e
    <3>1. f # e => \A s \in Slots : \A v \in At(s, "store")' :
                     v.token.email = e => v \in At(s, "store")
      BY <2>1, <2>2 DEF At, TypeOK
    <3> QED BY <2>1, <3>1 DEF Closed, Entering
  <2>4. LoggingIn(e)
    BY <2>1, <2>2, <2>3 DEF LoggingIn, TypeOK
  <2> QED BY <1>10, <2>3, <2>4 DEF Login, requireEmailVerified
<1>11. ASSUME NEW r \in Slots, DeleteCodes(r)
       PROVE  e \in verified /\ LoggingIn(e)
  <2>1. PICK c \in At(r, "delete") :
          requests' = [requests EXCEPT ![r] =
            IF c.code.purpose = Verification THEN {}
            ELSE {[step |-> "store", token |-> Signed(c.code.email), by |-> "otp",
                   shown |-> {c.code}]}]
    BY <1>11 DEF DeleteCodes
  <2> DEFINE w == [step |-> "store", token |-> Signed(c.code.email), by |-> "otp",
                   shown |-> {c.code}]
  <2>2. w.step = "store" /\ w.token.email = c.code.email /\ w.by # "refresh"
    BY DEF Signed
  <2>3. requests' = [requests EXCEPT ![r] = {}] \/ requests' = [requests EXCEPT ![r] = {w}]
    BY <2>1
  <2>4. UNCHANGED session
    BY <1>11 DEF DeleteCodes
  <2> HIDE DEF w
  <2>5. requests' = [requests EXCEPT ![r] = {w}] /\ c.code.email = e
    <3>1. ~(requests' = [requests EXCEPT ![r] = {w}] /\ c.code.email = e) =>
            \A s \in Slots : \A v \in At(s, "store")' : v.token.email = e => v \in At(s, "store")
      BY <2>2, <2>3 DEF At, TypeOK
    <3> QED BY <2>3, <2>4, <3>1 DEF Closed, Entering
  <2>6. LoggingIn(e)
    BY <2>2, <2>5 DEF LoggingIn, TypeOK
  <2> QED BY <2>5, <2>6 DEF EarnedInv, Bearing, Accepted, At
<1> HIDE DEF Quiet
<1> QED BY <1>2, <1>3, <1>4, <1>5, <1>6, <1>7, <1>8, <1>9, <1>10, <1>11 DEF Next

\* Nothing is unverified and no acceptance is forgotten.
LEMMA StepGrows == [Next]_vars => verified \subseteq verified' /\ used \subseteq used'
BY DEF vars, Next, Register, Resend, RequestLoginOtp, Upsert, Insert, VerifyEmail, LoginWithOtp,
       validateOtp, MarkEmailVerified, DeleteCodes, Login, Refresh, StoreHash, Logout,
       RequestFails, Reap, Tick

LEMMA StepBearing ==
  ASSUME TypeOK, Bearing, [Next]_vars
  PROVE  Bearing'
<1>1. ASSUME \A s \in Slots : Accepted(s)' \subseteq Accepted(s) PROVE Bearing'
  BY <1>1, StepGrows DEF Bearing
<1>2. ASSUME NEW r \in Slots, NEW e \in Emails, VerifyEmail(r, e) PROVE Bearing'
  <2>1. PICK o \in Stored(e, Verification) :
          Goto(r, [step |-> "mark", code |-> [o.for EXCEPT !.purpose = Verification]])
    BY <1>2 DEF VerifyEmail, validateOtp, findLatest
  <2> DEFINE c == [o.for EXCEPT !.purpose = Verification]
  <2>2. c.purpose = Verification
    BY DEF Stored, TypeOK, Otp, Code
  <2>3. requests' = [requests EXCEPT ![r] = {[step |-> "mark", code |-> c]}]
    BY <2>1 DEF Goto
  <2> HIDE DEF c
  <2> QED BY <2>2, <2>3, StepGrows DEF Accepted, Bearing, TypeOK
<1>3. ASSUME NEW r \in Slots, NEW e \in Emails, LoginWithOtp(r, e) PROVE Bearing'
  <2>1. PICK o \in Stored(e, LoginPurpose) :
          Goto(r, [step |-> "delete", code |-> [o.for EXCEPT !.purpose = LoginPurpose]])
    BY <1>3 DEF LoginWithOtp, validateOtp, findLatest
  <2> DEFINE c == [o.for EXCEPT !.purpose = LoginPurpose]
  <2>2. c.email = e
    BY DEF Stored, TypeOK, Otp, Code
  <2>3. e \in verified
    BY <1>3 DEF LoginWithOtp, requireEmailVerified
  <2>4. requests' = [requests EXCEPT ![r] = {[step |-> "delete", code |-> c]}]
    BY <2>1 DEF Goto
  <2> HIDE DEF c
  <2> QED BY <2>2, <2>3, <2>4, StepGrows DEF Accepted, Bearing, TypeOK
<1>4. ASSUME NEW r \in Slots, MarkEmailVerified(r) PROVE Bearing'
  <2>1. PICK w \in At(r, "mark") : /\ Goto(r, [w EXCEPT !.step = "delete"])
                                   /\ verified' = verified \cup {w.code.email}
    BY <1>4 DEF MarkEmailVerified
  <2> DEFINE v == [w EXCEPT !.step = "delete"]
  <2>2. v.step = "delete" /\ v.code = w.code
    BY DEF At, TypeOK, Request
  <2>3. requests' = [requests EXCEPT ![r] = {v}]
    BY <2>1 DEF Goto
  <2> HIDE DEF v
  <2> QED BY <2>1, <2>2, <2>3 DEF Accepted, Bearing, TypeOK
<1>5. \A r \in Slots, e \in Emails :
        Register(r, e) \/ Resend(r, e) \/ RequestLoginOtp(r, e) \/ Login(r, e) =>
          \A s \in Slots : Accepted(s)' \subseteq Accepted(s)
  BY DEF Register, Resend, RequestLoginOtp, Login, Goto, Sending, Accepted, TypeOK
<1>6. \A r \in Slots :
        Upsert(r) \/ Insert(r) \/ StoreHash(r) \/ RequestFails(r) =>
          \A s \in Slots : Accepted(s)' \subseteq Accepted(s)
  BY DEF Upsert, Insert, StoreHash, RequestFails, Goto, Done, Accepted, TypeOK
<1>7. \A r \in Slots, t \in tokens :
        Refresh(r, t) => \A s \in Slots : Accepted(s)' \subseteq Accepted(s)
  BY DEF Refresh, Goto, Accepted, TypeOK
<1>8. \A r \in Slots : DeleteCodes(r) => \A s \in Slots : Accepted(s)' \subseteq Accepted(s)
  <2> SUFFICES ASSUME NEW r \in Slots, DeleteCodes(r)
               PROVE  \A s \in Slots : Accepted(s)' \subseteq Accepted(s)
    OBVIOUS
  <2>1. PICK w \in At(r, "delete") :
          requests' = [requests EXCEPT ![r] =
            IF w.code.purpose = Verification THEN {}
            ELSE {[step |-> "store", token |-> Signed(w.code.email), by |-> "otp",
                   shown |-> {w.code}]}]
    BY DEF DeleteCodes
  <2>2. \A v \in requests'[r] : v.step = "store"
    BY <2>1 DEF TypeOK
  <2>3. \A s \in Slots : s # r => requests'[s] = requests[s]
    BY <2>1 DEF TypeOK
  <2> QED BY <2>2, <2>3 DEF Accepted
<1>9. UNCHANGED vars \/ (\E t \in tokens : Logout(t)) \/ (\E o \in otps : Reap(o)) \/ Tick =>
        \A s \in Slots : Accepted(s)' \subseteq Accepted(s)
  BY DEF vars, Logout, Reap, Tick, Accepted
<1> QED BY <1>1, <1>2, <1>3, <1>4, <1>5, <1>6, <1>7, <1>8, <1>9 DEF Next

LEMMA StepEarned ==
  ASSUME TypeOK, CodesInv, EarnedInv, [Next]_vars
  PROVE  EarnedInv'
<1>1. \A e \in Emails : ~Closed(e)' => e \in verified'
  <2> SUFFICES ASSUME NEW e \in Emails, ~Closed(e)' PROVE e \in verified
    BY StepGrows
  <2>1. CASE Closed(e)
    BY <2>1, Opens
  <2>2. CASE ~Closed(e)
    BY <2>2 DEF EarnedInv, SessionsAreEarned, Closed
  <2> QED BY <2>1, <2>2
<1>2. \A e \in Emails : e \in verified' => Proved(e)'
  <2> SUFFICES ASSUME NEW e \in Emails, e \in verified', e \notin verified PROVE Proved(e)'
    BY StepGrows DEF EarnedInv, SessionsAreEarned, Proved
  <2>1. PICK r \in Slots : MarkEmailVerified(r)
    BY DEF vars, Next, Register, Resend, RequestLoginOtp, Upsert, Insert, VerifyEmail,
           LoginWithOtp, validateOtp, DeleteCodes, Login, Refresh, StoreHash, Logout,
           RequestFails, Reap, Tick
  <2>2. PICK w \in At(r, "mark") : verified' = verified \cup {w.code.email} /\ UNCHANGED used
    BY <2>1 DEF MarkEmailVerified
  <2>3. w \in Accepted(r) /\ w.code.email = e /\ w.step = "mark"
    BY <2>2 DEF At, Accepted
  <2> QED BY <2>2, <2>3 DEF CodesInv, EarnedInv, Bearing, Proved
<1>3. Bearing'
  BY StepBearing DEF EarnedInv
<1> QED BY <1>1, <1>2, <1>3 DEF EarnedInv, SessionsAreEarned, Closed

LEMMA InitEarned == Init => TypeOK /\ CodesInv /\ EarnedInv
BY DEF Init, TypeOK, AtMostOne, CodesInv, CodesKeepTheirPurpose, SpentCodesAreGone, Drawn,
       OnItsWay, Accepted, At, EarnedInv, SessionsAreEarned, Bearing, Entering

\* Whoever holds a session, or is about to, has a verified e-mail, and an e-mail
\* is verified only by a verification code sent to it.
THEOREM SessionsEarned == Spec => []SessionsAreEarned
<1> DEFINE Inv == TypeOK /\ CodesInv /\ EarnedInv
<1>1. Init => Inv
  BY InitEarned
<1>2. Inv /\ [Next]_vars => Inv'
  BY StepTypes, StepCodes, StepEarned
<1>3. Inv => SessionsAreEarned
  BY DEF EarnedInv
<1> HIDE DEF Inv
<1> QED BY <1>1, <1>2, <1>3, PTL DEF Spec

\* An account without a session gets one from a login only, never from a refresh.
THEOREM LogoutNeedsLogin == Spec => LogoutIsFinal
<1> DEFINE Inv == TypeOK /\ CodesInv /\ EarnedInv
           Step == \A e \in Emails : Closed(e) /\ ~Closed(e)' => LoggingIn(e)
<1>1. Init => Inv
  BY InitEarned
<1>2. Inv /\ [Next]_vars => Inv'
  BY StepTypes, StepCodes, StepEarned
<1>3. Inv /\ [Next]_vars => [Step]_vars
  BY Opens
<1>4. Spec => [][Step]_vars
  <2> HIDE DEF Inv, Step
  <2> QED BY <1>1, <1>2, <1>3, PTL DEF Spec
<1> QED BY <1>4 DEF LogoutIsFinal, LoggingIn

-----------------------------------------------------------------------------
(* Counting.  A request that wants to insert found nothing stored, so what *)
(* is stored and what is on its way never outnumber the requests; and who  *)
(* accepts a code finds it stored, so that nobody has logged in with it.   *)

LEMMA Smaller ==
  ASSUME NEW S, IsFiniteSet(S), NEW R \in SUBSET S
  PROVE  IsFiniteSet(R) /\ Cardinality(R) <= Cardinality(S) /\ Cardinality(R) \in Nat
           /\ Cardinality(S) \in Nat
BY FS_Subset, FS_CardinalityType

LEMMA OneLess ==
  ASSUME NEW S, IsFiniteSet(S), NEW x \in S, NEW R \in SUBSET (S \ {x})
  PROVE  Cardinality(R) + 1 <= Cardinality(S)
<1>1. Cardinality(S \ {x}) = Cardinality(S) - 1 /\ IsFiniteSet(S \ {x})
  BY FS_RemoveElement
<1>2. Cardinality(R) <= Cardinality(S \ {x}) /\ Cardinality(R) \in Nat /\ Cardinality(S) \in Nat
  BY <1>1, Smaller, FS_CardinalityType
<1> QED BY <1>1, <1>2

LEMMA OneMore ==
  ASSUME NEW S, IsFiniteSet(S), NEW x
  PROVE  IsFiniteSet(S \cup {x}) /\ Cardinality(S \cup {x}) <= Cardinality(S) + 1
<1>1. /\ IsFiniteSet(S \cup {x})
      /\ Cardinality(S \cup {x}) = IF x \in S THEN Cardinality(S) ELSE Cardinality(S) + 1
  BY FS_AddElement
<1>2. Cardinality(S) \in Nat
  BY FS_CardinalityType
<1> QED BY <1>1, <1>2

Room(e, purpose) ==
  /\ IsFiniteSet(Stored(e, purpose))
  /\ Cardinality(Stored(e, purpose)) + Cardinality(Inserting(e, purpose)) <= Cardinality(Slots)

LEMMA InsertingIsFinite ==
  ASSUME NEW e, NEW purpose
  PROVE  /\ Inserting(e, purpose) \subseteq Slots /\ Inserting(e, purpose)' \subseteq Slots
         /\ IsFiniteSet(Inserting(e, purpose)) /\ IsFiniteSet(Inserting(e, purpose)')
         /\ Cardinality(Inserting(e, purpose)) \in Nat
         /\ Cardinality(Inserting(e, purpose)') \in Nat
         /\ Cardinality(Inserting(e, purpose)') <= Cardinality(Slots)
         /\ Cardinality(Slots) \in Nat
<1>1. Inserting(e, purpose) \subseteq Slots /\ Inserting(e, purpose)' \subseteq Slots
  BY DEF Inserting
<1> QED BY <1>1, AuthAssumption, Smaller

LEMMA RoomShrinks ==
  ASSUME NEW e, NEW purpose, Room(e, purpose),
         Stored(e, purpose)' \subseteq Stored(e, purpose),
         Inserting(e, purpose)' \subseteq Inserting(e, purpose)
  PROVE  Room(e, purpose)'
<1> DEFINE S == Stored(e, purpose)
           T == Stored(e, purpose)'
           I == Inserting(e, purpose)
           J == Inserting(e, purpose)'
<1>1. IsFiniteSet(S) /\ IsFiniteSet(I) /\ Cardinality(S) + Cardinality(I) <= Cardinality(Slots)
  BY InsertingIsFinite DEF Room
<1>2. T \subseteq S /\ J \subseteq I
  OBVIOUS
<1> HIDE DEF S, T, I, J
<1>3. /\ IsFiniteSet(T) /\ Cardinality(T) <= Cardinality(S) /\ Cardinality(J) <= Cardinality(I)
      /\ Cardinality(T) \in Nat /\ Cardinality(S) \in Nat
      /\ Cardinality(J) \in Nat /\ Cardinality(I) \in Nat
  BY <1>1, <1>2, Smaller
<1>4. IsFiniteSet(T) /\ Cardinality(T) + Cardinality(J) <= Cardinality(Slots)
  BY <1>1, <1>3, AuthAssumption, FS_CardinalityType
<1> QED BY <1>4 DEF Room, T, J

LEMMA UpsertRoom ==
  ASSUME TypeOK, NEW e, NEW purpose, Room(e, purpose), NEW r \in Slots, Upsert(r)
  PROVE  Room(e, purpose)'
<1>1. PICK w \in At(r, "send"), c \in Codes :
        \/ Replace(NewOtp(w, c)) /\ Done(r)
        \/ /\ Stored(w.email, w.purpose) = {}
           /\ Goto(r, [step |-> "insert", otp |-> NewOtp(w, c)])
           /\ UNCHANGED otps
  BY DEF Upsert
<1> DEFINE o == NewOtp(w, c)
<1>2. o.for.email = w.email /\ o.for.purpose = w.purpose
  BY DEF NewOtp
<1> HIDE DEF o
<1>3. CASE Replace(o) /\ Done(r)
  <2>1. PICK old \in Stored(o.for.email, o.for.purpose) : otps' = (otps \ {old}) \cup {o}
    BY <1>3 DEF Replace
  <2>2. \A s \in Slots : At(s, "insert")' \subseteq At(s, "insert")
    BY <1>3 DEF Done, At, TypeOK
  <2>3. CASE e = o.for.email /\ purpose = o.for.purpose
    <3> DEFINE S == Stored(e, purpose)
               T == Stored(e, purpose)'
               I == Inserting(e, purpose)
               J == Inserting(e, purpose)'
    <3>1. T \subseteq (S \ {old}) \cup {o} /\ old \in S
      BY <2>1, <2>3 DEF Stored
    <3>2. IsFiniteSet(S) /\ IsFiniteSet(I) /\ Cardinality(S) + Cardinality(I) <= Cardinality(Slots)
      BY InsertingIsFinite DEF Room
    <3>3. J \subseteq I
      BY <2>2 DEF Inserting
    <3>4. Cardinality(Slots) \in Nat
      BY AuthAssumption, FS_CardinalityType
    <3> HIDE DEF S, T, I, J
    <3>5. IsFiniteSet(S \ {old}) /\ Cardinality(S \ {old}) + 1 <= Cardinality(S)
      BY <3>1, <3>2, OneLess, Smaller
    <3>6. /\ IsFiniteSet((S \ {old}) \cup {o})
          /\ Cardinality((S \ {old}) \cup {o}) <= Cardinality(S \ {old}) + 1
      BY <3>5, OneMore
    <3>7. IsFiniteSet(T) /\ Cardinality(T) <= Cardinality((S \ {old}) \cup {o})
      BY <3>1, <3>6, Smaller
    <3>8. /\ Cardinality(J) <= Cardinality(I)
          /\ Cardinality(J) \in Nat /\ Cardinality(I) \in Nat
      BY <3>2, <3>3, Smaller
    <3>9. /\ Cardinality(T) \in Nat /\ Cardinality(S) \in Nat /\ Cardinality(S \ {old}) \in Nat
          /\ Cardinality((S \ {old}) \cup {o}) \in Nat
      BY <3>2, <3>5, <3>6, <3>7, FS_CardinalityType
    <3>10. Cardinality(T) + Cardinality(J) <= Cardinality(Slots)
      BY <3>2, <3>4, <3>5, <3>6, <3>7, <3>8, <3>9
    <3> QED BY <3>7, <3>10 DEF Room, T, J
  <2>4. CASE ~(e = o.for.email /\ purpose = o.for.purpose)
    <3>1. Stored(e, purpose)' \subseteq Stored(e, purpose)
      BY <2>1, <2>4 DEF Stored
    <3>2. Inserting(e, purpose)' \subseteq Inserting(e, purpose)
      BY <2>2 DEF Inserting
    <3> QED BY <3>1, <3>2, RoomShrinks
  <2> QED BY <2>3, <2>4
<1>4. CASE /\ Stored(w.email, w.purpose) = {} /\ UNCHANGED otps
           /\ Goto(r, [step |-> "insert", otp |-> o])
  <2>1. CASE e = w.email /\ purpose = w.purpose
    <3>1. Stored(e, purpose)' = {}
      BY <1>4, <2>1 DEF Stored
    <3> QED BY <3>1, InsertingIsFinite, FS_EmptySet DEF Room
  <2>2. CASE ~(e = w.email /\ purpose = w.purpose)
    <3>1. Stored(e, purpose)' \subseteq Stored(e, purpose)
      BY <1>4 DEF Stored
    <3>2. Inserting(e, purpose)' \subseteq Inserting(e, purpose)
      BY <1>2, <1>4, <2>2 DEF Inserting, At, Goto, TypeOK
    <3> QED BY <3>1, <3>2, RoomShrinks
  <2> QED BY <2>1, <2>2
<1> QED BY <1>1, <1>3, <1>4 DEF o

LEMMA InsertRoom ==
  ASSUME TypeOK, NEW e, NEW purpose, Room(e, purpose), NEW r \in Slots, Insert(r)
  PROVE  Room(e, purpose)'
<1>1. PICK w \in At(r, "insert") : otps' = otps \cup {w.otp} /\ Done(r)
  BY DEF Insert
<1> DEFINE S == Stored(e, purpose)
           T == Stored(e, purpose)'
           I == Inserting(e, purpose)
           J == Inserting(e, purpose)'
<1>2. /\ r \notin J /\ J \subseteq I
  BY <1>1 DEF Inserting, At, Done, TypeOK
<1>3. CASE w.otp.for.email = e /\ w.otp.for.purpose = purpose
  <2>1. r \in I /\ T \subseteq S \cup {w.otp}
    BY <1>1, <1>3 DEF Inserting, Stored
  <2>2. IsFiniteSet(S) /\ IsFiniteSet(I) /\ Cardinality(S) + Cardinality(I) <= Cardinality(Slots)
    BY InsertingIsFinite DEF Room
  <2>3. Cardinality(Slots) \in Nat
    BY AuthAssumption, FS_CardinalityType
  <2> HIDE DEF S, T, I, J
  <2>4. Cardinality(J) + 1 <= Cardinality(I)
    BY <1>2, <2>1, <2>2, OneLess
  <2>5. /\ IsFiniteSet(S \cup {w.otp})
        /\ Cardinality(S \cup {w.otp}) <= Cardinality(S) + 1
    BY <2>2, OneMore
  <2>6. IsFiniteSet(T) /\ Cardinality(T) <= Cardinality(S \cup {w.otp})
    BY <2>1, <2>5, Smaller
  <2>7. /\ Cardinality(T) \in Nat /\ Cardinality(S) \in Nat /\ Cardinality(I) \in Nat
        /\ Cardinality(S \cup {w.otp}) \in Nat /\ Cardinality(J) \in Nat
    BY <1>2, <2>2, <2>5, <2>6, FS_CardinalityType, Smaller
  <2>8. Cardinality(T) + Cardinality(J) <= Cardinality(Slots)
    BY <2>2, <2>3, <2>4, <2>5, <2>6, <2>7
  <2> QED BY <2>6, <2>8 DEF Room, T, J
<1>4. CASE ~(w.otp.for.email = e /\ w.otp.for.purpose = purpose)
  <2>1. T \subseteq S
    BY <1>1, <1>4 DEF Stored
  <2> QED BY <1>2, <2>1, RoomShrinks
<1> QED BY <1>3, <1>4

\* Everything but the upsert stores no code and inserts none.
LEMMA OthersInsertNothing ==
  ASSUME TypeOK, [Next]_vars, \A r \in Slots : ~Upsert(r) /\ ~Insert(r)
  PROVE  otps' \subseteq otps /\ \A s \in Slots : At(s, "insert")' \subseteq At(s, "insert")
<1> DEFINE Quiet == /\ otps' \subseteq otps
                    /\ \A s \in Slots : At(s, "insert")' \subseteq At(s, "insert")
<1>1. ASSUME NEW r \in Slots, NEW e \in Emails,
             Register(r, e) \/ Resend(r, e) \/ RequestLoginOtp(r, e) \/ Login(r, e)
      PROVE  Quiet
  BY <1>1 DEF Register, Resend, RequestLoginOtp, Login, Goto, Sending, At, TypeOK
<1>2. ASSUME NEW r \in Slots, NEW e \in Emails, VerifyEmail(r, e) \/ LoginWithOtp(r, e)
      PROVE  Quiet
  BY <1>2 DEF VerifyEmail, LoginWithOtp, validateOtp, Goto, At, TypeOK
<1>3. ASSUME NEW r \in Slots, MarkEmailVerified(r) PROVE Quiet
  <2>1. PICK w \in At(r, "mark") : Goto(r, [w EXCEPT !.step = "delete"])
    BY <1>3 DEF MarkEmailVerified
  <2>2. [w EXCEPT !.step = "delete"].step = "delete"
    BY DEF At, TypeOK, Request
  <2> QED BY <1>3, <2>1, <2>2 DEF MarkEmailVerified, Goto, At, TypeOK
<1>4. ASSUME NEW r \in Slots, DeleteCodes(r) \/ StoreHash(r) \/ RequestFails(r) PROVE Quiet
  BY <1>4 DEF DeleteCodes, deleteByEmailAndPurpose, StoreHash, RequestFails, Done, At, TypeOK
<1>5. ASSUME NEW r \in Slots, NEW t \in tokens, Refresh(r, t) PROVE Quiet
  BY <1>5 DEF Refresh, Goto, At, TypeOK
<1>6. ASSUME UNCHANGED vars \/ (\E t \in tokens : Logout(t)) \/ (\E o \in otps : Reap(o)) \/ Tick
      PROVE  Quiet
  BY <1>6 DEF vars, Logout, Reap, Tick, At
<1> HIDE DEF Quiet
<1>7. Quiet
  BY <1>1, <1>2, <1>3, <1>4, <1>5, <1>6 DEF Next
<1> QED BY <1>7 DEF Quiet

\* Of one e-mail and purpose there are never more codes than concurrent requests.
THEOREM CodesStayFew == Spec => []CodesDoNotPileUp
<1> DEFINE Inv == \A e \in Emails, purpose \in OtpPurpose : Room(e, purpose)
<1>1. Init => Inv
  <2> SUFFICES ASSUME Init, NEW e \in Emails, NEW purpose \in OtpPurpose
               PROVE  Room(e, purpose)
    OBVIOUS
  <2>1. Stored(e, purpose) = {} /\ Inserting(e, purpose) = {}
    BY DEF Init, Stored, Inserting, At
  <2> QED BY <2>1, FS_EmptySet, FS_CardinalityType, AuthAssumption DEF Room
<1>2. TypeOK /\ Inv /\ [Next]_vars => Inv'
  <2> SUFFICES ASSUME TypeOK, Inv, [Next]_vars, NEW e \in Emails, NEW purpose \in OtpPurpose
               PROVE  Room(e, purpose)'
    OBVIOUS
  <2>1. ASSUME \A r \in Slots : ~Upsert(r) /\ ~Insert(r) PROVE Room(e, purpose)'
    <3>1. otps' \subseteq otps /\ \A s \in Slots : At(s, "insert")' \subseteq At(s, "insert")
      BY <2>1, OthersInsertNothing
    <3>2. Stored(e, purpose)' \subseteq Stored(e, purpose)
      BY <3>1 DEF Stored
    <3>3. Inserting(e, purpose)' \subseteq Inserting(e, purpose)
      BY <3>1 DEF Inserting
    <3> QED BY <3>2, <3>3, RoomShrinks
  <2> QED BY <2>1, UpsertRoom, InsertRoom
<1>3. Inv => CodesDoNotPileUp
  BY DEF CodesDoNotPileUp, Room
<1> HIDE DEF Inv
<1> QED BY <1>1, <1>2, <1>3, TypeCorrect, PTL DEF Spec

-----------------------------------------------------------------------------
(* Logins per code.  A request is Pending on a code from accepting it to   *)
(* storing the pair.  Accepting needs a code nobody has deleted, so one    *)
(* that has given no login yet; from then on each login is a request less. *)

For(w, c) ==
  \/ w.step = "delete" /\ w.code.purpose = LoginPurpose /\ w.code.code = c
  \/ w.step = "store" /\ w.by = "otp" /\ \E s \in w.shown : s.code = c

Pending(c) == {r \in Slots : \E w \in requests[r] : For(w, c)}

Deleted ==
  \A r \in Slots : \A w \in At(r, "store") : w.by = "otp" => \A s \in w.shown : s.code \in spent

Unused == \A c \in Codes : c \notin spent => logins[c] = 0

Budget == \A c \in Codes : logins[c] + Cardinality(Pending(c)) <= Cardinality(Slots)

LoginInv == Deleted /\ Unused /\ Budget

LEMMA PendingIsFinite ==
  ASSUME NEW c
  PROVE  /\ IsFiniteSet(Pending(c)) /\ IsFiniteSet(Pending(c)')
         /\ Cardinality(Pending(c)) \in Nat /\ Cardinality(Pending(c)') \in Nat
         /\ Cardinality(Pending(c)') <= Cardinality(Slots)
         /\ Cardinality(Slots) \in Nat
<1>1. Pending(c) \subseteq Slots /\ Pending(c)' \subseteq Slots
  BY DEF Pending
<1> QED BY <1>1, AuthAssumption, Smaller

\* Steps that count no login and leave no new request pending.
LEMMA KeepsBudget ==
  ASSUME TypeOK, LoginInv, UNCHANGED logins, spent \subseteq spent', Deleted',
         \A s \in Slots, c \in Codes : \A w \in requests'[s] :
           For(w, c) => \E v \in requests[s] : For(v, c)
  PROVE  LoginInv'
<1>1. Unused'
  BY DEF LoginInv, Unused
<1>2. ASSUME NEW c \in Codes PROVE (logins[c] + Cardinality(Pending(c)) <= Cardinality(Slots))'
  <2>1. Pending(c)' \subseteq Pending(c)
    BY DEF Pending
  <2>2. Cardinality(Pending(c)') <= Cardinality(Pending(c))
    BY <2>1, PendingIsFinite, Smaller
  <2>3. logins[c] \in Nat /\ logins[c] + Cardinality(Pending(c)) <= Cardinality(Slots)
    BY DEF TypeOK, LoginInv, Budget
  <2>4. logins'[c] = logins[c]
    OBVIOUS
  <2> HIDE DEF Pending
  <2> QED BY <2>2, <2>3, <2>4, PendingIsFinite
<1> QED BY <1>1, <1>2 DEF LoginInv, Budget

LEMMA AcceptLogin ==
  ASSUME TypeOK, CodesInv, LoginInv, NEW r \in Slots, NEW e \in Emails, LoginWithOtp(r, e)
  PROVE  LoginInv'
<1>1. PICK o \in Stored(e, LoginPurpose) :
        Goto(r, [step |-> "delete", code |-> [o.for EXCEPT !.purpose = LoginPurpose]])
  BY DEF LoginWithOtp, validateOtp, findLatest
<1> DEFINE d == [o.for EXCEPT !.purpose = LoginPurpose]
           w == [step |-> "delete", code |-> d]
<1>2. d.code = o.for.code /\ o \in otps
  BY DEF Stored, TypeOK, Otp, Code
<1>3. d.code \notin spent
  BY <1>2 DEF CodesInv, SpentCodesAreGone
<1>4. requests' = [requests EXCEPT ![r] = {w}]
  BY <1>1 DEF Goto
<1>5. w.step = "delete" /\ w.code = d
  OBVIOUS
<1> HIDE DEF w, d
<1>6. UNCHANGED <<spent, logins>>
  BY DEF LoginWithOtp
<1>7. Deleted'
  BY <1>4, <1>5, <1>6 DEF LoginInv, Deleted, At, TypeOK
<1>8. Unused'
  BY <1>6 DEF LoginInv, Unused
<1>9. ASSUME NEW c \in Codes PROVE (logins[c] + Cardinality(Pending(c)) <= Cardinality(Slots))'
  <2>1. logins'[c] = logins[c] /\ logins[c] \in Nat
          /\ logins[c] + Cardinality(Pending(c)) <= Cardinality(Slots)
    BY <1>6 DEF TypeOK, LoginInv, Budget
  <2>2. CASE c = d.code
    <3>1. logins[c] = 0
      BY <1>3, <2>2 DEF LoginInv, Unused
    <3> QED BY <2>1, <3>1, PendingIsFinite
  <2>3. CASE c # d.code
    <3>1. Pending(c)' \subseteq Pending(c)
      BY <1>4, <1>5, <2>3 DEF Pending, For, TypeOK
    <3>2. Cardinality(Pending(c)') <= Cardinality(Pending(c))
      BY <3>1, PendingIsFinite, Smaller
    <3> QED BY <2>1, <3>2, PendingIsFinite
  <2> QED BY <2>2, <2>3
<1> QED BY <1>7, <1>8, <1>9 DEF LoginInv, Budget

LEMMA CountLogin ==
  ASSUME TypeOK, LoginInv, NEW r \in Slots, StoreHash(r)
  PROVE  LoginInv'
<1>1. PICK w \in At(r, "store") :
        /\ logins' = [c \in Codes |->
             IF w.by = "otp" /\ \E s \in w.shown : s.code = c THEN logins[c] + 1 ELSE logins[c]]
        /\ Done(r)
        /\ UNCHANGED spent
  BY DEF StoreHash
<1>2. Deleted'
  BY <1>1 DEF LoginInv, Deleted, At, Done, TypeOK
<1>3. Unused'
  <2> SUFFICES ASSUME NEW c \in Codes, c \notin spent PROVE logins'[c] = 0
    BY <1>1 DEF Unused
  <2>1. ~(w.by = "otp" /\ \E s \in w.shown : s.code = c)
    BY DEF LoginInv, Deleted
  <2> QED BY <1>1, <2>1 DEF LoginInv, Unused
<1>4. ASSUME NEW c \in Codes PROVE (logins[c] + Cardinality(Pending(c)) <= Cardinality(Slots))'
  <2>1. logins[c] \in Nat /\ logins[c] + Cardinality(Pending(c)) <= Cardinality(Slots)
    BY DEF TypeOK, LoginInv, Budget
  <2>2. Pending(c)' \subseteq Pending(c) \ {r}
    BY <1>1 DEF Pending, Done, TypeOK
  <2>3. CASE w.by = "otp" /\ \E s \in w.shown : s.code = c
    <3>1. r \in Pending(c)
      BY <2>3 DEF Pending, For, At
    <3>2. Cardinality(Pending(c)') + 1 <= Cardinality(Pending(c))
      BY <2>2, <3>1, PendingIsFinite, OneLess
    <3>3. logins'[c] = logins[c] + 1
      BY <1>1, <2>3
    <3> QED BY <2>1, <3>2, <3>3, PendingIsFinite
  <2>4. CASE ~(w.by = "otp" /\ \E s \in w.shown : s.code = c)
    <3>1. Cardinality(Pending(c)') <= Cardinality(Pending(c))
      BY <2>2, PendingIsFinite, Smaller
    <3>2. logins'[c] = logins[c]
      BY <1>1, <2>4
    <3> QED BY <2>1, <3>1, <3>2, PendingIsFinite
  <2> QED BY <2>3, <2>4
<1> QED BY <1>2, <1>3, <1>4 DEF LoginInv, Budget

LEMMA StepLogins ==
  ASSUME TypeOK, CodesInv, Bearing, LoginInv, [Next]_vars
  PROVE  LoginInv'
<1> DEFINE Quiet == /\ UNCHANGED logins /\ spent \subseteq spent' /\ Deleted'
                    /\ \A s \in Slots, c \in Codes : \A w \in requests'[s] :
                         For(w, c) => \E v \in requests[s] : For(v, c)
<1>1. ASSUME NEW r \in Slots, NEW e \in Emails,
             Register(r, e) \/ Resend(r, e) \/ RequestLoginOtp(r, e) \/ Login(r, e)
      PROVE  Quiet
  BY <1>1 DEF Register, Resend, RequestLoginOtp, Login, Goto, Sending, At, TypeOK, LoginInv,
              Deleted, For
<1>2. ASSUME NEW r \in Slots, Upsert(r) \/ Insert(r) \/ RequestFails(r) PROVE Quiet
  BY <1>2 DEF Upsert, Insert, RequestFails, Goto, Done, At, TypeOK, LoginInv, Deleted, For
<1>3. ASSUME NEW r \in Slots, NEW e \in Emails, VerifyEmail(r, e) PROVE Quiet
  BY <1>3 DEF VerifyEmail, validateOtp, Goto, At, TypeOK, LoginInv, Deleted, For
<1>4. ASSUME NEW r \in Slots, MarkEmailVerified(r) PROVE Quiet
  <2>1. PICK w \in At(r, "mark") : Goto(r, [w EXCEPT !.step = "delete"])
    BY <1>4 DEF MarkEmailVerified
  <2> DEFINE v == [w EXCEPT !.step = "delete"]
  <2>2. v.step = "delete" /\ v.code = w.code
    BY DEF At, TypeOK, Request
  <2>3. v.code.purpose # LoginPurpose
    BY <2>2 DEF Bearing, Accepted, At, Verification, LoginPurpose
  <2>4. requests' = [requests EXCEPT ![r] = {v}]
    BY <2>1 DEF Goto
  <2> HIDE DEF v
  <2>5. UNCHANGED <<logins, spent>>
    BY <1>4 DEF MarkEmailVerified
  <2> QED BY <2>2, <2>3, <2>4, <2>5 DEF At, TypeOK, LoginInv, Deleted, For
<1>5. ASSUME NEW r \in Slots, DeleteCodes(r) PROVE Quiet
  <2>1. PICK d \in At(r, "delete") :
          /\ spent' = spent \cup {d.code.code}
          /\ requests' = [requests EXCEPT ![r] =
               IF d.code.purpose = Verification THEN {}
               ELSE {[step |-> "store", token |-> Signed(d.code.email), by |-> "otp",
                      shown |-> {d.code}]}]
          /\ UNCHANGED logins
    BY <1>5 DEF DeleteCodes
  <2> DEFINE w == [step |-> "store", token |-> Signed(d.code.email), by |-> "otp",
                   shown |-> {d.code}]
  <2>2. w.step = "store" /\ w.by = "otp" /\ w.shown = {d.code}
    OBVIOUS
  <2>3. \/ requests' = [requests EXCEPT ![r] = {}]
        \/ /\ requests' = [requests EXCEPT ![r] = {w}]
           /\ d.code.purpose # Verification
    BY <2>1
  <2>4. d.code.purpose \in OtpPurpose
    BY DEF At, TypeOK, Request, Code
  <2> HIDE DEF w
  <2>5. Deleted'
    BY <2>1, <2>2, <2>3 DEF At, TypeOK, LoginInv, Deleted
  <2>6. \A s \in Slots, c \in Codes : \A u \in requests'[s] :
          For(u, c) => \E v \in requests[s] : For(v, c)
    BY <2>2, <2>3, <2>4 DEF At, TypeOK, For, OtpPurpose
  <2> QED BY <2>1, <2>5, <2>6
<1>6. ASSUME NEW r \in Slots, NEW t \in tokens, Refresh(r, t) PROVE Quiet
  BY <1>6 DEF Refresh, Goto, At, TypeOK, LoginInv, Deleted, For
<1>7. ASSUME UNCHANGED vars \/ (\E t \in tokens : Logout(t)) \/ (\E o \in otps : Reap(o)) \/ Tick
      PROVE  Quiet
  BY <1>7 DEF vars, Logout, Reap, Tick, At, LoginInv, Deleted
<1>8. Quiet => LoginInv'
  BY KeepsBudget
<1> HIDE DEF Quiet
<1> QED BY <1>1, <1>2, <1>3, <1>4, <1>5, <1>6, <1>7, <1>8, AcceptLogin, CountLogin DEF Next

FullInv == TypeOK /\ CodesInv /\ EarnedInv /\ LoginInv

LEMMA Inductive == Spec => []FullInv
<1>1. Init => FullInv
  <2> SUFFICES ASSUME Init PROVE FullInv
    OBVIOUS
  <2>1. Deleted /\ Unused
    BY DEF Init, Deleted, Unused, At
  <2>2. Budget
    <3> SUFFICES ASSUME NEW c \in Codes
                 PROVE  logins[c] + Cardinality(Pending(c)) <= Cardinality(Slots)
      BY DEF Budget
    <3>1. Pending(c) = {} /\ logins[c] = 0
      BY DEF Init, Pending
    <3> QED BY <3>1, FS_EmptySet, PendingIsFinite
  <2> QED BY <2>1, <2>2, InitEarned DEF FullInv, LoginInv
<1>2. FullInv /\ [Next]_vars => FullInv'
  BY StepTypes, StepCodes, StepEarned, StepLogins DEF FullInv, EarnedInv
<1> QED BY <1>1, <1>2, PTL DEF Spec

\* A code gives at most one login per request that can run at once.
THEOREM LoginsAreBounded == Spec => []LoginsPerCode
<1>1. FullInv => LoginsPerCode
  BY PendingIsFinite DEF FullInv, TypeOK, LoginInv, Budget, LoginsPerCode
<1> QED BY <1>1, Inductive, PTL

\* The invariant the runs check: what a request holds between two awaits is what
\* it has earned so far.
THEOREM Invariance == Spec => []AuthInv
<1>1. FullInv => Holding
  BY DEF FullInv, EarnedInv, Bearing, CodesInv, LoginInv, Deleted, Accepted, At, Holding
<1>2. FullInv => AuthInv
  BY <1>1 DEF FullInv, EarnedInv, CodesInv, AuthInv
<1> QED BY <1>2, Inductive, PTL
=============================================================================
