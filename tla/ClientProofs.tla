---------------------------- MODULE ClientProofs ----------------------------
(***************************************************************************)
(* What the client makes of an answer: lemmas about the operators of       *)
(* Client, for every answer.                                               *)
(***************************************************************************)
EXTENDS Client, TLAPS

\* An error of a call that is worth retrying, and one that is not.
Transient(e) == e.kind = "api" /\ ~IsPermanent(e)
Lasting(e)   == e.kind = "api" /\ IsPermanent(e)

LEMMA AnswerTypes ==
    ASSUME NEW r \in Answers
    PROVE  /\ r.net \in {"answered", "refused", "cut"} /\ r.code \in Nat
           /\ r.json \in {"json", "text", "empty"} /\ r.status \in {"none", "success", "other"}
           /\ r.message \in {"none", "neutral", "failure", "auth", "authPlain"}
           /\ r.payload \in {"there", "none", "garbled"}
           /\ r.json # "json" => r.status = "none"
           /\ r.json = "empty" => r.message = "none" /\ r.payload = "none"
BY DEF Answers, AnswersOf, Codes

LEMMA ErrorNotNil == ASSUME NEW e, e.kind = "api" PROVE e # Nil
<1>1. Nil.kind = "nil"
  BY DEF Nil
<1> QED  BY <1>1

LEMMA NotPermanent == ~IsPermanent(Nil) /\ ~IsPermanent(OtherError) /\ OtherError # Nil
<1>1. Nil.kind = "nil" /\ OtherError.kind = "other"
  BY DEF Nil, OtherError
<1> QED  BY <1>1 DEF IsPermanent

LEMMA Permanence ==
    ASSUME NEW code, NEW hasStatus, NEW auth, NEW cause
    PROVE  /\ Transient(APIError(code, hasStatus, auth, FALSE, cause))
           /\ Lasting(APIError(code, hasStatus, auth, TRUE, cause))
<1>1. ASSUME NEW e, e = APIError(code, hasStatus, auth, FALSE, cause) PROVE Transient(e)
  <2>1. e.kind = "api" /\ ~e.Permanent
    BY <1>1, Zenon DEF APIError
  <2> QED  BY <2>1 DEF Transient, IsPermanent
<1>2. ASSUME NEW e, e = APIError(code, hasStatus, auth, TRUE, cause) PROVE Lasting(e)
  <2>1. e.kind = "api" /\ e.Permanent
    BY <1>2, Zenon DEF APIError
  <2> QED  BY <2>1 DEF Lasting, IsPermanent
<1> QED  BY <1>1, <1>2, Zenon

-----------------------------------------------------------------------------
\* The transport fails, or the body is cut short.
LEMMA NotAnswered ==
    ASSUME NEW r \in Answers, r.net # "answered"
    PROVE  /\ do(r) # Nil /\ Transient(do(r)) /\ do(r).Err # "no certificate"
           /\ ~do(r).APIStatus /\ ~do(r).authHint
<1>1. ASSUME NEW e, NEW code, NEW cause \in {"transport", "read"},
             e = APIError(code, FALSE, FALSE, FALSE, cause)
      PROVE  /\ e # Nil /\ Transient(e) /\ e.Err # "no certificate"
             /\ ~e.APIStatus /\ ~e.authHint
  <2>1. e.kind = "api" /\ e.Err = cause
    BY <1>1 DEF APIError
  <2>2. ~e.APIStatus /\ ~e.authHint
    BY <1>1, Zenon DEF APIError
  <2>3. Transient(e)
    BY <1>1, Permanence, Zenon
  <2> QED  BY <2>1, <2>2, <2>3, ErrorNotNil
<1>2. CASE r.net = "refused"
  <2>1. do(r) = APIError(0, FALSE, FALSE, FALSE, "transport")
    BY <1>2, Zenon DEF do
  <2> QED  BY <1>1, <2>1, Zenon
<1>3. CASE r.net = "cut"
  <2>1. do(r) = APIError(r.code, FALSE, FALSE, FALSE, "read")
    BY <1>3 DEF do
  <2> QED  BY <1>1, <2>1, Zenon
<1> QED  BY <1>2, <1>3, AnswerTypes

\* A status code that is not a success is an error that is permanent for the
\* status codes of a rejection.
LEMMA NotServed ==
    ASSUME NEW r \in Answers
    PROVE  LET e == notServed(r)
           IN  /\ e # Nil /\ e.kind = "api" /\ e.StatusCode = r.code
               /\ IsPermanent(e) <=> permanentStatus(r.code)
               /\ e.authHint <=> hintsAtAuth(r)
<1> DEFINE e == notServed(r)
<1>1. e.kind = "api" /\ e.StatusCode = r.code
  BY DEF notServed, APIError
<1>2. (e.Permanent <=> permanentStatus(r.code)) /\ (e.authHint <=> hintsAtAuth(r))
  BY Zenon DEF notServed, APIError
<1> HIDE DEF e
<1>3. IsPermanent(e) <=> permanentStatus(r.code)
  BY <1>1, <1>2 DEF IsPermanent
<1> QED  BY <1>1, <1>2, <1>3, ErrorNotNil DEF e

\* An answer that is a rejection although it is served.
LEMMA Rejected ==
    ASSUME NEW r \in Answers
    PROVE  /\ rejected(r) # Nil /\ Lasting(rejected(r)) /\ rejected(r).StatusCode = r.code
           /\ rejected(r).authHint <=> hintsAtAuth(r)
<1> DEFINE e == rejected(r)
<1>1. e.kind = "api" /\ e.StatusCode = r.code
  BY DEF rejected, APIError
<1>2. e.authHint <=> hintsAtAuth(r)
  BY Zenon DEF rejected, APIError
<1>3. Lasting(e)
  BY Permanence, Zenon DEF rejected
<1> HIDE DEF e
<1> QED  BY <1>1, <1>2, <1>3, ErrorNotNil DEF e

-----------------------------------------------------------------------------
\* Neither call nor callRaw makes of an outage an error that is permanent, and
\* the errors are not ones that the probe accepts.
LEMMA OutageCall ==
    ASSUME NEW r \in Answers, Outage(r),
           NEW e, e \in {call(r), callRaw(r)}
    PROVE  /\ e # Nil /\ Transient(e)
           /\ ~is2xx(e.StatusCode) \/ (e.Err # "no certificate" /\ ~e.APIStatus)
<1>1. CASE r.net # "answered"
  <2>1. do(r) # Nil
    BY <1>1, NotAnswered
  <2>2. call(r) = do(r) /\ callRaw(r) = do(r)
    BY <2>1, Zenon DEF call, callRaw
  <2> QED  BY <1>1, <2>2, NotAnswered
<1>2. CASE r.net = "answered"
  <2>1. r.code \in Nat /\ (r.code \in {408, 429} \/ r.code >= 500)
    BY <1>2, AnswerTypes DEF Outage
  <2>2. do(r) = Nil /\ ~is2xx(r.code) /\ ~permanentStatus(r.code)
    BY <1>2, <2>1 DEF do, is2xx, permanentStatus
  <2>3. e = notServed(r)
    BY <2>2, Zenon DEF call, callRaw
  <2> QED  BY <2>2, <2>3, NotServed DEF Transient
<1> QED  BY <1>1, <1>2

\* Both make of a rejection one that is.
LEMMA RejectionCall ==
    ASSUME NEW r \in Answers, Rejection(r),
           NEW e, e \in {call(r), callRaw(r)}
    PROVE  e # Nil /\ Lasting(e)
<1>1. do(r) = Nil
  BY DEF do, Rejection
<1>2. CASE ~is2xx(r.code)
  <2>1. r.code \in Nat /\ r.code >= 400 /\ ~(r.code \in {408, 429} \/ r.code >= 500)
    BY <1>2, AnswerTypes DEF Rejection, Outage
  <2>2. permanentStatus(r.code)
    BY <2>1 DEF permanentStatus
  <2>3. e = notServed(r)
    BY <1>1, <1>2, Zenon DEF call, callRaw
  <2> QED  BY <2>2, <2>3, NotServed DEF Lasting
<1>3. CASE is2xx(r.code)
  <2>1. r.json = "json" /\ ~succeeded(r)
    BY <1>3, AnswerTypes DEF Rejection, succeeded, is2xx
  <2>2. e = rejected(r)
    BY <1>1, <1>3, <2>1, Zenon DEF call, callRaw
  <2> QED  BY <2>2, Rejected
<1> QED  BY <1>2, <1>3

\* The operations.  An outage is worth retrying in all of them.
LEMMA OutageOps ==
    ASSUME NEW r \in Answers, Outage(r),
           NEW e, e \in {call(r), callRaw(r), FindCSRID(r), SignCSR(r), GetCertificate(r), Ping(r)}
    PROVE  e # Nil /\ Transient(e)
<1>1. call(r) # Nil
  BY OutageCall
<1>2. FindCSRID(r) = call(r) /\ SignCSR(r) = call(r) /\ GetCertificate(r) = call(r)
  BY <1>1, Zenon DEF FindCSRID, SignCSR, GetCertificate
<1>3. Ping(r) = call(r)
  <2>1. ~(is2xx(call(r).StatusCode) /\ (call(r).Err = "no certificate" \/ call(r).APIStatus))
    BY OutageCall
  <2> QED  BY <1>1, <1>2, <2>1, Zenon DEF Ping
<1>4. e = call(r) \/ e = callRaw(r)
  BY <1>2, <1>3
<1> QED  BY <1>4, OutageCall

\* A rejection is not, but for the probe.
LEMMA RejectionOps ==
    ASSUME NEW r \in Answers, Rejection(r),
           NEW e, e \in {call(r), callRaw(r), FindCSRID(r), SignCSR(r), GetCertificate(r)}
    PROVE  IsPermanent(e)
<1>1. call(r) # Nil
  BY RejectionCall
<1>2. FindCSRID(r) = call(r) /\ SignCSR(r) = call(r) /\ GetCertificate(r) = call(r)
  BY <1>1, Zenon DEF FindCSRID, SignCSR, GetCertificate
<1>3. e = call(r) \/ e = callRaw(r)
  BY <1>2
<1> QED  BY <1>3, RejectionCall DEF Lasting

\* A hint at the token is on every error that an answer becomes, also on those of
\* an answer that is served and has nothing of what is asked for.
LEMMA HintIsKept ==
    ASSUME NEW r \in Answers, r.net = "answered", hintsAtAuth(r), r.payload # "there"
    PROVE  LET e == GetCertificate(r) IN e # Nil /\ IsAuthFailure(e)
<1>0. do(r) = Nil
  BY DEF do
<1>1. ASSUME NEW e, e.kind = "api", e.authHint PROVE e # Nil /\ IsAuthFailure(e)
  BY <1>1, ErrorNotNil DEF IsAuthFailure
<1>2. ASSUME NEW e, NEW code, NEW permanent, NEW cause,
             e = APIError(code, FALSE, hintsAtAuth(r), permanent, cause)
      PROVE  e.kind = "api" /\ e.authHint
  <2>1. e.authHint <=> hintsAtAuth(r)
    BY <1>2, Zenon DEF APIError
  <2>2. e.kind = "api"
    BY <1>2, Zenon DEF APIError
  <2> QED  BY <2>1, <2>2
<1>3. CASE ~is2xx(r.code)
  <2>1. call(r) = notServed(r)
    BY <1>0, <1>3, Zenon DEF call
  <2>2. GetCertificate(r) = notServed(r)
    BY <2>1, NotServed, Zenon DEF GetCertificate
  <2> QED  BY <1>1, <2>2, NotServed
<1>4. CASE is2xx(r.code) /\ r.json # "json"
  <2>1. call(r) = APIError(r.code, FALSE, hintsAtAuth(r), TRUE, "parse")
    BY <1>0, <1>4, Zenon DEF call
  <2>2. call(r) # Nil /\ IsAuthFailure(call(r))
    BY <1>1, <1>2, <2>1, Zenon
  <2>3. GetCertificate(r) = call(r)
    BY <2>2, Zenon DEF GetCertificate
  <2> QED  BY <2>2, <2>3
<1>5. CASE is2xx(r.code) /\ r.json = "json" /\ ~succeeded(r)
  <2>1. call(r) = rejected(r)
    BY <1>0, <1>5, Zenon DEF call
  <2>2. GetCertificate(r) = rejected(r)
    BY <2>1, Rejected, Zenon DEF GetCertificate
  <2> QED  BY <1>1, <2>2, Rejected DEF Lasting
<1>6. CASE is2xx(r.code) /\ r.json = "json" /\ succeeded(r)
  <2>1. call(r) = Nil
    BY <1>0, <1>6, Zenon DEF call
  <2>2. \/ GetCertificate(r) = APIError(0, FALSE, hintsAtAuth(r), TRUE, "unparsable")
        \/ GetCertificate(r) = APIError(0, FALSE, hintsAtAuth(r), FALSE, "no certificate")
    <3>1. r.payload = "garbled" \/ r.payload = "none"
      BY AnswerTypes
    <3> QED  BY <2>1, <3>1, Zenon DEF GetCertificate
  <2> QED  BY <1>1, <1>2, <2>2, Zenon
<1> QED  BY <1>3, <1>4, <1>5, <1>6

\* The probe notices that the token is rejected.
LEMMA TokenPing ==
    ASSUME NEW r \in Answers, RejectedToken(r)
    PROVE  Ping(r) # Nil
<1>1. CASE r.code \in {401, 403}
  <2>1. do(r) = Nil /\ ~is2xx(r.code)
    BY <1>1 DEF do, is2xx, RejectedToken
  <2>2. call(r) = notServed(r)
    BY <2>1, Zenon DEF call
  <2>3. GetCertificate(r) = notServed(r) /\ notServed(r) # Nil
    BY <2>2, NotServed, Zenon DEF GetCertificate
  <2>4. IsAuthFailure(GetCertificate(r))
    BY <1>1, <2>3, NotServed DEF IsAuthFailure
  <2> QED  BY <2>3, <2>4, Zenon DEF Ping
<1>2. CASE r.code \notin {401, 403}
  <2>1. GetCertificate(r) # Nil /\ IsAuthFailure(GetCertificate(r))
    BY <1>2, HintIsKept DEF RejectedToken
  <2> QED  BY <2>1, Zenon DEF Ping
<1> QED  BY <1>1, <1>2

\* A success is no error.
LEMMA Served ==
    ASSUME NEW r, r.net = "answered", r.code = 200, r.json = "json", r.status = "success"
    PROVE  call(r) = Nil
<1>1. do(r) = Nil /\ is2xx(r.code) /\ succeeded(r)
  BY DEF do, is2xx, succeeded
<1> QED  BY <1>1 DEF call

LEMMA SuccessOps ==
    call(Success) = Nil /\ SignCSR(Success) = Nil /\ GetCertificate(Success) = Nil
<1>1. /\ Success.net = "answered" /\ Success.code = 200 /\ Success.json = "json"
      /\ Success.status = "success" /\ Success.payload = "there"
  BY DEF Success
<1>2. call(Success) = Nil
  BY <1>1, Served
<1> QED  BY <1>1, <1>2 DEF SignCSR, GetCertificate

\* Nothing is there yet.
LEMMA NothingYet ==
    ASSUME NEW r, r = [ Success EXCEPT !.payload = "none" ]
    PROVE  Transient(GetCertificate(r)) /\ Transient(FindCSRID(r))
<1>1. /\ r.net = "answered" /\ r.code = 200 /\ r.json = "json"
      /\ r.status = "success" /\ r.payload = "none"
  BY DEF Success
<1>2. call(r) = Nil
  BY <1>1, Served
<1>3. /\ GetCertificate(r) = APIError(0, FALSE, hintsAtAuth(r), FALSE, "no certificate")
      /\ FindCSRID(r) = APIError(0, FALSE, hintsAtAuth(r), FALSE, "no CSR id")
  BY <1>1, <1>2 DEF GetCertificate, FindCSRID
<1> QED  BY <1>3, Permanence, Zenon
=============================================================================
