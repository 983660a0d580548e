------------------------------- MODULE Client -------------------------------
(***************************************************************************)
(* The REST client of internal/kmp: how an answer of Key Manager Plus      *)
(* becomes a result or an *Error, and which errors are permanent.          *)
(*                                                                         *)
(* An answer is abstracted to what the code tells apart:                   *)
(*   net      "answered", or "refused" (the transport failed) or "cut"     *)
(*            (the body could not be read to its end);                     *)
(*   code     the HTTP status code;                                        *)
(*   json     the body parses as JSON ("json"), does not ("text"), or      *)
(*            there is none ("empty");                                     *)
(*   status   the status field: absent, a success word, any other word;    *)
(*   message  the message field: absent, neutral, one with a failure word, *)
(*            one that hints at a rejected AUTHTOKEN and has a failure word *)
(*            ("auth", Invalid AUTHTOKEN) or has none ("authPlain", Not     *)
(*            authorized);                                                 *)
(*   payload  what the operation reads from the answer (certificates, an   *)
(*            id, the identity of what was signed) is "there", is missing   *)
(*            ("none"), or is a PEM block that does not parse ("garbled").  *)
(* Search for a field by name (findScalar) is abstracted to its result.    *)
(***************************************************************************)
EXTENDS Naturals

Codes == 0..999

\* Only a body that parses has fields, and an empty one says nothing.
AnswersOf(codes) ==
    { r \in [ net     : {"answered", "refused", "cut"},
              code    : codes,
              json    : {"json", "text", "empty"},
              status  : {"none", "success", "other"},
              message : {"none", "neutral", "failure", "auth", "authPlain"},
              payload : {"there", "none", "garbled"} ] :
        /\ r.json # "json" => r.status = "none"
        /\ r.json = "empty" => r.message = "none" /\ r.payload = "none" }

Answers == AnswersOf(Codes)

\* A plain 200 answer that reports success.
Success ==
    [ net |-> "answered", code |-> 200, json |-> "json", status |-> "success",
      message |-> "none", payload |-> "there" ]

-----------------------------------------------------------------------------
\* Errors: *kmp.Error ("api"), the two sentinels, and anything else.

Nil == [ kind |-> "nil" ]

APIError(code, hasStatus, auth, permanent, cause) ==
    [ kind |-> "api", StatusCode |-> code, APIStatus |-> hasStatus,
      authHint |-> auth, Permanent |-> permanent, Err |-> cause ]

ErrInvalidConfig    == [ kind |-> "invalidConfig" ]
ErrUnusableResponse == [ kind |-> "unusable" ]
OtherError          == [ kind |-> "other" ]

IsPermanent(e) ==
    \/ e.kind \in {"invalidConfig", "unusable"}
    \/ e.kind = "api" /\ e.Permanent

\* Mutant: a server error is taken for a rejection.
permanentStatusAbove400(code) == code >= 400

permanentStatus(code) ==
    code \notin {408, 429} /\ code >= 400 /\ code < 500

\* Mutant: only the status code is looked at.
isAuthStatus(e) == e.kind = "api" /\ e.StatusCode \in {401, 403}

IsAuthFailure(e) ==
    e.kind = "api" /\ (e.StatusCode \in {401, 403} \/ e.authHint)

-----------------------------------------------------------------------------
\* Reading the answer.

is2xx(code) == code >= 200 /\ code <= 299

\* The message hints at a rejected AUTHTOKEN (authFailureHints).
hintsAtAuth(r) == r.message \in {"auth", "authPlain"}

hasFailureMessage(r) == r.message \in {"failure", "auth"}

\* Mutant: an answer without a status field is a success whatever it says.
succeededUnlessStatus(r) == r.status \in {"none", "success"}

succeeded(r) ==
    \/ r.status = "none" /\ ~hasFailureMessage(r)
    \/ r.status = "success"

\* A field is only there when the body parses; the body text is recorded
\* whether it parses or not, so an auth hint in it is always seen.
do(r) ==
    CASE r.net = "refused" -> APIError(0, FALSE, FALSE, FALSE, "transport")
      [] r.net = "cut"     -> APIError(r.code, FALSE, FALSE, FALSE, "read")
      [] OTHER             -> Nil

notServed(r) ==
    APIError(r.code, r.json = "json" /\ r.status # "none", hintsAtAuth(r),
             permanentStatus(r.code), "nil")

rejected(r) ==
    APIError(r.code, r.status # "none", hintsAtAuth(r), TRUE, "nil")

call(r) ==
    IF do(r) # Nil          THEN do(r)
    ELSE IF ~is2xx(r.code)  THEN notServed(r)
    ELSE IF r.json # "json" THEN APIError(r.code, FALSE, hintsAtAuth(r), TRUE, "parse")
    ELSE IF ~succeeded(r)   THEN rejected(r)
    ELSE Nil

callRaw(r) ==
    IF do(r) # Nil                           THEN do(r)
    ELSE IF ~is2xx(r.code)                   THEN notServed(r)
    ELSE IF r.json = "json" /\ ~succeeded(r) THEN rejected(r)
    ELSE IF r.json = "empty"                 THEN APIError(r.code, FALSE, FALSE, FALSE, "empty")
    ELSE Nil

\* The errors built after a successful call carry no status code.
FindCSRID(r) ==
    IF call(r) # Nil           THEN call(r)
    ELSE IF r.payload = "none" THEN APIError(0, FALSE, hintsAtAuth(r), FALSE, "no CSR id")
    ELSE Nil

\* Of the records of one common name the highest id wins (see Responses).
highestID(found) == { id \in found : \A i \in found : i <= id }

SignCSR(r) ==
    IF call(r) # Nil           THEN call(r)
    ELSE IF r.payload = "none" THEN APIError(0, FALSE, hintsAtAuth(r), TRUE, "unidentified")
    ELSE Nil

GetCertificate(r) ==
    IF call(r) # Nil              THEN call(r)
    ELSE IF r.payload = "garbled" THEN APIError(0, FALSE, hintsAtAuth(r), TRUE, "unparsable")
    ELSE IF r.payload = "none"    THEN APIError(0, FALSE, hintsAtAuth(r), FALSE, "no certificate")
    ELSE Nil

Ping(r) ==
    LET e == GetCertificate(r) IN
    IF e = Nil                 THEN Nil
    ELSE IF IsAuthFailure(e)   THEN e
    ELSE IF is2xx(e.StatusCode) /\ (e.Err = "no certificate" \/ e.APIStatus) THEN Nil
    ELSE e

-----------------------------------------------------------------------------
\* Kinds of answers the properties tell apart.

\* Timeouts, connection failures and server errors.
Outage(r) == r.net # "answered" \/ r.code \in {408, 429} \/ r.code >= 500

\* Key Manager Plus says no: by a status code, or by its answer.
Rejection(r) ==
    /\ r.net = "answered" /\ ~Outage(r)
    /\ \/ r.code >= 400
       \/ is2xx(r.code) /\ r.json = "json" /\ r.status = "other"
       \/ is2xx(r.code) /\ r.json = "json" /\ r.status = "none" /\ hasFailureMessage(r)

\* It says no to the token, and does not serve the call.
RejectedToken(r) ==
    /\ r.net = "answered"
    /\ r.code \in {401, 403} \/ (hintsAtAuth(r) /\ r.payload # "there")
=============================================================================
