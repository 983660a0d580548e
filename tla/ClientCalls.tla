---------------------------- MODULE ClientCalls ----------------------------
(***************************************************************************)
(* One call of an operation of the client: whatever Key Manager Plus       *)
(* answers, or does not, and what the operation makes of it.               *)
(***************************************************************************)
EXTENDS ClientProofs

CONSTANT StatusCodes        \* the status codes that are met

ASSUME StatusCodesAssumption == StatusCodes \subseteq Codes

VARIABLES answer, op, err

vars == <<answer, op, err>>

Ops == {"json", "raw", "lookup", "sign", "fetch", "ping"}

Outcome(o, r) ==
    CASE o = "json"   -> call(r)
      [] o = "raw"    -> callRaw(r)
      [] o = "lookup" -> FindCSRID(r)
      [] o = "sign"   -> SignCSR(r)
      [] o = "fetch"  -> GetCertificate(r)
      [] o = "ping"   -> Ping(r)

Init == answer \in AnswersOf(StatusCodes) /\ op = "none" /\ err = Nil

Call(o) ==
    /\ op = "none"
    /\ op' = o /\ err' = Outcome(o, answer)
    /\ UNCHANGED answer

Done == op # "none" /\ UNCHANGED vars

Next == (\E o \in Ops : Call(o)) \/ Done

Spec == Init /\ [][Next]_vars

-----------------------------------------------------------------------------
\* Timeouts, connection failures and server errors are retried, by whichever
\* operation they are met (permanentIfUnrecoverable, controllers/signer.go:208-211).
OutageRetried ==
    op \in Ops /\ Outage(answer) => err # Nil /\ ~IsPermanent(err)

\* A rejection is not retried, whether the status code tells of it, the status
\* field, or only the message (IsPermanent; call, callRaw).
RejectionNotRetried ==
    op \in Ops \ {"ping"} /\ Rejection(answer) => IsPermanent(err)

\* The probe does not report an issuer healthy when Key Manager Plus rejects the
\* token, in whatever form it does so (Ping, IsAuthFailure).
RejectedTokenUnhealthy == op = "ping" /\ RejectedToken(answer) => err # Nil

\* "An empty result still proves the token was accepted" (Ping, client.go:563-566).
EmptyResultHealthy ==
    op = "ping" /\ answer = [ Success EXCEPT !.payload = "none" ] => err = Nil

-----------------------------------------------------------------------------

(***************************************************************************)
(* An operation is called once, on the answer there is: what its outcome   *)
(* is follows from the lemmas about the operations.                        *)
(***************************************************************************)
CallInv ==
    /\ answer \in Answers
    /\ op \in Ops => err = Outcome(op, answer)

LEMMA CallInvHolds == Spec => []CallInv
<1>1. Init => CallInv
  <2> SUFFICES ASSUME Init PROVE CallInv
    OBVIOUS
  <2>1. answer \in Answers
    BY StatusCodesAssumption DEF Init, AnswersOf, Answers
  <2>2. op \notin Ops
    BY DEF Init, Ops
  <2> QED  BY <2>1, <2>2 DEF CallInv
<1>2. CallInv /\ [Next]_vars => CallInv'
  BY Zenon DEF CallInv, Next, Call, Done, vars
<1> QED  BY <1>1, <1>2, PTL DEF Spec

\* What an operation returns is one of the results the lemmas speak of.
LEMMA OutcomeOf ==
    ASSUME CallInv, op \in Ops
    PROVE  /\ err \in {call(answer), callRaw(answer), FindCSRID(answer), SignCSR(answer),
                       GetCertificate(answer), Ping(answer)}
           /\ op # "ping" => err \in {call(answer), callRaw(answer), FindCSRID(answer),
                                      SignCSR(answer), GetCertificate(answer)}
           /\ op = "ping" => err = Ping(answer)
BY DEF CallInv, Ops, Outcome

\* No outage is taken for something that retrying cannot mend, whichever of the
\* operations meets it and whatever three-digit status code reports it.
THEOREM OutagesRetried == Spec => []OutageRetried
<1>1. CallInv => OutageRetried
  BY OutcomeOf, OutageOps DEF CallInv, OutageRetried, Transient
<1> QED  BY <1>1, CallInvHolds, PTL

\* Every rejection is permanent, in all operations but the probe: by any 4xx code
\* but 408 and 429, or by what a served answer says.
THEOREM RejectionsNotRetried == Spec => []RejectionNotRetried
<1>1. CallInv => RejectionNotRetried
  BY OutcomeOf, RejectionOps DEF CallInv, RejectionNotRetried
<1> QED  BY <1>1, CallInvHolds, PTL

\* The probe passes no rejected token.
THEOREM ProbeNoticesToken == Spec => []RejectedTokenUnhealthy
<1>1. CallInv => RejectedTokenUnhealthy
  BY OutcomeOf, TokenPing DEF CallInv, RejectedTokenUnhealthy, Ops
<1> QED  BY <1>1, CallInvHolds, PTL
=============================================================================
