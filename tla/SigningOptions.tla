--------------------------- MODULE SigningOptions ---------------------------
(***************************************************************************)
(* The signing configuration of an issuer: whether it is usable (Validate, *)
(* internal/kmp/signer.go), how it is merged with what a request asks for  *)
(* (signRequest) and what of it is sent to Key Manager Plus (details,      *)
(* internal/kmp/client.go).                                                *)
(*                                                                         *)
(* A pointer that is nil is 0, or "nil".  A duration is counted in hours.  *)
(***************************************************************************)
EXTENDS Client

SignTypes == {"MSCA", "MSCAusingAgent", "signWithRoot"}

\* Signing options as the API server lets them through: the sign type is one of
\* an enumeration, numbers are at least 1 when they are set.
IssuerSpec ==
    [ URL                         : {"usable", "unusable"},
      SignType                    : SignTypes \cup {""},
      ServerName                  : STRING,
      CAName                      : STRING,
      TemplateName                : STRING,
      AgentName                   : STRING,
      AgentResponseTimeoutSeconds : Nat,
      RootCertificateCommonName   : STRING,
      RootCertificateSerialNumber : STRING,
      ValidityDays                : Nat,
      IsIntermediate              : {"nil", "true", "false"},
      CSRLookupOperation          : STRING ]

signType(o) == IF o.SignType = "" THEN "MSCA" ELSE o.SignType

requireMSCAFields(o) ==
    IF "" \in {o.ServerName, o.CAName, o.TemplateName} THEN ErrInvalidConfig ELSE Nil

Validate(o) ==
    CASE signType(o) = "MSCA"           -> requireMSCAFields(o)
      [] signType(o) = "MSCAusingAgent" -> IF o.AgentName = "" THEN ErrInvalidConfig
                                           ELSE requireMSCAFields(o)
      [] signType(o) = "signWithRoot"   -> IF o.RootCertificateCommonName = ""
                                           THEN ErrInvalidConfig ELSE Nil
      [] OTHER                          -> ErrInvalidConfig

-----------------------------------------------------------------------------
\* Mutant: a day that has begun is not counted.
wholeDays(hours) == hours \div 24

\* Whole days that cover a duration, at least one.
validityDays(hours) == LET days == (hours + 23) \div 24 IN IF days < 1 THEN 1 ELSE days

\* Only signing with a root takes a validity and the wish for a CA certificate
\* from the request, and only where the issuer does not pin them.
signRequest(o, csr, asked) ==
    LET withRoot == signType(o) = "signWithRoot"
    IN  [ CSRID                       |-> csr,
          SignType                    |-> signType(o),
          ServerName                  |-> o.ServerName,
          CAName                      |-> o.CAName,
          TemplateName                |-> o.TemplateName,
          AgentName                   |-> o.AgentName,
          AgentResponseTimeoutSeconds |-> o.AgentResponseTimeoutSeconds,
          RootCertificateCommonName   |-> o.RootCertificateCommonName,
          RootCertificateSerialNumber |-> o.RootCertificateSerialNumber,
          ValidityDays   |-> IF withRoot /\ o.ValidityDays = 0 /\ asked.hours > 0
                             THEN validityDays(asked.hours) ELSE o.ValidityDays,
          IsIntermediate |-> IF withRoot /\ o.IsIntermediate = "nil" /\ asked.isCA
                             THEN "true" ELSE o.IsIntermediate ]

\* The fields every request of a sign type carries.
RequiredFields(type) ==
    {"CSRID", "SignType"} \cup
    CASE type = "signWithRoot"   -> {"RootCertificateCommonName"}
      [] type = "MSCAusingAgent" -> {"ServerName", "CAName", "TemplateName", "AgentName"}
      [] OTHER                   -> {"ServerName", "CAName", "TemplateName"}

\* The fields that are left out when they are not set.
OptionalFields(r) ==
    CASE r.SignType = "signWithRoot" ->
            (IF r.RootCertificateSerialNumber # "" THEN {"RootCertificateSerialNumber"} ELSE {})
            \cup (IF r.ValidityDays # 0 THEN {"ValidityDays"} ELSE {})
            \cup (IF r.IsIntermediate # "nil" THEN {"IsIntermediate"} ELSE {})
      [] r.SignType = "MSCAusingAgent" ->
            IF r.AgentResponseTimeoutSeconds # 0 THEN {"AgentResponseTimeoutSeconds"} ELSE {}
      [] OTHER -> {}

details(r) == [ f \in RequiredFields(r.SignType) \cup OptionalFields(r) |-> r[f] ]
=============================================================================
