------------------------------ MODULE MCBundle ------------------------------
(***************************************************************************)
(* Answers made of two leaves, an intermediate certified by two roots, its *)
(* namesake with another key, a certificate that may not sign, the roots,  *)
(* and the cross-certificates with which the roots sign each other.        *)
(***************************************************************************)
EXTENDS Bundle

mcCert(subject, issuer, key, signedBy, isCA) ==
    [ subject |-> subject, issuer |-> issuer, key |-> key, signedBy |-> signedBy, isCA |-> isCA ]

mcPool ==
    { mcCert("app", "inter", "k1", "ki", FALSE),
      mcCert("app", "inter", "k2", "ki", FALSE),
      mcCert("inter", "rootA", "ki", "ka", TRUE),
      mcCert("inter", "rootB", "ki", "kb", TRUE),
      mcCert("inter", "rootA", "kn", "ka", TRUE),
      mcCert("inter", "rootA", "ki", "ka", FALSE),
      mcCert("rootA", "rootA", "ka", "ka", TRUE),
      mcCert("rootB", "rootB", "kb", "kb", TRUE),
      mcCert("rootA", "rootB", "ka", "kb", TRUE),
      mcCert("rootB", "rootA", "kb", "ka", TRUE) }
=============================================================================
