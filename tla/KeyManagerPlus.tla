--------------------------- MODULE KeyManagerPlus ---------------------------
(***************************************************************************)
(* Key Manager Plus and the certificate authority behind it, as the code   *)
(* under internal/kmp uses them.  The service is external: only what the   *)
(* controllers can observe is modelled.                                    *)
(*                                                                         *)
(* A stored CSR is known by its id, its position in the sequence csrs      *)
(* ("ids are assigned in creation order").  A certificate is known by its  *)
(* serial number, its position in the sequence certs.  Both logs only      *)
(* grow: the controllers never delete anything from Key Manager Plus.      *)
(***************************************************************************)
EXTENDS Integers, Sequences

NoID == 0           \* the empty CSR id / serial number

(***************************************************************************)
(* The identity a request asks for, or a certificate carries: the common   *)
(* name, DNS and IP subject alternative names, and the organization (which *)
(* stands for the organizational unit too; "" when there is none).         *)
(***************************************************************************)
Identity(cn, dns, ips, org) ==
    [ cn |-> cn, dns |-> dns, ips |-> ips, org |-> org ]

(***************************************************************************)
(* What the CA makes of a requested identity.  A Microsoft CA template may *)
(* build the subject itself: it can then drop the alternative names, drop  *)
(* the organization, or put its own common name in place.                  *)
(***************************************************************************)
Templates == {"supplied", "dropsNames", "dropsOrganization", "rewritesName"}

CertifiedIdentity(id, template) ==
    CASE template = "dropsNames"        -> [ id EXCEPT !.dns = {}, !.ips = {} ]
      [] template = "dropsOrganization" -> [ id EXCEPT !.org = "" ]
      [] template = "rewritesName"      -> [ id EXCEPT !.cn = "rewritten" ]
      [] OTHER                          -> id

\* The list operation answers with the listed CSRs of one common name.
ListedFor(csrs, listed, cn) == { i \in listed : csrs[i].id.cn = cn }

\* getCertificate searches by serial number when it is given one, by the
\* common name of the request otherwise.
PublishedFor(csrs, certs, published, cn, serial) ==
    IF serial # NoID
    THEN published \cap {serial}
    ELSE { n \in published : csrs[certs[n].csr].id.cn = cn }
=============================================================================
