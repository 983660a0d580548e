--------------------------- MODULE EscrowHistory ---------------------------
(***************************************************************************)
(* EscrowController with a history variable.  The informer cache of a      *)
(* Secret may lag, and issuanceNeeded then decides on a version that has   *)
(* been replaced; what that can cost is a statement about the Secret       *)
(* before its last change, which no variable of the program holds.         *)
(* HistorySpec allows the behaviours of Spec: replaced is only written.    *)
(***************************************************************************)
EXTENDS EscrowController

VARIABLE replaced   \* what a Secret was before it last changed

historyVars == <<vars, replaced>>

Remember ==
    replaced' = [ s \in SecretNames |->
                    IF secrets'[s] = secrets[s] THEN replaced[s] ELSE secrets[s] ]

HistoryInit == Init /\ replaced = [ s \in SecretNames |-> Absent ]

HistorySpec == HistoryInit /\ [][Next /\ Remember]_historyVars

\* A stale cache costs one certificate and no more: a certificate is replaced
\* only when it, or else what the Secret was before it, was missing, mismatching
\* or due under the spec in hand.  Two certificates in a row that are as they
\* should be are not followed by a third, although every write wakes the
\* reconciler before the informer has shown it the Secret, and although four
\* calls lie between the decision and the write (issuanceNeeded, writeSecret).
ReplacedOnceTooOften ==
    [][ \A s \in SecretNames :
          holdsPair(secrets[s]) /\ holdsPair(secrets'[s]) /\ secrets'[s] # secrets[s] =>
            \/ issuanceNeeded(snap.spec, secrets[s])
            \/ issuanceNeeded(snap.spec, replaced[s]) ]_historyVars
=============================================================================
