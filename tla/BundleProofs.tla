---------------------------- MODULE BundleProofs ----------------------------
(***************************************************************************)
(* Proofs about BuildBundle, for every set of certificates and every       *)
(* answer.  The inductive invariant adds to SingleChain where everything   *)
(* is: the chain and the remaining certificates are the answer, without    *)
(* overlap, and a chain that is done has no issuer left or ends in itself. *)
(***************************************************************************)
EXTENDS Bundle, SequenceTheorems, TLAPS

\* The answer is a sequence of different certificates (certificatesFromStrings).
AnswerOK == certs \in Seq(Pool) /\ Distinct(certs)

\* What is not in the chain remains, once and only once.
Partition ==
    pc \in {"climb", "done"} =>
        /\ Elements(chain) \cup Elements(remaining) = Elements(certs)
        /\ Elements(chain) \cap Elements(remaining) = {}
        /\ Distinct(remaining)

\* Nothing is in the chain before the leaf has been found.
EmptyBefore == pc \in {"leaf", "failed"} => chain = <<>> /\ remaining = <<>>

\* The two ways the loop ends.
Stopped ==
    pc = "done" =>
        \/ isSelfSigned(Last(chain))
        \/ \A d \in Elements(remaining) : ~isIssuer(d, Last(chain))

BundleInv == TypeOK /\ AnswerOK /\ Partition /\ EmptyBefore /\ SingleChain /\ Stopped

-----------------------------------------------------------------------------
(***************************************************************************)
(* Sequences.                                                              *)
(***************************************************************************)

\* What is left of a sequence without one of its elements.
LEMMA WithoutType ==
    ASSUME NEW s \in Seq(Pool), NEW i \in 1..Len(s)
    PROVE  /\ without(s, i) \in Seq(Pool)
           /\ Len(without(s, i)) = Len(s) - 1
           /\ \A j \in 1..(Len(s) - 1) : without(s, i)[j] = IF j < i THEN s[j] ELSE s[j + 1]
<1> DEFINE a == SubSeq(s, 1, i - 1)
           b == SubSeq(s, i + 1, Len(s))
<1>1. a \in Seq(Pool) /\ Len(a) = i - 1 /\ \A j \in 1..(i - 1) : a[j] = s[j]
  OBVIOUS
<1>2. /\ b \in Seq(Pool) /\ Len(b) = Len(s) - i
      /\ \A j \in 1..(Len(s) - i) : b[j] = s[i + j]
  OBVIOUS
<1> HIDE DEF a, b
<1>3. /\ a \o b \in Seq(Pool) /\ Len(a \o b) = Len(a) + Len(b)
      /\ \A j \in 1..(Len(a) + Len(b)) :
            (a \o b)[j] = IF j <= Len(a) THEN a[j] ELSE b[j - Len(a)]
  BY <1>1, <1>2, ConcatProperties
<1> DEFINE t == a \o b
<1>t. /\ t \in Seq(Pool) /\ Len(t) = Len(s) - 1
      /\ \A j \in 1..(Len(s) - 1) : t[j] = IF j <= i - 1 THEN a[j] ELSE b[j - (i - 1)]
  BY <1>1, <1>2, <1>3
<1> HIDE DEF t
<1>4. ASSUME NEW j \in 1..(Len(s) - 1)
      PROVE  t[j] = IF j < i THEN s[j] ELSE s[j + 1]
  <2>1. CASE j < i
    <3>1. j \in 1..(i - 1)
      BY <2>1
    <3> QED  BY <2>1, <3>1, <1>1, <1>t
  <2>2. CASE ~(j < i)
    <3>1. j - (i - 1) \in 1..(Len(s) - i) /\ i + (j - (i - 1)) = j + 1
      BY <2>2
    <3> QED  BY <2>2, <3>1, <1>2, <1>t
  <2> QED  BY <2>1, <2>2
<1> QED  BY <1>t, <1>4 DEF without, t, a, b

\* Of different elements, all the others are left, and they are different.
LEMMA WithoutElements ==
    ASSUME NEW s \in Seq(Pool), NEW i \in 1..Len(s), Distinct(s)
    PROVE  /\ Elements(without(s, i)) = Elements(s) \ {s[i]}
           /\ Distinct(without(s, i))
<1> DEFINE t == without(s, i)
<1>1. /\ t \in Seq(Pool) /\ Len(t) = Len(s) - 1
      /\ \A j \in 1..(Len(s) - 1) : t[j] = IF j < i THEN s[j] ELSE s[j + 1]
  BY WithoutType
<1> HIDE DEF t
<1>2. ASSUME NEW j \in 1..Len(t)
      PROVE  t[j] \in Elements(s) \ {s[i]}
  <2>1. CASE j < i
    BY <2>1, <1>1 DEF Elements, Distinct
  <2>2. CASE ~(j < i)
    BY <2>2, <1>1 DEF Elements, Distinct
  <2> QED  BY <2>1, <2>2
<1>3. ASSUME NEW j \in 1..Len(s), j # i
      PROVE  s[j] \in Elements(t)
  <2>1. CASE j < i
    <3>1. j \in 1..Len(t) /\ t[j] = s[j]
      BY <2>1, <1>1
    <3> QED  BY <3>1 DEF Elements
  <2>2. CASE j > i
    <3>1. j - 1 \in 1..Len(t) /\ t[j - 1] = s[j]
      BY <2>2, <1>1
    <3> QED  BY <3>1 DEF Elements
  <2> QED  BY <1>3, <2>1, <2>2
<1>4. Elements(t) = Elements(s) \ {s[i]}
  BY <1>2, <1>3 DEF Elements
<1>5. Distinct(t)
  <2> SUFFICES ASSUME NEW j \in 1..Len(t), NEW l \in 1..Len(t), t[j] = t[l]
               PROVE  j = l
    BY DEF Distinct
  <2> QED  BY <1>1 DEF Distinct
<1> QED  BY <1>4, <1>5 DEF t

\* One more element at the end.
LEMMA AppendFacts ==
    ASSUME NEW s \in Seq(Pool), NEW c \in Pool
    PROVE  /\ Append(s, c) \in Seq(Pool) /\ Len(Append(s, c)) = Len(s) + 1
           /\ \A j \in 1..Len(s) : Append(s, c)[j] = s[j]
           /\ Append(s, c)[Len(s) + 1] = c
           /\ Elements(Append(s, c)) = Elements(s) \cup {c}
<1>1. /\ Append(s, c) \in Seq(Pool) /\ Len(Append(s, c)) = Len(s) + 1
      /\ \A j \in 1..Len(s) : Append(s, c)[j] = s[j]
      /\ Append(s, c)[Len(s) + 1] = c
  OBVIOUS
<1>2. Len(s) \in Nat
  OBVIOUS
<1>3. 1..(Len(s) + 1) = 1..Len(s) \cup {Len(s) + 1}
  BY <1>2
<1> QED  BY <1>1, <1>3 DEF Elements

-----------------------------------------------------------------------------
(***************************************************************************)
(* The inductive invariant.                                                *)
(***************************************************************************)

\* The invariant holds before anything has been picked.
LEMMA BundleInit == Init => BundleInv
<1> SUFFICES ASSUME Init PROVE BundleInv
  OBVIOUS
<1>1. PICK n \in 0..MaxCerts : certs \in [ 1..n -> Pool ] /\ Distinct(certs)
  BY DEF Init, Inputs
<1>2. certs \in Seq(Pool)
  BY <1>1, MaxCertsAssumption
<1>3. <<>> \in Seq(Pool)
  OBVIOUS
<1> QED
  BY <1>1, <1>2, <1>3 DEF Init, BundleInv, TypeOK, AnswerOK, Partition, EmptyBefore,
                         SingleChain, Stopped

\* The leaf is taken out of the answer.
LEMMA FindLeafKeeps == BundleInv /\ FindLeaf => BundleInv'
<1> SUFFICES ASSUME BundleInv, FindLeaf PROVE BundleInv'
  OBVIOUS
<1>1. PICK i \in leafAt(certs, csrKey) :
        chain' = <<certs[i]>> /\ remaining' = without(certs, i)
  BY DEF FindLeaf
<1>2. i \in 1..Len(certs) /\ (csrKey # NoKey => certs[i].key = csrKey)
  BY <1>1 DEF leafAt
<1>3. pc = "leaf" /\ pc' = "climb" /\ UNCHANGED <<certs, csrKey>>
  BY DEF FindLeaf
<1>4. certs \in Seq(Pool) /\ Distinct(certs) /\ Len(certs) \in Nat /\ certs[i] \in Pool
  BY <1>2 DEF BundleInv, AnswerOK
<1>5. /\ remaining' \in Seq(Pool) /\ Len(remaining') = Len(certs) - 1
      /\ Elements(remaining') = Elements(certs) \ {certs[i]} /\ Distinct(remaining')
  BY <1>1, <1>2, <1>4, WithoutType, WithoutElements
<1>6. /\ chain' \in Seq(Pool) /\ Len(chain') = 1 /\ chain'[1] = certs[i] /\ chain' # <<>>
      /\ Elements(chain') = {certs[i]} /\ Distinct(chain')
  BY <1>1, <1>4 DEF Elements, Distinct
<1>7. certs[i] \in Elements(certs)
  BY <1>2 DEF Elements
<1>8. TypeOK' /\ AnswerOK' /\ EmptyBefore' /\ Stopped'
  BY <1>3, <1>4, <1>5, <1>6 DEF BundleInv, TypeOK, AnswerOK, EmptyBefore, Stopped
<1>9. Partition'
  BY <1>3, <1>5, <1>6, <1>7 DEF Partition
<1>10. SingleChain'
  BY <1>2, <1>3, <1>6 DEF SingleChain, Distinct
<1> QED  BY <1>8, <1>9, <1>10 DEF BundleInv

\* An issuer moves from the remaining certificates to the end of the chain.
LEMMA PopIssuerKeeps == BundleInv /\ PopIssuer => BundleInv'
<1> SUFFICES ASSUME BundleInv, PopIssuer PROVE BundleInv'
  OBVIOUS
<1>1. PICK i \in issuerAt(remaining, Last(chain)) :
        /\ chain' = Append(chain, remaining[i]) /\ remaining' = without(remaining, i)
        /\ pc' = IF isSelfSigned(remaining[i]) THEN "done" ELSE "climb"
  BY DEF PopIssuer
<1> DEFINE c == remaining[i]
           n == Len(chain)
<1>2. i \in 1..Len(remaining) /\ isIssuer(c, Last(chain))
  BY <1>1 DEF issuerAt
<1>3. pc = "climb" /\ UNCHANGED <<certs, csrKey>>
  BY DEF PopIssuer
<1>4. /\ chain \in Seq(Pool) /\ remaining \in Seq(Pool) /\ n \in Nat \ {0}
      /\ Len(remaining) \in Nat /\ c \in Pool /\ n + Len(remaining) = Len(certs)
  <2>1. chain # <<>> /\ chain \in Seq(Pool) /\ remaining \in Seq(Pool)
    BY <1>3 DEF BundleInv, TypeOK
  <2>2. Len(chain) \in Nat /\ Len(chain) # 0
    BY <2>1
  <2> QED  BY <2>1, <2>2, <1>2, <1>3 DEF BundleInv, TypeOK
<1>5. /\ Elements(chain) \cup Elements(remaining) = Elements(certs)
      /\ Elements(chain) \cap Elements(remaining) = {}
      /\ Distinct(remaining)
  BY <1>3 DEF BundleInv, Partition
<1>6. /\ remaining' \in Seq(Pool) /\ Len(remaining') = Len(remaining) - 1
      /\ Elements(remaining') = Elements(remaining) \ {c} /\ Distinct(remaining')
  BY <1>1, <1>2, <1>4, <1>5, WithoutType, WithoutElements
<1>7. /\ chain' \in Seq(Pool) /\ Len(chain') = n + 1
      /\ \A j \in 1..n : chain'[j] = chain[j]
      /\ chain'[n + 1] = c /\ Elements(chain') = Elements(chain) \cup {c}
  BY <1>1, <1>4, AppendFacts
<1>8. c \in Elements(remaining)
  BY <1>2 DEF Elements
<1> HIDE DEF c, n
<1>9. pc' \in {"climb", "done"} /\ (pc' = "done" => isSelfSigned(c))
  BY <1>1 DEF c
<1>10. chain' # <<>> /\ Last(chain') = c
  BY <1>4, <1>7 DEF Last
<1>11. TypeOK' /\ AnswerOK' /\ EmptyBefore'
  <2> DEFINE m == Len(remaining)
  <2>0. n \in Nat /\ m \in Nat /\ Len(chain') = n + 1 /\ Len(remaining') = m - 1
        /\ n + m = Len(certs)
    BY <1>4, <1>6, <1>7
  <2> HIDE DEF m
  <2>1. Len(chain') + Len(remaining') = Len(certs)
    <3>1. (n + 1) + (m - 1) = n + m
      BY <2>0
    <3> QED  BY <2>0, <3>1
  <2>2. TypeOK'
    BY <2>1, <1>3, <1>6, <1>7, <1>9, <1>10 DEF BundleInv, TypeOK
  <2>3. AnswerOK'
    BY <1>3 DEF BundleInv, AnswerOK
  <2> QED  BY <2>2, <2>3, <1>9 DEF EmptyBefore
<1>12. Stopped'
  BY <1>9, <1>10 DEF Stopped
<1>13. Partition'
  <2>1. /\ Elements(chain') \cup Elements(remaining') = Elements(certs)
        /\ Elements(chain') \cap Elements(remaining') = {}
    BY <1>5, <1>6, <1>7, <1>8
  <2> QED  BY <2>1, <1>3, <1>6 DEF Partition
<1>14. SingleChain'
  <2>1. /\ \A j \in 1..(n - 1) : isIssuer(chain[j + 1], chain[j])
        /\ Distinct(chain) /\ (csrKey # NoKey => chain[1].key = csrKey)
    BY <1>3, <1>4 DEF BundleInv, TypeOK, SingleChain, n
  <2>2. ASSUME NEW j \in 1..n PROVE isIssuer(chain'[j + 1], chain'[j])
    <3>1. CASE j = n
      BY <3>1, <1>2, <1>4, <1>7 DEF Last, n
    <3>2. CASE j # n
      <4>1. j \in 1..(n - 1) /\ j + 1 \in 1..n
        BY <3>2, <1>4
      <4> QED  BY <4>1, <2>1, <1>7
    <3> QED  BY <3>1, <3>2
  <2>3. ASSUME NEW j \in 1..n PROVE chain'[j] # c
    <3>1. chain[j] \in Elements(chain)
      BY DEF Elements, n
    <3> QED  BY <3>1, <1>5, <1>7, <1>8
  <2>4. ASSUME NEW j \in 1..(n + 1), NEW l \in 1..(n + 1), chain'[j] = chain'[l]
        PROVE  j = l
    <3>1. CASE j = n + 1 \/ l = n + 1
      <4>1. j \in 1..n \/ j = n + 1
        BY <1>4
      <4>2. l \in 1..n \/ l = n + 1
        BY <1>4
      <4> QED  BY <4>1, <4>2, <3>1, <2>3, <2>4, <1>7
    <3>2. CASE j # n + 1 /\ l # n + 1
      <4>1. j \in 1..n /\ l \in 1..n
        BY <3>2, <1>4
      <4> QED  BY <4>1, <2>4, <2>1, <1>7 DEF Distinct, n
    <3> QED  BY <3>1, <3>2
  <2>5. Distinct(chain')
    BY <2>4, <1>7 DEF Distinct
  <2>6. \A j \in 1..(Len(chain') - 1) : isIssuer(chain'[j + 1], chain'[j])
    BY <2>2, <1>4, <1>7
  <2>7. csrKey' # NoKey => chain'[1].key = csrKey'
    BY <2>1, <1>3, <1>4, <1>7
  <2> QED  BY <2>5, <2>6, <2>7 DEF SingleChain, Distinct
<1> QED  BY <1>11, <1>12, <1>13, <1>14 DEF BundleInv

\* Every step of BuildBundle.
LEMMA BundleNext == BundleInv /\ [Next]_vars => BundleInv'
<1> SUFFICES ASSUME BundleInv, [Next]_vars PROVE BundleInv'
  OBVIOUS
<1> USE DEF BundleInv, TypeOK, AnswerOK, Partition, EmptyBefore, SingleChain, Stopped
<1>1. CASE NoLeaf
  BY <1>1 DEF NoLeaf
<1>2. CASE FindLeaf
  BY <1>2, FindLeafKeeps
<1>3. CASE PopIssuer
  BY <1>3, PopIssuerKeeps
<1>4. CASE NoIssuer
  <2>1. \A d \in Elements(remaining) : ~isIssuer(d, Last(chain))
    BY <1>4 DEF NoIssuer, Elements
  <2> QED  BY <2>1, <1>4 DEF NoIssuer
<1>5. CASE UNCHANGED vars
  BY <1>5 DEF vars, Last
<1> QED
  BY <1>1, <1>2, <1>3, <1>4, <1>5 DEF Next, Returned

-----------------------------------------------------------------------------
(***************************************************************************)
(* Theorems.                                                               *)
(***************************************************************************)

\* The inductive invariant holds throughout BuildBundle.
THEOREM BundleInvariant == Spec => []BundleInv
  BY BundleInit, BundleNext, PTL DEF Spec

\* BuildBundle's variables keep their types, and no certificate gets lost
\* between the chain and the remaining ones.
THEOREM BundleTypes == Spec => []TypeOK
<1>1. BundleInv => TypeOK
  BY DEF BundleInv
<1> QED  BY <1>1, BundleInvariant, PTL

\* Whatever Key Manager Plus returns, and in whatever order, BuildBundle makes a
\* single chain out of it: each certificate signed by the next, none twice, the
\* first one for the key of the request (chain.go:37-40).
THEOREM BundleIsChain == Spec => []SingleChain
<1>1. BundleInv => SingleChain
  BY DEF BundleInv
<1> QED  BY <1>1, BundleInvariant, PTL

\* The certificates of a finished chain contain their issuers.
LEMMA DoneIsClosed ==
    ASSUME BundleInv, pc = "done", NoCrossSigning
    PROVE  ClosedUnderIssuers(Elements(chain))
<1> SUFFICES ASSUME NEW c \in Elements(chain), NEW d \in Elements(certs), isIssuer(d, c)
             PROVE  d \in Elements(chain)
  BY DEF ClosedUnderIssuers
<1>1. /\ Elements(chain) \cup Elements(remaining) = Elements(certs)
      /\ chain # <<>> /\ chain \in Seq(Pool)
  BY DEF BundleInv, Partition, TypeOK
<1>2. PICK i \in 1..Len(chain) : c = chain[i]
  BY DEF Elements
<1>3. Len(chain) \in Nat /\ Len(chain) # 0
  BY <1>1
<1>4. CASE i = Len(chain)
  <2>1. CASE isSelfSigned(Last(chain))
    <3>1. isIssuer(c, c)
      BY <2>1, <1>2, <1>4 DEF Last, isSelfSigned, isIssuer
    <3> QED  BY <3>1, <1>1 DEF NoCrossSigning
  <2>2. CASE \A e \in Elements(remaining) : ~isIssuer(e, Last(chain))
    BY <2>2, <1>1, <1>2, <1>4 DEF Last
  <2> QED  BY <2>1, <2>2 DEF BundleInv, Stopped
<1>5. CASE i # Len(chain)
  <2>1. i \in 1..(Len(chain) - 1) /\ i + 1 \in 1..Len(chain)
    BY <1>3, <1>5
  <2>2. isIssuer(chain[i + 1], c) /\ chain[i + 1] \in Elements(chain)
    BY <2>1, <1>1, <1>2 DEF BundleInv, SingleChain, Elements
  <2> QED  BY <2>2, <1>1 DEF NoCrossSigning
<1> QED  BY <1>4, <1>5

\* A root in the chain is its end.
LEMMA RootIsLast ==
    ASSUME BundleInv, pc = "done", NoCrossSigning,
           NEW root \in Elements(chain), isSelfSigned(root)
    PROVE  Last(chain) = root
<1>1. /\ Elements(chain) \subseteq Elements(certs)
      /\ chain # <<>> /\ chain \in Seq(Pool) /\ Distinct(chain)
  BY DEF BundleInv, Partition, TypeOK, SingleChain
<1>2. PICK i \in 1..Len(chain) : root = chain[i]
  BY DEF Elements
<1>3. Len(chain) \in Nat
  BY <1>1
<1>4. SUFFICES ASSUME i # Len(chain) PROVE FALSE
  BY <1>2 DEF Last
<1>5. i \in 1..(Len(chain) - 1) /\ i + 1 \in 1..Len(chain) /\ i # i + 1
  BY <1>3, <1>4
<1>6. isIssuer(chain[i + 1], root) /\ isIssuer(root, root) /\ chain[i + 1] \in Elements(chain)
  BY <1>1, <1>2, <1>5 DEF BundleInv, SingleChain, Elements, isSelfSigned, isIssuer
<1>7. chain[i + 1] = root
  BY <1>1, <1>6 DEF NoCrossSigning
<1> QED  BY <1>1, <1>2, <1>5, <1>7 DEF Distinct

\* When nothing in the answer is cross-signed, the chain ends at the root that
\* the answer leads to, however many certificates there are and in whatever
\* order ("ending at the root when Key Manager Plus returned one",
\* chain.go:33-35).
THEOREM BundleReachesRoot == Spec => []EndsAtRoot
<1>1. BundleInv => EndsAtRoot
  <2> SUFFICES ASSUME BundleInv, pc = "done", NoCrossSigning,
                      NEW root \in Elements(certs), ReachableRoot(root)
               PROVE  Last(chain) = root
    BY DEF EndsAtRoot
  <2>1. Elements(chain) \in SUBSET Elements(certs)
    BY DEF BundleInv, Partition
  <2>2. chain[1] \in Elements(chain)
    <3>1. chain # <<>> /\ chain \in Seq(Pool)
      BY DEF BundleInv, TypeOK
    <3>2. 1 \in 1..Len(chain)
      BY <3>1
    <3> QED  BY <3>2 DEF Elements
  <2>3. root \in Elements(chain)
    BY <2>1, <2>2, DoneIsClosed DEF ReachableRoot
  <2> QED  BY <2>3, RootIsLast DEF ReachableRoot
<1> QED  BY <1>1, BundleInvariant, PTL
=============================================================================
