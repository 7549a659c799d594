---------------------------- MODULE DocumentsProofs ----------------------------
(***************************************************************************)
(* Write sets: statements on a collection make write sets of it, and a     *)
(* commit of one leaves a collection of documents.                         *)
(***************************************************************************)
EXTENDS Documents, TLAPS

\* A function on some of the keys is a write set (every handler's writes).
LEMMA WriteSetIntro ==
    ASSUME NEW K, NEW D, NEW S \in SUBSET K, NEW w \in [S -> D]
    PROVE  w \in WriteSets(K, D)
BY DEF WriteSets

\* A write set is a function on a subset of the keys.
LEMMA WriteSetElim ==
    ASSUME NEW K, NEW D, NEW w \in WriteSets(K, D)
    PROVE  /\ DOMAIN w \in SUBSET K
           /\ w \in [DOMAIN w -> D]
           /\ \A k \in DOMAIN w : w[k] \in D
BY DEF WriteSets

\* Writing nothing, one document, or the same document under several keys.
LEMMA PutType ==
    ASSUME NEW K, NEW D
    PROVE  /\ Nothing \in WriteSets(K, D)
           /\ \A k \in K, d \in D : Put(k, d) \in WriteSets(K, D)
           /\ \A S \in SUBSET K, d \in D : PutAll(S, d) \in WriteSets(K, D)
<1>1. Nothing \in WriteSets(K, D)
  <2>1. Nothing \in [{} -> D]
    BY DEF Nothing
  <2>2. QED
    BY <2>1, WriteSetIntro
<1>2. ASSUME NEW k \in K, NEW d \in D PROVE Put(k, d) \in WriteSets(K, D)
  <2>1. Put(k, d) \in [{k} -> D]
    BY DEF Put
  <2>2. QED
    BY <2>1, WriteSetIntro
<1>3. ASSUME NEW S \in SUBSET K, NEW d \in D PROVE PutAll(S, d) \in WriteSets(K, D)
  <2>1. PutAll(S, d) \in [S -> D]
    BY DEF PutAll
  <2>2. QED
    BY <2>1, WriteSetIntro
<1>4. QED
  BY <1>1, <1>2, <1>3

\* Two statements of one transaction make one write set.
LEMMA ThenType ==
    ASSUME NEW K, NEW D, NEW v \in WriteSets(K, D), NEW w \in WriteSets(K, D)
    PROVE  Then(v, w) \in WriteSets(K, D)
<1>1. Then(v, w) \in [DOMAIN v \cup DOMAIN w -> D]
  BY WriteSetElim DEF Then
<1>2. DOMAIN v \cup DOMAIN w \in SUBSET K
  BY WriteSetElim
<1>3. QED
  BY <1>1, <1>2, WriteSetIntro

\* A commit leaves a collection of documents.
LEMMA InstallType ==
    ASSUME NEW K, NEW D, NEW docs \in [K -> D], NEW w \in WriteSets(K, D)
    PROVE  Install(docs, w) \in [K -> D]
BY WriteSetElim DEF Install
=============================================================================
