------------------------ MODULE InvitationDesignsProofs ------------------------
(***************************************************************************)
(* Every design and every artifact has the files it names, an active       *)
(* design of an imported card has its background, and one design at most   *)
(* is active where one process has the lock, proved for any numbers of     *)
(* designs, artifacts, keys, requests and processes.                       *)
(***************************************************************************)
EXTENDS InvitationDesigns, SequenceTheorems, FiniteSetTheorems, TLAPS

\* The files that a request has put, and the background that it is to remove.
Own(r) == IF r.op \in {"idle", "commit"} THEN {} ELSE r.own
Old(r) == IF r.op \in {"idle", "commit"} THEN NoKey ELSE r.old

\* A request that is neither idle nor about to commit.
RequestRecord ==
    [op : {"setTemplate", "clearTemplate", "inUse", "removeRow", "activate", "put",
           "save", "clean", "artifactPut", "compensate"},
     design : DesignIds, own : SUBSET Keys, old : Keys \cup {NoKey}]

\* Absent, or the files of one artifact.
ArtifactRow == {NoArtifact} \cup [design : DesignIds, files : SUBSET Keys]

\* What activations write of a design.
Marked(document, active) == [document EXCEPT !.active = active]

\* An activation that waits to commit changes only active, of stored designs
\* that may have it.
Pending(r) ==
    /\ DOMAIN r.w = {"designs"}
    /\ \A d \in DOMAIN r.w.designs :
        /\ d \in DesignIds /\ Stored(d)
        /\ \E active \in BOOLEAN :
            /\ r.w.designs[d] = Marked(designs[d], active)
            /\ active /\ designs[d].uploaded => HasBackground(d)

\* The design of a request was created, and its mode is what it was.
Knows(r) ==
    /\ r \in DesignRequest
    /\ r # Idle => designs[r.design].phase # "none"
    /\ r # Idle /\ Stored(r.design) =>
        /\ r.op \in {"put", "save"} => designs[r.design].uploaded
        /\ r.op = "activate" /\ designs[r.design].uploaded => HasBackground(r.design)

\* A file that no row names yet is there, and known to its request only.
OwnFiles(r) ==
    \A k \in Own(r) :
        /\ k \in objects
        /\ \A d \in DesignIds : designs[d].background # k
        /\ \A a \in ArtifactIds : k \notin artifacts[a].files

\* The background to remove is of the design of the request, and of none when
\* it is removed.
OldFile(r) ==
    Old(r) # NoKey =>
        /\ \A a \in ArtifactIds : Old(r) \notin artifacts[a].files
        /\ \A d \in DesignIds : designs[d].background = Old(r) => d = r.design /\ r.op # "clean"

Good(r) ==
    /\ IF r.op = "commit" THEN Pending(r) ELSE Knows(r)
    /\ OwnFiles(r) /\ OldFile(r)

\* No request is to remove a file that another has put, and no two have put
\* the same one.
Apart ==
    \A p, q \in Requests :
        /\ Old(req[p]) \notin Own(req[q])
        /\ p # q => Own(req[p]) \cap Own(req[q]) = {}

\* The rows have their types; no two rows share a file.
Rows ==
    /\ designs \in [DesignIds -> DesignDocument]
    /\ artifacts \in [ArtifactIds -> ArtifactRow]
    /\ objects \subseteq Keys
    /\ \A d, e \in DesignIds :
        HasBackground(d) /\ designs[d].background = designs[e].background => d = e
    /\ \A d \in DesignIds, a \in ArtifactIds : designs[d].background \notin artifacts[a].files

\* The inductive invariant.
IInv ==
    /\ Rows
    /\ FilesOfRows
    /\ ActiveHasBackground
    /\ DOMAIN req = Requests
    /\ \A p \in Requests : Good(req[p])
    /\ Apart

-----------------------------------------------------------------------------
(* Steps                                                                   *)

\* The keys of a request are keys.
LEMMA KeysOf ==
    ASSUME NEW r, r.op = "commit" \/ r \in DesignRequest
    PROVE  /\ Own(r) \subseteq Keys /\ Old(r) \in Keys \cup {NoKey}
           /\ Own(Idle) = {} /\ Old(Idle) = NoKey /\ NoKey \notin Keys
BY DesignProcessAssumption DEF Own, Old, DesignRequest, Idle

\* An idle slot needs nothing.
LEMMA IdleGood == Good(Idle) /\ Idle.op = "idle"
BY DEF Good, Idle, Knows, OwnFiles, OldFile, Own, Old, DesignRequest

\* What a step of p may do to a design: it is not created again, keeps its
\* mode, keeps a background while it is stored, and gets only one that p put.
Evolves(p, d) ==
    /\ designs'[d].phase = "none" => designs[d].phase = "none"
    /\ designs'[d].phase = "stored" /\ designs[d].phase # "none" =>
        /\ Stored(d)
        /\ designs'[d].uploaded = designs[d].uploaded
        /\ HasBackground(d) => designs'[d].background # NoKey
    /\ designs'[d].background \in {NoKey, designs[d].background} \cup Own(req[p])

\* A step of one request keeps the invariant when the rows evolve, only files
\* that no row has disappear, and the request holds what it needs.
LEMMA StepKeeps ==
    ASSUME IInv, NEW p \in Requests, DOMAIN req' = Requests,
           designs' \in [DesignIds -> DesignDocument],
           artifacts' \in [ArtifactIds -> ArtifactRow],
           objects' \subseteq Keys,
           \A d \in DesignIds : Evolves(p, d),
           \A d, e \in DesignIds :
                designs'[d].background \in Own(req[p]) /\ designs'[e].background \in Own(req[p])
                    => d = e,
           designs' = designs \/ artifacts' = artifacts,
           \A a \in ArtifactIds : artifacts'[a].files \subseteq artifacts[a].files \cup Own(req[p]),
           \A k \in objects \ objects' :
                /\ k \in Own(req[p]) \cup {Old(req[p])}
                /\ \A d \in DesignIds : designs'[d].background # k
                /\ \A a \in ArtifactIds : k \notin artifacts'[a].files,
           ActiveHasBackground',
           \A q \in Requests \ {p} :
                \/ req'[q] = Idle
                \/ /\ req'[q] = req[q]
                   /\ req[q].op = "commit" =>
                        \A d \in DOMAIN req[q].w.designs : designs'[d] = designs[d],
           Good(req[p])',
           Old(req'[p]) \notin Own(req'[p]),
           \A q \in Requests \ {p} :
                /\ Own(req'[p]) \cap Own(req[q]) = {}
                /\ Old(req'[p]) \notin Own(req[q])
                /\ Old(req[q]) \notin Own(req'[p])
    PROVE  IInv'
<1>1. /\ Rows /\ FilesOfRows /\ Apart
      /\ \A q \in Requests : Good(req[q])
  BY DEF IInv
<1>2. /\ \A q \in Requests : Own(req[q]) \subseteq Keys /\ Old(req[q]) \in Keys \cup {NoKey}
      /\ Own(Idle) = {} /\ Old(Idle) = NoKey /\ NoKey \notin Keys
  BY <1>1, KeysOf DEF Good, Knows
<1>3. \A k \in Own(req[p]) :
        /\ k \in objects /\ k \in Keys
        /\ \A d \in DesignIds : designs[d].background # k
        /\ \A a \in ArtifactIds : k \notin artifacts[a].files
  BY <1>1, <1>2 DEF Good, OwnFiles
<1>4. Rows'
  <2>1. ASSUME NEW d \in DesignIds, NEW e \in DesignIds, designs'[d].background # NoKey,
               designs'[d].background = designs'[e].background
        PROVE  d = e
    BY <1>1, <1>3, <2>1 DEF Evolves, Rows, HasBackground
  <2>2. ASSUME NEW d \in DesignIds, NEW a \in ArtifactIds,
               designs'[d].background \in artifacts'[a].files
        PROVE  FALSE
    <3>1. artifacts'[a].files \subseteq Keys
      BY DEF ArtifactRow, NoArtifact
    <3>2. designs'[d].background # NoKey
      BY <1>2, <2>2, <3>1
    <3>3. CASE designs' = designs
      BY <1>1, <1>3, <2>2, <3>3 DEF Rows
    <3>4. CASE artifacts' = artifacts
      BY <1>1, <1>3, <2>2, <3>2, <3>4 DEF Rows, Evolves
    <3>5. QED
      BY <3>3, <3>4
  <2>3. QED
    BY <2>1, <2>2 DEF Rows, HasBackground
<1>5. FilesOfRows'
  <2>1. ASSUME NEW d \in DesignIds, designs'[d].background # NoKey
        PROVE  designs'[d].background \in objects'
    BY <1>1, <1>3, <2>1 DEF Evolves, FilesOfRows, HasBackground
  <2>2. ASSUME NEW a \in ArtifactIds, NEW k \in artifacts'[a].files
        PROVE  k \in objects'
    BY <1>1, <1>3, <2>2 DEF FilesOfRows
  <2>3. QED
    BY <2>1, <2>2 DEF FilesOfRows, HasBackground
<1>6. ASSUME NEW q \in Requests \ {p}
      PROVE  Good(req[q])'
  <2>1. CASE req'[q] = Idle
    <3>1. Good(Idle)'
      BY IdleGood DEF Good, Idle, Knows, OwnFiles, OldFile, Own, Old, DesignRequest
    <3>2. QED
      BY <2>1, <3>1 DEF Good, Idle, Knows, OwnFiles, OldFile, Own, Old, Pending
  <2>2. CASE req'[q] # Idle
    <3>1. PICK r : r = req[q]
      OBVIOUS
    <3>2. /\ req'[q] = r /\ Good(r)
          /\ r.op = "commit" => \A d \in DOMAIN r.w.designs : designs'[d] = designs[d]
      BY <1>1, <2>2, <3>1
    <3>3. r.op = "commit" => Pending(r)'
      <4>1. SUFFICES ASSUME r.op = "commit"
                     PROVE  Pending(r)'
        OBVIOUS
      <4>2. Pending(r)
        BY <3>2, <4>1 DEF Good
      <4>3. ASSUME NEW d \in DOMAIN r.w.designs
            PROVE  /\ d \in DesignIds /\ designs'[d].phase = "stored"
                   /\ \E active \in BOOLEAN :
                        /\ r.w.designs[d] = Marked(designs'[d], active)
                        /\ active /\ designs'[d].uploaded => designs'[d].background # NoKey
        <5>1. PICK e : e = designs[d]
          OBVIOUS
        <5>2. designs'[d] = e
          BY <3>2, <4>1, <5>1
        <5>3. /\ d \in DesignIds /\ e.phase = "stored"
              /\ \E active \in BOOLEAN :
                    /\ r.w.designs[d] = Marked(e, active)
                    /\ active /\ e.uploaded => e.background # NoKey
          BY <4>2, <5>1 DEF Pending, Stored, HasBackground
        <5>4. QED
          BY <5>2, <5>3
      <4>4. QED
        BY <4>2, <4>3 DEF Pending, Stored, HasBackground
    <3>4. r.op # "commit" => Knows(r)'
      <4>1. SUFFICES ASSUME r.op # "commit"
                     PROVE  Knows(r)'
        OBVIOUS
      <4>2. Knows(r) /\ r \in DesignRequest /\ (r # Idle => r.design \in DesignIds)
        BY <3>2, <4>1 DEF Good, Knows, DesignRequest
      <4>3. r # Idle => Evolves(p, r.design)
        BY <4>2
      <4>4. QED
        BY <4>2, <4>3 DEF Knows, Evolves, Stored, HasBackground
    <3>5. OwnFiles(r)'
      <4>1. ASSUME NEW k \in Own(r)
            PROVE  /\ k \in objects'
                   /\ \A d \in DesignIds : designs'[d].background # k
                   /\ \A a \in ArtifactIds : k \notin artifacts'[a].files
        <5>1. /\ k \in objects /\ k \in Keys
              /\ \A d \in DesignIds : designs[d].background # k
              /\ \A a \in ArtifactIds : k \notin artifacts[a].files
          BY <1>2, <3>1, <3>2 DEF Good, OwnFiles
        <5>2. k \notin Own(req[p]) /\ k # Old(req[p]) /\ k # NoKey
          <6>1. /\ Own(req[q]) \cap Own(req[p]) = {} /\ Old(req[p]) \notin Own(req[q])
                /\ k \in Own(req[q])
            BY <1>1, <3>1, Zenon DEF Apart
          <6>2. QED
            BY <1>2, <5>1, <6>1
        <5>3. QED
          BY <5>1, <5>2 DEF Evolves
      <4>2. QED
        BY <4>1 DEF OwnFiles, Own
    <3>6. OldFile(r)'
      <4>1. SUFFICES ASSUME Old(r) # NoKey
                     PROVE  /\ \A a \in ArtifactIds : Old(r) \notin artifacts'[a].files
                            /\ \A d \in DesignIds : designs'[d].background = Old(r) =>
                                    d = r.design /\ r.op # "clean"
        BY DEF OldFile, Old
      <4>2. Old(r) \notin Own(req[p])
        BY <1>1, <3>1 DEF Apart
      <4>3. QED
        BY <3>2, <4>1, <4>2 DEF Good, OldFile, Evolves
    <3>7. QED
      BY <3>2, <3>3, <3>4, <3>5, <3>6 DEF Good, Pending, Knows, OwnFiles, OldFile, Own, Old,
         Stored, HasBackground
  <2>3. QED
    BY <2>1, <2>2
<1>7. Apart'
  <2>1. ASSUME NEW q \in Requests \ {p}
        PROVE  /\ Own(req'[q]) = {} \/ Own(req'[q]) = Own(req[q])
               /\ Old(req'[q]) = NoKey \/ Old(req'[q]) = Old(req[q])
    BY <1>2
  <2>2. Own(req'[p]) \subseteq Keys
    <3>1. PICK r : r = req'[p]
      OBVIOUS
    <3>2. r.op = "commit" \/ r \in DesignRequest
      BY <3>1 DEF Good, Knows, Pending, OwnFiles, OldFile, Own, Old, DesignRequest
    <3>3. QED
      BY <3>1, <3>2, KeysOf
  <2>3. ASSUME NEW q \in Requests, NEW t \in Requests
        PROVE  /\ Old(req'[q]) \notin Own(req'[t])
               /\ q # t => Own(req'[q]) \cap Own(req'[t]) = {}
    <3>1. CASE q = p /\ t = p
      BY <3>1
    <3>2. CASE q = p /\ t # p
      BY <1>2, <2>1, <3>2
    <3>3. CASE q # p /\ t = p
      BY <1>2, <2>1, <2>2, <3>3
    <3>4. CASE q # p /\ t # p
      <4>1. /\ Old(req[q]) \notin Own(req[t])
            /\ q # t => Own(req[q]) \cap Own(req[t]) = {}
        BY <1>1, Zenon DEF Apart
      <4>2. /\ Own(req'[q]) = {} \/ Own(req'[q]) = Own(req[q])
            /\ Own(req'[t]) = {} \/ Own(req'[t]) = Own(req[t])
            /\ Old(req'[q]) = NoKey \/ Old(req'[q]) = Old(req[q])
            /\ Own(req[t]) \subseteq Keys /\ NoKey \notin Keys
        BY <1>2, <2>1, <3>4
      <4>3. QED
        BY <4>1, <4>2
    <3>5. QED
      BY <3>1, <3>2, <3>3, <3>4
  <2>4. QED
    BY <2>3 DEF Apart, Own, Old
<1>8. QED
  BY <1>4, <1>5, <1>6, <1>7 DEF IInv

\* What the invariant says of a request.
LEMMA RequestFacts ==
    ASSUME IInv, NEW q \in Requests
    PROVE  /\ req[q].op = "commit" => Pending(req[q])
           /\ req[q].op # "commit" => Knows(req[q]) /\ req[q] \in DesignRequest
           /\ OwnFiles(req[q]) /\ OldFile(req[q])
           /\ Own(req[q]) \subseteq Keys /\ Old(req[q]) \in Keys \cup {NoKey}
           /\ Old(req[q]) \notin Own(req[q])
           /\ \A t \in Requests \ {q} : /\ Own(req[q]) \cap Own(req[t]) = {}
                                        /\ Old(req[q]) \notin Own(req[t])
                                        /\ Old(req[t]) \notin Own(req[q])
<1>1. Good(req[q]) /\ Apart
  BY DEF IInv
<1>2. /\ req[q].op = "commit" => Pending(req[q])
      /\ req[q].op # "commit" => Knows(req[q]) /\ req[q] \in DesignRequest
      /\ OwnFiles(req[q]) /\ OldFile(req[q])
  BY <1>1 DEF Good, Knows
<1>3. Own(req[q]) \subseteq Keys /\ Old(req[q]) \in Keys \cup {NoKey}
  BY <1>2, KeysOf
<1>4. /\ Old(req[q]) \notin Own(req[q])
      /\ \A t \in Requests \ {q} : /\ Own(req[q]) \cap Own(req[t]) = {}
                                   /\ Old(req[q]) \notin Own(req[t])
                                   /\ Old(req[t]) \notin Own(req[q])
  BY <1>1 DEF Apart
<1>5. QED
  BY <1>2, <1>3, <1>4

LEMMA RowFacts ==
    ASSUME IInv
    PROVE  /\ designs \in [DesignIds -> DesignDocument]
           /\ artifacts \in [ArtifactIds -> ArtifactRow]
           /\ objects \subseteq Keys
           /\ DOMAIN req = Requests /\ NoKey \notin Keys
           /\ \A d \in DesignIds : designs[d] \in DesignDocument
           /\ \A a \in ArtifactIds : artifacts[a].files \subseteq Keys
BY DesignProcessAssumption DEF IInv, Rows, ArtifactRow, NoArtifact

\* A request that goes on after it has read: it has no more files than before,
\* and its old background is the one it had, or that of its design.
Looks(p, r) ==
    /\ IF r.op = "commit" THEN Pending(r) ELSE Knows(r)
    /\ Own(r) \subseteq Own(req[p])
    /\ \/ Old(r) = NoKey
       \/ r.op # "clean" /\ Old(r) = Old(req[p]) /\ r.design = req[p].design
       \/ r.op # "clean" /\ r.design \in DesignIds /\ Old(r) = designs[r.design].background

\* What a request holds before it uses or loses files of its own, when no row
\* changes.
LEMMA LooksGood ==
    ASSUME IInv, NEW p \in Requests, NEW r, Looks(p, r)
    PROVE  /\ Good(r) /\ Old(r) \notin Own(r)
           /\ \A q \in Requests \ {p} : /\ Own(r) \cap Own(req[q]) = {}
                                        /\ Old(r) \notin Own(req[q])
                                        /\ Old(req[q]) \notin Own(r)
<1>1. /\ OwnFiles(req[p]) /\ OldFile(req[p]) /\ Old(req[p]) \notin Own(req[p])
      /\ Own(req[p]) \subseteq Keys /\ NoKey \notin Keys
      /\ \A q \in Requests \ {p} :
            /\ OwnFiles(req[q]) /\ Own(req[q]) \subseteq Keys
            /\ Own(req[p]) \cap Own(req[q]) = {}
            /\ Old(req[p]) \notin Own(req[q])
            /\ Old(req[q]) \notin Own(req[p])
  BY RequestFacts, RowFacts
<1>2. OwnFiles(r)
  BY <1>1 DEF Looks, OwnFiles
<1>3. OldFile(r)
  BY <1>1 DEF Looks, OldFile, IInv, Rows, HasBackground
<1>4. /\ Old(r) \notin Own(r)
      /\ \A q \in Requests \ {p} : Old(r) \notin Own(req[q])
  BY <1>1 DEF Looks, OwnFiles
<1>5. QED
  BY <1>1, <1>2, <1>3, <1>4 DEF Looks, Good

\* Requests, while no design changes.
LEMMA ContinueShape ==
    ASSUME IInv, NEW p \in Requests, NEW r, Continue(p, r)
    PROVE  /\ designs' = designs
           /\ req' = [q \in Requests |-> IF q = p THEN r ELSE req[q]]
<1>1. designs' = designs
  BY RowFacts DEF Continue, WriteDesigns, Install, Nothing
<1>2. req' = Spared(req, p, [designs |-> Nothing], r)
  BY DEF Continue, WriteDesigns
<1>3. ASSUME NEW q \in Requests, req[q].op = "commit"
      PROVE  ~Conflict(req[q].w, [designs |-> Nothing])
  <2>1. DOMAIN req[q].w = {"designs"}
    BY <1>3, RequestFacts DEF Pending
  <2>2. QED
    BY <2>1 DEF Conflict, Nothing
<1>4. QED
  BY <1>1, <1>2, <1>3, RowFacts DEF Spared

\* A step that changes only its request, and removes or creates nothing.
LEMMA LookKeeps ==
    ASSUME IInv, NEW p \in Requests, NEW r, UNCHANGED <<designs, artifacts, objects>>,
           req' = [q \in Requests |-> IF q = p THEN r ELSE req[q]], Looks(p, r)
    PROVE  IInv'
<1>1. /\ Good(r) /\ Old(r) \notin Own(r)
      /\ \A q \in Requests \ {p} : /\ Own(r) \cap Own(req[q]) = {}
                                   /\ Old(r) \notin Own(req[q])
                                   /\ Old(req[q]) \notin Own(r)
  BY LooksGood
<1>2. Good(r)'
  BY <1>1 DEF Good, Pending, Knows, OwnFiles, OldFile, Own, Old, Stored, HasBackground
<1>3. Good(req[p])'
  <2>1. req'[p] = r
    OBVIOUS
  <2>2. QED
    BY <1>2, <2>1 DEF Good, Pending, Knows, OwnFiles, OldFile, Own, Old, Stored, HasBackground
<1>4. \A d \in DesignIds : Evolves(p, d) /\ designs'[d].background \notin Own(req[p])
  BY RequestFacts DEF Evolves, Stored, HasBackground, OwnFiles
<1>5. ActiveHasBackground'
  BY DEF IInv, ActiveHasBackground, HasBackground
<1>6. QED
  BY <1>1, <1>3, <1>4, <1>5, StepKeeps, RowFacts

\* A step that only removes files of its request that no row names.
LEMMA FilesGoKeeps ==
    ASSUME IInv, NEW p \in Requests, UNCHANGED <<designs, artifacts>>,
           NEW K, objects' = objects \ K, K \subseteq Own(req[p]) \cup {Old(req[p])},
           \A k \in K : /\ \A d \in DesignIds : designs[d].background # k
                        /\ \A a \in ArtifactIds : k \notin artifacts[a].files,
           req' = [q \in Requests |-> IF q = p THEN Idle ELSE req[q]]
    PROVE  IInv'
<1>1. Good(req[p])'
  <2>1. req'[p] = Idle
    OBVIOUS
  <2>2. QED
    BY <2>1 DEF Good, Idle, Knows, OwnFiles, OldFile, Own, Old, DesignRequest
<1>2. \A d \in DesignIds : Evolves(p, d) /\ designs'[d].background \notin Own(req[p])
  BY RequestFacts DEF Evolves, Stored, HasBackground, OwnFiles
<1>3. /\ Own(req'[p]) = {} /\ Old(req'[p]) = NoKey
      /\ \A q \in Requests : Own(req[q]) \subseteq Keys /\ NoKey \notin Keys
  BY RequestFacts, RowFacts DEF Own, Old, Idle
<1>4. ActiveHasBackground'
  BY DEF IInv, ActiveHasBackground, HasBackground
<1>5. QED
  BY <1>1, <1>2, <1>3, <1>4, StepKeeps, RowFacts

\* A step that writes designs: the new documents are legal, and the request
\* ends or goes on to remove the old background, which none has any more.
LEMMA DesignWriteKeeps ==
    ASSUME IInv, NEW p \in Requests, NEW W, NEW r,
           WriteDesigns(p, W, r), UNCHANGED <<artifacts, objects>>,
           DOMAIN W \subseteq DesignIds,
           \A d \in DOMAIN W :
                /\ W[d] \in DesignDocument /\ W[d].phase # "none"
                /\ W[d].phase = "stored" /\ designs[d].phase # "none" =>
                    /\ Stored(d)
                    /\ W[d].uploaded = designs[d].uploaded
                    /\ HasBackground(d) => W[d].background # NoKey
                /\ W[d].background \in {NoKey, designs[d].background} \cup Own(req[p])
                /\ W[d].active /\ W[d].uploaded => W[d].background # NoKey,
           \A d, e \in DOMAIN W :
                W[d].background \in Own(req[p]) /\ W[e].background \in Own(req[p]) => d = e,
           \/ r = Idle
           \/ /\ r \in DesignRequest /\ r.op = "clean" /\ r.design = req[p].design
              /\ Own(r) \subseteq Own(req[p]) /\ Old(r) = Old(req[p])
              /\ DOMAIN W = {r.design}
              /\ W[r.design].background \notin Own(r) \cup {Old(r)}
    PROVE  IInv'
<1>1. /\ \A d \in DesignIds : designs'[d] = IF d \in DOMAIN W THEN W[d] ELSE designs[d]
      /\ designs' \in [DesignIds -> DesignDocument]
  BY RowFacts DEF WriteDesigns, Install
<1>2. /\ DOMAIN req' = Requests /\ req'[p] = r
      /\ \A q \in Requests \ {p} :
            \/ req'[q] = Idle
            \/ /\ req'[q] = req[q]
               /\ req[q].op = "commit" => ~Conflict(req[q].w, [designs |-> W])
  BY RowFacts DEF WriteDesigns, Spared
<1>3. ASSUME NEW q \in Requests \ {p}, req[q].op = "commit",
             ~Conflict(req[q].w, [designs |-> W])
      PROVE  \A d \in DOMAIN req[q].w.designs : designs'[d] = designs[d]
  <2>1. DOMAIN req[q].w = {"designs"} /\ \A d \in DOMAIN req[q].w.designs : d \in DesignIds
    BY <1>3, RequestFacts DEF Pending
  <2>2. DOMAIN req[q].w.designs \cap DOMAIN W = {}
    BY <1>3, <2>1 DEF Conflict
  <2>3. QED
    BY <1>1, <2>1, <2>2
<1>4. /\ OwnFiles(req[p]) /\ OldFile(req[p]) /\ Old(req[p]) \notin Own(req[p])
      /\ Own(req[p]) \subseteq Keys /\ NoKey \notin Keys
      /\ \A q \in Requests \ {p} :
            /\ Own(req[q]) \subseteq Keys
            /\ Own(req[p]) \cap Own(req[q]) = {}
            /\ Old(req[p]) \notin Own(req[q])
            /\ Old(req[q]) \notin Own(req[p])
  BY RequestFacts, RowFacts
<1>5. \A d \in DesignIds : Evolves(p, d)
  BY <1>1 DEF Evolves, Stored, HasBackground
<1>6. \A d, e \in DesignIds :
        designs'[d].background \in Own(req[p]) /\ designs'[e].background \in Own(req[p]) => d = e
  BY <1>1, <1>4 DEF OwnFiles
<1>7. ActiveHasBackground'
  BY <1>1 DEF IInv, ActiveHasBackground, HasBackground
<1>8. CASE r = Idle
  <2>1. Good(req[p])'
    BY <1>2, <1>8 DEF Good, Idle, Knows, OwnFiles, OldFile, Own, Old, DesignRequest
  <2>2. Own(req'[p]) = {} /\ Old(req'[p]) = NoKey
    BY <1>2, <1>8 DEF Own, Old, Idle
  <2>3. QED
    BY <1>1, <1>2, <1>3, <1>4, <1>5, <1>6, <1>7, <2>1, <2>2, StepKeeps, RowFacts
<1>9. CASE r # Idle
  <2>1. /\ r \in DesignRequest /\ r.op = "clean" /\ r.design = req[p].design
        /\ Own(r) \subseteq Own(req[p]) /\ Old(r) = Old(req[p])
        /\ DOMAIN W = {r.design}
        /\ W[r.design].background \notin Own(r) \cup {Old(r)}
    BY <1>9
  <2>2. Knows(r)'
    BY <1>1, <2>1 DEF Knows
  <2>3. OwnFiles(r)'
    <3>1. ASSUME NEW k \in Own(r)
          PROVE  /\ k \in objects
                 /\ \A d \in DesignIds : designs'[d].background # k
                 /\ \A a \in ArtifactIds : k \notin artifacts[a].files
      BY <1>1, <1>4, <2>1 DEF OwnFiles
    <3>2. QED
      BY <3>1 DEF OwnFiles, Own
  <2>4. OldFile(r)'
    <3>1. SUFFICES ASSUME Old(r) # NoKey
                   PROVE  /\ \A a \in ArtifactIds : Old(r) \notin artifacts[a].files
                          /\ \A d \in DesignIds : designs'[d].background # Old(r)
      BY DEF OldFile, Old
    <3>2. QED
      BY <1>1, <1>4, <2>1, <3>1 DEF OldFile
  <2>5. Good(req[p])'
    BY <1>2, <2>1, <2>2, <2>3, <2>4
       DEF Good, Knows, OwnFiles, OldFile, Own, Old, Stored, HasBackground
  <2>6. QED
    BY <1>1, <1>2, <1>3, <1>4, <1>5, <1>6, <1>7, <2>1, <2>5, StepKeeps, RowFacts
<1>10. QED
  BY <1>8, <1>9

-----------------------------------------------------------------------------
(* Handlers that read                                                      *)

\* A request with a design that was created, and no file of its own.
LEMMA RequestKnows ==
    ASSUME IInv,
           NEW op \in {"setTemplate", "clearTemplate", "inUse", "activate", "put", "artifactPut"},
           NEW d \in DesignIds, Stored(d), NEW old \in {NoKey, designs[d].background},
           op = "put" => designs[d].uploaded,
           op = "activate" /\ designs[d].uploaded => HasBackground(d)
    PROVE  \A p \in Requests : Looks(p, Request(op, d, {}, old))
<1>1. designs[d].background \in Keys \cup {NoKey}
  BY RowFacts DEF DesignDocument
<1>2. Request(op, d, {}, old) \in DesignRequest
  BY <1>1 DEF Request, DesignRequest
<1>3. /\ Request(op, d, {}, old).op = op /\ Request(op, d, {}, old).design = d
      /\ Own(Request(op, d, {}, old)) = {} /\ Old(Request(op, d, {}, old)) = old
      /\ Request(op, d, {}, old) # Idle
  BY DEF Request, Own, Old, Idle
<1>4. Knows(Request(op, d, {}, old))
  BY <1>2, <1>3 DEF Knows, Stored
<1>5. QED
  BY <1>3, <1>4 DEF Looks

\* A request goes on to its next step with what it has.
LEMMA ProceedLooks ==
    ASSUME IInv, NEW p \in Requests, req[p].op \notin {"idle", "commit"},
           NEW step \in {"removeRow", "save", "compensate", "artifactPut"},
           step = "save" => req[p].op \in {"put", "save"}
    PROVE  Looks(p, [req[p] EXCEPT !.op = step])
<1> DEFINE r == [req[p] EXCEPT !.op = step]
<1>1. /\ req[p] \in DesignRequest /\ Knows(req[p]) /\ req[p] # Idle
  BY RequestFacts DEF Idle
<1>2. /\ r \in DesignRequest /\ r.op = step /\ r # Idle
      /\ r.design = req[p].design /\ r.own = req[p].own /\ r.old = req[p].old
  BY <1>1 DEF DesignRequest, Idle
<1> HIDE DEF r
<1>3. Own(r) = Own(req[p]) /\ Old(r) = Old(req[p])
  BY <1>2 DEF Own, Old
<1>4. Knows(r)
  BY <1>1, <1>2 DEF Knows
<1>5. Looks(p, r)
  BY <1>2, <1>3, <1>4 DEF Looks
<1>6. QED
  BY <1>5 DEF r

LEMMA IdleLooks == ASSUME IInv, NEW p \in Requests PROVE Looks(p, Idle)
BY IdleGood, KeysOf DEF Looks, Good, Own, Old, Idle

\* Reading a design, or the artifacts, and going on.
LEMMA ContinueKeeps ==
    ASSUME IInv, NEW p \in Requests, NEW r, Continue(p, r), Looks(p, r),
           UNCHANGED <<artifacts, objects>>
    PROVE  IInv'
<1>1. /\ designs' = designs
      /\ req' = [q \in Requests |-> IF q = p THEN r ELSE req[q]]
  BY ContinueShape
<1>2. QED
  BY <1>1, LookKeeps

LEMMA UpdateReadKeeps == ASSUME IInv, NEW p \in Requests, UpdateRead(p) PROVE IInv'
<1>1. PICK d \in DesignIds, given \in BOOLEAN :
        /\ Stored(d)
        /\ Continue(p, Request(IF given THEN "setTemplate" ELSE "clearTemplate", d, {}, NoKey))
  BY DEF UpdateRead
<1>2. Looks(p, Request(IF given THEN "setTemplate" ELSE "clearTemplate", d, {}, NoKey))
  BY <1>1, RequestKnows
<1>3. QED
  BY <1>1, <1>2, ContinueKeeps DEF UpdateRead

LEMMA RemoveReadKeeps == ASSUME IInv, NEW p \in Requests, RemoveRead(p) PROVE IInv'
<1>1. PICK d \in DesignIds :
        Stored(d) /\ Continue(p, Request("inUse", d, {}, designs[d].background))
  BY DEF RemoveRead
<1>2. Looks(p, Request("inUse", d, {}, designs[d].background))
  BY <1>1, RequestKnows
<1>3. QED
  BY <1>1, <1>2, ContinueKeeps DEF RemoveRead

LEMMA BackgroundReadKeeps == ASSUME IInv, NEW p \in Requests, BackgroundRead(p) PROVE IInv'
<1>1. PICK d \in DesignIds :
        TakesBackground(d) /\ Continue(p, Request("put", d, {}, designs[d].background))
  BY DEF BackgroundRead
<1>2. Looks(p, Request("put", d, {}, designs[d].background))
  BY <1>1, RequestKnows DEF TakesBackground
<1>3. QED
  BY <1>1, <1>2, ContinueKeeps DEF BackgroundRead

LEMMA ArtifactReadKeeps == ASSUME IInv, NEW p \in Requests, ArtifactRead(p) PROVE IInv'
<1>1. PICK d \in DesignIds :
        Stored(d) /\ Continue(p, Request("artifactPut", d, {}, NoKey))
  BY DEF ArtifactRead
<1>2. Looks(p, Request("artifactPut", d, {}, NoKey))
  BY <1>1, RequestKnows
<1>3. QED
  BY <1>1, <1>2, ContinueKeeps DEF ArtifactRead

LEMMA ActivateReadKeeps == ASSUME IInv, NEW p \in Requests, ActivateRead(p) PROVE IInv'
<1>1. PICK d \in DesignIds :
        Usable(d) /\ req' = [req EXCEPT ![p] = Request("activate", d, {}, NoKey)]
  BY DEF ActivateRead
<1>2. Looks(p, Request("activate", d, {}, NoKey))
  BY <1>1, RequestKnows DEF Usable
<1>3. req' = [q \in Requests |-> IF q = p THEN Request("activate", d, {}, NoKey) ELSE req[q]]
  BY <1>1, RowFacts
<1>4. QED
  BY <1>2, <1>3, LookKeeps DEF ActivateRead

\* The designs that are active lose active, the one of the request gets it.
LEMMA ActivateTransactionKeeps ==
    ASSUME IInv, NEW p \in Requests, ActivateTransaction(p)
    PROVE  IInv'
<1> DEFINE d == req[p].design
           r == Committing([designs |-> ActivatingOnly(d)])
<1>1. /\ req[p].op = "activate" /\ Stored(d) /\ Continue(p, r)
      /\ UNCHANGED <<artifacts, objects>>
  BY DEF ActivateTransaction, At
<1>2. d \in DesignIds /\ (designs[d].uploaded => HasBackground(d))
  BY <1>1, RequestFacts DEF Knows, DesignRequest, Idle
<1>3. \A e \in DesignIds : designs[e].active /\ designs[e].uploaded => HasBackground(e)
  BY DEF IInv, ActiveHasBackground
<1> HIDE DEF d
<1>4. /\ r.op = "commit" /\ DOMAIN r.w = {"designs"} /\ r.w.designs = ActivatingOnly(d)
  BY DEF Committing
<1> HIDE DEF r
<1>5. ASSUME NEW e \in DOMAIN ActivatingOnly(d)
      PROVE  /\ e \in DesignIds /\ Stored(e)
             /\ \E active \in BOOLEAN :
                    /\ ActivatingOnly(d)[e] = Marked(designs[e], active)
                    /\ active /\ designs[e].uploaded => HasBackground(e)
  <2>1. e = d \/ (e \in DesignIds /\ Stored(e))
    BY <1>5 DEF ActivatingOnly, Then, Put
  <2>2. CASE e = d
    <3>1. ActivatingOnly(d)[e] = Marked(designs[e], TRUE)
      BY <2>2 DEF ActivatingOnly, Then, Put, Marked
    <3>2. QED
      BY <1>1, <1>2, <2>2, <3>1
  <2>3. CASE e # d
    <3>1. ActivatingOnly(d)[e] = Marked(designs[e], FALSE)
      BY <1>5, <2>3 DEF ActivatingOnly, Then, Put, Marked
    <3>2. QED
      BY <2>1, <2>3, <3>1
  <2>4. QED
    BY <2>2, <2>3
<1>6. Pending(r)
  BY <1>4, <1>5 DEF Pending
<1>7. Looks(p, r)
  BY <1>4, <1>6 DEF Looks, Own, Old
<1>8. QED
  BY <1>1, <1>7, ContinueKeeps

-----------------------------------------------------------------------------
(* Handlers that put and remove files                                      *)

\* A new file is known to the request that put it.
LEMMA PutKeeps ==
    ASSUME IInv, NEW p \in Requests, req[p].op \notin {"idle", "commit"},
           NEW step \in {"save", "artifactPut"}, step = "save" => req[p].op = "put",
           PutObject(p, step), UNCHANGED artifacts
    PROVE  IInv'
<1>1. PICK k \in FreshKeys :
        /\ objects' = objects \cup {k}
        /\ Continue(p, [req[p] EXCEPT !.op = step, !.own = @ \cup {k}])
  BY DEF PutObject
<1>a. PICK s : s = [req[p] EXCEPT !.op = step]
  OBVIOUS
<1>b. PICK r : r = [req[p] EXCEPT !.op = step, !.own = @ \cup {k}]
  OBVIOUS
<1>2. Looks(p, s)
  BY <1>a, ProceedLooks
<1>3. /\ req[p] \in DesignRequest /\ Knows(req[p])
  BY RequestFacts
<1>4. /\ k \in Keys
      /\ \A d \in DesignIds : designs[d].background # k
      /\ \A a \in ArtifactIds : k \notin artifacts[a].files
      /\ \A q \in Requests : k \notin Own(req[q]) /\ k # Old(req[q])
  <2>1. \A q \in Requests : k \notin Own(req[q]) /\ (Old(req[q]) # NoKey => k # Old(req[q]))
    BY DEF FreshKeys, Held, Own, Old
  <2>2. QED
    BY <2>1, RowFacts DEF FreshKeys
<1>5. /\ r \in DesignRequest /\ r.op = step /\ r # Idle /\ r.design = req[p].design
      /\ r.own = req[p].own \cup {k} /\ r.old = req[p].old
      /\ s.op = step /\ s.own = req[p].own /\ s.old = req[p].old /\ s.design = req[p].design
      /\ s # Idle
  <2>1. req[p] \in RequestRecord
    BY <1>3 DEF DesignRequest, RequestRecord, Idle
  <2>2. /\ r \in RequestRecord /\ r.op = step /\ r.design = req[p].design
        /\ r.own = req[p].own \cup {k} /\ r.old = req[p].old
    BY <1>4, <1>b, <2>1 DEF RequestRecord
  <2>3. /\ s.op = step /\ s.own = req[p].own /\ s.old = req[p].old
        /\ s.design = req[p].design
    BY <1>a, <2>1 DEF RequestRecord
  <2>4. r # Idle /\ s # Idle
    BY <2>2, <2>3 DEF Idle
  <2>5. QED
    BY <2>2, <2>3, <2>4 DEF DesignRequest, RequestRecord
<1>6. designs' = designs /\ req' = [q \in Requests |-> IF q = p THEN r ELSE req[q]]
  BY <1>1, <1>b, ContinueShape
<1>7. /\ Own(s) = Own(req[p]) /\ Own(r) = Own(req[p]) \cup {k}
      /\ Old(r) = Old(s) /\ Old(s) = Old(req[p])
  BY <1>5 DEF Own, Old
<1>8. /\ Good(s) /\ Old(s) \notin Own(s)
      /\ \A q \in Requests \ {p} : /\ Own(s) \cap Own(req[q]) = {}
                                   /\ Old(s) \notin Own(req[q])
                                   /\ Old(req[q]) \notin Own(s)
  BY <1>2, LooksGood
<1>9. Good(req[p])'
  <2>1. Knows(s)
    BY <1>5, <1>8 DEF Good
  <2>2. Knows(r)'
    BY <1>5, <1>6, <2>1 DEF Knows, Stored, HasBackground
  <2>3. OwnFiles(r)'
    <3>1. \A x \in Own(r) : /\ x \in objects'
                            /\ \A d \in DesignIds : designs[d].background # x
                            /\ \A a \in ArtifactIds : x \notin artifacts[a].files
      BY <1>1, <1>4, <1>7, <1>8 DEF Good, OwnFiles
    <3>2. QED
      BY <1>6, <3>1 DEF OwnFiles, Own
  <2>4. OldFile(r)'
    BY <1>5, <1>6, <1>7, <1>8 DEF Good, OldFile, Old
  <2>5. req'[p] = r
    BY <1>6
  <2>6. QED
    BY <1>5, <2>2, <2>3, <2>4, <2>5
       DEF Good, Knows, OwnFiles, OldFile, Own, Old, Stored, HasBackground
<1>10. /\ \A d \in DesignIds : Evolves(p, d) /\ designs'[d].background \notin Own(req[p])
  BY <1>6, RequestFacts DEF Evolves, Stored, HasBackground, OwnFiles
<1>11. ActiveHasBackground'
  BY <1>6 DEF IInv, ActiveHasBackground, HasBackground
<1>12. /\ Old(r) \notin Own(r)
       /\ \A q \in Requests \ {p} : /\ Own(r) \cap Own(req[q]) = {}
                                    /\ Old(r) \notin Own(req[q])
                                    /\ Old(req[q]) \notin Own(r)
  BY <1>4, <1>7, <1>8
<1>13. objects' \subseteq Keys /\ objects \ objects' = {}
  BY <1>1, <1>4, RowFacts
<1>14. req'[p] = r /\ DOMAIN req' = Requests /\ \A q \in Requests \ {p} : req'[q] = req[q]
  BY <1>6
<1>15. QED
  BY <1>6, <1>9, <1>10, <1>11, <1>12, <1>13, <1>14, StepKeeps, RowFacts

LEMMA BackgroundPutKeeps == ASSUME IInv, NEW p \in Requests, BackgroundPut(p) PROVE IInv'
BY PutKeeps DEF BackgroundPut, At

LEMMA ArtifactPutKeeps == ASSUME IInv, NEW p \in Requests, ArtifactPut(p) PROVE IInv'
BY PutKeeps DEF ArtifactPut, At

\* The background that goes is of no design any more.
LEMMA CleanKeeps == ASSUME IInv, NEW p \in Requests, Clean(p) PROVE IInv'
<1>1. /\ designs' = designs /\ artifacts' = artifacts
      /\ req' = [q \in Requests |-> IF q = p THEN Idle ELSE req[q]]
      /\ objects' = objects \ {req[p].old}
  BY ContinueShape DEF Clean
<1>2. req[p].op = "clean" /\ Old(req[p]) = req[p].old
  BY DEF Clean, At, Old
<1>3. CASE req[p].old = NoKey
  <2>1. objects' = objects
    BY <1>1, <1>3, RowFacts
  <2>2. QED
    BY <1>1, <2>1, IdleLooks, LookKeeps
<1>4. CASE req[p].old # NoKey
  <2>1. /\ \A d \in DesignIds : designs[d].background # req[p].old
        /\ \A a \in ArtifactIds : req[p].old \notin artifacts[a].files
    BY <1>2, <1>4, RequestFacts DEF OldFile
  <2>2. PICK K : K = {req[p].old}
    OBVIOUS
  <2>3. QED
    BY <1>1, <1>2, <2>1, <2>2, FilesGoKeeps
<1>5. QED
  BY <1>3, <1>4

LEMMA CompensateKeeps == ASSUME IInv, NEW p \in Requests, Compensate(p) PROVE IInv'
<1>1. PICK K \in SUBSET req[p].own : objects' = objects \ K
  BY DEF Compensate
<1>2. /\ designs' = designs /\ artifacts' = artifacts
      /\ req' = [q \in Requests |-> IF q = p THEN Idle ELSE req[q]]
  BY ContinueShape DEF Compensate
<1>3. K \subseteq Own(req[p])
  BY DEF Compensate, At, Own
<1>4. \A k \in K : /\ \A d \in DesignIds : designs[d].background # k
                   /\ \A a \in ArtifactIds : k \notin artifacts[a].files
  BY <1>3, RequestFacts DEF OwnFiles
<1>5. QED
  BY <1>1, <1>2, <1>3, <1>4, FilesGoKeeps

LEMMA SaveFailsKeeps == ASSUME IInv, NEW p \in Requests, SaveFails(p) PROVE IInv'
<1>1. /\ req[p].op \notin {"idle", "commit"}
      /\ Continue(p, [req[p] EXCEPT !.op = "compensate"]) /\ UNCHANGED <<artifacts, objects>>
  BY DEF SaveFails, At, Proceed
<1>2. Looks(p, [req[p] EXCEPT !.op = "compensate"])
  BY <1>1, ProceedLooks
<1>3. QED
  BY <1>1, <1>2, ContinueKeeps

LEMMA RemoveCountKeeps ==
    ASSUME IInv, NEW p \in Requests, RemoveCountArtifacts(p)
    PROVE  IInv'
<1>1. /\ req[p].op \notin {"idle", "commit"}
      /\ Continue(p, [req[p] EXCEPT !.op = "removeRow"]) /\ UNCHANGED <<artifacts, objects>>
  BY DEF RemoveCountArtifacts, At, Proceed
<1>2. Looks(p, [req[p] EXCEPT !.op = "removeRow"])
  BY <1>1, ProceedLooks
<1>3. QED
  BY <1>1, <1>2, ContinueKeeps

\* Files of a request become the files of an artifact.
LEMMA ArtifactSaveKeeps == ASSUME IInv, NEW p \in Requests, ArtifactSave(p) PROVE IInv'
<1>1. PICK a \in ArtifactIds :
        artifacts' = [artifacts EXCEPT ![a] = [design |-> req[p].design, files |-> req[p].own]]
  BY DEF ArtifactSave
<1>2. /\ designs' = designs /\ objects' = objects
      /\ req' = [q \in Requests |-> IF q = p THEN Idle ELSE req[q]]
  BY ContinueShape DEF ArtifactSave
<1>3. /\ req[p].op = "artifactPut" /\ req[p] \in DesignRequest
      /\ req[p].design \in DesignIds /\ req[p].own \in SUBSET Keys /\ req[p].own = Own(req[p])
  <2>1. req[p].op = "artifactPut" /\ req[p] \in DesignRequest
    BY RequestFacts DEF ArtifactSave, At
  <2>2. QED
    BY <2>1 DEF DesignRequest, Idle, Own
<1>4. artifacts' \in [ArtifactIds -> ArtifactRow]
  BY <1>1, <1>3, RowFacts DEF ArtifactRow
<1>5. \A b \in ArtifactIds : artifacts'[b].files \subseteq artifacts[b].files \cup Own(req[p])
  BY <1>1, <1>3, RowFacts
<1>6. Good(req[p])'
  <2>1. req'[p] = Idle
    BY <1>2
  <2>2. QED
    BY <2>1 DEF Good, Idle, Knows, OwnFiles, OldFile, Own, Old, DesignRequest
<1>7. \A d \in DesignIds : Evolves(p, d) /\ designs'[d].background \notin Own(req[p])
  BY <1>2, RequestFacts DEF Evolves, Stored, HasBackground, OwnFiles
<1>8. ActiveHasBackground'
  BY <1>2 DEF IInv, ActiveHasBackground, HasBackground
<1>9. Own(req'[p]) = {} /\ Old(req'[p]) = NoKey
  BY <1>2 DEF Own, Old, Idle
<1>10. \A q \in Requests : Own(req[q]) \subseteq Keys
  BY RequestFacts
<1>11. DOMAIN req' = Requests /\ \A q \in Requests \ {p} : req'[q] = req[q]
  BY <1>2
<1>12. QED
  BY <1>2, <1>4, <1>5, <1>6, <1>7, <1>8, <1>9, <1>10, <1>11, StepKeeps, RowFacts

-----------------------------------------------------------------------------
(* Handlers that write designs                                             *)

\* A write of one design that ends its request.
LEMMA PutDesignKeeps ==
    ASSUME IInv, NEW p \in Requests, NEW d \in DesignIds, NEW document \in DesignDocument,
           NEW r, WriteDesigns(p, Put(d, document), r), UNCHANGED <<artifacts, objects>>,
           document.phase # "none",
           document.phase = "stored" /\ designs[d].phase # "none" =>
                /\ Stored(d) /\ document.uploaded = designs[d].uploaded
                /\ HasBackground(d) => document.background # NoKey,
           document.background \in {NoKey, designs[d].background} \cup Own(req[p]),
           document.active /\ document.uploaded => document.background # NoKey,
           \/ r = Idle
           \/ /\ r \in DesignRequest /\ r.op = "clean" /\ r.design = req[p].design
              /\ r.design = d
              /\ Own(r) \subseteq Own(req[p]) /\ Old(r) = Old(req[p])
              /\ document.background \notin Own(r) \cup {Old(r)}
    PROVE  IInv'
<1>1. DOMAIN Put(d, document) = {d} /\ Put(d, document)[d] = document
  BY DEF Put
<1>2. PICK W : W = Put(d, document)
  OBVIOUS
<1>3. /\ WriteDesigns(p, W, r) /\ DOMAIN W = {d} /\ W[d] = document
  BY <1>1, <1>2
<1>4. QED
  BY <1>3, DesignWriteKeeps

LEMMA CreateKeeps == ASSUME IInv, NEW p \in Requests, Create(p) PROVE IInv'
<1>1. PICK d \in DesignIds, uploaded \in BOOLEAN :
        /\ designs[d].phase = "none"
        /\ WriteDesigns(p, Put(d, [phase |-> "stored", uploaded |-> uploaded,
                                   template |-> ~uploaded, background |-> NoKey,
                                   active |-> FALSE]), Idle)
  BY DEF Create
<1> DEFINE document == [phase |-> "stored", uploaded |-> uploaded, template |-> ~uploaded,
                        background |-> NoKey, active |-> FALSE]
<1>2. /\ document \in DesignDocument /\ document.phase = "stored"
      /\ document.background = NoKey /\ document.active = FALSE
  BY DEF DesignDocument
<1>3. WriteDesigns(p, Put(d, document), Idle) /\ UNCHANGED <<artifacts, objects>>
  BY <1>1 DEF Create
<1> HIDE DEF document
<1>4. QED
  BY <1>1, <1>2, <1>3, PutDesignKeeps

LEMMA UpdateWriteKeeps == ASSUME IInv, NEW p \in Requests, UpdateWrite(p) PROVE IInv'
<1> DEFINE d == req[p].design
           document == [designs[d] EXCEPT !.template = At(p, "setTemplate")]
<1>1. /\ Stored(d) /\ WriteDesigns(p, Put(d, document), Idle) /\ UNCHANGED <<artifacts, objects>>
      /\ req[p].op \in {"setTemplate", "clearTemplate"}
  BY DEF UpdateWrite, At
<1>2. d \in DesignIds
  BY <1>1, RequestFacts DEF DesignRequest, Idle
<1> HIDE DEF d
<1>3. designs[d] \in DesignDocument
  BY <1>2, RowFacts
<1>4. At(p, "setTemplate") \in BOOLEAN
  BY DEF At
<1>5. /\ document \in DesignDocument /\ document.phase = designs[d].phase
      /\ document.uploaded = designs[d].uploaded
      /\ document.background = designs[d].background /\ document.active = designs[d].active
  BY <1>3, <1>4 DEF DesignDocument
<1> HIDE DEF document
<1>6. designs[d].active /\ designs[d].uploaded => HasBackground(d)
  BY <1>2 DEF IInv, ActiveHasBackground
<1>7. document.phase # "none" /\ (HasBackground(d) => document.background # NoKey)
  BY <1>1, <1>5 DEF Stored, HasBackground
<1>8. document.active /\ document.uploaded => document.background # NoKey
  BY <1>5, <1>6 DEF HasBackground
<1>9. QED
  BY <1>1, <1>2, <1>5, <1>7, <1>8, PutDesignKeeps

LEMMA RemoveRowKeeps == ASSUME IInv, NEW p \in Requests, RemoveRow(p) PROVE IInv'
<1> DEFINE d == req[p].design
           document == NoDesignDocument("deleted")
           r == IF req[p].old = NoKey THEN Idle ELSE [req[p] EXCEPT !.op = "clean"]
<1>1. /\ WriteDesigns(p, Put(d, document), r) /\ UNCHANGED <<artifacts, objects>>
      /\ req[p].op = "removeRow"
  BY DEF RemoveRow, At
<1>2. /\ req[p] \in DesignRequest /\ d \in DesignIds
      /\ Own(req[p]) = req[p].own /\ Old(req[p]) = req[p].old
      /\ Own(req[p]) \subseteq Keys /\ NoKey \notin Keys
  <2>1. req[p] \in DesignRequest
    BY <1>1, RequestFacts
  <2>2. QED
    BY <1>1, <2>1, RequestFacts, RowFacts DEF DesignRequest, Idle, Own, Old
<1>3. /\ document \in DesignDocument /\ document.phase = "deleted"
      /\ document.background = NoKey /\ document.active = FALSE
  BY DEF NoDesignDocument, DesignDocument
<1>4. \/ r = Idle
      \/ /\ r \in DesignRequest /\ r.op = "clean" /\ r.design = d
         /\ Own(r) = Own(req[p]) /\ Old(r) = Old(req[p]) /\ Old(r) # NoKey
  <2>1. CASE req[p].old = NoKey
    BY <2>1
  <2>2. CASE req[p].old # NoKey
    <3>1. /\ r \in DesignRequest /\ r.op = "clean" /\ r.design = d
          /\ r.own = req[p].own /\ r.old = req[p].old
      BY <1>1, <1>2, <2>2 DEF DesignRequest, Idle
    <3> HIDE DEF r
    <3>2. Own(r) = r.own /\ Old(r) = r.old
      BY <3>1 DEF Own, Old
    <3>3. QED
      BY <1>2, <2>2, <3>1, <3>2
  <2>3. QED
    BY <2>1, <2>2
<1> HIDE DEF document, r
<1>5. QED
  BY <1>1, <1>2, <1>3, <1>4, PutDesignKeeps

LEMMA BackgroundSaveKeeps == ASSUME IInv, NEW p \in Requests, BackgroundSave(p) PROVE IInv'
<1> DEFINE d == req[p].design
           r == IF req[p].old = NoKey THEN Idle
                ELSE [req[p] EXCEPT !.op = "clean", !.own = {}]
<1>1. /\ req[p].op = "save" /\ Stored(d) /\ UNCHANGED <<artifacts, objects>>
      /\ \E k \in req[p].own :
            WriteDesigns(p, Put(d, [designs[d] EXCEPT !.background = k]), r)
  BY DEF BackgroundSave, At
<1>2. PICK k \in req[p].own : WriteDesigns(p, Put(d, [designs[d] EXCEPT !.background = k]), r)
  BY <1>1
<1> DEFINE document == [designs[d] EXCEPT !.background = k]
<1>3. /\ req[p] \in DesignRequest /\ d \in DesignIds /\ k \in Own(req[p]) /\ k \in Keys
      /\ Old(req[p]) = req[p].old /\ Old(req[p]) \notin Own(req[p]) /\ NoKey \notin Keys
  <2>1. req[p] \in DesignRequest
    BY <1>1, RequestFacts
  <2>2. QED
    BY <1>1, <1>2, <2>1, RequestFacts, RowFacts DEF DesignRequest, Idle, Own, Old
<1>4. \/ r = Idle
      \/ /\ r \in DesignRequest /\ r.op = "clean" /\ r.design = d
         /\ Own(r) = {} /\ Old(r) = Old(req[p])
  <2>1. CASE req[p].old = NoKey
    BY <2>1
  <2>2. CASE req[p].old # NoKey
    <3>1. /\ r \in DesignRequest /\ r.op = "clean" /\ r.design = d
          /\ r.own = {} /\ r.old = req[p].old
      <4>1. req[p] \in RequestRecord
        BY <1>1, <1>3 DEF DesignRequest, RequestRecord, Idle
      <4>2. /\ r \in RequestRecord /\ r.op = "clean" /\ r.design = d
            /\ r.own = {} /\ r.old = req[p].old
        BY <2>2, <4>1 DEF RequestRecord
      <4>3. QED
        BY <4>2 DEF DesignRequest, RequestRecord
    <3> HIDE DEF r
    <3>2. Own(r) = r.own /\ Old(r) = r.old
      BY <3>1 DEF Own, Old
    <3>3. QED
      BY <1>3, <3>1, <3>2
  <2>3. QED
    BY <2>1, <2>2
<1> HIDE DEF d, r
<1>5. /\ document \in DesignDocument /\ document.phase = designs[d].phase
      /\ document.uploaded = designs[d].uploaded /\ document.background = k
  <2>1. designs[d] \in DesignDocument
    BY <1>3, RowFacts
  <2>2. QED
    BY <1>3, <2>1 DEF DesignDocument
<1>6. WriteDesigns(p, Put(d, document), r)
  BY <1>2
<1> HIDE DEF document
<1>7. k # NoKey /\ document.phase # "none" /\ r.design = d => r.design = req[p].design
  BY <1>1, <1>3, <1>5 DEF Stored, d
<1>8. QED
  BY <1>1, <1>3, <1>4, <1>5, <1>6, <1>7, PutDesignKeeps DEF Stored

\* The activation commits what it has prepared: nobody wrote those designs.
LEMMA ActivateCommitKeeps == ASSUME IInv, NEW p \in Requests, ActivateCommit(p) PROVE IInv'
<1>1. PICK W : W = req[p].w.designs
  OBVIOUS
<1>2. WriteDesigns(p, W, Idle) /\ UNCHANGED <<artifacts, objects>>
  BY <1>1 DEF ActivateCommit
<1>3. Own(req[p]) = {}
  BY DEF ActivateCommit, At, Own
<1>4. ASSUME NEW d \in DOMAIN W
      PROVE  /\ d \in DesignIds /\ Stored(d)
             /\ W[d] \in DesignDocument /\ W[d].phase = "stored"
             /\ W[d].uploaded = designs[d].uploaded
             /\ W[d].background = designs[d].background
             /\ W[d].active /\ W[d].uploaded => W[d].background # NoKey
  <2>1. PICK active \in BOOLEAN :
          /\ d \in DesignIds /\ Stored(d)
          /\ W[d] = Marked(designs[d], active)
          /\ active /\ designs[d].uploaded => HasBackground(d)
    BY <1>1, <1>4, RequestFacts DEF ActivateCommit, At, Pending
  <2>2. designs[d] \in DesignDocument
    BY <2>1, RowFacts
  <2>3. /\ W[d] \in DesignDocument /\ W[d].phase = designs[d].phase
        /\ W[d].uploaded = designs[d].uploaded /\ W[d].background = designs[d].background
        /\ W[d].active = active
    BY <2>1, <2>2 DEF Marked, DesignDocument
  <2>4. QED
    BY <2>1, <2>3 DEF Stored, HasBackground
<1>5. QED
  BY <1>2, <1>3, <1>4, DesignWriteKeeps DEF HasBackground

-----------------------------------------------------------------------------
(* The invariant and the theorems                                          *)

LEMMA FailsKeeps == ASSUME IInv, NEW p \in Requests, Fails(p) PROVE IInv'
BY IdleLooks, ContinueKeeps DEF Fails

\* The requests of a process are lost, and nothing else is.
LEMMA RestartKeeps == ASSUME IInv, NEW m \in Processes, Restart(m) PROVE IInv'
<1>1. /\ DOMAIN req' = Requests /\ UNCHANGED <<designs, artifacts, objects>>
      /\ \A q \in Requests : req'[q] \in {Idle, req[q]}
  BY DEF Restart
<1>2. Rows' /\ FilesOfRows' /\ ActiveHasBackground'
  BY <1>1 DEF IInv, Rows, FilesOfRows, ActiveHasBackground, HasBackground
<1>3. ASSUME NEW q \in Requests
      PROVE  Good(req[q])'
  <2>1. PICK r : r = req'[q]
    OBVIOUS
  <2>2. Good(r)
    BY <1>1, <2>1, IdleGood DEF IInv
  <2>3. QED
    BY <1>1, <2>1, <2>2 DEF Good, Pending, Knows, OwnFiles, OldFile, Own, Old, Stored,
       HasBackground
<1>4. Apart'
  <2>1. Own(Idle) = {} /\ Old(Idle) = NoKey /\ NoKey \notin Keys
    BY RowFacts DEF Own, Old, Idle
  <2>2. ASSUME NEW q \in Requests
        PROVE  /\ Own(req'[q]) = {} \/ Own(req'[q]) = Own(req[q])
               /\ Old(req'[q]) = NoKey \/ Old(req'[q]) = Old(req[q])
    BY <1>1, <2>1
  <2>3. ASSUME NEW q \in Requests, NEW t \in Requests
        PROVE  /\ Old(req'[q]) \notin Own(req'[t])
               /\ q # t => Own(req'[q]) \cap Own(req'[t]) = {}
    <3>1. /\ Old(req[q]) \notin Own(req[t])
          /\ q # t => Own(req[q]) \cap Own(req[t]) = {}
          /\ Own(req[t]) \subseteq Keys
      BY RequestFacts
    <3>2. QED
      BY <2>1, <2>2, <3>1
  <2>4. QED
    BY <2>3 DEF Apart, Own, Old
<1>5. QED
  BY <1>1, <1>2, <1>3, <1>4 DEF IInv

LEMMA InitHolds == ASSUME Init PROVE IInv
<1>1. Rows /\ FilesOfRows /\ ActiveHasBackground /\ DOMAIN req = Requests
  BY DesignProcessAssumption DEF Init, Rows, FilesOfRows, ActiveHasBackground, HasBackground,
     DesignDocument, NoDesignDocument, ArtifactRow, NoArtifact
<1>2. \A q \in Requests : Good(req[q])
  BY IdleGood DEF Init
<1>3. Apart
  BY DEF Init, Apart, Own, Old, Idle
<1>4. QED
  BY <1>1, <1>2, <1>3 DEF IInv

LEMMA NextKeeps == ASSUME IInv, Next PROVE IInv'
<1>1. CASE \E p \in Requests : Arrive(p)
  BY <1>1, CreateKeeps, UpdateReadKeeps, RemoveReadKeeps, ActivateReadKeeps,
     BackgroundReadKeeps, ArtifactReadKeeps DEF Arrive
<1>2. CASE \E p \in Requests : Advance(p)
  BY <1>2, UpdateWriteKeeps, RemoveCountKeeps, RemoveRowKeeps, ActivateTransactionKeeps,
     ActivateCommitKeeps, BackgroundPutKeeps, BackgroundSaveKeeps, CleanKeeps,
     ArtifactPutKeeps, ArtifactSaveKeeps, SaveFailsKeeps, CompensateKeeps, FailsKeeps
     DEF Advance
<1>3. CASE \E m \in Processes : Restart(m)
  BY <1>3, RestartKeeps
<1>4. QED
  BY <1>1, <1>2, <1>3 DEF Next

LEMMA Invariance == Spec => []IInv
<1>1. IInv /\ UNCHANGED vars => IInv'
  <2>1. SUFFICES ASSUME IInv, UNCHANGED vars
                 PROVE  IInv'
    OBVIOUS
  <2>2. /\ Rows' /\ FilesOfRows' /\ ActiveHasBackground' /\ Apart' /\ DOMAIN req' = Requests
    BY <2>1 DEF vars, IInv, Rows, FilesOfRows, ActiveHasBackground, HasBackground, Apart,
       Own, Old
  <2>3. ASSUME NEW q \in Requests PROVE Good(req[q])'
    <3>1. PICK r : r = req[q]
      OBVIOUS
    <3>2. Good(r) /\ req'[q] = r
      BY <2>1, <3>1 DEF vars, IInv
    <3>3. QED
      BY <2>1, <3>2 DEF vars, Good, Pending, Knows, OwnFiles, OldFile, Own, Old, Stored,
         HasBackground
  <2>4. QED
    BY <2>2, <2>3 DEF IInv
<1>2. QED
  BY <1>1, InitHolds, NextKeeps, PTL DEF Spec

\* Replacements, removals, artifacts, failed writes and restarts that overlap in
\* any way leave every background and every file of an artifact in GridFS
\* (FilesOfRows).
THEOREM FilesOfRowsStay == Spec => []FilesOfRows
<1>1. IInv => FilesOfRows
  BY DEF IInv
<1>2. QED
  BY <1>1, Invariance, PTL

\* The check of a design holds until its activation commits, in any number of
\* processes (ActiveHasBackground).
THEOREM ActiveKeepsBackground == Spec => []ActiveHasBackground
<1>1. IInv => ActiveHasBackground
  BY DEF IInv
<1>2. QED
  BY <1>1, Invariance, PTL

-----------------------------------------------------------------------------
(* The queue of activations                                                *)

\* The activations of a process are in its queue once each, and only the first
\* of them may be about to commit.
Turns ==
    /\ turns \in [Processes -> Seq(Requests)]
    /\ \A m \in Processes : \A i \in 1 .. Len(turns[m]) :
        /\ ProcessOf[turns[m][i]] = m
        /\ Activating(req[turns[m][i]])
        /\ i > 1 => req[turns[m][i]].op = "activate"
        /\ \A j \in 1 .. Len(turns[m]) : turns[m][i] = turns[m][j] => i = j
    /\ \A p \in Requests : req[p].op = "commit" => MyTurn(p)

\* Only imported designs have a background, only generated ones a template, and
\* a template is only to be written to a generated design.
Modes ==
    /\ \A d \in DesignIds :
        IF designs[d].uploaded THEN ~designs[d].template ELSE ~HasBackground(d)
    /\ \A p \in Requests : req[p].op = "setTemplate" => ~designs[req[p].design].uploaded

\* All requests run in one process and share its lock.
SharedLock == \A p, q \in Requests : ProcessOf[p] = ProcessOf[q]

\* The activation that waits to commit leaves one design active.
LeavesOne(w) ==
    \E d \in DesignIds :
        /\ \A e \in DOMAIN w.designs : w.designs[e].active => e = d
        /\ \A e \in DesignIds : designs[e].active => e \in DOMAIN w.designs

Single ==
    /\ \A d \in DesignIds : designs[d].active => Stored(d)
    /\ \A d, e \in DesignIds : designs[d].active /\ designs[e].active => d = e
    /\ \A p \in Requests : req[p].op = "commit" => LeavesOne(req[p].w)

\* The inductive invariant of the activations.
InTurn == Turns /\ Modes /\ (SharedLock => Single)

\* The first of a queue.
LEMMA TurnHead ==
    ASSUME Turns, NEW m \in Processes, turns[m] # <<>>
    PROVE  /\ Len(turns[m]) >= 1 /\ Head(turns[m]) = turns[m][1] /\ turns[m][1] \in Requests
<1>1. turns[m] \in Seq(Requests)
  BY DEF Turns
<1>2. QED
  BY <1>1

\* Two activations do not commit in the same process.
LEMMA OneCommits ==
    ASSUME Turns, SharedLock, NEW p \in Requests, NEW q \in Requests,
           req[p].op = "commit", req[q].op = "commit"
    PROVE  p = q
<1>1. MyTurn(p) /\ MyTurn(q) /\ ProcessOf[p] = ProcessOf[q]
  BY DEF Turns, SharedLock
<1>2. QED
  BY <1>1 DEF MyTurn

\* What the requests are once one of them has written.
LEMMA WriteShape ==
    ASSUME IInv, NEW p \in Requests, NEW W, NEW r, WriteDesigns(p, W, r)
    PROVE  /\ \A d \in DesignIds : designs'[d] = IF d \in DOMAIN W THEN W[d] ELSE designs[d]
           /\ DOMAIN req' = Requests /\ req'[p] = r
           /\ \A q \in Requests \ {p} :
                \/ req'[q] = Idle /\ req[q].op = "commit"
                \/ /\ req'[q] = req[q]
                   /\ req[q].op = "commit" => DOMAIN req[q].w.designs \cap DOMAIN W = {}
<1>1. \A d \in DesignIds : designs'[d] = IF d \in DOMAIN W THEN W[d] ELSE designs[d]
  BY RowFacts DEF WriteDesigns, Install
<1>2. /\ DOMAIN req' = Requests /\ req'[p] = r
      /\ \A q \in Requests \ {p} :
            \/ req'[q] = Idle /\ req[q].op = "commit"
            \/ /\ req'[q] = req[q]
               /\ req[q].op = "commit" => ~Conflict(req[q].w, [designs |-> W])
  BY RowFacts DEF WriteDesigns, Spared
<1>3. ASSUME NEW q \in Requests, req[q].op = "commit", ~Conflict(req[q].w, [designs |-> W])
      PROVE  DOMAIN req[q].w.designs \cap DOMAIN W = {}
  <2>1. DOMAIN req[q].w = {"designs"}
    BY <1>3, RequestFacts DEF Pending
  <2>2. QED
    BY <1>3, <2>1 DEF Conflict
<1>4. QED
  BY <1>1, <1>2, <1>3

\* Only the first of a queue leaves it.
LEMMA ReleasedTurns ==
    ASSUME IInv, Turns, NEW p \in Requests, NEW W, NEW r, WriteDesigns(p, W, r),
           Activating(req[p]) => MyTurn(p),
           Activating(r) => r.op = "commit" /\ Activating(req[p])
    PROVE  Turns'
<1>1. /\ req'[p] = r
      /\ \A q \in Requests \ {p} : req'[q] = req[q] \/ (req'[q] = Idle /\ req[q].op = "commit")
  BY WriteShape
<1>2. \A m \in Processes :
        turns'[m] = IF turns[m] # <<>> /\ ~Activating(req'[Head(turns[m])]) THEN Tail(turns[m])
                    ELSE turns[m]
  BY DEF WriteDesigns, Released
<1>3. turns' \in [Processes -> Seq(Requests)]
  <2>1. \A m \in Processes : turns'[m] \in Seq(Requests)
    <3>1. SUFFICES ASSUME NEW m \in Processes
                   PROVE  turns'[m] \in Seq(Requests)
      OBVIOUS
    <3>2. PICK s : s = turns[m] /\ s \in Seq(Requests)
      BY DEF Turns
    <3>3. s # <<>> => Tail(s) \in Seq(Requests)
      BY <3>2, HeadTailProperties
    <3>4. turns'[m] = s \/ (s # <<>> /\ turns'[m] = Tail(s))
      BY <1>2, <3>2
    <3>5. QED
      BY <3>2, <3>3, <3>4
  <2>2. DOMAIN turns' = Processes /\ turns' = [m \in DOMAIN turns' |-> turns'[m]]
    BY DEF WriteDesigns, Released
  <2>3. QED
    BY <2>1, <2>2
<1>4. ASSUME NEW m \in Processes, NEW i \in 1 .. Len(turns[m]), i > 1
      PROVE  req'[turns[m][i]].op = "activate"
  <2>1. turns[m] \in Seq(Requests) /\ 1 \in 1 .. Len(turns[m]) /\ turns[m] # <<>>
    BY <1>4 DEF Turns
  <2>2. PICK q : q = turns[m][i]
    OBVIOUS
  <2>3. /\ q \in Requests /\ ProcessOf[q] = m /\ req[q].op = "activate"
        /\ q # turns[m][1]
    BY <1>4, <2>1, <2>2 DEF Turns
  <2>4. q # p
    <3>1. SUFFICES ASSUME q = p PROVE FALSE
      OBVIOUS
    <3>2. MyTurn(p)
      BY <2>3, <3>1 DEF Activating
    <3>3. Head(turns[m]) = q
      BY <2>3, <3>1, <3>2 DEF MyTurn
    <3>4. QED
      BY <2>1, <2>3, <3>3
  <2>5. QED
    BY <1>1, <2>2, <2>3, <2>4
<1>5. ASSUME NEW m \in Processes
      PROVE  \A i \in 1 .. Len(turns'[m]) :
                /\ ProcessOf[turns'[m][i]] = m
                /\ Activating(req'[turns'[m][i]])
                /\ i > 1 => req'[turns'[m][i]].op = "activate"
                /\ \A j \in 1 .. Len(turns'[m]) : turns'[m][i] = turns'[m][j] => i = j
  <2>1. /\ turns[m] \in Seq(Requests)
        /\ \A i, j \in 1 .. Len(turns[m]) :
            ProcessOf[turns[m][i]] = m /\ (turns[m][i] = turns[m][j] => i = j)
    BY DEF Turns
  <2>2. CASE turns[m] # <<>> /\ ~Activating(req'[Head(turns[m])])
    <3>1. /\ turns'[m] = Tail(turns[m]) /\ Len(turns'[m]) = Len(turns[m]) - 1
          /\ \A i \in 1 .. Len(turns'[m]) : turns'[m][i] = turns[m][i + 1]
      <4>1. turns'[m] = Tail(turns[m])
        BY <1>2, <2>2
      <4>2. PICK s : s = turns[m] /\ s \in Seq(Requests) /\ s # <<>>
        BY <2>1, <2>2
      <4>3. Len(Tail(s)) = Len(s) - 1 /\ \A i \in 1 .. Len(Tail(s)) : Tail(s)[i] = s[i + 1]
        BY <4>2, HeadTailProperties
      <4>4. QED
        BY <4>1, <4>2, <4>3
    <3>2. Len(turns[m]) \in Nat
      BY <2>1
    <3>3. ASSUME NEW i \in 1 .. Len(turns'[m])
          PROVE  /\ ProcessOf[turns'[m][i]] = m
                 /\ req'[turns'[m][i]].op = "activate"
                 /\ \A j \in 1 .. Len(turns'[m]) : turns'[m][i] = turns'[m][j] => i = j
      <4>1. i + 1 \in 1 .. Len(turns[m]) /\ i + 1 > 1 /\ turns'[m][i] = turns[m][i + 1]
        BY <3>1, <3>2
      <4>2. req'[turns[m][i + 1]].op = "activate"
        BY <1>4, <4>1
      <4>3. \A j \in 1 .. Len(turns'[m]) :
              j + 1 \in 1 .. Len(turns[m]) /\ turns'[m][j] = turns[m][j + 1]
        BY <3>1, <3>2
      <4>4. \A j \in 1 .. Len(turns'[m]) : turns'[m][i] = turns'[m][j] => i + 1 = j + 1
        BY <2>1, <4>1, <4>3
      <4>5. QED
        BY <2>1, <4>1, <4>2, <4>4
    <3>4. QED
      BY <3>3 DEF Activating
  <2>3. CASE turns[m] = <<>> \/ Activating(req'[Head(turns[m])])
    <3>1. turns'[m] = turns[m]
      BY <1>2, <2>3
    <3>2. ASSUME NEW i \in 1 .. Len(turns[m])
          PROVE  Activating(req'[turns[m][i]]) /\ (i > 1 => req'[turns[m][i]].op = "activate")
      <4>1. CASE i > 1
        BY <1>4, <4>1 DEF Activating
      <4>2. CASE ~(i > 1)
        <5>1. i = 1 /\ turns[m] # <<>>
          BY <2>1, <3>2, <4>2
        <5>2. Head(turns[m]) = turns[m][1]
          BY TurnHead, <5>1
        <5>3. QED
          BY <2>3, <5>1, <5>2
      <4>3. QED
        BY <4>1, <4>2
    <3>3. QED
      BY <2>1, <3>1, <3>2
  <2>4. QED
    BY <2>2, <2>3
<1>6. ASSUME NEW q \in Requests, req'[q].op = "commit"
      PROVE  turns'[ProcessOf[q]] # <<>> /\ Head(turns'[ProcessOf[q]]) = q
  <2>1. MyTurn(q)
    <3>1. CASE q = p
      BY <1>1, <1>6, <3>1 DEF Activating
    <3>2. CASE q # p
      <4>1. req'[q] # Idle
        BY <1>6 DEF Idle
      <4>2. req[q].op = "commit"
        BY <1>1, <1>6, <3>2, <4>1
      <4>3. QED
        BY <4>2 DEF Turns
    <3>3. QED
      BY <3>1, <3>2
  <2>2. ProcessOf[q] \in Processes
    BY DesignProcessAssumption
  <2>3. turns'[ProcessOf[q]] = turns[ProcessOf[q]]
    BY <1>2, <1>6, <2>1, <2>2 DEF MyTurn, Activating
  <2>4. QED
    BY <2>1, <2>3 DEF MyTurn
<1>7. QED
  BY <1>3, <1>5, <1>6 DEF Turns, MyTurn, Activating

\* An activation takes its place at the end.
LEMMA QueuedTurns ==
    ASSUME IInv, Turns, NEW p \in Requests, req[p] = Idle, NEW r, r.op = "activate",
           req' = [req EXCEPT ![p] = r],
           turns' = [turns EXCEPT ![ProcessOf[p]] = Append(@, p)]
    PROVE  Turns'
<1>1. /\ req'[p] = r /\ req[p].op = "idle"
      /\ \A q \in Requests \ {p} : req'[q] = req[q]
  BY RowFacts DEF Idle
<1>2. ProcessOf[p] \in Processes
  BY DesignProcessAssumption
<1> DEFINE s == turns[ProcessOf[p]]
<1>3. s \in Seq(Requests)
  BY <1>2 DEF Turns
<1>4. /\ \A m \in Processes : turns'[m] = IF m = ProcessOf[p] THEN Append(s, p) ELSE turns[m]
      /\ DOMAIN turns' = Processes /\ turns' = [m \in DOMAIN turns' |-> turns'[m]]
  BY <1>2 DEF Turns
<1>5. /\ Append(s, p) \in Seq(Requests) /\ Append(s, p) # <<>>
      /\ Len(Append(s, p)) = Len(s) + 1 /\ Len(s) \in Nat
      /\ \A i \in 1 .. Len(s) : Append(s, p)[i] = s[i]
      /\ Append(s, p)[Len(s) + 1] = p
      /\ s # <<>> => Head(Append(s, p)) = Head(s)
  BY <1>3, AppendProperties, HeadTailAppend
<1>6. turns' \in [Processes -> Seq(Requests)]
  <2>1. \A m \in Processes : turns'[m] \in Seq(Requests)
    BY <1>4, <1>5 DEF Turns
  <2>2. QED
    BY <1>4, <2>1
<1>7. \A m \in Processes : \A i \in 1 .. Len(turns[m]) :
        /\ turns[m][i] \in Requests /\ turns[m][i] # p
        /\ req'[turns[m][i]] = req[turns[m][i]]
  <2>1. SUFFICES ASSUME NEW m \in Processes, NEW i \in 1 .. Len(turns[m])
                 PROVE  turns[m][i] \in Requests /\ turns[m][i] # p
    BY <1>1
  <2>2. turns[m] \in Seq(Requests) /\ Activating(req[turns[m][i]])
    BY DEF Turns
  <2>3. QED
    BY <1>1, <2>2 DEF Activating
<1>8. ASSUME NEW m \in Processes
      PROVE  \A i \in 1 .. Len(turns'[m]) :
                /\ ProcessOf[turns'[m][i]] = m
                /\ Activating(req'[turns'[m][i]])
                /\ i > 1 => req'[turns'[m][i]].op = "activate"
                /\ \A j \in 1 .. Len(turns'[m]) : turns'[m][i] = turns'[m][j] => i = j
  <2>1. \A i \in 1 .. Len(turns[m]) :
            /\ ProcessOf[turns[m][i]] = m
            /\ Activating(req'[turns[m][i]])
            /\ i > 1 => req'[turns[m][i]].op = "activate"
            /\ \A j \in 1 .. Len(turns[m]) : turns[m][i] = turns[m][j] => i = j
    BY <1>7 DEF Turns
  <2>2. CASE m # ProcessOf[p]
    <3>1. turns'[m] = turns[m]
      BY <1>4, <2>2
    <3>2. QED
      BY <2>1, <3>1
  <2>3. CASE m = ProcessOf[p]
    <3>1. /\ turns'[m] = Append(s, p) /\ turns[m] = s
          /\ \A i \in 1 .. Len(s) : s[i] # p
      BY <1>4, <1>7, <2>3
    <3> HIDE DEF s
    <3>2. PICK u : u = turns'[m]
      OBVIOUS
    <3>3. /\ Len(u) = Len(s) + 1 /\ \A i \in 1 .. Len(s) : u[i] = s[i]
          /\ u[Len(s) + 1] = p
      BY <1>5, <3>1, <3>2
    <3>4. ASSUME NEW i \in 1 .. Len(u)
          PROVE  /\ ProcessOf[u[i]] = m
                 /\ Activating(req'[u[i]])
                 /\ i > 1 => req'[u[i]].op = "activate"
                 /\ \A j \in 1 .. Len(u) : u[i] = u[j] => i = j
      <4>1. CASE i = Len(s) + 1
        <5>1. u[i] = p /\ req'[p].op = "activate"
          BY <1>1, <3>3, <4>1
        <5>2. \A j \in 1 .. Len(u) : u[j] = p => j = Len(s) + 1
          BY <1>5, <3>1, <3>3
        <5>3. QED
          BY <2>3, <4>1, <5>1, <5>2 DEF Activating
      <4>2. CASE i # Len(s) + 1
        <5>1. i \in 1 .. Len(s) /\ u[i] = s[i]
          BY <1>5, <3>3, <3>4, <4>2
        <5>2. \A j \in 1 .. Len(u) : u[i] = u[j] => i = j
          <6>1. SUFFICES ASSUME NEW j \in 1 .. Len(u), u[i] = u[j]
                         PROVE  i = j
            OBVIOUS
          <6>2. j # Len(s) + 1
            BY <3>1, <3>3, <5>1, <6>1
          <6>3. j \in 1 .. Len(s) /\ u[j] = s[j]
            BY <1>5, <3>3, <6>1, <6>2
          <6>4. QED
            BY <2>1, <3>1, <5>1, <6>1, <6>3
        <5>3. QED
          BY <2>1, <3>1, <5>1, <5>2
      <4>3. QED
        BY <4>1, <4>2
    <3>5. QED
      BY <3>2, <3>4
  <2>4. QED
    BY <2>2, <2>3
<1>9. ASSUME NEW q \in Requests, req'[q].op = "commit"
      PROVE  turns'[ProcessOf[q]] # <<>> /\ Head(turns'[ProcessOf[q]]) = q
  <2>1. q # p /\ req[q].op = "commit"
    BY <1>1, <1>9
  <2>2. turns[ProcessOf[q]] # <<>> /\ Head(turns[ProcessOf[q]]) = q
    BY <2>1 DEF Turns, MyTurn
  <2>3. ProcessOf[q] \in Processes
    BY DesignProcessAssumption
  <2>4. QED
    BY <1>4, <1>5, <2>2, <2>3
<1>10. QED
  BY <1>6, <1>8, <1>9 DEF Turns, MyTurn, Activating

-----------------------------------------------------------------------------
(* Modes and the active design                                             *)

\* What a handler other than an activation may make of the design d.
Tame(d, document) ==
    /\ document.active => designs[d].active /\ document.phase = "stored"
    /\ IF document.uploaded THEN ~document.template ELSE document.background = NoKey
    /\ document.uploaded => designs[d].uploaded \/ designs[d].phase = "none"

LEMMA TameKeeps ==
    ASSUME IInv, InTurn, NEW p \in Requests, NEW W, NEW r, WriteDesigns(p, W, r),
           \A d \in DOMAIN W : d \in DesignIds /\ Tame(d, W[d]),
           Activating(req[p]) => MyTurn(p), ~Activating(r),
           r.op = "setTemplate" =>
              r.design \in DesignIds /\ DOMAIN W = {} /\ ~designs[r.design].uploaded
    PROVE  InTurn'
<1>1. /\ \A d \in DesignIds : designs'[d] = IF d \in DOMAIN W THEN W[d] ELSE designs[d]
      /\ req'[p] = r
      /\ \A q \in Requests \ {p} :
            \/ req'[q] = Idle /\ req[q].op = "commit"
            \/ /\ req'[q] = req[q]
               /\ req[q].op = "commit" => DOMAIN req[q].w.designs \cap DOMAIN W = {}
  BY WriteShape
<1>2. Turns'
  BY ReleasedTurns DEF InTurn
<1>3. Modes'
  <2>1. ASSUME NEW d \in DesignIds
        PROVE  IF designs'[d].uploaded THEN ~designs'[d].template
               ELSE designs'[d].background = NoKey
    BY <1>1 DEF InTurn, Modes, Tame, HasBackground
  <2>2. ASSUME NEW q \in Requests, req'[q].op = "setTemplate"
        PROVE  ~designs'[req'[q].design].uploaded
    <3>1. CASE q = p
      BY <1>1, <2>2, <3>1
    <3>2. CASE q # p
      <4>1. req'[q] = req[q]
        BY <1>1, <2>2, <3>2 DEF Idle
      <4>2. /\ req[q].design \in DesignIds /\ designs[req[q].design].phase # "none"
            /\ ~designs[req[q].design].uploaded
        BY <2>2, <4>1, RequestFacts DEF Knows, DesignRequest, Idle, InTurn, Modes
      <4>3. QED
        BY <1>1, <4>1, <4>2 DEF Tame
    <3>3. QED
      BY <3>1, <3>2
  <2>3. QED
    BY <2>1, <2>2 DEF Modes, HasBackground
<1>4. ASSUME SharedLock PROVE Single'
  <2>1. Single
    BY <1>4 DEF InTurn
  <2>2. \A d \in DesignIds : designs'[d].active =>
            designs[d].active /\ designs'[d].phase = "stored"
    BY <1>1, <2>1 DEF Tame, Single, Stored
  <2>3. ASSUME NEW q \in Requests, req'[q].op = "commit"
        PROVE  LeavesOne(req[q].w)'
    <3>1. q # p /\ req'[q] = req[q]
      BY <1>1, <2>3 DEF Idle, Activating
    <3>2. PICK w : w = req[q].w
      OBVIOUS
    <3>3. LeavesOne(w)
      BY <2>1, <2>3, <3>1, <3>2 DEF Single
    <3>4. LeavesOne(w)'
      BY <2>2, <3>3 DEF LeavesOne
    <3>5. QED
      BY <3>1, <3>2, <3>4 DEF LeavesOne
  <2>4. QED
    BY <2>1, <2>2, <2>3 DEF Single, Stored
<1>5. SharedLock'
        <=> SharedLock
  BY DEF SharedLock
<1>6. QED
  BY <1>2, <1>3, <1>4, <1>5 DEF InTurn

\* A step that writes no design and is not part of an activation.
LEMMA ContinueTame ==
    ASSUME IInv, InTurn, NEW p \in Requests, NEW r, Continue(p, r),
           Activating(req[p]) => MyTurn(p), ~Activating(r),
           r.op = "setTemplate" => r.design \in DesignIds /\ ~designs[r.design].uploaded
    PROVE  InTurn'
<1>1. WriteDesigns(p, Nothing, r) /\ DOMAIN Nothing = {}
  BY DEF Continue, Nothing
<1>2. QED
  BY <1>1, TameKeeps

LEMMA PutTame ==
    ASSUME IInv, InTurn, NEW p \in Requests, NEW d \in DesignIds, NEW document,
           Tame(d, document), NEW r, WriteDesigns(p, Put(d, document), r),
           ~Activating(req[p]), ~Activating(r), r.op # "setTemplate"
    PROVE  InTurn'
<1>1. PICK W : W = Put(d, document)
  OBVIOUS
<1>2. DOMAIN W = {d} /\ W[d] = document /\ WriteDesigns(p, W, r)
  BY <1>1 DEF Put
<1>3. QED
  BY <1>2, TameKeeps

\* The handlers that write no design.
LEMMA LookTame ==
    ASSUME IInv, InTurn, NEW p \in Requests,
           \/ UpdateRead(p) \/ RemoveRead(p) \/ BackgroundRead(p) \/ ArtifactRead(p)
           \/ RemoveCountArtifacts(p) \/ BackgroundPut(p) \/ ArtifactPut(p) \/ ArtifactSave(p)
           \/ Clean(p) \/ SaveFails(p) \/ Compensate(p) \/ Fails(p)
    PROVE  InTurn'
<1>1. ~Activating(Idle) /\ Idle.op # "setTemplate"
  BY DEF Activating, Idle
<1>2. CASE UpdateRead(p)
  <2>1. PICK d \in DesignIds, given \in BOOLEAN :
          /\ IF designs[d].uploaded THEN ~given ELSE given \/ designs[d].template
          /\ Continue(p, Request(IF given THEN "setTemplate" ELSE "clearTemplate",
                                 d, {}, NoKey))
    BY <1>2 DEF UpdateRead
  <2>2. PICK r : r = Request(IF given THEN "setTemplate" ELSE "clearTemplate", d, {}, NoKey)
    OBVIOUS
  <2>3. r.design = d /\ ~Activating(r) /\ (r.op = "setTemplate" => given)
    BY <2>2 DEF Request, Activating
  <2>4. QED
    BY <1>1, <1>2, <2>1, <2>2, <2>3, ContinueTame DEF UpdateRead, Arrives
<1>3. CASE RemoveRead(p) \/ BackgroundRead(p) \/ ArtifactRead(p)
  <2>1. PICK op \in {"inUse", "put", "artifactPut"}, d \in DesignIds, old \in Keys \cup {NoKey} :
          Continue(p, Request(op, d, {}, old))
    BY <1>3, RowFacts DEF RemoveRead, BackgroundRead, ArtifactRead, DesignDocument
  <2>2. PICK r : r = Request(op, d, {}, old)
    OBVIOUS
  <2>3. ~Activating(r) /\ r.op # "setTemplate" /\ ~Activating(req[p])
    BY <1>1, <1>3, <2>2 DEF Request, Activating, RemoveRead, BackgroundRead, ArtifactRead, Arrives
  <2>4. QED
    BY <2>1, <2>2, <2>3, ContinueTame
<1>4. CASE RemoveCountArtifacts(p) \/ SaveFails(p)
  <2>1. PICK step \in {"removeRow", "compensate"} : Continue(p, [req[p] EXCEPT !.op = step])
    BY <1>4 DEF RemoveCountArtifacts, SaveFails, Proceed
  <2>2. req[p] \in DesignRequest /\ ~Activating(req[p]) /\ req[p] # Idle
    BY <1>4, RequestFacts DEF RemoveCountArtifacts, SaveFails, At, Activating, Idle
  <2>3. PICK r : r = [req[p] EXCEPT !.op = step]
    OBVIOUS
  <2>4. r.op = step
    BY <2>2, <2>3 DEF DesignRequest
  <2>5. QED
    BY <2>1, <2>2, <2>3, <2>4, ContinueTame DEF Activating
<1>5. CASE BackgroundPut(p) \/ ArtifactPut(p)
  <2>1. PICK step \in {"save", "artifactPut"}, k \in Keys :
          Continue(p, [req[p] EXCEPT !.op = step, !.own = @ \cup {k}])
    BY <1>5 DEF BackgroundPut, ArtifactPut, PutObject, FreshKeys
  <2>2. req[p] \in DesignRequest /\ ~Activating(req[p]) /\ req[p] # Idle
    BY <1>5, RequestFacts DEF BackgroundPut, ArtifactPut, At, Activating, Idle
  <2>3. PICK r : r = [req[p] EXCEPT !.op = step, !.own = @ \cup {k}]
    OBVIOUS
  <2>4. r.op = step
    BY <2>2, <2>3 DEF DesignRequest
  <2>5. QED
    BY <2>1, <2>2, <2>3, <2>4, ContinueTame DEF Activating
<1>6. CASE ArtifactSave(p) \/ Clean(p) \/ Compensate(p) \/ Fails(p)
  <2>1. Continue(p, Idle) /\ (Activating(req[p]) => MyTurn(p))
    BY <1>6 DEF ArtifactSave, Clean, Compensate, Fails, At, Activating
  <2>2. QED
    BY <1>1, <2>1, ContinueTame
<1>7. QED
  BY <1>2, <1>3, <1>4, <1>5, <1>6

LEMMA CreateTame == ASSUME IInv, InTurn, NEW p \in Requests, Create(p) PROVE InTurn'
<1>1. PICK d \in DesignIds, uploaded \in BOOLEAN :
        /\ designs[d].phase = "none"
        /\ WriteDesigns(p, Put(d, [phase |-> "stored", uploaded |-> uploaded,
                                   template |-> ~uploaded, background |-> NoKey,
                                   active |-> FALSE]), Idle)
  BY DEF Create
<1>2. PICK document :
        document = [phase |-> "stored", uploaded |-> uploaded, template |-> ~uploaded,
                    background |-> NoKey, active |-> FALSE]
  OBVIOUS
<1>3. Tame(d, document)
  BY <1>1, <1>2 DEF Tame
<1>4. ~Activating(Idle) /\ Idle.op # "setTemplate" /\ req[p] = Idle
  BY DEF Activating, Idle, Create, Arrives
<1>5. QED
  BY <1>1, <1>2, <1>3, <1>4, PutTame

LEMMA UpdateWriteTame == ASSUME IInv, InTurn, NEW p \in Requests, UpdateWrite(p) PROVE InTurn'
<1>1. PICK d : d = req[p].design
  OBVIOUS
<1>2. /\ req[p].op \in {"setTemplate", "clearTemplate"} /\ Stored(d)
      /\ WriteDesigns(p, Put(d, [designs[d] EXCEPT !.template = At(p, "setTemplate")]), Idle)
  BY <1>1 DEF UpdateWrite, At
<1>3. d \in DesignIds /\ (req[p].op = "setTemplate" => ~designs[d].uploaded)
  BY <1>1, <1>2, RequestFacts DEF DesignRequest, Idle, InTurn, Modes
<1>4. PICK document : document = [designs[d] EXCEPT !.template = At(p, "setTemplate")]
  OBVIOUS
<1>5. /\ document.phase = designs[d].phase /\ document.uploaded = designs[d].uploaded
      /\ document.background = designs[d].background /\ document.active = designs[d].active
      /\ document.template = (req[p].op = "setTemplate")
  <2>1. designs[d] \in DesignDocument
    BY <1>3, RowFacts
  <2>2. QED
    BY <1>4, <2>1 DEF DesignDocument, At
<1>6. Tame(d, document)
  <2>1. document.uploaded => ~document.template
    BY <1>3, <1>5
  <2>2. ~document.uploaded => document.background = NoKey
    BY <1>3, <1>5 DEF InTurn, Modes, HasBackground
  <2>3. QED
    BY <1>2, <1>5, <2>1, <2>2 DEF Tame, Stored
<1>7. ~Activating(req[p]) /\ ~Activating(Idle) /\ Idle.op # "setTemplate"
  BY <1>2 DEF Activating, Idle
<1>8. QED
  BY <1>2, <1>3, <1>4, <1>6, <1>7, PutTame

LEMMA RemoveRowTame == ASSUME IInv, InTurn, NEW p \in Requests, RemoveRow(p) PROVE InTurn'
<1>1. PICK d, r :
        /\ d = req[p].design
        /\ r = IF req[p].old = NoKey THEN Idle ELSE [req[p] EXCEPT !.op = "clean"]
  OBVIOUS
<1>2. req[p].op = "removeRow" /\ WriteDesigns(p, Put(d, NoDesignDocument("deleted")), r)
  BY <1>1 DEF RemoveRow, At
<1>3. req[p] \in DesignRequest /\ d \in DesignIds
  BY <1>1, <1>2, RequestFacts DEF DesignRequest, Idle
<1>4. Tame(d, NoDesignDocument("deleted"))
  BY DEF Tame, NoDesignDocument
<1>5. r.op \in {"idle", "clean"} /\ ~Activating(req[p])
  BY <1>1, <1>2, <1>3 DEF DesignRequest, Idle, Activating
<1>6. QED
  BY <1>2, <1>3, <1>4, <1>5, PutTame DEF Activating

LEMMA BackgroundSaveTame ==
    ASSUME IInv, InTurn, NEW p \in Requests, BackgroundSave(p)
    PROVE  InTurn'
<1>1. PICK d, r :
        /\ d = req[p].design
        /\ r = IF req[p].old = NoKey THEN Idle ELSE [req[p] EXCEPT !.op = "clean", !.own = {}]
  OBVIOUS
<1>2. /\ req[p].op = "save" /\ Stored(d)
      /\ \E k \in req[p].own :
            WriteDesigns(p, Put(d, [designs[d] EXCEPT !.background = k]), r)
  BY <1>1 DEF BackgroundSave, At
<1>3. /\ req[p] \in DesignRequest /\ d \in DesignIds /\ designs[d].uploaded
  BY <1>1, <1>2, RequestFacts DEF DesignRequest, Idle, Knows
<1>4. PICK k \in req[p].own : WriteDesigns(p, Put(d, [designs[d] EXCEPT !.background = k]), r)
  BY <1>2
<1>5. PICK document : document = [designs[d] EXCEPT !.background = k]
  OBVIOUS
<1>6. /\ document.phase = designs[d].phase /\ document.uploaded = designs[d].uploaded
      /\ document.active = designs[d].active /\ document.template = designs[d].template
  <2>1. designs[d] \in DesignDocument
    BY <1>3, RowFacts
  <2>2. QED
    BY <1>5, <2>1 DEF DesignDocument
<1>7. Tame(d, document)
  BY <1>2, <1>3, <1>6 DEF Tame, Stored, InTurn, Modes
<1>8. r.op \in {"idle", "clean"} /\ ~Activating(req[p])
  BY <1>1, <1>2, <1>3 DEF DesignRequest, Idle, Activating
<1>9. QED
  BY <1>3, <1>4, <1>5, <1>7, <1>8, PutTame DEF Activating

-----------------------------------------------------------------------------
(* The steps of an activation                                              *)

LEMMA ActivateReadTurns ==
    ASSUME IInv, InTurn, NEW p \in Requests, ActivateRead(p)
    PROVE  InTurn'
<1>1. PICK d \in DesignIds : req' = [req EXCEPT ![p] = Request("activate", d, {}, NoKey)]
  BY DEF ActivateRead
<1>2. PICK r : r = Request("activate", d, {}, NoKey)
  OBVIOUS
<1>3. r.op = "activate"
  BY <1>2 DEF Request
<1>4. /\ req' = [req EXCEPT ![p] = r] /\ req[p] = Idle /\ designs' = designs
      /\ turns' = [turns EXCEPT ![ProcessOf[p]] = Append(@, p)]
  BY <1>1, <1>2 DEF ActivateRead, Arrives
<1>5. Turns'
  BY <1>3, <1>4, QueuedTurns DEF InTurn
<1>6. req'[p] = r /\ \A q \in Requests \ {p} : req'[q] = req[q]
  BY <1>4, RowFacts
<1>7. Modes'
  BY <1>3, <1>4, <1>6 DEF InTurn, Modes, HasBackground
<1>8. ASSUME Single PROVE Single'
  <2>1. ASSUME NEW q \in Requests, req'[q].op = "commit"
        PROVE  LeavesOne(req'[q].w)
    BY <1>3, <1>6, <1>8, <2>1 DEF Single
  <2>2. QED
    BY <1>4, <1>8, <2>1 DEF Single, Stored, LeavesOne
<1>9. QED
  BY <1>5, <1>7, <1>8 DEF InTurn, SharedLock

\* The transaction is prepared against the designs that are active then, and
\* whoever writes one of them before the commit dooms it.
LEMMA ActivateTransactionTurns ==
    ASSUME IInv, InTurn, NEW p \in Requests, ActivateTransaction(p)
    PROVE  InTurn'
<1>1. PICK d, w : d = req[p].design /\ w = [designs |-> ActivatingOnly(d)]
  OBVIOUS
<1>2. PICK r : r = Committing(w)
  OBVIOUS
<1>3. /\ req[p].op = "activate" /\ MyTurn(p) /\ Stored(d)
      /\ Continue(p, r) /\ WriteDesigns(p, Nothing, r)
  BY <1>1, <1>2 DEF ActivateTransaction, At, Continue
<1>4. r.op = "commit" /\ r.w = w
  BY <1>2 DEF Committing
<1>5. designs' = designs /\ req' = [q \in Requests |-> IF q = p THEN r ELSE req[q]]
  BY <1>3, ContinueShape
<1>6. Turns'
  BY <1>3, <1>4, ReleasedTurns DEF InTurn, Activating
<1>7. Modes'
  BY <1>4, <1>5 DEF InTurn, Modes, HasBackground
<1>8. ASSUME Single PROVE Single'
  <2>1. LeavesOne(w)
    <3>1. PICK v : v = ActivatingOnly(d)
      OBVIOUS
    <3>2. w.designs = v
      BY <1>1, <3>1
    <3>3. /\ \A e \in DesignIds : Stored(e) /\ designs[e].active => e \in DOMAIN v
          /\ \A e \in DOMAIN v : e # d =>
                e \in DesignIds /\ v[e] = [designs[e] EXCEPT !.active = FALSE]
      BY <3>1 DEF ActivatingOnly, Then, Put
    <3>4. \A e \in DesignIds : designs[e] \in DesignDocument
      BY RowFacts
    <3>5. \A e \in DOMAIN v : v[e].active => e = d
      BY <3>3, <3>4 DEF DesignDocument
    <3>6. \A e \in DesignIds : designs[e].active => e \in DOMAIN v
      BY <1>8, <3>3 DEF Single
    <3>7. d \in DesignIds
      BY <1>1, <1>3, RequestFacts DEF DesignRequest, Idle
    <3>8. QED
      BY <3>2, <3>5, <3>6, <3>7 DEF LeavesOne
  <2>2. ASSUME NEW q \in Requests, req'[q].op = "commit"
        PROVE  LeavesOne(req'[q].w)
    <3>1. CASE q = p
      BY <1>4, <1>5, <2>1, <3>1
    <3>2. CASE q # p
      BY <1>5, <1>8, <2>2, <3>2 DEF Single
    <3>3. QED
      BY <3>1, <3>2
  <2>3. QED
    BY <1>5, <1>8, <2>2 DEF Single, Stored, LeavesOne
<1>9. QED
  BY <1>6, <1>7, <1>8 DEF InTurn, SharedLock

LEMMA ActivateCommitTurns ==
    ASSUME IInv, InTurn, NEW p \in Requests, ActivateCommit(p)
    PROVE  InTurn'
<1>1. PICK W : W = req[p].w.designs
  OBVIOUS
<1>2. req[p].op = "commit" /\ WriteDesigns(p, W, Idle)
  BY <1>1 DEF ActivateCommit, At
<1>3. /\ \A d \in DesignIds : designs'[d] = IF d \in DOMAIN W THEN W[d] ELSE designs[d]
      /\ req'[p] = Idle
      /\ \A q \in Requests \ {p} :
            req'[q] = req[q] \/ (req'[q] = Idle /\ req[q].op = "commit")
  BY <1>2, WriteShape
<1>4. ASSUME NEW d \in DOMAIN W
      PROVE  /\ d \in DesignIds /\ Stored(d) /\ W[d].phase = designs[d].phase
             /\ W[d].uploaded = designs[d].uploaded
             /\ W[d].background = designs[d].background
             /\ W[d].template = designs[d].template
  <2>1. PICK active \in BOOLEAN :
          d \in DesignIds /\ Stored(d) /\ W[d] = Marked(designs[d], active)
    BY <1>1, <1>2, <1>4, RequestFacts DEF Pending
  <2>2. designs[d] \in DesignDocument
    BY <2>1, RowFacts
  <2>3. QED
    BY <2>1, <2>2 DEF Marked, DesignDocument
<1>5. Turns'
  BY <1>2, ReleasedTurns DEF InTurn, Turns, Activating, Idle
<1>6. \A d \in DesignIds :
        /\ designs'[d].phase = designs[d].phase /\ designs'[d].uploaded = designs[d].uploaded
        /\ designs'[d].template = designs[d].template
        /\ designs'[d].background = designs[d].background
  BY <1>3, <1>4
<1>7. Modes'
  <2>1. \A d \in DesignIds :
            IF designs'[d].uploaded THEN ~designs'[d].template
            ELSE designs'[d].background = NoKey
    BY <1>6 DEF InTurn, Modes, HasBackground
  <2>2. ASSUME NEW q \in Requests, req'[q].op = "setTemplate"
        PROVE  ~designs'[req'[q].design].uploaded
    <3>1. req'[q] = req[q] /\ req[q].op = "setTemplate"
      BY <1>3, <2>2 DEF Idle
    <3>2. req[q].design \in DesignIds
      BY <3>1, RequestFacts DEF DesignRequest, Idle
    <3>3. QED
      BY <1>6, <3>1, <3>2 DEF InTurn, Modes
  <2>3. QED
    BY <2>1, <2>2 DEF Modes, HasBackground
<1>8. ASSUME SharedLock PROVE Single'
  <2>1. Single
    BY <1>8 DEF InTurn
  <2>2. PICK d \in DesignIds :
          /\ \A e \in DOMAIN W : W[e].active => e = d
          /\ \A e \in DesignIds : designs[e].active => e \in DOMAIN W
    BY <1>1, <1>2, <2>1 DEF Single, LeavesOne
  <2>3. \A e \in DesignIds : designs'[e].active => e = d
    BY <1>3, <2>2
  <2>4. \A e \in DesignIds : designs'[e].active => designs'[e].phase = "stored"
    BY <1>3, <1>4, <2>2 DEF Stored
  <2>5. \A q \in Requests : req'[q].op # "commit"
    <3>1. SUFFICES ASSUME NEW q \in Requests, req'[q].op = "commit"
                   PROVE  FALSE
      OBVIOUS
    <3>2. q # p /\ req[q].op = "commit"
      BY <1>3, <3>1 DEF Idle
    <3>3. QED
      BY <1>2, <1>8, <3>2, OneCommits DEF InTurn
  <2>6. QED
    BY <2>3, <2>4, <2>5 DEF Single, Stored
<1>9. QED
  BY <1>5, <1>7, <1>8 DEF InTurn, SharedLock

LEMMA RestartTurns == ASSUME IInv, InTurn, NEW m \in Processes, Restart(m) PROVE InTurn'
<1>1. /\ \A q \in Requests : req'[q] = IF ProcessOf[q] = m THEN Idle ELSE req[q]
      /\ turns' = [turns EXCEPT ![m] = <<>>] /\ designs' = designs
  BY DEF Restart
<1>2. Turns'
  <2>1. /\ turns \in [Processes -> Seq(Requests)]
        /\ \A n \in Processes : turns'[n] = IF n = m THEN <<>> ELSE turns[n]
    BY <1>1 DEF InTurn, Turns
  <2>2. turns' \in [Processes -> Seq(Requests)]
    <3>1. <<>> \in Seq(Requests)
      OBVIOUS
    <3>2. QED
      BY <1>1, <2>1, <3>1
  <2>3. ASSUME NEW n \in Processes, NEW i \in 1 .. Len(turns'[n])
        PROVE  /\ ProcessOf[turns'[n][i]] = n
               /\ Activating(req'[turns'[n][i]])
               /\ i > 1 => req'[turns'[n][i]].op = "activate"
               /\ \A j \in 1 .. Len(turns'[n]) : turns'[n][i] = turns'[n][j] => i = j
    <3>1. n # m /\ turns'[n] = turns[n]
      BY <2>1, <2>3
    <3>2. turns[n] \in Seq(Requests) /\ i \in 1 .. Len(turns[n])
      BY <2>1, <3>1
    <3>3. turns[n][i] \in Requests
      BY <3>2
    <3>4. /\ ProcessOf[turns[n][i]] = n
          /\ Activating(req[turns[n][i]])
          /\ i > 1 => req[turns[n][i]].op = "activate"
          /\ \A j \in 1 .. Len(turns[n]) : turns[n][i] = turns[n][j] => i = j
      BY <3>2 DEF InTurn, Turns
    <3>5. QED
      BY <1>1, <3>1, <3>3, <3>4
  <2>4. ASSUME NEW q \in Requests, req'[q].op = "commit"
        PROVE  turns'[ProcessOf[q]] # <<>> /\ Head(turns'[ProcessOf[q]]) = q
    <3>1. ProcessOf[q] # m /\ req[q].op = "commit" /\ ProcessOf[q] \in Processes
      BY <1>1, <2>4, DesignProcessAssumption DEF Idle
    <3>2. QED
      BY <2>1, <3>1 DEF InTurn, Turns, MyTurn
  <2>5. QED
    BY <2>2, <2>3, <2>4 DEF Turns, MyTurn, Activating
<1>3. \A q \in Requests : req'[q].op # "idle" => req'[q] = req[q]
  BY <1>1 DEF Idle
<1>4. Modes'
  BY <1>1, <1>3 DEF InTurn, Modes, HasBackground
<1>5. ASSUME Single PROVE Single'
  BY <1>1, <1>3, <1>5 DEF Single, Stored, LeavesOne
<1>6. QED
  BY <1>2, <1>4, <1>5 DEF InTurn, SharedLock

LEMMA AlwaysInTurn == Spec => []InTurn
<1>1. Init => InTurn
  <2> SUFFICES ASSUME Init PROVE InTurn
    OBVIOUS
  <2>1. \A p \in Requests : req[p].op = "idle"
    BY DEF Init, Idle
  <2>2. /\ turns \in [Processes -> Seq(Requests)]
        /\ \A m \in Processes : turns[m] = <<>>
    BY DEF Init
  <2>3. Turns
    BY <2>1, <2>2 DEF Turns
  <2>4. \A d \in DesignIds :
            designs[d].active = FALSE /\ designs[d].uploaded = FALSE
            /\ designs[d].background = NoKey
    BY DEF Init, NoDesignDocument
  <2>5. Modes /\ Single
    BY <2>1, <2>4 DEF Modes, Single, HasBackground
  <2>6. QED
    BY <2>3, <2>5 DEF InTurn
<1>2. IInv /\ InTurn /\ Next => InTurn'
  <2> SUFFICES ASSUME IInv, InTurn, Next PROVE InTurn'
    OBVIOUS
  <2>1. CASE \E p \in Requests : Arrive(p)
    BY <2>1, CreateTame, LookTame, ActivateReadTurns DEF Arrive
  <2>2. CASE \E p \in Requests : Advance(p)
    BY <2>2, LookTame, UpdateWriteTame, RemoveRowTame, BackgroundSaveTame,
       ActivateTransactionTurns, ActivateCommitTurns DEF Advance
  <2>3. CASE \E m \in Processes : Restart(m)
    BY <2>3, RestartTurns
  <2>4. QED
    BY <2>1, <2>2, <2>3 DEF Next
<1>3. InTurn /\ UNCHANGED vars => InTurn'
  BY DEF vars, InTurn, Turns, Modes, SharedLock, Single, LeavesOne, Stored, HasBackground,
     MyTurn, Activating
<1>4. QED
  BY <1>1, <1>2, <1>3, Invariance, PTL DEF Spec

\* Rows, requests and the queues keep their types; an update never gives an
\* imported design a template, nor an upload a generated one a background,
\* whatever happens between their checks and their writes (DesignTypeOK).
THEOREM DesignTypes == Spec => []DesignTypeOK
<1>1. IInv /\ InTurn => DesignTypeOK
  <2> SUFFICES ASSUME IInv, InTurn PROVE DesignTypeOK
    OBVIOUS
  <2>1. /\ designs \in [DesignIds -> DesignDocument]
        /\ artifacts \in [ArtifactIds -> {NoArtifact} \cup [design : DesignIds, files : SUBSET Keys]]
        /\ objects \subseteq Keys
    BY RowFacts DEF ArtifactRow
  <2>2. \A p \in Requests : req[p].op = "commit" \/ req[p] \in DesignRequest
    BY RequestFacts
  <2>3. QED
    BY <2>1, <2>2 DEF DesignTypeOK, InTurn, Modes, Turns
<1>2. QED
  BY <1>1, Invariance, AlwaysInTurn, PTL

\* However activations, failures and restarts of the one process that has the
\* lock overlap with the other requests, at most one design of the couple is
\* active (OneActive).
THEOREM OneDesignActive ==
    ASSUME SharedLock
    PROVE  Spec => []OneActive
<1>1. InTurn => OneActive
  <2> SUFFICES ASSUME InTurn PROVE OneActive
    OBVIOUS
  <2> DEFINE active == {d \in DesignIds : designs[d].active}
  <2>1. \A d, e \in active : d = e
    BY DEF InTurn, Single
  <2>2. CASE active = {}
    BY <2>2, FS_EmptySet DEF OneActive
  <2>3. CASE active # {}
    <3>1. PICK d : d \in active
      BY <2>3
    <3>2. active = {d}
      BY <2>1, <3>1
    <3>3. Cardinality(active) = 1
      BY <3>2, FS_Singleton
    <3>4. QED
      BY <3>3 DEF OneActive
  <2>4. QED
    BY <2>2, <2>3
<1>2. QED
  BY <1>1, AlwaysInTurn, PTL
===============================================================================
