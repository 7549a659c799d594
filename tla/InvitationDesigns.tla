--------------------------- MODULE InvitationDesigns ---------------------------
(***************************************************************************)
(* InvitationDesignsService and the creation of artifacts: the designs of  *)
(* one couple, their background files in GridFS, the artifacts that were   *)
(* uploaded for them, and the activation of one design, which the          *)
(* requests of one process do in turn.                                     *)
(***************************************************************************)
EXTENDS Integers, FiniteSets, Sequences, Documents

CONSTANTS
    DesignIds,    \* InvitationDesign ids, never reused
    ArtifactIds,  \* InvitationArtifact ids
    NoDesign,
    Keys,         \* object keys; one that nothing holds any more stands for a new one
    NoKey,
    Requests,     \* request slots
    Processes,    \* API processes
    ProcessOf,    \* the process of a request slot
    Ops           \* the endpoints that are called

ASSUME DesignProcessAssumption ==
    /\ NoKey \notin Keys
    /\ ProcessOf \in [Requests -> Processes]

VARIABLES
    designs,    \* InvitationDesign, by id
    artifacts,  \* InvitationArtifact, by id
    objects,    \* the keys under which GridFS has a file
    turns,      \* activationLocks: in each process, the activations in turn
    req         \* what each request slot is doing

vars == <<designs, artifacts, objects, turns, req>>

\* template says whether templateKey has a value.
DesignDocument ==
    [phase      : {"none", "stored", "deleted"},
     uploaded   : BOOLEAN,
     template   : BOOLEAN,
     background : Keys \cup {NoKey},
     active     : BOOLEAN]

NoDesignDocument(phase) ==
    [phase |-> phase, uploaded |-> FALSE, template |-> FALSE, background |-> NoKey,
     active |-> FALSE]

NoArtifact == [design |-> NoDesign, files |-> {}]

Stored(d) == designs[d].phase = "stored"
HasBackground(d) == designs[d].background # NoKey

-----------------------------------------------------------------------------
(* Requests: own is the files that a request has put, old the background   *)
(* that it read and is to remove.                                          *)

Request(op, d, own, old) == [op |-> op, design |-> d, own |-> own, old |-> old]

Held(p) ==
    IF req[p].op \in {"idle", "commit"} THEN {} ELSE req[p].own \cup {req[p].old}

\* randomUUID: nothing knows the value.
FreshKeys ==
    {k \in Keys \ objects :
        /\ \A d \in DesignIds : designs[d].background # k
        /\ \A a \in ArtifactIds : k \notin artifacts[a].files
        /\ \A p \in Requests : k \notin Held(p)}

At(p, step) == req[p].op = step

Arrives(p, endpoint) == endpoint \in Ops /\ req[p] = Idle

Activating(r) == r.op \in {"activate", "commit"}

\* finally { release() }: an activation that ended, in any way, lets the next
\* one of its process go on.
Released ==
    [m \in Processes |->
        IF turns[m] # <<>> /\ ~Activating(req'[Head(turns[m])]) THEN Tail(turns[m])
        ELSE turns[m]]

\* Request p goes on as next; w is what it writes to the designs.
WriteDesigns(p, w, next) ==
    /\ designs' = Install(designs, w)
    /\ req' = Spared(req, p, [designs |-> w], next)
    /\ turns' = Released

Continue(p, next) == WriteDesigns(p, Nothing, next)

Proceed(p, step) == Continue(p, [req[p] EXCEPT !.op = step])

\* An activation in turn: the head of the queue of its process.
MyTurn(p) == turns[ProcessOf[p]] # <<>> /\ Head(turns[ProcessOf[p]]) = p

\* Mutant: release() is not in a finally block.
FailsWithoutRelease(p) ==
    /\ req[p] # Idle
    /\ Activating(req[p]) => MyTurn(p)
    /\ req' = [req EXCEPT ![p] = Idle]
    /\ UNCHANGED <<designs, artifacts, objects, turns>>

\* A call of MongoDB or GridFS fails and the handler with it.  A promise of
\* the lock is never rejected.
Fails(p) ==
    /\ req[p] # Idle
    /\ Activating(req[p]) => MyTurn(p)
    /\ Continue(p, Idle)
    /\ UNCHANGED <<artifacts, objects>>

\* A process restarts: its requests and its lock are gone.
Restart(m) ==
    /\ req' = [p \in Requests |-> IF ProcessOf[p] = m THEN Idle ELSE req[p]]
    /\ turns' = [turns EXCEPT ![m] = <<>>]
    /\ UNCHANGED <<designs, artifacts, objects>>

-----------------------------------------------------------------------------
(* create, update and remove                                               *)

Create(p) ==
    /\ Arrives(p, "create")
    /\ \E d \in DesignIds, uploaded \in BOOLEAN :
        /\ designs[d].phase = "none"
        /\ WriteDesigns(p, Put(d, [phase |-> "stored", uploaded |-> uploaded,
                                   template |-> ~uploaded, background |-> NoKey,
                                   active |-> FALSE]), Idle)
    /\ UNCHANGED <<artifacts, objects>>

\* The template is given, or null; the mode stays.  A null passes the check of
\* a design that has a template, and is written.
UpdateRead(p) ==
    /\ Arrives(p, "update")
    /\ \E d \in DesignIds, given \in BOOLEAN :
        /\ Stored(d)
        /\ IF designs[d].uploaded THEN ~given ELSE given \/ designs[d].template
        /\ Continue(p, Request(IF given THEN "setTemplate" ELSE "clearTemplate",
                               d, {}, NoKey))
    /\ UNCHANGED <<artifacts, objects>>

UpdateWrite(p) ==
    /\ At(p, "setTemplate") \/ At(p, "clearTemplate")
    /\ LET d == req[p].design
       IN  /\ Stored(d)
           /\ WriteDesigns(p, Put(d, [designs[d] EXCEPT !.template = At(p, "setTemplate")]),
                           Idle)
    /\ UNCHANGED <<artifacts, objects>>

RemoveRead(p) ==
    /\ Arrives(p, "remove")
    /\ \E d \in DesignIds :
        /\ Stored(d)
        /\ Continue(p, Request("inUse", d, {}, designs[d].background))
    /\ UNCHANGED <<artifacts, objects>>

Unused(d) == \A a \in ArtifactIds : artifacts[a].design # d

RemoveCountArtifacts(p) ==
    /\ At(p, "inUse")
    /\ Unused(req[p].design)
    /\ Proceed(p, "removeRow")
    /\ UNCHANGED <<artifacts, objects>>

\* The background as it was read is cleaned up.
RemoveRow(p) ==
    /\ At(p, "removeRow") /\ Stored(req[p].design)
    /\ WriteDesigns(p, Put(req[p].design, NoDesignDocument("deleted")),
                    IF req[p].old = NoKey THEN Idle ELSE [req[p] EXCEPT !.op = "clean"])
    /\ UNCHANGED <<artifacts, objects>>

-----------------------------------------------------------------------------
(* activate                                                                *)

\* Mutant: an UPLOADED design is activated without a background.
UsableAnyway(d) == Stored(d)

Usable(d) ==
    /\ Stored(d)
    /\ IF designs[d].uploaded THEN HasBackground(d) ELSE designs[d].template

\* The design is checked, and the request takes its place in the queue.
ActivateRead(p) ==
    /\ Arrives(p, "activate")
    /\ \E d \in DesignIds :
        /\ Usable(d)
        /\ req' = [req EXCEPT ![p] = Request("activate", d, {}, NoKey)]
    /\ turns' = [turns EXCEPT ![ProcessOf[p]] = Append(@, p)]
    /\ UNCHANGED <<designs, artifacts, objects>>

\* Mutant: the other designs stay active.
ActivatingWithout(d) == Put(d, [designs[d] EXCEPT !.active = TRUE])

\* updateMany of the active designs to inactive, then the update of this one.
ActivatingOnly(d) ==
    LET active == {e \in DesignIds : Stored(e) /\ designs[e].active}
    IN  Then([e \in active |-> [designs[e] EXCEPT !.active = FALSE]],
             Put(d, [designs[d] EXCEPT !.active = TRUE]))

ActivateTransaction(p) ==
    /\ At(p, "activate") /\ MyTurn(p)
    /\ Stored(req[p].design)
    /\ Continue(p, Committing([designs |-> ActivatingOnly(req[p].design)]))
    /\ UNCHANGED <<artifacts, objects>>

ActivateCommit(p) ==
    /\ At(p, "commit")
    /\ WriteDesigns(p, req[p].w.designs, Idle)
    /\ UNCHANGED <<artifacts, objects>>

-----------------------------------------------------------------------------
(* background                                                              *)

\* Mutant: a background is accepted for a generated design.
AnyMode(d) == Stored(d)

TakesBackground(d) == Stored(d) /\ designs[d].uploaded

BackgroundRead(p) ==
    /\ Arrives(p, "background")
    /\ \E d \in DesignIds :
        /\ TakesBackground(d)
        /\ Continue(p, Request("put", d, {}, designs[d].background))
    /\ UNCHANGED <<artifacts, objects>>

PutObject(p, step) ==
    \E k \in FreshKeys :
        /\ objects' = objects \cup {k}
        /\ Continue(p, [req[p] EXCEPT !.op = step, !.own = @ \cup {k}])

BackgroundPut(p) ==
    /\ At(p, "put")
    /\ PutObject(p, "save")
    /\ UNCHANGED artifacts

\* Mutant: the key to clean up is the one that the row has by now.
BackgroundSaveThenRead(p) ==
    /\ At(p, "save") /\ Stored(req[p].design)
    /\ \E k \in req[p].own :
        WriteDesigns(p, Put(req[p].design, [designs[req[p].design] EXCEPT !.background = k]),
            IF req[p].old = NoKey THEN Idle
            ELSE [req[p] EXCEPT !.op = "clean", !.own = {}, !.old = k])
    /\ UNCHANGED <<artifacts, objects>>

BackgroundSave(p) ==
    /\ At(p, "save") /\ Stored(req[p].design)
    /\ \E k \in req[p].own :
        WriteDesigns(p, Put(req[p].design, [designs[req[p].design] EXCEPT !.background = k]),
            IF req[p].old = NoKey THEN Idle
            ELSE [req[p] EXCEPT !.op = "clean", !.own = {}])
    /\ UNCHANGED <<artifacts, objects>>

\* The old background, of the design that was replaced or removed.
Clean(p) ==
    /\ At(p, "clean")
    /\ objects' = objects \ {req[p].old}
    /\ Continue(p, Idle)
    /\ UNCHANGED artifacts

-----------------------------------------------------------------------------
(* InvitationArtifactsService.create: an image, a PDF, or both             *)

ArtifactRead(p) ==
    /\ Arrives(p, "artifact")
    /\ \E d \in DesignIds :
        /\ Stored(d)
        /\ designs[d].uploaded => HasBackground(d)
        /\ Continue(p, Request("artifactPut", d, {}, NoKey))
    /\ UNCHANGED <<artifacts, objects>>

ArtifactPut(p) ==
    /\ At(p, "artifactPut") /\ Cardinality(req[p].own) < 2
    /\ PutObject(p, "artifactPut")
    /\ UNCHANGED artifacts

\* Nothing checks the design again: its id is only stored.
ArtifactSave(p) ==
    /\ At(p, "artifactPut") /\ req[p].own # {}
    /\ \E a \in ArtifactIds :
        /\ artifacts[a] = NoArtifact
        /\ artifacts' = [artifacts EXCEPT ![a] = [design |-> req[p].design,
                                                  files |-> req[p].own]]
    /\ Continue(p, Idle)
    /\ UNCHANGED objects

\* The write of a row fails, or the upload of a second file: what was put is
\* removed.
SaveFails(p) ==
    /\ At(p, "save") \/ (At(p, "artifactPut") /\ req[p].own # {})
    /\ Proceed(p, "compensate")
    /\ UNCHANGED <<artifacts, objects>>

\* Some of the removals may fail, and nothing tries them again.
Compensate(p) ==
    /\ At(p, "compensate")
    /\ \E K \in SUBSET req[p].own : objects' = objects \ K
    /\ Continue(p, Idle)
    /\ UNCHANGED artifacts

-----------------------------------------------------------------------------
Init ==
    /\ designs = [d \in DesignIds |-> NoDesignDocument("none")]
    /\ artifacts = [a \in ArtifactIds |-> NoArtifact]
    /\ objects = {}
    /\ turns = [m \in Processes |-> <<>>]
    /\ req = [p \in Requests |-> Idle]

\* The steps of a request that has arrived.
Advance(p) ==
    \/ UpdateWrite(p) \/ RemoveCountArtifacts(p) \/ RemoveRow(p)
    \/ ActivateTransaction(p) \/ ActivateCommit(p)
    \/ BackgroundPut(p) \/ BackgroundSave(p) \/ Clean(p)
    \/ ArtifactPut(p) \/ ArtifactSave(p) \/ SaveFails(p) \/ Compensate(p)
    \/ Fails(p)

Arrive(p) ==
    \/ Create(p) \/ UpdateRead(p) \/ RemoveRead(p) \/ ActivateRead(p)
    \/ BackgroundRead(p) \/ ArtifactRead(p)

Next ==
    \/ \E p \in Requests : Arrive(p) \/ Advance(p)
    \/ \E m \in Processes : Restart(m)

\* Every call of MongoDB and GridFS ends, with a result or an error; requests
\* need not arrive and processes need not restart.
Spec == Init /\ [][Next]_vars /\ \A p \in Requests : WF_vars(Advance(p))

-----------------------------------------------------------------------------
DesignRequest ==
    {Idle}
    \cup [op : {"setTemplate", "clearTemplate", "inUse", "removeRow", "activate", "put",
                "save", "clean", "artifactPut", "compensate"},
          design : DesignIds, own : SUBSET Keys, old : Keys \cup {NoKey}]

\* Only imported designs have a background, only generated ones a template.
DesignTypeOK ==
    /\ designs \in [DesignIds -> DesignDocument]
    /\ \A d \in DesignIds :
        IF designs[d].uploaded THEN ~designs[d].template ELSE ~HasBackground(d)
    /\ artifacts \in [ArtifactIds -> {NoArtifact} \cup [design : DesignIds, files : SUBSET Keys]]
    /\ objects \subseteq Keys
    /\ \A p \in Requests : req[p].op = "commit" \/ req[p] \in DesignRequest
    /\ turns \in [Processes -> Seq(Requests)]

\* Replacements, removals, failures and restarts leave every design with the
\* background it names, and every artifact with all of its files.
FilesOfRows ==
    /\ \A d \in DesignIds : HasBackground(d) => designs[d].background \in objects
    /\ \A a \in ArtifactIds : artifacts[a].files \subseteq objects

\* Activations of one process, and every failure between them, leave the
\* couple with at most one active design.
OneActive == Cardinality({d \in DesignIds : designs[d].active}) <= 1

\* An active design of an imported card has its background, although the
\* check is made before the activation waits for its turn.
ActiveHasBackground ==
    \A d \in DesignIds : designs[d].active /\ designs[d].uploaded => HasBackground(d)

\* An activation that waits for its turn ends, whatever became of the ones
\* before it.
ActivationEnds == \A p \in Requests : At(p, "activate") ~> req[p] = Idle
=============================================================================
