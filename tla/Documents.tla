------------------------------ MODULE Documents ------------------------------
(***************************************************************************)
(* A MongoDB collection as the services use it through Prisma: a function  *)
(* from keys to documents.  A write set is a function on the keys it       *)
(* writes.  A transaction reads one snapshot, collects a write set and     *)
(* installs it as a whole; two transactions whose write sets share a key   *)
(* cannot both commit (P2034), and a unique index is a key of its own.     *)
(***************************************************************************)

\* Every write set over the keys K with documents in D.
WriteSets(K, D) == UNION {[S -> D] : S \in SUBSET K}

Nothing == [k \in {} |-> k]

Put(k, d) == [x \in {k} |-> d]

PutAll(K, d) == [x \in K |-> d]

\* The collection once w is written.
Install(docs, w) ==
    [k \in DOMAIN docs |-> IF k \in DOMAIN w THEN w[k] ELSE docs[k]]

\* The write set of w followed, in the same transaction, by later.
Then(w, later) ==
    [k \in DOMAIN w \cup DOMAIN later |->
        IF k \in DOMAIN later THEN later[k] ELSE w[k]]

\* Two records of write sets, one field per collection, share a key.
Conflict(v, w) ==
    \E collection \in DOMAIN v :
        DOMAIN v[collection] \cap DOMAIN w[collection] # {}

\* What a request slot does: nothing, or waiting to commit w.
Idle == [op |-> "idle"]
Committing(w) == [op |-> "commit", w |-> w]

\* The slots once slot p has written w and goes on as next: the pending
\* transactions that conflict with w are doomed.
Spared(slots, p, w, next) ==
    [q \in DOMAIN slots |->
        IF q = p THEN next
        ELSE IF slots[q].op = "commit" /\ Conflict(slots[q].w, w) THEN Idle
        ELSE slots[q]]
=============================================================================
