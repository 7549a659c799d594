---------------------------- MODULE SessionsProofs ----------------------------
(***************************************************************************)
(* The rotation and the revocation of sessions, the roles of accounts, the *)
(* index on their emails, the removal of the couple and the administrator, *)
(* proved for any number of users, sessions and requests.                  *)
(***************************************************************************)
EXTENDS Sessions, FiniteSetTheorems, TLAPS

\* The rows: a session that is not there has no successor, and a token that is
\* held has a session.
Rows ==
    /\ users \in [Users -> UserDocument]
    /\ sessions \in [SessionIds -> SessionDocument]
    /\ \A s \in SessionIds : sessions[s].user = NoUser => sessions[s] = NoRow
    /\ held \subseteq {s \in SessionIds : sessions[s].user # NoUser}
    /\ lineage \in [SessionIds -> [parent : SessionIds \cup {NoSession}, since : Nat,
                                   late : BOOLEAN]]
    /\ era \in [Users -> Nat]
    /\ req = [p \in Requests |-> req[p]]

\* What a transaction that waits to commit may write: the role of a user
\* stays, a session is only revoked, and all sessions of the users in ends
\* are, but those that were issued since.
Legal(w, ends) ==
    /\ DOMAIN w = {"users", "emails", "couple", "sessions"}
    /\ \A u \in Users \cap DOMAIN w.users :
        /\ w.users[u] \in UserDocument /\ w.users[u].role # "none"
        /\ Exists(u) => w.users[u].role = users[u].role
    /\ \A s \in SessionIds \cap DOMAIN w.sessions :
        /\ sessions[s].user # NoUser
        /\ w.sessions[s] = Session(sessions[s].user, TRUE, sessions[s].next)
    /\ ends \subseteq Users
    /\ \A s \in SessionIds : sessions[s].user \in ends =>
        sessions[s].revoked \/ s \in DOMAIN w.sessions \/ lineage[s].late

\* What a request knows at each step that writes users or sessions.
Flight(p) ==
    /\ At(p, "mark") => req[p].user \in Users /\ Exists(req[p].user) /\ req[p].read \in Nat
    /\ At(p, "issue") =>
        /\ req[p].user \in Users /\ req[p].read \in Nat
        /\ \/ req[p].old = NoSession
           \/ /\ req[p].old \in SessionIds
              /\ sessions[req[p].old].user = req[p].user
              /\ lineage[req[p].old].late \/ lineage[req[p].old].since = req[p].read
    /\ At(p, "replace") =>
        /\ req[p].old \in SessionIds /\ req[p].new \in SessionIds
        /\ sessions[req[p].old].user \in Users
        /\ sessions[req[p].new].user = sessions[req[p].old].user
        /\ lineage[req[p].new].parent = req[p].old
    /\ At(p, "reused") => req[p].user \in Users
    /\ req[p].op \in {"enable", "disable", "renameAgent", "rename", "reset"} =>
        req[p].user \in Users /\ Exists(req[p].user)
    /\ At(p, "commit") => Legal(req[p].w, req[p].ends)

Flights == \A p \in Requests : Flight(p)

\* The inductive invariant.
IInv == Rows /\ Flights /\ RotationOrder /\ RevocationHolds

-----------------------------------------------------------------------------
(* What every step does to the rows, and what it leaves to the others.     *)

\* No step takes a session from its user, makes it live again or rewrites its
\* history, and none changes a role.
Moves ==
    /\ \A s \in SessionIds : sessions[s].user # NoUser =>
        /\ sessions'[s].user = sessions[s].user
        /\ sessions[s].revoked => sessions'[s].revoked
        /\ lineage'[s] = lineage[s]
    /\ \A u \in Users : Exists(u) => users'[u].role = users[u].role

\* A request that a step leaves alone still knows what it knew; for one that
\* is to commit, its rows must be untouched and new sessions be late.
LEMMA FlightStays ==
    ASSUME Rows, Moves, NEW q \in Requests, Flight(q), req'[q] = req[q],
           At(q, "commit") =>
              /\ \A u \in Users \cap DOMAIN req[q].w.users : users'[u] = users[u]
              /\ \A s \in SessionIds \cap DOMAIN req[q].w.sessions : sessions'[s] = sessions[s]
              /\ \A s \in SessionIds : sessions[s].user = NoUser
                    => sessions'[s].user \notin req[q].ends \/ lineage'[s].late
    PROVE  Flight(q)'
<1>1. At(q, "mark") => (At(q, "mark") => req[q].user \in Users /\ Exists(req[q].user)
                                         /\ req[q].read \in Nat)'
  BY DEF Flight, Moves, At, Exists
<1>2. At(q, "issue") => Flight(q)'
  BY SessionsAssumption DEF Flight, Moves, At
<1>3. At(q, "replace") => Flight(q)'
  BY SessionsAssumption DEF Flight, Moves, At
<1>4. req[q].op \in {"reused", "enable", "disable", "renameAgent", "rename", "reset"}
        => Flight(q)'
  BY DEF Flight, Moves, At, Exists
<1>5. CASE At(q, "commit")
  <2>1. Legal(req[q].w, req[q].ends)
    BY <1>5 DEF Flight
  <2>2. \A u \in Users : u \in DOMAIN req[q].w.users => (Exists(u) <=> Exists(u)')
    BY <1>5 DEF Exists
  <2> DEFINE w == req[q].w
             ends == req[q].ends
  <2>3. ASSUME NEW x \in Users \cap DOMAIN w.users
        PROVE  /\ w.users[x] \in UserDocument /\ w.users[x].role # "none"
               /\ Exists(x)' => w.users[x].role = users'[x].role
    <3>1. users'[x] = users[x]
      BY <1>5
    <3>2. QED
      BY <2>1, <3>1 DEF Legal, Exists
  <2>4. ASSUME NEW s \in SessionIds \cap DOMAIN w.sessions
        PROVE  /\ sessions'[s].user # NoUser
               /\ w.sessions[s] = Session(sessions'[s].user, TRUE, sessions'[s].next)
    <3>1. sessions'[s] = sessions[s]
      BY <1>5
    <3>2. QED
      BY <2>1, <3>1 DEF Legal
  <2>5. ASSUME NEW s \in SessionIds, sessions'[s].user \in ends
        PROVE  sessions'[s].revoked \/ s \in DOMAIN w.sessions \/ lineage'[s].late
    <3>1. CASE sessions[s].user = NoUser
      BY <1>5, <2>5, <3>1
    <3>2. CASE sessions[s].user # NoUser
      <4>1. /\ sessions'[s].user = sessions[s].user /\ lineage'[s] = lineage[s]
            /\ sessions[s].revoked => sessions'[s].revoked
        BY <3>2 DEF Moves
      <4>2. sessions[s].revoked \/ s \in DOMAIN w.sessions \/ lineage[s].late
        BY <2>1, <2>5, <4>1 DEF Legal
      <4>3. QED
        BY <4>1, <4>2
    <3>3. QED
      BY <3>1, <3>2
  <2>6. DOMAIN w = {"users", "emails", "couple", "sessions"} /\ ends \subseteq Users
    BY <2>1 DEF Legal
  <2>7. Legal(req[q].w, req[q].ends)'
    BY <2>3, <2>4, <2>5, <2>6 DEF Legal, Exists
  <2>8. QED
    BY <1>5, <2>7 DEF Flight, At
<1>6. QED
  BY <1>1, <1>2, <1>3, <1>4, <1>5 DEF Flight, At

\* A write spares the transactions whose rows it leaves alone, and dooms the
\* others.
LEMMA OthersStay ==
    ASSUME Rows, Flights, Moves, NEW p \in Requests, NEW w, NEW next,
           Write(p, w, next), DOMAIN w = {"users", "emails", "couple", "sessions"},
           \A q \in Requests : At(q, "commit") =>
              \A s \in SessionIds : sessions[s].user = NoUser
                => sessions'[s].user \notin req[q].ends \/ lineage'[s].late,
           NEW q \in Requests, q # p
    PROVE  Flight(q)'
<1>1. req'[q] = IF At(q, "commit") /\ Conflict(req[q].w, w) THEN Idle ELSE req[q]
  BY DEF Rows, Write, Spared, At
<1>2. CASE At(q, "commit") /\ Conflict(req[q].w, w)
  BY <1>1, <1>2 DEF Flight, At, Idle
<1>3. CASE ~(At(q, "commit") /\ Conflict(req[q].w, w))
  <2>1. Flight(q) /\ req'[q] = req[q]
    BY <1>1, <1>3 DEF Flights
  <2>2. ASSUME At(q, "commit")
        PROVE  /\ \A u \in Users \cap DOMAIN req[q].w.users : users'[u] = users[u]
               /\ \A s \in SessionIds \cap DOMAIN req[q].w.sessions :
                    sessions'[s] = sessions[s]
    <3>1. DOMAIN req[q].w = {"users", "emails", "couple", "sessions"}
      BY <2>1, <2>2 DEF Flight, Legal
    <3>2. /\ DOMAIN req[q].w.users \cap DOMAIN w.users = {}
          /\ DOMAIN req[q].w.sessions \cap DOMAIN w.sessions = {}
      BY <1>3, <2>2, <3>1 DEF Conflict
    <3>3. DOMAIN users = Users /\ DOMAIN sessions = SessionIds
      BY DEF Rows
    <3>4. QED
      BY <3>2, <3>3 DEF Write, Install
  <2>3. QED
    BY <2>1, <2>2, FlightStays
<1>4. QED
  BY <1>2, <1>3

-----------------------------------------------------------------------------
(* Writes that insert no session.                                          *)

\* A write that keeps the roles and revokes the sessions it writes, at most
\* naming the session that was issued for each.
Revises(w) ==
    /\ DOMAIN w = {"users", "emails", "couple", "sessions"}
    /\ \A u \in Users \cap DOMAIN w.users :
        /\ w.users[u] \in UserDocument /\ w.users[u].role # "none"
        /\ Exists(u) => w.users[u].role = users[u].role
    /\ \A s \in SessionIds \cap DOMAIN w.sessions :
        /\ sessions[s].user # NoUser
        /\ \E n \in SessionIds \cup {NoSession} :
            /\ w.sessions[s] = Session(sessions[s].user, TRUE, n)
            /\ \/ n = sessions[s].next
               \/ /\ n \in SessionIds
                  /\ sessions[n].user = sessions[s].user
                  /\ lineage[n].parent = s

\* Such a write leaves every row with its user and its type.
LEMMA RevisionMoves ==
    ASSUME Rows, NEW p \in Requests, NEW w, NEW next, Write(p, w, next), Revises(w),
           lineage' = lineage
    PROVE  /\ Moves
           /\ users' \in [Users -> UserDocument]
           /\ sessions' \in [SessionIds -> SessionDocument]
           /\ \A s \in SessionIds : sessions'[s].user = sessions[s].user
           /\ \A s \in SessionIds \ DOMAIN w.sessions : sessions'[s] = sessions[s]
           /\ \A s \in SessionIds \cap DOMAIN w.sessions : sessions'[s] = w.sessions[s]
           /\ req' = [q \in Requests |-> req'[q]]
<1>1. /\ users' = [u \in Users |-> IF u \in DOMAIN w.users THEN w.users[u] ELSE users[u]]
      /\ sessions' = [s \in SessionIds |->
                        IF s \in DOMAIN w.sessions THEN w.sessions[s] ELSE sessions[s]]
  BY DEF Rows, Write, Install
<1>2. users' \in [Users -> UserDocument] /\ \A u \in Users : Exists(u) => users'[u].role = users[u].role
  BY <1>1 DEF Revises, Rows
<1>3. ASSUME NEW s \in SessionIds
      PROVE  /\ sessions'[s] \in SessionDocument
             /\ sessions'[s].user = sessions[s].user
             /\ sessions[s].revoked => sessions'[s].revoked
  <2>1. CASE s \notin DOMAIN w.sessions
    BY <1>1, <2>1 DEF Rows
  <2>2. CASE s \in DOMAIN w.sessions
    <3>1. PICK n \in SessionIds \cup {NoSession} :
            w.sessions[s] = Session(sessions[s].user, TRUE, n)
      BY <2>2 DEF Revises
    <3>2. sessions[s].user \in Users \cup {NoUser}
      BY DEF Rows, SessionDocument
    <3>3. sessions'[s] = [user |-> sessions[s].user, revoked |-> TRUE, next |-> n]
      BY <1>1, <2>2, <3>1 DEF Session
    <3>4. QED
      BY <3>2, <3>3 DEF SessionDocument
  <2>3. QED
    BY <2>1, <2>2
<1>4. sessions' \in [SessionIds -> SessionDocument]
  BY <1>1, <1>3
<1>5. req' = [q \in Requests |-> req'[q]]
  BY DEF Rows, Write, Spared
<1>6. QED
  BY <1>1, <1>2, <1>3, <1>4, <1>5 DEF Moves

\* It keeps the invariant when it revokes the sessions of every user whose era
\* it ends, and when a token that is answered has its old session revoked.
LEMMA RevisionKeeps ==
    ASSUME IInv, NEW p \in Requests, NEW w, NEW next, Write(p, w, next), Revises(w),
           lineage' = lineage,
           NEW ends \in SUBSET Users, era' = Later(ends) \/ era' = era,
           \A s \in SessionIds : sessions[s].user \in ends
                => sessions[s].revoked \/ s \in DOMAIN w.sessions \/ lineage[s].late,
           held' \subseteq SessionIds,
           \A s \in held' :
              /\ sessions[s].user # NoUser
              /\ s \in held \/ (lineage[s].parent # NoSession =>
                                    sessions'[lineage[s].parent].revoked),
           Flight(p)'
    PROVE  IInv' /\ Moves
<1>1. Rows /\ Flights /\ RotationOrder /\ RevocationHolds
  BY DEF IInv
<1>2. /\ Moves
      /\ users' \in [Users -> UserDocument]
      /\ sessions' \in [SessionIds -> SessionDocument]
      /\ \A s \in SessionIds : sessions'[s].user = sessions[s].user
      /\ \A s \in SessionIds \ DOMAIN w.sessions : sessions'[s] = sessions[s]
      /\ \A s \in SessionIds \cap DOMAIN w.sessions : sessions'[s] = w.sessions[s]
      /\ req' = [q \in Requests |-> req'[q]]
  BY <1>1, RevisionMoves
<1>3. \A u \in Users : era'[u] \in Nat /\ (u \notin ends => era'[u] = era[u])
  BY <1>1 DEF Rows, Later
<1>4. Rows'
  <2>1. era' \in [Users -> Nat]
    BY <1>1, <1>3 DEF Rows, Later
  <2>2. \A s \in SessionIds : sessions'[s].user = NoUser => sessions'[s] = NoRow
    BY <1>1, <1>2 DEF Rows, Revises
  <2>3. QED
    BY <1>1, <1>2, <2>1, <2>2 DEF Rows, NoRow, Session
<1>5. ASSUME NEW q \in Requests
      PROVE  Flight(q)'
  <2>1. CASE q = p
    BY <2>1
  <2>2. CASE q # p
    <3>1. \A r \in Requests : At(r, "commit") => NoUser \notin req[r].ends
      BY <1>1, SessionsAssumption DEF Flights, Flight, Legal
    <3>2. \A r \in Requests : At(r, "commit") =>
            \A s \in SessionIds : sessions[s].user = NoUser
                => sessions'[s].user \notin req[r].ends \/ lineage'[s].late
      BY <1>2, <3>1
    <3>3. QED
      BY <1>1, <1>2, <2>2, <3>2, OthersStay DEF Revises
  <2>3. QED
    BY <2>1, <2>2
<1>6. RotationOrder'
  <2>1. ASSUME NEW s \in SessionIds, s \in held', lineage[s].parent # NoSession
        PROVE  sessions'[lineage[s].parent].revoked
    <3>1. lineage[s].parent \in SessionIds
      BY <1>1, <2>1 DEF Rows
    <3>2. CASE s \in held
      <4>1. sessions[lineage[s].parent].revoked
        BY <1>1, <2>1, <3>2 DEF RotationOrder
      <4>2. lineage[s].parent \in DOMAIN w.sessions => sessions'[lineage[s].parent].revoked
        BY <1>2, <3>1 DEF Revises, Session
      <4>3. QED
        BY <1>2, <3>1, <4>1, <4>2
    <3>3. QED
      BY <2>1, <3>2
  <2>2. ASSUME NEW s \in SessionIds, sessions'[s].next # NoSession
        PROVE  /\ sessions'[s].revoked
               /\ sessions'[sessions'[s].next].user = sessions'[s].user
               /\ lineage[sessions'[s].next].parent = s
    <3>1. CASE s \notin DOMAIN w.sessions
      <4>1. sessions'[s] = sessions[s]
        BY <1>2, <3>1
      <4>2. sessions[s].next \in SessionIds
        BY <1>1, <2>2, <4>1 DEF Rows, SessionDocument
      <4>3. QED
        BY <1>1, <1>2, <2>2, <4>1, <4>2 DEF RotationOrder
    <3>2. CASE s \in DOMAIN w.sessions
      <4>1. PICK n \in SessionIds \cup {NoSession} :
                /\ w.sessions[s] = Session(sessions[s].user, TRUE, n)
                /\ \/ n = sessions[s].next
                   \/ /\ n \in SessionIds
                      /\ sessions[n].user = sessions[s].user
                      /\ lineage[n].parent = s
        BY <3>2 DEF Revises
      <4>2. sessions'[s].revoked /\ sessions'[s].next = n
        BY <1>2, <3>2, <4>1 DEF Session
      <4>3. n \in SessionIds /\ sessions[n].user = sessions[s].user /\ lineage[n].parent = s
        BY <1>1, <2>2, <4>1, <4>2 DEF RotationOrder
      <4>4. QED
        BY <1>2, <4>2, <4>3
    <3>3. QED
      BY <3>1, <3>2
  <2>3. QED
    BY <2>1, <2>2 DEF RotationOrder
<1>7. RevocationHolds'
  <2>1. SUFFICES ASSUME NEW s \in SessionIds, Live(s)', ~lineage[s].late
                 PROVE  lineage[s].since = era'[sessions'[s].user]
    BY DEF RevocationHolds
  <2>2. s \notin DOMAIN w.sessions
    BY <1>2, <2>1 DEF Revises, Session, Live
  <2>3. sessions'[s] = sessions[s] /\ Live(s)
    BY <1>2, <2>1, <2>2 DEF Live
  <2>4. sessions[s].user \in Users /\ sessions[s].user \notin ends
    BY <1>1, <2>1, <2>2, <2>3 DEF Rows, SessionDocument, Live
  <2>5. QED
    BY <1>1, <1>3, <2>1, <2>3, <2>4 DEF RevocationHolds
<1>8. QED
  BY <1>2, <1>4, <1>5, <1>6, <1>7 DEF IInv, Flights

\* The same for a write that answers no token and ends no era.
LEMMA QuietRevisionKeeps ==
    ASSUME IInv, NEW p \in Requests, NEW w, NEW next, Write(p, w, next), Revises(w),
           UNCHANGED <<held, lineage, era>>, Flight(p)'
    PROVE  IInv' /\ Moves
<1>1. held' \subseteq SessionIds /\ \A s \in held' : sessions[s].user # NoUser /\ s \in held
  BY DEF IInv, Rows
<1>2. PICK ends \in SUBSET Users : ends = {}
  OBVIOUS
<1>3. \A s \in SessionIds : sessions[s].user \in ends
        => sessions[s].revoked \/ s \in DOMAIN w.sessions \/ lineage[s].late
  BY <1>2
<1>4. QED
  BY <1>1, <1>3, RevisionKeeps

\* A step that writes nothing.
LEMMA ContinueKeeps ==
    ASSUME IInv, NEW p \in Requests, NEW next, Continue(p, next), Flight(p)'
    PROVE  IInv' /\ Moves
<1>1. Rows /\ Flights /\ RotationOrder /\ RevocationHolds
  BY DEF IInv
<1>2. /\ users' = users /\ sessions' = sessions /\ held' = held
      /\ lineage' = lineage /\ era' = era
  BY DEF Continue, stored
<1>3. Moves
  BY <1>2 DEF Moves
<1>4. Rows'
  BY <1>1, <1>2 DEF Rows, Continue
<1>5. ASSUME NEW q \in Requests, q # p
      PROVE  Flight(q)'
  <2>1. req'[q] = req[q] /\ Flight(q)
    BY <1>1, <1>5 DEF Rows, Continue, Flights
  <2>2. At(q, "commit") => NoUser \notin req[q].ends
    BY <2>1, SessionsAssumption DEF Flight, Legal
  <2>3. QED
    BY <1>1, <1>2, <1>3, <2>1, <2>2, FlightStays
<1>6. RotationOrder'
  BY <1>1, <1>2 DEF RotationOrder
<1>7. RevocationHolds'
  BY <1>1, <1>2 DEF RevocationHolds, Live
<1>8. QED
  BY <1>3, <1>4, <1>5, <1>6, <1>7 DEF IInv, Flights

-----------------------------------------------------------------------------
(* Authentication, one lemma per action that writes.                       *)

LEMMA IdleKnowsNothing ==
    ASSUME NEW p \in Requests, req'[p] = Idle
    PROVE  Flight(p)'
BY DEF Flight, At, Idle

\* Where Write and Continue take their own request.
LEMMA OwnSlot ==
    ASSUME Rows, NEW p \in Requests, NEW w, NEW next, Write(p, w, next) \/ Continue(p, next)
    PROVE  req'[p] = next
BY DEF Rows, Write, Spared, Continue

LEMMA LoginKeeps ==
    ASSUME IInv, NEW p \in Requests, LoginRead(p) \/ LoginMark(p)
    PROVE  IInv' /\ Moves
<1>1. Rows /\ Flight(p)
  BY DEF IInv, Flights
<1>2. CASE LoginRead(p)
  <2>1. PICK u \in Users :
            Exists(u) /\ Continue(p, [op |-> "mark", user |-> u, read |-> era[u]])
    BY <1>2 DEF LoginRead
  <2>2. req'[p] = [op |-> "mark", user |-> u, read |-> era[u]]
    BY <1>1, <2>1 DEF Rows, Continue
  <2>3. users' = users /\ era[u] \in Nat
    BY <1>1, <2>1 DEF Rows, Continue, stored
  <2>4. Flight(p)'
    BY <2>1, <2>2, <2>3 DEF Flight, At, Exists
  <2>5. QED
    BY <2>1, <2>4, ContinueKeeps
<1>3. CASE LoginMark(p)
  <2> DEFINE u == req[p].user
             w == [NoWrites EXCEPT !.users = Put(u, users[u])]
             next == [op |-> "issue", user |-> u, read |-> req[p].read, old |-> NoSession]
  <2>1. u \in Users /\ Exists(u) /\ req[p].read \in Nat
    BY <1>1, <1>3 DEF LoginMark, Flight
  <2>2. /\ Write(p, w, next)
        /\ held' = held /\ lineage' = lineage /\ era' = era
    BY <1>3 DEF LoginMark
  <2>3. users[u] \in UserDocument
    BY <1>1, <2>1 DEF Rows
  <2>4. Revises(w)
    BY <2>1, <2>3 DEF Revises, NoWrites, Nothing, Put, Exists
  <2>5. req'[p] = next
    BY <1>1, <2>2, OwnSlot
  <2>6. Flight(p)'
    BY <2>1, <2>5 DEF Flight, At
  <2>7. QED
    BY <2>2, <2>4, <2>6, QuietRevisionKeeps
<1>4. QED
  BY <1>2, <1>3

LEMMA RefreshReadKeeps ==
    ASSUME IInv, NEW p \in Requests, RefreshRead(p)
    PROVE  IInv' /\ Moves
<1>1. Rows /\ RevocationHolds
  BY DEF IInv
<1>2. PICK s \in held :
        LET u == sessions[s].user
        IN  \/ /\ Accepted(s) /\ MayEnter(u)
               /\ Continue(p, [op |-> "issue", user |-> u, read |-> era[u], old |-> s])
            \/ /\ sessions[s].revoked /\ ~Accepted(s)
               /\ Continue(p, [op |-> "reused", user |-> u])
  BY DEF RefreshRead
<1> DEFINE u == sessions[s].user
<1>3. s \in SessionIds /\ u \in Users /\ era[u] \in Nat
  BY <1>1, <1>2 DEF Rows, SessionDocument
<1>4. CASE Accepted(s) /\ Continue(p, [op |-> "issue", user |-> u, read |-> era[u], old |-> s])
  <2>1. req'[p] = [op |-> "issue", user |-> u, read |-> era[u], old |-> s]
    BY <1>1, <1>4 DEF Rows, Continue
  <2>2. sessions' = sessions /\ lineage' = lineage
    BY <1>4 DEF Continue, stored
  <2>3. lineage[s].late \/ lineage[s].since = era[u]
    BY <1>1, <1>3, <1>4 DEF RevocationHolds, Accepted
  <2>4. Flight(p)'
    BY <1>3, <2>1, <2>2, <2>3 DEF Flight, At
  <2>5. QED
    BY <1>4, <2>4, ContinueKeeps
<1>5. CASE Continue(p, [op |-> "reused", user |-> u])
  <2>1. req'[p] = [op |-> "reused", user |-> u]
    BY <1>1, <1>5 DEF Rows, Continue
  <2>2. Flight(p)'
    BY <1>3, <2>1 DEF Flight, At
  <2>3. QED
    BY <1>5, <2>2, ContinueKeeps
<1>6. QED
  BY <1>2, <1>4, <1>5

LEMMA IssueKeeps ==
    ASSUME IInv, NEW p \in Requests, Issue(p)
    PROVE  IInv' /\ Moves
<1> DEFINE r == req[p]
           row == Session(r.user, FALSE, NoSession)
           w(n) == [NoWrites EXCEPT !.sessions = Put(n, row)]
           next(n) == IF r.old = NoSession THEN Idle
                      ELSE [op |-> "replace", old |-> r.old, new |-> n]
<1>1. /\ Rows /\ Flights /\ RotationOrder /\ RevocationHolds
      /\ At(p, "issue") /\ Flight(p)
  BY DEF IInv, Flights, Issue
<1>2. PICK n \in SessionIds :
        /\ sessions[n] = NoRow
        /\ Write(p, w(n), next(n))
        /\ lineage' = [lineage EXCEPT ![n] = Descent(r)]
        /\ IF r.old = NoSession THEN Answer(n) ELSE UNCHANGED held
  BY DEF Issue
<1>3. era' = era
  BY DEF Issue
<1>4. /\ r.user \in Users /\ r.read \in Nat
      /\ \/ r.old = NoSession
         \/ /\ r.old \in SessionIds
            /\ sessions[r.old].user = r.user
            /\ lineage[r.old].late \/ lineage[r.old].since = r.read
  BY <1>1 DEF Flight
<1>5. users' = users /\ sessions' = [sessions EXCEPT ![n] = row]
  <2>1. /\ users' = [u \in Users |-> users[u]]
        /\ sessions' = [s \in SessionIds |-> IF s = n THEN row ELSE sessions[s]]
    BY <1>1, <1>2 DEF Rows, Write, Install, NoWrites, Nothing, Put
  <2>2. users = [u \in Users |-> users[u]] /\ DOMAIN sessions = SessionIds
    BY <1>1 DEF Rows
  <2>3. QED
    BY <2>1, <2>2
<1>6. sessions[n].user = NoUser /\ ~sessions[n].revoked /\ sessions[n].next = NoSession
  BY <1>2 DEF NoRow, Session
<1>7. /\ row \in SessionDocument /\ row.user = r.user /\ row.next = NoSession /\ ~row.revoked
      /\ r.user # NoUser
  BY <1>4, SessionsAssumption DEF Session, SessionDocument
<1>8. /\ Descent(r).parent = r.old
      /\ Descent(r).since \in Nat /\ Descent(r).late \in BOOLEAN
      /\ Descent(r).late \/ (~Overlaps(r) /\ Descent(r).since = r.read)
      /\ Overlaps(r) => Descent(r).late
      /\ Descent(r) \in [parent : SessionIds \cup {NoSession}, since : Nat, late : BOOLEAN]
  <2>1. CASE r.old = NoSession
    <3>1. Overlaps(r) \in BOOLEAN
      BY DEF Overlaps
    <3>2. Descent(r) = [parent |-> NoSession, since |-> r.read, late |-> Overlaps(r)]
      BY <2>1 DEF Descent, Lineage
    <3>3. QED
      BY <1>4, <2>1, <3>1, <3>2
  <2>2. CASE r.old # NoSession
    <3>1. Overlaps(r) \in BOOLEAN
      BY DEF Overlaps
    <3>2. Descent(r) = [parent |-> r.old, since |-> lineage[r.old].since,
                        late |-> lineage[r.old].late \/ Overlaps(r)]
      BY <2>2 DEF Descent, Lineage
    <3>3. lineage[r.old] \in [parent : SessionIds \cup {NoSession}, since : Nat, late : BOOLEAN]
      BY <1>1, <1>4, <2>2 DEF Rows
    <3>4. QED
      BY <1>4, <2>2, <3>1, <3>2, <3>3
  <2>3. QED
    BY <2>1, <2>2
<1>9. /\ \A s \in SessionIds \ {n} : sessions'[s] = sessions[s] /\ lineage'[s] = lineage[s]
      /\ sessions'[n] = row /\ lineage'[n] = Descent(r)
  BY <1>1, <1>2, <1>5 DEF Rows
<1>10. held' \subseteq {s \in SessionIds : s = n \/ s \in held}
  BY <1>1, <1>2 DEF Answer, Rows
<1>11. Moves
  BY <1>5, <1>6, <1>9 DEF Moves
<1>12. Rows'
  <2>1. sessions' \in [SessionIds -> SessionDocument]
    BY <1>1, <1>5, <1>7 DEF Rows
  <2>2. lineage' \in [SessionIds -> [parent : SessionIds \cup {NoSession}, since : Nat,
                                     late : BOOLEAN]]
    BY <1>1, <1>2, <1>8 DEF Rows
  <2>3. held' \subseteq {s \in SessionIds : sessions'[s].user # NoUser}
    BY <1>1, <1>7, <1>9, <1>10 DEF Rows
  <2>4. \A s \in SessionIds : sessions'[s].user = NoUser => sessions'[s] = NoRow
    BY <1>1, <1>7, <1>9 DEF Rows
  <2>5. req' = [q \in Requests |-> req'[q]]
    BY <1>1, <1>2 DEF Rows, Write, Spared
  <2>6. QED
    BY <1>1, <1>3, <1>5, <2>1, <2>2, <2>3, <2>4, <2>5 DEF Rows, NoRow, Session
<1>13. Flight(p)'
  <2>1. req'[p] = next(n)
    BY <1>1, <1>2, OwnSlot
  <2>2. CASE r.old = NoSession
    BY <2>1, <2>2, IdleKnowsNothing
  <2>3. CASE r.old # NoSession
    <3>1. req'[p] = [op |-> "replace", old |-> r.old, new |-> n]
      BY <2>1, <2>3
    <3>2. r.old # n
      BY <1>4, <1>6, <1>7, <2>3
    <3>3. /\ sessions'[r.old].user = r.user /\ sessions'[n].user = r.user
          /\ lineage'[n].parent = r.old
      BY <1>4, <1>7, <1>8, <1>9, <2>3, <3>2
    <3>4. QED
      BY <1>4, <2>3, <3>1, <3>3 DEF Flight, At
  <2>4. QED
    BY <2>2, <2>3
<1>14. ASSUME NEW q \in Requests, q # p
       PROVE  Flight(q)'
  <2>1. ASSUME NEW t \in Requests, At(t, "commit"), NEW s \in SessionIds,
               sessions[s].user = NoUser
        PROVE  sessions'[s].user \notin req[t].ends \/ lineage'[s].late
    <3>1. CASE s = n
      <4>1. r.user \in req[t].ends => Overlaps(r)
        BY <2>1 DEF Overlaps
      <4>2. QED
        BY <1>7, <1>8, <1>9, <3>1, <4>1
    <3>2. CASE s # n
      <4>1. NoUser \notin req[t].ends
        BY <1>1, <2>1, SessionsAssumption DEF Flights, Flight, Legal
      <4>2. QED
        BY <1>9, <2>1, <3>2, <4>1
    <3>3. QED
      BY <3>1, <3>2
  <2>2. DOMAIN w(n) = {"users", "emails", "couple", "sessions"}
    BY DEF NoWrites
  <2>3. QED
    BY <1>1, <1>2, <1>11, <1>14, <2>1, <2>2, OthersStay
<1>15. RotationOrder'
  <2>1. ASSUME NEW s \in SessionIds, s \in held', lineage'[s].parent # NoSession
        PROVE  sessions'[lineage'[s].parent].revoked
    <3>1. s \in held
      BY <1>2, <1>8, <1>9, <1>10, <2>1 DEF Answer
    <3>2. s # n
      BY <1>1, <1>6, <3>1 DEF Rows
    <3>3. /\ lineage[s].parent \in SessionIds /\ lineage'[s].parent = lineage[s].parent
          /\ sessions[lineage[s].parent].revoked
      BY <1>1, <1>9, <2>1, <3>1, <3>2 DEF Rows, RotationOrder
    <3>4. QED
      BY <1>6, <1>9, <3>3
  <2>2. ASSUME NEW s \in SessionIds, sessions'[s].next # NoSession
        PROVE  /\ sessions'[s].revoked
               /\ sessions'[sessions'[s].next].user = sessions'[s].user
               /\ lineage'[sessions'[s].next].parent = s
    <3>1. s # n /\ sessions'[s] = sessions[s]
      BY <1>7, <1>9, <2>2
    <3>2. /\ sessions[s].next \in SessionIds
          /\ sessions[s].user # NoUser
      BY <1>1, <2>2, <3>1 DEF Rows, SessionDocument, NoRow, Session
    <3>3. /\ sessions[s].revoked
          /\ sessions[sessions[s].next].user = sessions[s].user
          /\ lineage[sessions[s].next].parent = s
      BY <1>1, <2>2, <3>1 DEF RotationOrder
    <3>4. sessions[s].next # n
      BY <1>6, <3>2, <3>3
    <3>5. QED
      BY <1>9, <3>1, <3>2, <3>3, <3>4
  <2>3. QED
    BY <2>1, <2>2 DEF RotationOrder
<1>16. RevocationHolds'
  <2>1. SUFFICES ASSUME NEW s \in SessionIds, Live(s)', ~lineage'[s].late
                 PROVE  lineage'[s].since = era[sessions'[s].user]
    BY <1>3 DEF RevocationHolds
  <2>2. CASE s = n
    BY <1>7, <1>8, <1>9, <2>1, <2>2 DEF Overlaps
  <2>3. CASE s # n
    BY <1>1, <1>9, <2>1, <2>3 DEF RevocationHolds, Live
  <2>4. QED
    BY <2>2, <2>3
<1>17. QED
  BY <1>11, <1>12, <1>13, <1>14, <1>15, <1>16 DEF IInv, Flights

LEMMA ReplaceKeeps ==
    ASSUME IInv, NEW p \in Requests, Replace(p)
    PROVE  IInv' /\ Moves
<1> DEFINE old == req[p].old
           new == req[p].new
           w == [NoWrites EXCEPT !.sessions = Put(old, Session(sessions[old].user, TRUE, new))]
<1>1. Rows /\ Flight(p) /\ At(p, "replace")
  BY DEF IInv, Flights, Replace
<1>2. /\ old \in SessionIds /\ new \in SessionIds /\ sessions[old].user \in Users
      /\ sessions[new].user = sessions[old].user
      /\ lineage[new].parent = old
  BY <1>1 DEF Flight
<1>3. /\ Write(p, w, Idle) /\ held' = held \cup {new}
      /\ lineage' = lineage /\ era' = era
  BY DEF Replace, Answer
<1>4. Revises(w)
  BY <1>2, SessionsAssumption DEF Revises, NoWrites, Nothing, Put
<1>5. sessions'[old].revoked
  BY <1>1, <1>2, <1>3 DEF Rows, Write, Install, NoWrites, Put, Session
<1>6. Flight(p)'
  BY <1>1, <1>3, OwnSlot, IdleKnowsNothing
<1>7. /\ held' \subseteq SessionIds
      /\ \A s \in held' :
            /\ sessions[s].user # NoUser
            /\ s \in held \/ (lineage[s].parent # NoSession =>
                                  sessions'[lineage[s].parent].revoked)
  BY <1>1, <1>2, <1>3, <1>5, SessionsAssumption DEF Rows
<1>8. PICK ends \in SUBSET Users : ends = {}
  OBVIOUS
<1>9. \A s \in SessionIds : sessions[s].user \in ends
        => sessions[s].revoked \/ s \in DOMAIN w.sessions \/ lineage[s].late
  BY <1>8
<1> HIDE DEF w
<1>10. QED
  BY <1>3, <1>4, <1>6, <1>7, <1>9, RevisionKeeps

\* Revoking sessions that are there is a revision of them.
LEMMA RevokingRevises ==
    ASSUME Rows, NEW S \in SUBSET SessionIds, \A s \in S : sessions[s].user # NoUser
    PROVE  \A s \in S : /\ s \in DOMAIN Revoking(S)
                        /\ Revoking(S)[s] = Session(sessions[s].user, TRUE, sessions[s].next)
                        /\ sessions[s].next \in SessionIds \cup {NoSession}
BY DEF Rows, SessionDocument, Session, Revoking

LEMMA RevokeAllKeeps ==
    ASSUME IInv, NEW p \in Requests, RevokeAll(p)
    PROVE  IInv' /\ Moves
<1> DEFINE u == req[p].user
           w == [NoWrites EXCEPT !.sessions = Revoking(SessionsOf(u))]
<1>1. Rows /\ u \in Users
  BY DEF IInv, Flights, Flight, RevokeAll
<1>2. Write(p, w, Idle) /\ era' = Later({u}) /\ held' = held /\ lineage' = lineage
  BY DEF RevokeAll
<1>3. SessionsOf(u) \in SUBSET SessionIds /\ \A s \in SessionsOf(u) : sessions[s].user # NoUser
  BY <1>1, SessionsAssumption DEF SessionsOf
<1>4. DOMAIN w.sessions = SessionsOf(u)
  BY DEF NoWrites, Revoking
<1>5. Revises(w)
  BY <1>1, <1>3, RevokingRevises DEF Revises, NoWrites, Nothing, Revoking
<1>6. \A s \in SessionIds : sessions[s].user \in {u} => s \in DOMAIN w.sessions
  BY <1>4 DEF SessionsOf
<1>7. Flight(p)'
  BY <1>1, <1>2, OwnSlot, IdleKnowsNothing
<1>8. \A s \in held' : s \in SessionIds /\ sessions[s].user # NoUser /\ s \in held
  BY <1>1, <1>2 DEF Rows
<1>9. {u} \in SUBSET Users
  BY <1>1
<1> HIDE DEF w, u
<1>10. QED
  BY <1>2, <1>5, <1>6, <1>7, <1>8, <1>9, RevisionKeeps

LEMMA LogoutKeeps ==
    ASSUME IInv, NEW p \in Requests, Logout(p)
    PROVE  IInv' /\ Moves
<1>1. Rows
  BY DEF IInv
<1>2. PICK s \in held : Write(p, [NoWrites EXCEPT !.sessions = Revoking({s})], Idle)
  BY DEF Logout
<1>3. UNCHANGED <<held, lineage, era>>
  BY DEF Logout
<1>4. s \in SessionIds /\ sessions[s].user # NoUser
  BY <1>1, <1>2 DEF Rows
<1>5. Revises([NoWrites EXCEPT !.sessions = Revoking({s})])
  BY <1>1, <1>4, RevokingRevises DEF Revises, NoWrites, Nothing, Revoking
<1>6. Flight(p)'
  BY <1>1, <1>2, OwnSlot, IdleKnowsNothing
<1>7. QED
  BY <1>2, <1>3, <1>5, <1>6, QuietRevisionKeeps

-----------------------------------------------------------------------------
(* The couple, its accounts and the administrator.                         *)

\* A request that only looks, and then knows a user that is there.
LEMMA FindsKeeps ==
    ASSUME IInv, NEW p \in Requests, NEW endpoint, NEW next, Finds(p, endpoint, next),
           \/ next.op \in {"status", "removeTx", "newAgent"}
           \/ /\ next.op \in {"enable", "disable", "renameAgent", "rename", "reset"}
              /\ next.user \in Users /\ Exists(next.user)
    PROVE  IInv' /\ Moves
<1>1. Rows /\ Continue(p, next)
  BY DEF IInv, Finds
<1>2. req'[p] = next /\ users' = users
  BY <1>1, OwnSlot DEF Continue, stored
<1>3. Flight(p)'
  BY <1>2 DEF Flight, At, Exists
<1>4. QED
  BY <1>1, <1>3, ContinueKeeps

LEMMA ReadsKeep ==
    ASSUME IInv, NEW p \in Requests,
           \/ StatusRead(p) \/ RemoveRead(p) \/ AgentCreateRead(p)
           \/ AgentUpdateRead(p) \/ AccountRead(p)
    PROVE  IInv' /\ Moves
<1>1. CASE StatusRead(p)
  BY <1>1, FindsKeeps DEF StatusRead
<1>2. CASE RemoveRead(p)
  BY <1>2, FindsKeeps DEF RemoveRead
<1>3. CASE AgentCreateRead(p)
  BY <1>3, FindsKeeps DEF AgentCreateRead
<1>4. CASE AgentUpdateRead(p)
  <2>1. PICK u \in Users, op \in {"enable", "disable", "renameAgent"} :
            Agent(u) /\ Finds(p, "updateAgent", [op |-> op, user |-> u])
    BY <1>4 DEF AgentUpdateRead
  <2>2. Exists(u)
    BY <2>1 DEF Agent, Exists
  <2>3. QED
    BY <2>1, <2>2, FindsKeeps
<1>5. CASE AccountRead(p)
  <2>1. PICK u \in Users, op \in {"rename", "reset"} :
            OfCouple(u) /\ Finds(p, op, [op |-> op, user |-> u])
    BY <1>5 DEF AccountRead
  <2>2. Exists(u)
    BY <2>1 DEF OfCouple, Exists
  <2>3. QED
    BY <2>1, <2>2, FindsKeeps
<1>6. QED
  BY <1>1, <1>2, <1>3, <1>4, <1>5

\* Writes of one user, of an email or of the couple.
LEMMA AccountWritesKeep ==
    ASSUME IInv, NEW p \in Requests,
           StatusWrite(p) \/ AgentCreate(p) \/ AccountRename(p)
    PROVE  IInv' /\ Moves
<1>1. Rows /\ Flight(p)
  BY DEF IInv, Flights
<1>2. UNCHANGED <<held, lineage, era>>
  BY DEF StatusWrite, AgentCreate, AccountRename
<1>3. ASSUME NEW w, Write(p, w, Idle), Revises(w)
      PROVE  IInv' /\ Moves
  <2>1. Flight(p)'
    BY <1>1, <1>3, OwnSlot, IdleKnowsNothing
  <2>2. QED
    BY <1>2, <1>3, <2>1, QuietRevisionKeeps
<1>4. CASE StatusWrite(p)
  <2>1. Revises([NoWrites EXCEPT !.couple = Put("status", req[p].status)])
    BY DEF Revises, NoWrites, Nothing
  <2>2. QED
    BY <1>3, <1>4, <2>1 DEF StatusWrite
<1>5. CASE AgentCreate(p)
  <2>1. PICK u \in FreshUsers, e \in Emails :
            Write(p, [NoWrites EXCEPT !.users  = Put(u, User("ACCESS_AGENT", TRUE)),
                                      !.emails = Renaming(u, e)], Idle)
    BY <1>5 DEF AgentCreate
  <2>2. ~Exists(u)
    BY <2>1 DEF FreshUsers
  <2>3. Revises([NoWrites EXCEPT !.users  = Put(u, User("ACCESS_AGENT", TRUE)),
                                 !.emails = Renaming(u, e)])
    BY <2>2 DEF Revises, NoWrites, Nothing, Put, User, UserDocument, Roles
  <2>4. QED
    BY <1>3, <2>1, <2>3
<1>6. CASE AccountRename(p)
  <2> DEFINE u == req[p].user
  <2>1. PICK e \in Emails :
            Write(p, [NoWrites EXCEPT !.users  = Put(u, users[u]),
                                      !.emails = Renaming(u, e)], Idle)
    BY <1>6 DEF AccountRename
  <2>2. u \in Users /\ Exists(u) /\ users[u] \in UserDocument
    BY <1>1, <1>6 DEF AccountRename, At, Flight, Rows
  <2>3. Revises([NoWrites EXCEPT !.users = Put(u, users[u]), !.emails = Renaming(u, e)])
    BY <2>2 DEF Revises, NoWrites, Nothing, Put, Exists
  <2>4. QED
    BY <1>3, <2>1, <2>3
<1>7. QED
  BY <1>4, <1>5, <1>6

\* A transaction that is evaluated in the state it reads.
LEMMA TransactionKeeps ==
    ASSUME IInv, NEW p \in Requests, NEW w, NEW ends, Transaction(p, w, ends), Legal(w, ends)
    PROVE  IInv' /\ Moves
<1> DEFINE next == [op |-> "commit", w |-> w, ends |-> ends]
<1>1. Rows /\ Continue(p, next)
  BY DEF IInv, Transaction
<1>2. req'[p] = next
  BY <1>1, OwnSlot
<1>3. users' = users /\ sessions' = sessions /\ lineage' = lineage
  BY <1>1 DEF Continue, stored
<1>4. Legal(w, ends)'
  BY <1>3 DEF Legal, Exists
<1>5. Flight(p)'
  BY <1>2, <1>4 DEF Flight, At
<1>6. QED
  BY <1>1, <1>5, ContinueKeeps

\* One that ends the sessions of a user writes all that are live.
LEMMA EndingLegal ==
    ASSUME Rows, NEW u \in Users, NEW row \in UserDocument, row.role # "none",
           Exists(u) => row.role = users[u].role, NEW index
    PROVE  /\ Legal(Ending(u, row), {u})
           /\ Legal([Ending(u, row) EXCEPT !.emails = index], {u})
<1> DEFINE S == {s \in SessionsOf(u) : ~sessions[s].revoked}
<1>1. /\ S \in SUBSET SessionIds
      /\ \A s \in S : sessions[s].user = u
      /\ \A s \in SessionIds : sessions[s].user = u => sessions[s].revoked \/ s \in S
  BY DEF SessionsOf
<1>2. \A s \in S : sessions[s].user # NoUser
  BY <1>1, SessionsAssumption
<1>3. \A s \in S : Revoking(S)[s] = Session(sessions[s].user, TRUE, sessions[s].next)
  BY <1>1, <1>2, RevokingRevises
<1>4. DOMAIN Revoking(S) = S
  BY DEF Revoking
<1>5. Ending(u, row) = [NoWrites EXCEPT !.users = Put(u, row), !.sessions = Revoking(S)]
  BY DEF Ending
<1> HIDE DEF S
<1>6. Legal([NoWrites EXCEPT !.users = Put(u, row), !.sessions = Revoking(S)], {u})
  BY <1>1, <1>2, <1>3, <1>4 DEF Legal, NoWrites, Put
<1>7. Legal([[NoWrites EXCEPT !.users = Put(u, row), !.sessions = Revoking(S)]
                EXCEPT !.emails = index], {u})
  BY <1>1, <1>2, <1>3, <1>4 DEF Legal, NoWrites, Put
<1>8. QED
  BY <1>5, <1>6, <1>7

LEMMA TransactionsKeep ==
    ASSUME IInv, NEW p \in Requests,
           \/ RemoveTransaction(p) \/ AgentEnable(p) \/ AgentDisable(p)
           \/ AgentRename(p) \/ PasswordReset(p)
    PROVE  IInv' /\ Moves
<1> DEFINE u == req[p].user
<1>1. Rows /\ Flight(p)
  BY DEF IInv, Flights
<1>2. ASSUME req[p].op \in {"enable", "disable", "renameAgent", "reset"}
      PROVE  u \in Users /\ users[u] \in UserDocument /\ users[u].role # "none"
  BY <1>1, <1>2 DEF Flight, Rows, Exists
<1>3. CASE RemoveTransaction(p)
  <2>1. /\ Removal.users = [v \in {v \in Users : OfCouple(v)} |-> [users[v] EXCEPT !.active = FALSE]]
        /\ Removal.sessions = Nothing
        /\ DOMAIN Removal = {"users", "emails", "couple", "sessions"}
    BY DEF Removal, NoWrites
  <2>2. ASSUME NEW v \in Users \cap DOMAIN Removal.users
        PROVE  /\ Removal.users[v] \in UserDocument /\ Removal.users[v].role # "none"
               /\ Removal.users[v].role = users[v].role
    <3>1. users[v] \in UserDocument /\ OfCouple(v)
      BY <1>1, <2>1 DEF Rows
    <3>2. Removal.users[v] = [users[v] EXCEPT !.active = FALSE]
      BY <2>1
    <3>3. QED
      BY <3>1, <3>2 DEF UserDocument, OfCouple
  <2>3. DOMAIN Removal.sessions = {}
    BY <2>1 DEF Nothing
  <2>4. Legal(Removal, {})
    BY <2>1, <2>2, <2>3 DEF Legal
  <2>5. QED
    BY <1>3, <2>4, TransactionKeeps DEF RemoveTransaction
<1>4. CASE AgentEnable(p)
  <2> DEFINE w == [NoWrites EXCEPT !.users = Put(u, [users[u] EXCEPT !.active = TRUE])]
  <2>1. Transaction(p, w, {}) /\ u \in Users /\ users[u] \in UserDocument /\ users[u].role # "none"
    BY <1>2, <1>4 DEF AgentEnable, At
  <2>2. Legal(w, {})
    BY <2>1 DEF Legal, NoWrites, Nothing, Put, UserDocument
  <2>3. QED
    BY <2>1, <2>2, TransactionKeeps
<1>5. CASE AgentDisable(p)
  <2> DEFINE row == [users[u] EXCEPT !.active = FALSE]
  <2>1. /\ Transaction(p, Ending(u, row), {u})
        /\ u \in Users /\ users[u] \in UserDocument /\ users[u].role # "none"
    BY <1>2, <1>5 DEF AgentDisable, At
  <2>2. row \in UserDocument /\ row.role = users[u].role
    BY <2>1 DEF UserDocument
  <2>3. Legal(Ending(u, row), {u})
    BY <1>1, <2>1, <2>2, EndingLegal
  <2>4. QED
    BY <2>1, <2>3, TransactionKeeps
<1>6. CASE AgentRename(p)
  <2>1. PICK e \in Emails :
            Transaction(p, [NoWrites EXCEPT !.users = Put(u, users[u]),
                                            !.emails = Renaming(u, e)], {})
    BY <1>6 DEF AgentRename
  <2>2. u \in Users /\ users[u] \in UserDocument /\ users[u].role # "none"
    BY <1>2, <1>6 DEF AgentRename, At
  <2>3. Legal([NoWrites EXCEPT !.users = Put(u, users[u]), !.emails = Renaming(u, e)], {})
    BY <2>2 DEF Legal, NoWrites, Nothing, Put
  <2>4. QED
    BY <2>1, <2>3, TransactionKeeps
<1>7. CASE PasswordReset(p)
  <2>1. /\ Transaction(p, Ending(u, users[u]), {u})
        /\ u \in Users /\ users[u] \in UserDocument /\ users[u].role # "none"
    BY <1>2, <1>7 DEF PasswordReset, At
  <2>2. Legal(Ending(u, users[u]), {u})
    BY <1>1, <2>1, EndingLegal
  <2>3. QED
    BY <2>1, <2>2, TransactionKeeps
<1>8. QED
  BY <1>3, <1>4, <1>5, <1>6, <1>7

LEMMA BootstrapKeeps ==
    ASSUME IInv, NEW p \in Requests, Bootstrap(p)
    PROVE  IInv' /\ Moves
<1> DEFINE row == User("SUPER_ADMIN", TRUE)
<1>1. Rows
  BY DEF IInv
<1>2. row \in UserDocument /\ row.role = "SUPER_ADMIN"
  BY DEF User, UserDocument, Roles
<1>3. EmailOwnerIsAdmin
  BY DEF Bootstrap
<1>4. CASE \E u \in Known :
            /\ MayEnd
            /\ Transaction(p, [Ending(u, User("SUPER_ADMIN", TRUE)) EXCEPT
                                  !.emails = Renaming(u, AdminEmail)], {u})
  <2>1. PICK u \in Known :
            Transaction(p, [Ending(u, row) EXCEPT !.emails = Renaming(u, AdminEmail)], {u})
    BY <1>4
  <2>2. u \in Admins
    BY <1>3, <2>1 DEF Known, EmailOwnerIsAdmin
  <2>3. u \in Users /\ users[u].role = "SUPER_ADMIN"
    BY <2>2 DEF Admins
  <2>4. Legal([Ending(u, row) EXCEPT !.emails = Renaming(u, AdminEmail)], {u})
    BY <1>1, <1>2, <2>3, EndingLegal
  <2>5. QED
    BY <2>1, <2>4, TransactionKeeps
<1>5. CASE \E u \in FreshUsers :
            Transaction(p, [NoWrites EXCEPT !.users  = Put(u, row),
                                            !.emails = Renaming(u, AdminEmail)], {})
  <2>1. PICK u \in FreshUsers :
            Transaction(p, [NoWrites EXCEPT !.users  = Put(u, row),
                                            !.emails = Renaming(u, AdminEmail)], {})
    BY <1>5
  <2>2. u \in Users /\ ~Exists(u)
    BY <2>1 DEF FreshUsers
  <2>3. Legal([NoWrites EXCEPT !.users  = Put(u, row), !.emails = Renaming(u, AdminEmail)], {})
    BY <1>2, <2>2 DEF Legal, NoWrites, Nothing, Put
  <2>4. QED
    BY <2>1, <2>3, TransactionKeeps
<1>6. QED
  BY <1>4, <1>5 DEF Bootstrap

LEMMA CommitKeeps ==
    ASSUME IInv, NEW p \in Requests, Commit(p)
    PROVE  IInv' /\ Moves
<1> DEFINE w == req[p].w
           ends == req[p].ends
<1>1. Rows /\ Flight(p) /\ At(p, "commit")
  BY DEF IInv, Flights, Commit
<1>2. Legal(w, ends)
  BY <1>1 DEF Flight
<1>3. Write(p, w, Idle) /\ era' = Later(ends) /\ held' = held /\ lineage' = lineage
  BY DEF Commit
<1>4. Revises(w)
  <2>1. \A s \in SessionIds : sessions[s].next \in SessionIds \cup {NoSession}
    BY <1>1 DEF Rows, SessionDocument
  <2>2. QED
    BY <1>2, <2>1 DEF Legal, Revises
<1>5. Flight(p)'
  BY <1>1, <1>3, OwnSlot, IdleKnowsNothing
<1>6. \A s \in held' : s \in SessionIds /\ sessions[s].user # NoUser /\ s \in held
  BY <1>1, <1>3 DEF Rows
<1>7. /\ ends \in SUBSET Users
      /\ \A s \in SessionIds : sessions[s].user \in ends
            => sessions[s].revoked \/ s \in DOMAIN w.sessions \/ lineage[s].late
  BY <1>2 DEF Legal
<1> HIDE DEF w, ends
<1>8. QED
  BY <1>3, <1>4, <1>5, <1>6, <1>7, RevisionKeeps

LEMMA AbortKeeps ==
    ASSUME IInv, NEW p \in Requests, Abort(p)
    PROVE  IInv' /\ Moves
<1>1. Rows /\ Continue(p, Idle)
  BY DEF IInv, Abort
<1>2. Flight(p)'
  BY <1>1, OwnSlot, IdleKnowsNothing
<1>3. QED
  BY <1>1, <1>2, ContinueKeeps

-----------------------------------------------------------------------------
(* The theorems                                                            *)

LEMMA InitHolds ==
    ASSUME Init
    PROVE  IInv
<1>1. Rows
  <2>1. users \in [Users -> UserDocument]
    BY DEF Init, User, UserDocument, Roles
  <2>2. sessions \in [SessionIds -> SessionDocument]
    BY DEF Init, NoRow, Session, SessionDocument
  <2>3. lineage \in [SessionIds -> [parent : SessionIds \cup {NoSession}, since : Nat,
                                    late : BOOLEAN]]
    BY DEF Init, Lineage
  <2>4. era \in [Users -> Nat] /\ req = [p \in Requests |-> req[p]] /\ held = {}
    BY DEF Init
  <2>5. \A s \in SessionIds : sessions[s] = NoRow
    BY DEF Init
  <2>6. QED
    BY <2>1, <2>2, <2>3, <2>4, <2>5 DEF Rows
<1>2. Flights
  BY DEF Init, Flights, Flight, At, Idle
<1>3. RotationOrder
  BY DEF Init, RotationOrder, NoRow, Session
<1>4. RevocationHolds
  BY DEF Init, RevocationHolds, NoRow, Session, Live
<1>5. QED
  BY <1>1, <1>2, <1>3, <1>4 DEF IInv

LEMMA NextKeeps ==
    ASSUME IInv, [Next]_vars
    PROVE  IInv' /\ Moves
<1>1. CASE UNCHANGED vars
  <2>1. /\ users' = users /\ sessions' = sessions /\ held' = held
        /\ lineage' = lineage /\ era' = era /\ req' = req
    BY <1>1 DEF vars
  <2>2. Moves
    BY <2>1 DEF Moves
  <2>3. ASSUME NEW q \in Requests
        PROVE  Flight(q)'
    <3>1. Rows /\ Flight(q) /\ req'[q] = req[q]
      BY <2>1 DEF IInv, Flights
    <3>2. /\ \A u \in Users \cap DOMAIN req[q].w.users : users'[u] = users[u]
          /\ \A s \in SessionIds \cap DOMAIN req[q].w.sessions : sessions'[s] = sessions[s]
      BY <2>1
    <3>3. At(q, "commit") =>
            \A s \in SessionIds : sessions[s].user = NoUser
                => sessions'[s].user \notin req[q].ends \/ lineage'[s].late
      BY <2>1, <3>1, SessionsAssumption DEF Flight, Legal
    <3>4. QED
      BY <2>2, <3>1, <3>2, <3>3, FlightStays
  <2>4. Rows' /\ RotationOrder' /\ RevocationHolds'
    BY <2>1 DEF IInv, Rows, RotationOrder, RevocationHolds, Live
  <2>5. QED
    BY <2>2, <2>3, <2>4 DEF IInv, Flights
<1>2. ASSUME NEW p \in Requests, Step(p)
      PROVE  IInv' /\ Moves
  <2>1. CASE Authentication(p)
    BY <2>1, LoginKeeps, RefreshReadKeeps, IssueKeeps, ReplaceKeeps, RevokeAllKeeps, LogoutKeeps
       DEF Authentication
  <2>2. CASE Accounts(p)
    BY <2>2, ReadsKeep, AccountWritesKeep, TransactionsKeep, BootstrapKeeps DEF Accounts
  <2>3. QED
    BY <1>2, <2>1, <2>2, CommitKeeps, AbortKeeps DEF Step
<1>3. QED
  BY <1>1, <1>2 DEF Next

LEMMA AlwaysIInv == Spec => []IInv
<1>1. Init => IInv
  BY InitHolds
<1>2. IInv /\ [Next]_vars => IInv'
  BY NextKeeps
<1>3. QED
  BY <1>1, <1>2, PTL DEF Spec

\* A revocation of all sessions of a user holds for every token from before
\* it, however refreshes, logins and other revocations overlap.
THEOREM RevocationStays == Spec => []RevocationHolds
<1>1. IInv => RevocationHolds
  BY DEF IInv
<1>2. QED
  BY AlwaysIInv, <1>1, PTL

\* A client holds a new token only when the old one is revoked, and sessions
\* are replaced within one user.
THEOREM RotationStays == Spec => []RotationOrder
<1>1. IInv => RotationOrder
  BY DEF IInv
<1>2. QED
  BY AlwaysIInv, <1>1, PTL

\* No account changes its role, whatever the bootstrap script meets.
THEOREM RolesStay == Spec => RolesFixed
<1>1. IInv /\ [Next]_vars => [\A u \in Users : Exists(u) => users'[u].role = users[u].role]_vars
  BY NextKeeps DEF Moves
<1>2. QED
  BY AlwaysIInv, <1>1, PTL DEF Spec, RolesFixed

-----------------------------------------------------------------------------
(* The accounts: the index on the emails, the couple, the administrator.   *)
(* The second inductive invariant stands on the first, which is cited as   *)
(* true before and after every step.                                       *)

\* A pending write of users keeps active what it finds inactive, promotes
\* nobody to the account of the couple, and makes an administrator only where
\* there is none, under the key that every such write takes.
UsersProper(w) ==
    \A u \in Users \cap DOMAIN w.users :
        /\ w.users[u].role = "COUPLE" => users[u].role = "COUPLE"
        /\ users[u].role = "COUPLE" /\ w.users[u].active => users[u].active
        /\ w.users[u].role = "SUPER_ADMIN" =>
            \/ users[u].role = "SUPER_ADMIN"
            \/ AdminEmail \in DOMAIN w.emails /\ Admins = {}

\* A pending write of the index gives one user an email that no other has.
EmailsProper(w) ==
    \/ DOMAIN w.emails = {} /\ \A u \in Users \cap DOMAIN w.users : Exists(u)
    \/ \E u \in Users :
        /\ DOMAIN w.users = {u}
        /\ \A f \in Emails \cap DOMAIN w.emails :
            emails[f] \in {u, NoUser} /\ w.emails[f] \in {u, NoUser}
        /\ \E e \in Emails \cap DOMAIN w.emails : w.emails[e] = u

\* A pending removal deactivates every account of the couple.
CoupleProper(w) ==
    /\ "status" \in DOMAIN w.couple => w.couple["status"] \in {"AUTHORIZED", "SUSPENDED"}
    /\ "deleted" \in DOMAIN w.couple =>
        /\ w.couple["deleted"] = TRUE
        /\ \A u \in Users : users[u].role = "COUPLE" =>
            u \in DOMAIN w.users /\ ~w.users[u].active

Proper(w) == UsersProper(w) /\ EmailsProper(w) /\ CoupleProper(w)

Indexed ==
    /\ emails \in [Emails -> Users \cup {NoUser}]
    /\ \A u \in Users : Exists(u) => \E e \in Emails : emails[e] = u

LockedOut ==
    /\ couple \in [status : {"PENDING", "AUTHORIZED", "SUSPENDED"}, deleted : BOOLEAN]
    /\ couple.deleted => \A u \in Users : users[u].role = "COUPLE" => ~users[u].active

Alone == \A u, v \in Admins : u = v

AccountFlight(p) ==
    /\ At(p, "commit") \/ req[p] \in SessionRequest
    /\ req[p].op \in {"enable", "disable"} => Agent(req[p].user)
    /\ At(p, "commit") => Proper(req[p].w)

AccountsInv == Indexed /\ LockedOut /\ Alone /\ \A p \in Requests : AccountFlight(p)

\* What a write that is proper leaves of another one that it does not doom.
LEMMA ProperStays ==
    ASSUME Rows, Moves, NEW p \in Requests, NEW w, NEW next, Write(p, w, next), Proper(w),
           NEW v, Proper(v),
           DOMAIN v.users \cap DOMAIN w.users = {},
           DOMAIN v.emails \cap DOMAIN w.emails = {},
           DOMAIN emails = Emails
    PROVE  Proper(v)'
<1>1. \A u \in Users : users'[u] = IF u \in DOMAIN w.users THEN w.users[u] ELSE users[u]
  BY DEF Rows, Write, Install
<1>2. \A f \in Emails : emails'[f] = IF f \in DOMAIN w.emails THEN w.emails[f] ELSE emails[f]
  BY DEF Write, Install
<1>3. \A u \in Users : users'[u].role = "COUPLE" => users[u].role = "COUPLE"
  BY <1>1 DEF Proper, UsersProper
<1>4. AdminEmail \in DOMAIN v.emails /\ Admins = {} => Admins' = {}
  <2>1. SUFFICES ASSUME AdminEmail \in DOMAIN v.emails, Admins = {},
                        NEW u \in Users, users'[u].role = "SUPER_ADMIN"
                 PROVE  FALSE
    BY DEF Admins
  <2>2. users[u].role # "SUPER_ADMIN"
    BY <2>1 DEF Admins
  <2>3. u \in DOMAIN w.users /\ w.users[u].role = "SUPER_ADMIN"
    BY <1>1, <2>1, <2>2
  <2>4. AdminEmail \in DOMAIN w.emails
    BY <2>2, <2>3 DEF Proper, UsersProper
  <2>5. QED
    BY <2>1, <2>4
<1>5. UsersProper(v)'
  <2>1. ASSUME NEW u \in Users \cap DOMAIN v.users
        PROVE  /\ v.users[u].role = "COUPLE" => users'[u].role = "COUPLE"
               /\ users'[u].role = "COUPLE" /\ v.users[u].active => users'[u].active
               /\ v.users[u].role = "SUPER_ADMIN" =>
                   \/ users'[u].role = "SUPER_ADMIN"
                   \/ AdminEmail \in DOMAIN v.emails /\ Admins' = {}
    <3>1. users'[u] = users[u]
      BY <1>1
    <3>2. QED
      BY <1>4, <3>1 DEF Proper, UsersProper
  <2>2. QED
    BY <2>1 DEF UsersProper
<1>6. EmailsProper(v)'
  <2>1. CASE DOMAIN v.emails = {} /\ \A u \in Users \cap DOMAIN v.users : Exists(u)
    <3>1. \A u \in Users \cap DOMAIN v.users : Exists(u)'
      BY <1>1, <2>1 DEF Exists
    <3>2. QED
      BY <2>1, <3>1 DEF EmailsProper
  <2>2. CASE \E u \in Users :
                /\ DOMAIN v.users = {u}
                /\ \A f \in Emails \cap DOMAIN v.emails :
                    emails[f] \in {u, NoUser} /\ v.emails[f] \in {u, NoUser}
                /\ \E e \in Emails \cap DOMAIN v.emails : v.emails[e] = u
    <3>1. \A f \in Emails \cap DOMAIN v.emails : emails'[f] = emails[f]
      BY <1>2
    <3>2. QED
      BY <2>2, <3>1 DEF EmailsProper
  <2>3. QED
    BY <2>1, <2>2 DEF Proper, EmailsProper
<1>7. CoupleProper(v)'
  BY <1>3 DEF Proper, CoupleProper
<1>8. QED
  BY <1>5, <1>6, <1>7 DEF Proper

\* A proper write keeps the accounts in order.
LEMMA WriteKeepsAccounts ==
    ASSUME IInv, IInv', Moves, AccountsInv, NEW p \in Requests, NEW w, NEW next,
           Write(p, w, next), DOMAIN w = {"users", "emails", "couple", "sessions"},
           Proper(w), AccountFlight(p)'
    PROVE  AccountsInv'
<1>1. Rows /\ Flights /\ Rows' /\ Indexed /\ LockedOut /\ Alone
  BY DEF IInv, AccountsInv
<1>2. \A u \in Users : users'[u] = IF u \in DOMAIN w.users THEN w.users[u] ELSE users[u]
  BY <1>1 DEF Rows, Write, Install
<1>3. /\ emails' = [f \in Emails |-> IF f \in DOMAIN w.emails THEN w.emails[f] ELSE emails[f]]
      /\ DOMAIN emails = Emails
  BY <1>1 DEF Indexed, Write, Install
<1>4. Indexed'
  <2>1. CASE DOMAIN w.emails = {} /\ \A u \in Users \cap DOMAIN w.users : Exists(u)
    <3>1. emails' = emails
      BY <1>1, <1>3, <2>1 DEF Indexed
    <3>2. \A u \in Users : Exists(u)' => Exists(u)
      BY <1>2, <2>1 DEF Exists
    <3>3. QED
      BY <1>1, <3>1, <3>2 DEF Indexed
  <2>2. CASE \E u \in Users :
                /\ DOMAIN w.users = {u}
                /\ \A f \in Emails \cap DOMAIN w.emails :
                    emails[f] \in {u, NoUser} /\ w.emails[f] \in {u, NoUser}
                /\ \E e \in Emails \cap DOMAIN w.emails : w.emails[e] = u
    <3>1. PICK u \in Users :
                /\ DOMAIN w.users = {u}
                /\ \A f \in Emails \cap DOMAIN w.emails :
                    emails[f] \in {u, NoUser} /\ w.emails[f] \in {u, NoUser}
                /\ \E e \in Emails \cap DOMAIN w.emails : w.emails[e] = u
      BY <2>2
    <3>2. emails' \in [Emails -> Users \cup {NoUser}]
      BY <1>1, <1>3, <3>1 DEF Indexed
    <3>3. ASSUME NEW x \in Users, Exists(x)'
          PROVE  \E e \in Emails : emails'[e] = x
      <4>1. CASE x = u
        BY <1>3, <3>1, <4>1
      <4>2. CASE x # u
        <5>1. Exists(x)
          BY <1>2, <3>1, <3>3, <4>2 DEF Exists
        <5>2. PICK e \in Emails : emails[e] = x
          BY <1>1, <5>1 DEF Indexed
        <5>3. e \notin DOMAIN w.emails
          BY <3>1, <4>2, <5>2, SessionsAssumption
        <5>4. QED
          BY <1>3, <5>2, <5>3
      <4>3. QED
        BY <4>1, <4>2
    <3>4. QED
      BY <3>2, <3>3 DEF Indexed
  <2>3. QED
    BY <2>1, <2>2 DEF Proper, EmailsProper
<1>5. LockedOut'
  <2>1. /\ couple' = [k \in {"status", "deleted"} |->
                        IF k \in DOMAIN w.couple THEN w.couple[k] ELSE couple[k]]
        /\ couple.status \in {"PENDING", "AUTHORIZED", "SUSPENDED"}
        /\ couple.deleted \in BOOLEAN
    BY <1>1 DEF LockedOut, Write, Install
  <2>2. CoupleProper(w)
    BY DEF Proper
  <2>3. /\ couple' = [status |-> couple'.status, deleted |-> couple'.deleted]
        /\ couple'.status = IF "status" \in DOMAIN w.couple THEN w.couple["status"]
                            ELSE couple.status
        /\ couple'.deleted = IF "deleted" \in DOMAIN w.couple THEN w.couple["deleted"]
                             ELSE couple.deleted
    BY <2>1
  <2>4. /\ couple'.status \in {"PENDING", "AUTHORIZED", "SUSPENDED"}
        /\ couple'.deleted \in BOOLEAN
    BY <2>1, <2>2, <2>3 DEF CoupleProper
  <2>5. couple' \in [status : {"PENDING", "AUTHORIZED", "SUSPENDED"}, deleted : BOOLEAN]
    BY <2>3, <2>4
  <2>6. ASSUME couple'.deleted, NEW u \in Users, users'[u].role = "COUPLE"
        PROVE  ~users'[u].active
    <3>1. users[u].role = "COUPLE"
      BY <1>2, <2>6 DEF Proper, UsersProper
    <3>2. CASE "deleted" \in DOMAIN w.couple
      BY <1>2, <2>2, <3>1, <3>2 DEF CoupleProper
    <3>3. CASE "deleted" \notin DOMAIN w.couple
      <4>1. ~users[u].active
        BY <1>1, <2>3, <2>6, <3>1, <3>3 DEF LockedOut
      <4>2. QED
        BY <1>2, <3>1, <4>1 DEF Proper, UsersProper
    <3>4. QED
      BY <3>2, <3>3
  <2>7. QED
    BY <2>5, <2>6 DEF LockedOut
<1>6. Alone'
  <2>1. SUFFICES ASSUME NEW u \in Users, NEW v \in Users,
                        users'[u].role = "SUPER_ADMIN", users'[v].role = "SUPER_ADMIN"
                 PROVE  u = v
    BY DEF Alone, Admins
  <2>2. CASE Admins = {}
    <3>1. /\ u \in DOMAIN w.users /\ v \in DOMAIN w.users
          /\ w.users[u].role = "SUPER_ADMIN" /\ users[u].role # "SUPER_ADMIN"
      BY <1>2, <2>1, <2>2 DEF Admins
    <3>2. DOMAIN w.emails # {}
      BY <3>1 DEF Proper, UsersProper
    <3>3. QED
      BY <3>1, <3>2 DEF Proper, EmailsProper
  <2>3. CASE Admins # {}
    <3>1. users[u].role = "SUPER_ADMIN" /\ users[v].role = "SUPER_ADMIN"
      BY <1>2, <2>1, <2>3 DEF Proper, UsersProper
    <3>2. QED
      BY <1>1, <3>1 DEF Alone, Admins
  <2>4. QED
    BY <2>2, <2>3
<1>7. ASSUME NEW q \in Requests
      PROVE  AccountFlight(q)'
  <2>1. CASE q = p
    BY <2>1
  <2>2. CASE q # p
    <3>1. req'[q] = IF At(q, "commit") /\ Conflict(req[q].w, w) THEN Idle ELSE req[q]
      BY <1>1, <2>2 DEF Rows, Write, Spared, At
    <3>2. CASE At(q, "commit") /\ Conflict(req[q].w, w)
      BY <3>1, <3>2 DEF AccountFlight, At, Idle, SessionRequest
    <3>3. CASE ~(At(q, "commit") /\ Conflict(req[q].w, w))
      <4>1. req'[q] = req[q] /\ AccountFlight(q) /\ Flight(q)
        BY <1>1, <3>1, <3>3 DEF AccountsInv, Flights
      <4>2. req[q].op \in {"enable", "disable"} => Agent(req[q].user)'
        BY <4>1 DEF AccountFlight, Flight, Agent, Exists, Moves
      <4>3. At(q, "commit") => Proper(req[q].w)'
        <5>1. SUFFICES ASSUME At(q, "commit") PROVE Proper(req[q].w)'
          OBVIOUS
        <5>2. DOMAIN req[q].w = {"users", "emails", "couple", "sessions"}
          BY <4>1, <5>1 DEF Flight, Legal
        <5>3. /\ DOMAIN req[q].w.users \cap DOMAIN w.users = {}
              /\ DOMAIN req[q].w.emails \cap DOMAIN w.emails = {}
          BY <3>3, <5>1, <5>2 DEF Conflict
        <5>4. Proper(req[q].w)
          BY <4>1, <5>1 DEF AccountFlight
        <5> DEFINE v == req[q].w
        <5>5. Proper(v)
          BY <5>4
        <5>6. DOMAIN v.users \cap DOMAIN w.users = {} /\ DOMAIN v.emails \cap DOMAIN w.emails = {}
          BY <5>3
        <5>7. ASSUME NEW x, x = v PROVE Proper(x)'
          <6>1. /\ Proper(x)
                /\ DOMAIN x.users \cap DOMAIN w.users = {}
                /\ DOMAIN x.emails \cap DOMAIN w.emails = {}
            BY <5>5, <5>6, <5>7
          <6> HIDE DEF v
          <6>2. QED
            BY <1>1, <1>3, <6>1, ProperStays
        <5>8. QED
          BY <4>1, <5>7
      <4>4. QED
        BY <4>1, <4>2, <4>3 DEF AccountFlight, At
    <3>4. QED
      BY <3>2, <3>3
  <2>3. QED
    BY <2>1, <2>2
<1>8. QED
  BY <1>4, <1>5, <1>6, <1>7 DEF AccountsInv

\* What is proper stays so while no account changes.
LEMMA ProperUntouched ==
    ASSUME NEW v, Proper(v), users' = users, emails' = emails
    PROVE  Proper(v)'
<1>1. UsersProper(v)'
  BY DEF Proper, UsersProper, Admins
<1>2. EmailsProper(v)'
  BY DEF Proper, EmailsProper, Exists
<1>3. CoupleProper(v)'
  BY DEF Proper, CoupleProper
<1>4. QED
  BY <1>1, <1>2, <1>3 DEF Proper

\* A step that writes nothing leaves the accounts as they are.
LEMMA ContinueKeepsAccounts ==
    ASSUME IInv, AccountsInv, NEW p \in Requests, NEW next,
           Continue(p, next), AccountFlight(p)'
    PROVE  AccountsInv'
<1>1. users' = users /\ emails' = emails /\ couple' = couple
  BY DEF Continue, stored
<1>2. Indexed' /\ LockedOut' /\ Alone'
  BY <1>1 DEF AccountsInv, Indexed, LockedOut, Alone, Admins, Exists
<1>3. ASSUME NEW q \in Requests, q # p
      PROVE  AccountFlight(q)'
  <2>1. req'[q] = req[q] /\ AccountFlight(q)
    BY <1>3 DEF IInv, Rows, Continue, AccountsInv
  <2>2. At(q, "commit") => Proper(req[q].w)'
    <3>1. ASSUME NEW x, Proper(x) PROVE Proper(x)'
      BY <1>1, <3>1, ProperUntouched
    <3>2. QED
      BY <2>1, <3>1 DEF AccountFlight
  <2>3. req[q].op \in {"enable", "disable"} => Agent(req[q].user)'
    BY <1>1, <2>1 DEF AccountFlight, Agent
  <2>4. QED
    BY <2>1, <2>2, <2>3 DEF AccountFlight, At
<1>4. QED
  BY <1>2, <1>3 DEF AccountsInv

\* A request that waits for nothing that the accounts depend on.
LEMMA RequestKeepsAccounts ==
    ASSUME IInv, NEW p \in Requests, NEW w, NEW next, Write(p, w, next) \/ Continue(p, next),
           next \in SessionRequest, next.op \notin {"enable", "disable"}
    PROVE  AccountFlight(p)'
<1>1. req'[p] = next
  BY OwnSlot DEF IInv
<1>2. next.op # "commit"
  BY DEF SessionRequest, Idle
<1>3. QED
  BY <1>1, <1>2 DEF AccountFlight, At

LEMMA TransactionKeepsAccounts ==
    ASSUME IInv, AccountsInv, NEW p \in Requests, NEW w, NEW ends,
           Transaction(p, w, ends), Proper(w)
    PROVE  AccountsInv'
<1> DEFINE next == [op |-> "commit", w |-> w, ends |-> ends]
<1>1. Continue(p, next)
  BY DEF Transaction
<1>2. req'[p] = next
  BY <1>1, OwnSlot DEF IInv
<1>3. users' = users /\ emails' = emails
  BY <1>1 DEF Continue, stored
<1>4. Proper(w)'
  BY <1>3, ProperUntouched
<1>5. AccountFlight(p)'
  BY <1>2, <1>4 DEF AccountFlight, At
<1>6. QED
  BY <1>1, <1>5, ContinueKeepsAccounts

-----------------------------------------------------------------------------
(* Proper writes.                                                          *)

\* Sessions only.
LEMMA SessionsProper ==
    ASSUME NEW rows PROVE Proper([NoWrites EXCEPT !.sessions = rows])
BY DEF Proper, UsersProper, EmailsProper, CoupleProper, NoWrites, Nothing

\* A user who is there, with its own row or one of the same role.
LEMMA RowProper ==
    ASSUME NEW u \in Users, Exists(u), NEW row, NEW w,
           w.users = Put(u, row), w.emails = Nothing, w.couple = Nothing,
           row.role = users[u].role,
           users[u].role = "COUPLE" /\ row.active => users[u].active
    PROVE  Proper(w)
BY DEF Proper, UsersProper, EmailsProper, CoupleProper, Nothing, Put

\* A user who gets an email that nobody else has.
LEMMA RenamingProper ==
    ASSUME AccountsInv, NEW u \in Users, NEW e \in Emails, EmailAble(u, e), NEW w,
           DOMAIN w.users = {u}, w.emails = Renaming(u, e), w.couple = Nothing, UsersProper(w)
    PROVE  Proper(w)
<1>1. EmailsProper(w)
  <2>1. /\ DOMAIN w.emails = {f \in Emails : emails[f] = u} \cup {e}
        /\ \A f \in DOMAIN w.emails : w.emails[f] = IF f = e THEN u ELSE NoUser
    BY DEF Renaming, Then, Put, PutAll
  <2>2. \A f \in DOMAIN w.emails : emails[f] \in {u, NoUser}
    BY <2>1 DEF EmailAble
  <2>3. QED
    BY <2>1, <2>2 DEF EmailsProper
<1>2. CoupleProper(w)
  BY DEF CoupleProper, Nothing
<1>3. QED
  BY <1>1, <1>2 DEF Proper

-----------------------------------------------------------------------------
(* The steps.                                                              *)

LEMMA AuthenticationKeepsAccounts ==
    ASSUME IInv, IInv', Moves, AccountsInv, NEW p \in Requests, Authentication(p)
    PROVE  AccountsInv'
<1>1. Rows /\ Flight(p) /\ AccountFlight(p)
  BY DEF IInv, Flights, AccountsInv
<1>2. ASSUME NEW rows, NEW next \in SessionRequest, next.op \notin {"enable", "disable"},
             Write(p, [NoWrites EXCEPT !.sessions = rows], next)
      PROVE  AccountsInv'
  <2> DEFINE w == [NoWrites EXCEPT !.sessions = rows]
  <2>1. DOMAIN w = {"users", "emails", "couple", "sessions"} /\ Proper(w)
    BY SessionsProper DEF NoWrites
  <2>2. Write(p, w, next)
    BY <1>2
  <2> HIDE DEF w
  <2>3. AccountFlight(p)'
    BY <1>2, <2>2, RequestKeepsAccounts
  <2>4. QED
    BY <2>1, <2>2, <2>3, WriteKeepsAccounts
<1>3. ASSUME NEW next \in SessionRequest, next.op \notin {"enable", "disable"}, Continue(p, next)
      PROVE  AccountsInv'
  BY <1>3, RequestKeepsAccounts, ContinueKeepsAccounts
<1>4. Idle \in SessionRequest /\ Idle.op \notin {"enable", "disable"}
  BY DEF SessionRequest, Idle
<1>5. CASE LoginRead(p)
  <2>1. PICK u \in Users : Continue(p, [op |-> "mark", user |-> u, read |-> era[u]])
    BY <1>5 DEF LoginRead
  <2>2. [op |-> "mark", user |-> u, read |-> era[u]] \in SessionRequest
    BY <1>1 DEF Rows, SessionRequest
  <2>3. QED
    BY <1>3, <2>1, <2>2
<1>6. CASE LoginMark(p)
  <2> DEFINE u == req[p].user
             w == [NoWrites EXCEPT !.users = Put(u, users[u])]
             next == [op |-> "issue", user |-> u, read |-> req[p].read, old |-> NoSession]
  <2>1. u \in Users /\ Exists(u) /\ req[p].read \in Nat
    BY <1>1, <1>6 DEF LoginMark, Flight
  <2>2. Write(p, w, next)
    BY <1>6 DEF LoginMark
  <2>3. next \in SessionRequest /\ next.op \notin {"enable", "disable"}
    BY <2>1 DEF SessionRequest
  <2>4. DOMAIN w = {"users", "emails", "couple", "sessions"}
    BY DEF NoWrites
  <2>5. w.users = Put(u, users[u]) /\ w.emails = Nothing /\ w.couple = Nothing
    BY DEF NoWrites
  <2> HIDE DEF w, next, u
  <2>6. Proper(w)
    BY <2>1, <2>5, RowProper
  <2>7. AccountFlight(p)'
    BY <2>2, <2>3, RequestKeepsAccounts
  <2>8. QED
    BY <2>2, <2>4, <2>6, <2>7, WriteKeepsAccounts
<1>7. CASE RefreshRead(p)
  <2>1. PICK s \in held :
          LET u == sessions[s].user
          IN  \/ Continue(p, [op |-> "issue", user |-> u, read |-> era[u], old |-> s])
              \/ Continue(p, [op |-> "reused", user |-> u])
    BY <1>7 DEF RefreshRead
  <2> DEFINE u == sessions[s].user
  <2>2. s \in SessionIds /\ u \in Users /\ era[u] \in Nat
    BY <1>1, <2>1 DEF Rows, SessionDocument
  <2>3. /\ [op |-> "issue", user |-> u, read |-> era[u], old |-> s] \in SessionRequest
        /\ [op |-> "reused", user |-> u] \in SessionRequest
    BY <2>2 DEF SessionRequest
  <2>4. QED
    BY <1>3, <2>1, <2>3
<1>8. CASE Issue(p)
  <2>1. PICK n \in SessionIds :
          Write(p, [NoWrites EXCEPT !.sessions = Put(n, Session(req[p].user, FALSE, NoSession))],
                IF req[p].old = NoSession THEN Idle
                ELSE [op |-> "replace", old |-> req[p].old, new |-> n])
    BY <1>8 DEF Issue
  <2>2. req[p].old = NoSession \/ req[p].old \in SessionIds
    BY <1>1, <1>8 DEF Issue, Flight
  <2> DEFINE next == IF req[p].old = NoSession THEN Idle
                     ELSE [op |-> "replace", old |-> req[p].old, new |-> n]
  <2>3. next \in SessionRequest /\ next.op \notin {"enable", "disable"}
    BY <1>4, <2>2 DEF SessionRequest
  <2>4. QED
    BY <1>2, <2>1, <2>3
<1>9. CASE Replace(p) \/ RevokeAll(p) \/ Logout(p)
  <2>1. \E rows : Write(p, [NoWrites EXCEPT !.sessions = rows], Idle)
    BY <1>9 DEF Replace, RevokeAll, Logout
  <2>2. QED
    BY <1>2, <1>4, <2>1
<1>10. QED
  BY <1>5, <1>6, <1>7, <1>8, <1>9 DEF Authentication

\* The reads of the account requests, and what they remember.
LEMMA AccountReadsKeepAccounts ==
    ASSUME IInv, AccountsInv, NEW p \in Requests,
           \/ StatusRead(p) \/ RemoveRead(p) \/ AgentCreateRead(p)
           \/ AgentUpdateRead(p) \/ AccountRead(p)
    PROVE  AccountsInv'
<1>1. ASSUME NEW next \in SessionRequest, Continue(p, next),
             next.op \in {"enable", "disable"} => Agent(next.user)
      PROVE  AccountsInv'
  <2>1. req'[p] = next /\ users' = users
    BY <1>1, OwnSlot DEF IInv, Continue, stored
  <2>2. next.op # "commit"
    BY <1>1 DEF SessionRequest, Idle
  <2>3. AccountFlight(p)'
    BY <1>1, <2>1, <2>2 DEF AccountFlight, At, Agent
  <2>4. QED
    BY <1>1, <2>3, ContinueKeepsAccounts
<1>2. CASE StatusRead(p)
  <2>1. PICK status \in {"AUTHORIZED", "SUSPENDED"} :
          Continue(p, [op |-> "status", status |-> status])
    BY <1>2 DEF StatusRead, Finds
  <2>2. [op |-> "status", status |-> status] \in SessionRequest
    BY DEF SessionRequest
  <2>3. QED
    BY <1>1, <2>1, <2>2
<1>3. CASE RemoveRead(p) \/ AgentCreateRead(p)
  <2>1. /\ [op |-> "removeTx"] \in SessionRequest
        /\ [op |-> "newAgent"] \in SessionRequest
    BY DEF SessionRequest
  <2>2. Continue(p, [op |-> "removeTx"]) \/ Continue(p, [op |-> "newAgent"])
    BY <1>3 DEF RemoveRead, AgentCreateRead, Finds
  <2>3. QED
    BY <1>1, <2>1, <2>2
<1>4. CASE AgentUpdateRead(p)
  <2>1. PICK u \in Users, op \in {"enable", "disable", "renameAgent"} :
            Agent(u) /\ Continue(p, [op |-> op, user |-> u])
    BY <1>4 DEF AgentUpdateRead, Finds
  <2>2. [op |-> op, user |-> u] \in SessionRequest
    BY DEF SessionRequest
  <2>3. QED
    BY <1>1, <2>1, <2>2
<1>5. CASE AccountRead(p)
  <2>1. PICK u \in Users, op \in {"rename", "reset"} : Continue(p, [op |-> op, user |-> u])
    BY <1>5 DEF AccountRead, Finds
  <2>2. [op |-> op, user |-> u] \in SessionRequest
    BY DEF SessionRequest
  <2>3. QED
    BY <1>1, <2>1, <2>2
<1>6. QED
  BY <1>2, <1>3, <1>4, <1>5

\* The writes of one row, of an email or of the couple.
LEMMA AccountWritesKeepAccounts ==
    ASSUME IInv, IInv', Moves, AccountsInv, NEW p \in Requests,
           StatusWrite(p) \/ AgentCreate(p) \/ AccountRename(p)
    PROVE  AccountsInv'
<1>1. Rows /\ Flight(p) /\ AccountFlight(p)
  BY DEF IInv, Flights, AccountsInv
<1>2. ASSUME NEW w, Write(p, w, Idle), Proper(w),
             DOMAIN w = {"users", "emails", "couple", "sessions"}
      PROVE  AccountsInv'
  <2>1. Idle \in SessionRequest /\ Idle.op \notin {"enable", "disable"}
    BY DEF SessionRequest, Idle
  <2>2. AccountFlight(p)'
    BY <1>2, <2>1, RequestKeepsAccounts
  <2>3. QED
    BY <1>2, <2>2, WriteKeepsAccounts
<1>3. CASE StatusWrite(p)
  <2> DEFINE w == [NoWrites EXCEPT !.couple = Put("status", req[p].status)]
  <2>1. req[p].status \in {"AUTHORIZED", "SUSPENDED"}
    BY <1>1, <1>3 DEF StatusWrite, AccountFlight, At, SessionRequest, Idle
  <2>2. Proper(w) /\ DOMAIN w = {"users", "emails", "couple", "sessions"}
    BY <2>1 DEF Proper, UsersProper, EmailsProper, CoupleProper, NoWrites, Nothing, Put
  <2>3. Write(p, w, Idle)
    BY <1>3 DEF StatusWrite
  <2> HIDE DEF w
  <2>4. QED
    BY <1>2, <2>2, <2>3
<1>4. ASSUME NEW u \in Users, NEW e \in Emails, EmailAble(u, e), NEW row,
             UsersProper([NoWrites EXCEPT !.users = Put(u, row), !.emails = Renaming(u, e)]),
             Write(p, [NoWrites EXCEPT !.users = Put(u, row), !.emails = Renaming(u, e)], Idle)
      PROVE  AccountsInv'
  <2> DEFINE w == [NoWrites EXCEPT !.users = Put(u, row), !.emails = Renaming(u, e)]
  <2>1. /\ DOMAIN w.users = {u} /\ w.emails = Renaming(u, e) /\ w.couple = Nothing
        /\ DOMAIN w = {"users", "emails", "couple", "sessions"}
    BY DEF NoWrites, Put
  <2>2. UsersProper(w) /\ Write(p, w, Idle)
    BY <1>4
  <2> HIDE DEF w
  <2>3. Proper(w)
    BY <1>4, <2>1, <2>2, RenamingProper
  <2>4. QED
    BY <1>2, <2>1, <2>2, <2>3
<1>5. CASE AgentCreate(p)
  <2>1. PICK u \in FreshUsers, e \in Emails :
            /\ EmailAble(u, e)
            /\ Write(p, [NoWrites EXCEPT !.users  = Put(u, User("ACCESS_AGENT", TRUE)),
                                         !.emails = Renaming(u, e)], Idle)
    BY <1>5 DEF AgentCreate
  <2>2. u \in Users /\ ~Exists(u)
    BY <2>1 DEF FreshUsers
  <2>3. UsersProper([NoWrites EXCEPT !.users  = Put(u, User("ACCESS_AGENT", TRUE)),
                                     !.emails = Renaming(u, e)])
    BY <2>2 DEF UsersProper, NoWrites, Put, User, Exists
  <2>4. QED
    BY <1>4, <2>1, <2>2, <2>3
<1>6. CASE AccountRename(p)
  <2> DEFINE u == req[p].user
  <2>1. PICK e \in Emails :
            /\ EmailAble(u, e)
            /\ Write(p, [NoWrites EXCEPT !.users  = Put(u, users[u]),
                                         !.emails = Renaming(u, e)], Idle)
    BY <1>6 DEF AccountRename
  <2>2. u \in Users
    BY <1>1, <1>6 DEF AccountRename, At, Flight
  <2>3. UsersProper([NoWrites EXCEPT !.users = Put(u, users[u]), !.emails = Renaming(u, e)])
    BY DEF UsersProper, NoWrites, Put
  <2>4. QED
    BY <1>4, <2>1, <2>2, <2>3
<1>7. QED
  BY <1>3, <1>5, <1>6

LEMMA TransactionsKeepAccounts ==
    ASSUME IInv, AccountsInv, NEW p \in Requests,
           \/ RemoveTransaction(p) \/ AgentEnable(p) \/ AgentDisable(p)
           \/ AgentRename(p) \/ PasswordReset(p)
    PROVE  AccountsInv'
<1> DEFINE u == req[p].user
<1>1. Rows /\ Flight(p) /\ AccountFlight(p)
  BY DEF IInv, Flights, AccountsInv
<1>2. CASE RemoveTransaction(p)
  <2> DEFINE S == {v \in Users : OfCouple(v)}
  <2>1. /\ Removal.users = [x \in S |-> [users[x] EXCEPT !.active = FALSE]]
        /\ Removal.emails = Nothing
        /\ Removal.couple = [status |-> "SUSPENDED", deleted |-> TRUE]
    BY DEF Removal, NoWrites
  <2>2. /\ DOMAIN Removal.users = S
        /\ \A v \in S : /\ Removal.users[v].role = users[v].role
                        /\ ~Removal.users[v].active
    BY <1>1, <2>1 DEF Rows, UserDocument
  <2>3. UsersProper(Removal)
    BY <2>2 DEF UsersProper
  <2>4. EmailsProper(Removal)
    BY <2>1, <2>2 DEF EmailsProper, Nothing, OfCouple, Exists
  <2>5. CoupleProper(Removal)
    BY <2>1, <2>2 DEF CoupleProper, OfCouple
  <2>6. QED
    BY <1>2, <2>3, <2>4, <2>5, TransactionKeepsAccounts DEF RemoveTransaction, Proper
<1>3. CASE AgentEnable(p)
  <2> DEFINE row == [users[u] EXCEPT !.active = TRUE]
             w == [NoWrites EXCEPT !.users = Put(u, row)]
  <2>1. u \in Users /\ Exists(u) /\ users[u].role = "ACCESS_AGENT"
    BY <1>1, <1>3 DEF AgentEnable, At, Flight, AccountFlight, Agent
  <2>2. row.role = users[u].role
    BY <1>1, <2>1 DEF Rows, UserDocument
  <2>3. w.users = Put(u, row) /\ w.emails = Nothing /\ w.couple = Nothing
    BY DEF NoWrites
  <2>4. Transaction(p, w, {})
    BY <1>3 DEF AgentEnable
  <2> HIDE DEF w, row, u
  <2>5. Proper(w)
    BY <2>1, <2>2, <2>3, RowProper
  <2>6. QED
    BY <2>4, <2>5, TransactionKeepsAccounts
<1>4. ASSUME NEW row, row.role = users[u].role, u \in Users, Exists(u),
             users[u].role = "COUPLE" /\ row.active => users[u].active,
             Transaction(p, Ending(u, row), {u})
      PROVE  AccountsInv'
  <2> DEFINE w == Ending(u, row)
  <2>1. w.users = Put(u, row) /\ w.emails = Nothing /\ w.couple = Nothing
    BY DEF Ending, NoWrites
  <2> HIDE DEF w, u
  <2>2. Proper(w)
    BY <1>4, <2>1, RowProper
  <2>3. QED
    BY <1>4, <2>2, TransactionKeepsAccounts DEF w
<1>5. CASE AgentDisable(p)
  <2> DEFINE row == [users[u] EXCEPT !.active = FALSE]
  <2>1. /\ u \in Users /\ Exists(u)
        /\ Transaction(p, Ending(u, row), {u})
    BY <1>1, <1>5 DEF AgentDisable, At, Flight
  <2>2. row.role = users[u].role /\ ~row.active
    BY <1>1, <2>1 DEF Rows, UserDocument
  <2>3. QED
    BY <1>4, <2>1, <2>2
<1>6. CASE AgentRename(p)
  <2>1. PICK e \in Emails :
            /\ EmailAble(u, e)
            /\ Transaction(p, [NoWrites EXCEPT !.users = Put(u, users[u]),
                                               !.emails = Renaming(u, e)], {})
    BY <1>6 DEF AgentRename
  <2> DEFINE w == [NoWrites EXCEPT !.users = Put(u, users[u]), !.emails = Renaming(u, e)]
  <2>2. u \in Users
    BY <1>1, <1>6 DEF AgentRename, At, Flight
  <2>3. UsersProper(w)
    BY DEF UsersProper, NoWrites, Put
  <2>4. DOMAIN w.users = {u} /\ w.emails = Renaming(u, e) /\ w.couple = Nothing
    BY DEF NoWrites, Put
  <2> HIDE DEF w, u
  <2>5. Proper(w)
    BY <2>1, <2>2, <2>3, <2>4, RenamingProper
  <2>6. QED
    BY <2>1, <2>5, TransactionKeepsAccounts DEF w
<1>7. CASE PasswordReset(p)
  <2>1. /\ u \in Users /\ Exists(u)
        /\ Transaction(p, Ending(u, users[u]), {u})
    BY <1>1, <1>7 DEF PasswordReset, At, Flight
  <2>2. QED
    BY <1>4, <2>1
<1>8. QED
  BY <1>2, <1>3, <1>5, <1>6, <1>7

\* The bootstrap finds the one administrator, or takes the email as its key.
LEMMA BootstrapKeepsAccounts ==
    ASSUME IInv, AccountsInv, NEW p \in Requests, Bootstrap(p)
    PROVE  AccountsInv'
<1> DEFINE row == User("SUPER_ADMIN", TRUE)
<1>1. Alone /\ Indexed /\ EmailOwnerIsAdmin /\ AdminEmail \in Emails
  BY SessionsAssumption DEF AccountsInv, Bootstrap
<1>2. ASSUME NEW u \in Users, NEW w, NEW ends, Transaction(p, w, ends), w.users = Put(u, row),
             w.emails = Renaming(u, AdminEmail), w.couple = Nothing,
             users[u].role \in {"none", "SUPER_ADMIN"}, Admins \in {{}, {u}},
             EmailAble(u, AdminEmail)
      PROVE  AccountsInv'
  <2>1. AdminEmail \in DOMAIN w.emails
    BY <1>2 DEF Renaming, Then, Put
  <2>2. row.role = "SUPER_ADMIN"
    BY DEF User
  <2>3. Admins = {} \/ users[u].role = "SUPER_ADMIN"
    BY <1>2 DEF Admins
  <2>4. DOMAIN w.users = {u} /\ w.users[u] = row
    BY <1>2 DEF Put
  <2>5. UsersProper(w)
    BY <1>2, <2>1, <2>2, <2>3, <2>4 DEF UsersProper
  <2>6. Proper(w)
    BY <1>1, <1>2, <2>4, <2>5, RenamingProper
  <2>7. QED
    BY <1>2, <2>6, TransactionKeepsAccounts
<1>3. CASE \E u \in Known :
            Transaction(p, [Ending(u, User("SUPER_ADMIN", TRUE)) EXCEPT
                                  !.emails = Renaming(u, AdminEmail)], {u})
  <2>1. PICK u \in Known :
            Transaction(p, [Ending(u, row) EXCEPT !.emails = Renaming(u, AdminEmail)], {u})
    BY <1>3
  <2>2. u \in Admins /\ EmailAble(u, AdminEmail)
    BY <1>1, <2>1 DEF Known, EmailOwnerIsAdmin, EmailAble
  <2>3. u \in Users /\ users[u].role = "SUPER_ADMIN" /\ Admins = {u}
    BY <1>1, <2>2 DEF Admins, Alone
  <2> DEFINE w == [Ending(u, row) EXCEPT !.emails = Renaming(u, AdminEmail)]
  <2>4. /\ w.users = Put(u, row) /\ w.emails = Renaming(u, AdminEmail)
        /\ w.couple = Nothing
    BY DEF Ending, NoWrites
  <2> HIDE DEF w
  <2>5. QED
    BY <1>2, <2>1, <2>2, <2>3, <2>4 DEF w
<1>4. CASE Known = {} /\ \E u \in FreshUsers :
            Transaction(p, [NoWrites EXCEPT !.users  = Put(u, User("SUPER_ADMIN", TRUE)),
                                            !.emails = Renaming(u, AdminEmail)], {})
  <2>1. PICK u \in FreshUsers :
            Transaction(p, [NoWrites EXCEPT !.users  = Put(u, row),
                                            !.emails = Renaming(u, AdminEmail)], {})
    BY <1>4
  <2>2. u \in Users /\ users[u].role = "none"
    BY <2>1 DEF FreshUsers, Exists
  <2>3. Admins = {} /\ EmailAble(u, AdminEmail)
    BY <1>4 DEF Known, EmailAble
  <2> DEFINE w == [NoWrites EXCEPT !.users  = Put(u, row), !.emails = Renaming(u, AdminEmail)]
  <2>4. /\ w.users = Put(u, row) /\ w.emails = Renaming(u, AdminEmail)
        /\ w.couple = Nothing
    BY DEF NoWrites
  <2> HIDE DEF w
  <2>5. QED
    BY <1>2, <2>1, <2>2, <2>3, <2>4 DEF w
<1>5. QED
  BY <1>3, <1>4 DEF Bootstrap

LEMMA CommitKeepsAccounts ==
    ASSUME IInv, IInv', Moves, AccountsInv, NEW p \in Requests, Commit(p)
    PROVE  AccountsInv'
<1> DEFINE w == req[p].w
<1>1. At(p, "commit") /\ Write(p, w, Idle) /\ Flight(p) /\ AccountFlight(p)
  BY DEF Commit, IInv, Flights, AccountsInv
<1>2. DOMAIN w = {"users", "emails", "couple", "sessions"} /\ Proper(w)
  BY <1>1 DEF Flight, Legal, AccountFlight
<1> HIDE DEF w
<1>3. Idle \in SessionRequest /\ Idle.op \notin {"enable", "disable"}
  BY DEF SessionRequest, Idle
<1>4. AccountFlight(p)'
  BY <1>1, <1>3, RequestKeepsAccounts
<1>5. QED
  BY <1>1, <1>2, <1>4, WriteKeepsAccounts

-----------------------------------------------------------------------------
(* The theorems on accounts                                                *)

LEMMA InitAccounts ==
    ASSUME Init
    PROVE  AccountsInv
<1>1. PICK admin \in {NoUser} \cup (Users \ {Owner}), e \in Emails \ {OwnerEmail, AdminEmail} :
        /\ users = [u \in Users |-> IF u = Owner THEN User("COUPLE", TRUE)
                                    ELSE IF u = admin THEN User("SUPER_ADMIN", TRUE)
                                    ELSE User("none", FALSE)]
        /\ emails = [f \in Emails |-> IF f = OwnerEmail THEN Owner
                                      ELSE IF f = e THEN admin ELSE NoUser]
  BY DEF Init
<1>2. \A u \in Users : Exists(u) => u \in {Owner, admin}
  BY <1>1 DEF Exists, User
<1>3. Indexed
  <2>1. emails \in [Emails -> Users \cup {NoUser}]
    BY <1>1, SessionsAssumption
  <2>2. emails[OwnerEmail] = Owner /\ emails[e] = admin
    BY <1>1, SessionsAssumption
  <2>3. QED
    BY <1>2, <2>1, <2>2, SessionsAssumption DEF Indexed
<1>4. couple \in [status : {"PENDING", "AUTHORIZED"}, deleted : {FALSE}]
  BY DEF Init
<1>5. LockedOut
  BY <1>4 DEF LockedOut
<1>6. Alone
  BY <1>1 DEF Alone, Admins, User
<1>7. ASSUME NEW p \in Requests PROVE AccountFlight(p)
  BY DEF Init, AccountFlight, SessionRequest, At, Idle
<1>8. QED
  BY <1>3, <1>5, <1>6, <1>7 DEF AccountsInv

LEMMA NextKeepsAccounts ==
    ASSUME IInv, IInv', AccountsInv, [Next]_vars
    PROVE  AccountsInv'
<1>1. Moves
  BY NextKeeps
<1>2. CASE UNCHANGED vars
  <2>1. users' = users /\ emails' = emails /\ couple' = couple /\ req' = req
    BY <1>2 DEF vars, stored
  <2>2. Indexed' /\ LockedOut' /\ Alone'
    BY <2>1 DEF AccountsInv, Indexed, LockedOut, Alone, Admins, Exists
  <2>3. ASSUME NEW q \in Requests PROVE AccountFlight(q)'
    <3>1. AccountFlight(q)
      BY DEF AccountsInv
    <3>2. At(q, "commit") => Proper(req[q].w)'
      <4>1. ASSUME NEW x, Proper(x) PROVE Proper(x)'
        BY <2>1, <4>1, ProperUntouched
      <4>2. QED
        BY <2>1, <3>1, <4>1 DEF AccountFlight
    <3>3. req[q].op \in {"enable", "disable"} => Agent(req[q].user)'
      BY <2>1, <3>1 DEF AccountFlight, Agent
    <3>4. QED
      BY <2>1, <3>1, <3>2, <3>3 DEF AccountFlight, At
  <2>4. QED
    BY <2>2, <2>3 DEF AccountsInv
<1>3. ASSUME NEW p \in Requests, Step(p)
      PROVE  AccountsInv'
  <2>1. CASE Authentication(p)
    BY <1>1, <2>1, AuthenticationKeepsAccounts
  <2>2. CASE Accounts(p)
    BY <1>1, <2>2, AccountReadsKeepAccounts, AccountWritesKeepAccounts,
       TransactionsKeepAccounts, BootstrapKeepsAccounts DEF Accounts
  <2>3. CASE Abort(p)
    <3>1. Continue(p, Idle)
      BY <2>3 DEF Abort
    <3>2. Idle \in SessionRequest /\ Idle.op \notin {"enable", "disable"}
      BY DEF SessionRequest, Idle
    <3>3. AccountFlight(p)'
      BY <3>1, <3>2, RequestKeepsAccounts
    <3>4. QED
      BY <3>1, <3>3, ContinueKeepsAccounts
  <2>4. QED
    BY <1>1, <1>3, <2>1, <2>2, <2>3, CommitKeepsAccounts DEF Step
<1>4. QED
  BY <1>2, <1>3 DEF Next

LEMMA AlwaysAccountsInv == Spec => [](IInv /\ AccountsInv)
<1>1. Init => AccountsInv
  BY InitAccounts
<1>2. IInv /\ IInv' /\ AccountsInv /\ [Next]_vars => AccountsInv'
  BY NextKeepsAccounts
<1>3. QED
  BY <1>1, <1>2, AlwaysIInv, PTL DEF Spec

\* Rows, index, history and requests have their types, and every user keeps an
\* email of its own, whatever accounts are renamed at the same time.
THEOREM SessionTypes == Spec => []SessionsTypeOK
<1>1. IInv /\ AccountsInv => SessionsTypeOK
  <2> SUFFICES ASSUME IInv, AccountsInv PROVE SessionsTypeOK
    OBVIOUS
  <2>1. Rows /\ Indexed /\ LockedOut
    BY DEF IInv, AccountsInv
  <2>2. held \subseteq {s \in SessionIds : sessions[s] # NoRow}
    BY <2>1 DEF Rows, NoRow, Session
  <2>3. \A p \in Requests : At(p, "commit") \/ req[p] \in SessionRequest
    BY DEF AccountsInv, AccountFlight
  <2>4. QED
    BY <2>1, <2>2, <2>3 DEF SessionsTypeOK, Rows, Indexed, LockedOut
<1>2. QED
  BY AlwaysAccountsInv, <1>1, PTL

\* A removed couple is locked out for good: no enabling, renaming, reset or
\* change of status that was under way lets its account in again.
THEOREM RemovedStaysOut == Spec => []RemovalLocksOut
<1>1. IInv /\ AccountsInv => RemovalLocksOut
  BY DEF AccountsInv, LockedOut, RemovalLocksOut, Validates
<1>2. QED
  BY AlwaysAccountsInv, <1>1, PTL

\* However many bootstraps overlap, there is at most one administrator.
THEOREM SingleAdmin == Spec => []OneAdmin
<1>1. IInv /\ AccountsInv => OneAdmin
  <2> SUFFICES ASSUME Alone PROVE Cardinality(Admins) <= 1
    BY DEF AccountsInv, OneAdmin
  <2>1. CASE Admins = {}
    BY <2>1, FS_EmptySet
  <2>2. CASE Admins # {}
    <3>1. PICK u \in Admins : TRUE
      BY <2>2
    <3>2. Admins = {u}
      BY <3>1 DEF Alone
    <3>3. QED
      BY <3>2, FS_Singleton
  <2>3. QED
    BY <2>1, <2>2
<1>2. QED
  BY AlwaysAccountsInv, <1>1, PTL
===============================================================================
