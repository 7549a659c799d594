------------------------------- MODULE Sessions -------------------------------
(***************************************************************************)
(* AuthService and the account side of CouplesService: the accounts of one *)
(* couple and its agents, the administrator that the bootstrap script      *)
(* keeps, and the refresh sessions of all of them.  A refresh rotates its  *)
(* session in separate writes; password resets and deactivations end all   *)
(* sessions of a user in a transaction.                                    *)
(***************************************************************************)
EXTENDS Integers, FiniteSets, Functions, Documents

CONSTANTS
    Users,        \* User ids, never reused
    NoUser,
    Owner,        \* the account that is created with the couple
    Emails,       \* email and phone of a user, as one
    OwnerEmail,
    AdminEmail,   \* SUPER_ADMIN_EMAIL
    SessionIds,   \* RefreshSession ids; the token is its session
    NoSession,
    Requests,     \* request slots of the API processes
    MaxEnds,      \* bound on the times all sessions of a user are ended
    Mixes         \* bound: the sets of endpoints that are called together

ASSUME SessionsAssumption ==
    /\ Owner \in Users /\ NoUser \notin Users
    /\ NoSession \notin SessionIds
    /\ {OwnerEmail, AdminEmail} \subseteq Emails /\ OwnerEmail # AdminEmail

VARIABLES
    users,     \* User, by id
    emails,    \* the unique index on User.email: the user that has it
    couple,    \* the Couple
    sessions,  \* RefreshSession, by id
    held,      \* the sessions whose token an answer has brought to a client
    lineage,   \* history: how each session came about
    era,       \* history: how often all sessions of a user have been ended
    req,       \* what each request slot is doing
    ops        \* the endpoints that are called, one of Mixes

stored == <<users, emails, couple, sessions>>
vars == <<users, emails, couple, sessions, held, lineage, era, req, ops>>

Roles == {"SUPER_ADMIN", "COUPLE", "ACCESS_AGENT"}

UserDocument == [role : Roles \cup {"none"}, active : BOOLEAN]

User(role, active) == [role |-> role, active |-> active]

\* user = NoUser: there is no such row.  next is replacedById.
SessionDocument ==
    [user : Users \cup {NoUser}, revoked : BOOLEAN, next : SessionIds \cup {NoSession}]

Session(u, revoked, next) == [user |-> u, revoked |-> revoked, next |-> next]
NoRow == Session(NoUser, FALSE, NoSession)

\* The session that a session was refreshed from, the era in which its login
\* read the user, and whether a request that overlapped the end of an era
\* inserted it or one it descends from.
Lineage(parent, since, late) == [parent |-> parent, since |-> since, late |-> late]

Exists(u) == users[u].role # "none"
OfCouple(u) == users[u].role \in {"COUPLE", "ACCESS_AGENT"}
SessionsOf(u) == {s \in SessionIds : sessions[s].user = u}
Live(s) == sessions[s].user # NoUser /\ ~sessions[s].revoked

-----------------------------------------------------------------------------
(* Requests and transactions, as in WeddingDb.                             *)

NoWrites == [users |-> Nothing, emails |-> Nothing, couple |-> Nothing, sessions |-> Nothing]

At(p, step) == req[p].op = step

Arrives(p, endpoint) == endpoint \in ops /\ req[p] = Idle

Write(p, w, next) ==
    /\ users'    = Install(users, w.users)
    /\ emails'   = Install(emails, w.emails)
    /\ couple'   = Install(couple, w.couple)
    /\ sessions' = Install(sessions, w.sessions)
    /\ req'      = Spared(req, p, w, next)

Continue(p, next) ==
    /\ req' = [req EXCEPT ![p] = next]
    /\ UNCHANGED <<stored, held, lineage, era>>

\* A transaction that is evaluated; it ends the sessions of the users in ends.
Transaction(p, w, ends) == Continue(p, [op |-> "commit", w |-> w, ends |-> ends])

Later(ended) == [u \in Users |-> IF u \in ended THEN era[u] + 1 ELSE era[u]]

MayEnd == SumFunction(era) < MaxEnds

Commit(p) ==
    /\ At(p, "commit")
    /\ Write(p, req[p].w, Idle)
    /\ era' = Later(req[p].ends)
    /\ UNCHANGED <<held, lineage>>

Abort(p) ==
    /\ req[p] # Idle
    /\ Continue(p, Idle)

-----------------------------------------------------------------------------
(* login, refresh and logout                                               *)

\* assertAccess
MayEnter(u) ==
    /\ users[u].active
    /\ users[u].role # "SUPER_ADMIN" => ~couple.deleted /\ couple.status = "AUTHORIZED"

\* JwtStrategy.validate
Validates(u) ==
    /\ users[u].active
    /\ OfCouple(u) => couple.status = "AUTHORIZED"

\* The password is compared with the hash that is read here.
LoginRead(p) ==
    /\ Arrives(p, "login")
    /\ \E u \in Users :
        /\ Exists(u) /\ MayEnter(u)
        /\ Continue(p, [op |-> "mark", user |-> u, read |-> era[u]])

\* lastLoginAt
LoginMark(p) ==
    /\ At(p, "mark")
    /\ LET u == req[p].user
       IN  Write(p, [NoWrites EXCEPT !.users = Put(u, users[u])],
                 [op |-> "issue", user |-> u, read |-> req[p].read, old |-> NoSession])
    /\ UNCHANGED <<held, lineage, era>>

\* Mutant: a revoked session is refreshed like any other.
AcceptedAnyway(s) == sessions[s].user # NoUser

Accepted(s) == Live(s)

RefreshRead(p) ==
    /\ Arrives(p, "refresh")
    /\ \E s \in held :
        LET u == sessions[s].user
        IN  \/ /\ Accepted(s) /\ MayEnter(u)
               /\ Continue(p, [op |-> "issue", user |-> u, read |-> era[u], old |-> s])
            \/ /\ sessions[s].revoked /\ ~Accepted(s)
               /\ Continue(p, [op |-> "reused", user |-> u])

\* The request of r overlaps the end of an era of its user: the era has ended
\* since it read the user, or a transaction that ends it is to commit.
Overlaps(r) ==
    \/ r.read # era[r.user]
    \/ \E q \in Requests : At(q, "commit") /\ r.user \in req[q].ends

Descent(r) ==
    IF r.old = NoSession THEN Lineage(NoSession, r.read, Overlaps(r))
    ELSE Lineage(r.old, lineage[r.old].since, lineage[r.old].late \/ Overlaps(r))

\* A token that is answered; one that is lost on the way is never used.
Answer(n) == held' = held \cup {n}

\* issue: a login answers now, a refresh has its old session to revoke.
Issue(p) ==
    /\ At(p, "issue")
    /\ \E n \in SessionIds :
        /\ sessions[n] = NoRow
        /\ Write(p, [NoWrites EXCEPT !.sessions =
                        Put(n, Session(req[p].user, FALSE, NoSession))],
                 IF req[p].old = NoSession THEN Idle
                 ELSE [op |-> "replace", old |-> req[p].old, new |-> n])
        /\ lineage' = [lineage EXCEPT ![n] = Descent(req[p])]
        /\ IF req[p].old = NoSession THEN Answer(n) ELSE UNCHANGED held
    /\ UNCHANGED era

\* Mutant: the answer does not wait for the old session to be revoked.
ReplaceAfterAnswer(p) ==
    /\ At(p, "replace")
    /\ req[p].new \notin held
    /\ held' = held \cup {req[p].new}
    /\ UNCHANGED <<stored, lineage, era, req>>

\* The old session, by its id, whatever became of it.
Replace(p) ==
    /\ At(p, "replace")
    /\ LET old == req[p].old
       IN  Write(p, [NoWrites EXCEPT !.sessions =
                        Put(old, Session(sessions[old].user, TRUE, req[p].new))], Idle)
    /\ Answer(req[p].new)
    /\ UNCHANGED <<lineage, era>>

Revoking(S) == [s \in S |-> [sessions[s] EXCEPT !.revoked = TRUE]]

\* A revoked token came again: every session of its user is revoked.
RevokeAll(p) ==
    /\ At(p, "reused") /\ MayEnd
    /\ Write(p, [NoWrites EXCEPT !.sessions = Revoking(SessionsOf(req[p].user))], Idle)
    /\ era' = Later({req[p].user})
    /\ UNCHANGED <<held, lineage>>

Logout(p) ==
    /\ Arrives(p, "logout")
    /\ \E s \in held :
        Live(s) /\ Write(p, [NoWrites EXCEPT !.sessions = Revoking({s})], Idle)
    /\ UNCHANGED <<held, lineage, era>>

-----------------------------------------------------------------------------
(* The couple: authorization and removal.  Every request of this and of    *)
(* the next part first looks whether the couple is deleted (get).          *)

Finds(p, endpoint, next) ==
    /\ Arrives(p, endpoint)
    /\ ~couple.deleted
    /\ Continue(p, next)

StatusRead(p) ==
    \E status \in {"AUTHORIZED", "SUSPENDED"} :
        Finds(p, "status", [op |-> "status", status |-> status])

StatusWrite(p) ==
    /\ At(p, "status")
    /\ Write(p, [NoWrites EXCEPT !.couple = Put("status", req[p].status)], Idle)
    /\ UNCHANGED <<held, lineage, era>>

RemoveRead(p) == Finds(p, "removeCouple", [op |-> "removeTx"])

\* Mutant: the accounts of the couple stay active.
RemovalOfCoupleOnly ==
    [NoWrites EXCEPT !.couple = [status |-> "SUSPENDED", deleted |-> TRUE]]

\* The sessions of the users stay.
Removal ==
    [NoWrites EXCEPT
        !.users  = [u \in {v \in Users : OfCouple(v)} |-> [users[u] EXCEPT !.active = FALSE]],
        !.couple = [status |-> "SUSPENDED", deleted |-> TRUE]]

RemoveTransaction(p) ==
    /\ At(p, "removeTx")
    /\ Transaction(p, Removal, {})

-----------------------------------------------------------------------------
(* Accounts and access agents                                              *)

FreshUsers ==
    {u \in Users : ~Exists(u) /\
        \A q \in Requests : At(q, "commit") => u \notin DOMAIN req[q].w.users}

\* Mutant: the emails have no unique index.
AnyEmail(u, e) == TRUE

\* User u gets the email e, if it is free or its own.
EmailAble(u, e) == emails[e] \in {u, NoUser}

Renaming(u, e) ==
    Then(PutAll({f \in Emails : emails[f] = u}, NoUser), Put(e, u))

AgentCreateRead(p) == Finds(p, "createAgent", [op |-> "newAgent"])

AgentCreate(p) ==
    /\ At(p, "newAgent")
    /\ \E u \in FreshUsers, e \in Emails :
        /\ EmailAble(u, e)
        /\ Write(p, [NoWrites EXCEPT !.users  = Put(u, User("ACCESS_AGENT", TRUE)),
                                     !.emails = Renaming(u, e)], Idle)
    /\ UNCHANGED <<held, lineage, era>>

Agent(u) == users[u].role = "ACCESS_AGENT"

\* updateAccessAgent, with isActive: true, false or none.
AgentUpdateRead(p) ==
    \E u \in Users, op \in {"enable", "disable", "renameAgent"} :
        Agent(u) /\ Finds(p, "updateAgent", [op |-> op, user |-> u])

\* The transaction that writes the user row and ends the user's sessions.
\* Mutant: only the row is written.
EndingRowOnly(u, row) == [NoWrites EXCEPT !.users = Put(u, row)]

Ending(u, row) ==
    [NoWrites EXCEPT !.users = Put(u, row),
                     !.sessions = Revoking({s \in SessionsOf(u) : ~sessions[s].revoked})]

AgentEnable(p) ==
    /\ At(p, "enable")
    /\ LET u == req[p].user
       IN  Transaction(p, [NoWrites EXCEPT !.users =
                              Put(u, [users[u] EXCEPT !.active = TRUE])], {})

AgentDisable(p) ==
    /\ At(p, "disable")
    /\ LET u == req[p].user
       IN  /\ MayEnd
           /\ Transaction(p, Ending(u, [users[u] EXCEPT !.active = FALSE]), {u})

AgentRename(p) ==
    /\ At(p, "renameAgent")
    /\ LET u == req[p].user
       IN  \E e \in Emails :
              /\ EmailAble(u, e)
              /\ Transaction(p, [NoWrites EXCEPT !.users = Put(u, users[u]),
                                                 !.emails = Renaming(u, e)], {})

\* updateAccount and resetPassword take the first user of the couple, whoever
\* it is; resetAccessAgentPassword takes the agent that is named.
AccountRead(p) ==
    \E u \in Users, op \in {"rename", "reset"} :
        OfCouple(u) /\ Finds(p, op, [op |-> op, user |-> u])

AccountRename(p) ==
    /\ At(p, "rename")
    /\ \E e \in Emails :
        /\ EmailAble(req[p].user, e)
        /\ Write(p, [NoWrites EXCEPT !.users  = Put(req[p].user, users[req[p].user]),
                                     !.emails = Renaming(req[p].user, e)], Idle)
    /\ UNCHANGED <<held, lineage, era>>

PasswordReset(p) ==
    /\ At(p, "reset")
    /\ LET u == req[p].user
       IN  /\ MayEnd
           /\ Transaction(p, Ending(u, users[u]), {u})

-----------------------------------------------------------------------------
(* ensureSuperAdmin, one transaction                                       *)

Admins == {u \in Users : users[u].role = "SUPER_ADMIN"}

\* Mutant: the administrator is looked up by the email only.
KnownByEmail == {u \in Admins : emails[AdminEmail] = u}

\* The account of the email, or else an administrator of another email.
Known ==
    IF emails[AdminEmail] # NoUser THEN {emails[AdminEmail]} ELSE Admins

\* Mutant: an account of the couple that has the email is promoted.
AnyEmailOwner == TRUE

\* The email is free, or an administrator has it.
EmailOwnerIsAdmin == emails[AdminEmail] \in Admins \cup {NoUser}

Bootstrap(p) ==
    /\ Arrives(p, "bootstrap")
    /\ EmailOwnerIsAdmin
    /\ \/ \E u \in Known :
           /\ MayEnd
           /\ Transaction(p, [Ending(u, User("SUPER_ADMIN", TRUE)) EXCEPT
                                 !.emails = Renaming(u, AdminEmail)], {u})
       \/ /\ Known = {}
          /\ \E u \in FreshUsers :
              Transaction(p, [NoWrites EXCEPT !.users  = Put(u, User("SUPER_ADMIN", TRUE)),
                                              !.emails = Renaming(u, AdminEmail)], {})

-----------------------------------------------------------------------------
\* The couple and its account are there, maybe authorized; an administrator may be left from a
\* deployment with another email.
Init ==
    /\ \E admin \in {NoUser} \cup (Users \ {Owner}) :
        /\ users = [u \in Users |-> IF u = Owner THEN User("COUPLE", TRUE)
                                    ELSE IF u = admin THEN User("SUPER_ADMIN", TRUE)
                                    ELSE User("none", FALSE)]
        /\ \E e \in Emails \ {OwnerEmail, AdminEmail} :
            emails = [f \in Emails |-> IF f = OwnerEmail THEN Owner
                                       ELSE IF f = e THEN admin ELSE NoUser]
    /\ couple \in [status : {"PENDING", "AUTHORIZED"}, deleted : {FALSE}]
    /\ sessions = [s \in SessionIds |-> NoRow]
    /\ held = {}
    /\ lineage = [s \in SessionIds |-> Lineage(NoSession, 0, FALSE)]
    /\ era = [u \in Users |-> 0]
    /\ req = [p \in Requests |-> Idle]
    /\ ops \in Mixes

Authentication(p) ==
    \/ LoginRead(p) \/ LoginMark(p) \/ RefreshRead(p) \/ Issue(p) \/ Replace(p)
    \/ RevokeAll(p) \/ Logout(p)

Accounts(p) ==
    \/ StatusRead(p) \/ StatusWrite(p) \/ RemoveRead(p) \/ RemoveTransaction(p)
    \/ AgentCreateRead(p) \/ AgentCreate(p)
    \/ AgentUpdateRead(p) \/ AgentEnable(p) \/ AgentDisable(p) \/ AgentRename(p)
    \/ AccountRead(p) \/ AccountRename(p) \/ PasswordReset(p)
    \/ Bootstrap(p)

Step(p) == Authentication(p) \/ Accounts(p) \/ Commit(p) \/ Abort(p)

Next == (\E p \in Requests : Step(p)) /\ UNCHANGED ops

Spec == Init /\ [][Next]_vars

-----------------------------------------------------------------------------
SessionRequest ==
    {Idle}
    \cup [op : {"mark"}, user : Users, read : Nat]
    \cup [op : {"issue"}, user : Users, read : Nat, old : SessionIds \cup {NoSession}]
    \cup [op : {"replace"}, old : SessionIds, new : SessionIds]
    \cup [op : {"reused", "enable", "disable", "renameAgent", "rename", "reset"}, user : Users]
    \cup [op : {"status"}, status : {"AUTHORIZED", "SUSPENDED"}]
    \cup [op : {"removeTx", "newAgent"}]

\* Rows, index and history have their types; every user has an email of its
\* own, and only rows are held.
SessionsTypeOK ==
    /\ users \in [Users -> UserDocument]
    /\ emails \in [Emails -> Users \cup {NoUser}]
    /\ \A u \in Users : Exists(u) => \E e \in Emails : emails[e] = u
    /\ couple \in [status : {"PENDING", "AUTHORIZED", "SUSPENDED"}, deleted : BOOLEAN]
    /\ sessions \in [SessionIds -> SessionDocument]
    /\ held \subseteq {s \in SessionIds : sessions[s] # NoRow}
    /\ lineage \in [SessionIds -> [parent : SessionIds \cup {NoSession}, since : Nat,
                                   late : BOOLEAN]]
    /\ era \in [Users -> Nat]
    /\ \A p \in Requests : At(p, "commit") \/ req[p] \in SessionRequest

\* Once all sessions of a user were ended (a password reset, a deactivation, a
\* token used twice, the bootstrap), every session that is live descends from
\* a later login, or from a request that overlapped the end: no token from
\* before is refreshed into a live session.
RevocationHolds ==
    \A s \in SessionIds :
        Live(s) => lineage[s].late \/ lineage[s].since = era[sessions[s].user]

\* The writes of a rotation are made in an order that a crash, a lost answer
\* or a second refresh cannot turn round: a client that has a new token has an
\* old one that is revoked, and a session is replaced only by one of the same
\* user that was issued for it.
RotationOrder ==
    \A s \in SessionIds :
        /\ s \in held /\ lineage[s].parent # NoSession => sessions[lineage[s].parent].revoked
        /\ LET n == sessions[s].next
           IN  n # NoSession =>
                  /\ sessions[s].revoked
                  /\ sessions[n].user = sessions[s].user
                  /\ lineage[n].parent = s

\* After a removal the account of the couple is refused, whatever changes of
\* status, agents and passwords were under way.
RemovalLocksOut ==
    couple.deleted => \A u \in Users : users[u].role = "COUPLE" => ~Validates(u)

\* Bootstraps that overlap, with one configuration, and account changes that
\* compete for its email leave one administrator.
OneAdmin == Cardinality(Admins) <= 1

\* No account changes its role: the bootstrap takes over no account of a couple.
RolesFixed == [][\A u \in Users : Exists(u) => users'[u].role = users[u].role]_vars
=============================================================================
