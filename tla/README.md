# Maryme backend: TLA+ models and proofs

Maryme is a NestJS monolith over MongoDB (through Prisma) that runs weddings: a
couple has guests, each guest asks for a number of coupons, coupons are numbered
rows of a pool as large as the couple's quota, guests are seated at tables, hold
QR invitations and are checked in once at the door. This directory holds TLA+
models of the parts that change that shared state, the TLC runs that check them
on small instances, and proofs, checked by TLAPS, of the main properties of each
model for every size of the system.

## 1. Inventory

Every API process runs the same handlers; several processes may run. Handlers
interleave at every `await`. State lives in MongoDB only (and, for files, in
GridFS): a process that dies leaves what it has written.

| Component | State | Operations | Hard parts | What makes it correct |
|---|---|---|---|---|
| Coupon pool (`coupons/`) | `Coupon` rows, unique `(coupleId, number)` | `ensurePool`, `resize`, `assignLowest`, `syncCount`, `assignNumbers`, `manuallyAssign`, `summary`, `reconcile` | called inside and outside transactions, with a quota or a guest read earlier | a guest owns exactly its coupons; a used row is final; the rows are `1..guestQuota` |
| Guests (`guests/guests.service.ts`) | `Guest` (soft deletion by `deletedAt`, hard deletion by a replace) | `create`, `bulk`, `importGuests`, `update`, `remove`, delivery marks | quota check on a stale sum, merge plan made before its transaction, replace against check-ins | quota respected; removal releases coupons and seats; nothing is replaced after a check-in |
| Seating (`guests/seating.service.ts`) | `TableSeatAssignment`, unique `(tableId, seatNumber)`, mirror in `Guest` | `initialize`, `assign`, `unassign`, `bulk` | same seats and guests from several requests, removal in between | mirror equals rows; only live guests sit; as many seats as coupons |
| Table plan (`tables/`) | `WeddingTable`, unique `(coupleId, number)` | `create`, `bulk`, `configure`, `replace`, `generate`, `update`, `remove` | guards read guests, writes touch tables only | no guest sits at a table that is gone; numbers are unique |
| Invitations (`invitations/`) | `Invitation` | `generate`, `regenerate`, `revoke`, expiry | several invitations per guest, issued while the guest is removed | a revoked or used QR does not admit |
| Check-ins (`checkins/`) | `CheckIn`, unique `guestId` | `resolve`, `validate`, `create` | two doors, stale resolution, write conflict | one entry per guest, with its coupons |
| Couples (`couples/`) | `Couple`, `User` | `create`, `update`, `status`, `remove`, accounts and access agents | quota change against allocations; revocation against sessions | pool follows the quota; no access after removal |
| Authentication (`auth/`) | `RefreshSession`, `User` | `login`, `refresh`, `logout`, bootstrap | rotation in several writes, revocation of all sessions while a login inserts one | what a revocation ends stays ended; the old token of a rotation is dead when the new one arrives; one administrator |
| Wedding media (`wedding-media/`) | `WeddingMedia`, unique `(coupleId, slot)`, one GridFS file each | `upload` (new or replacing), `update` (move), `remove` | two stores without a common transaction, compensations, stale keys | a row names a file that exists; one card per slot |
| Designs (`invitation-designs/`) | `InvitationDesign`, background file, `activationLocks` of a process | `create`, `update`, `remove`, `activate`, `background` | the same, and a lock that every failure must release | a design keeps its file; one active design; every activation ends |
| Artifacts and share links (`invitation-artifacts/`) | `InvitationArtifact` with one or two files, `InvitationShareLink` | `create`, `download`, `share`, `revoke`, `publicOpen` | several files and a row, files that a browser drew earlier, a design removed meanwhile, dates read before slow uploads | an artifact has all its files; one whose sources were edited since it was stamped is stale; a revoked link stays revoked |
| Storage (`storage/`) | GridFS files, by key | `put`, `get`, `delete` | each call may fail | what the callers need of it |
| Audit, HTTP, configuration | `AuditLog` | record, routing, validation | none of their own beyond the callers' | |

Interaction: guests, seating, tables, check-ins and couples call `CouponPoolService`
or write coupon rows themselves, inside their own transactions; tables call seating;
everything else is shared documents. Nothing is sent between processes.

### How MongoDB and Prisma are modelled

No source of MongoDB is in this repository, so it is modelled from how the
services rely on it (module `Documents`, marked external in the map):

- a transaction (`$transaction`) reads one snapshot, sees its own writes and
  installs all of them or none;
- two transactions that write a common document cannot both commit (Prisma
  P2034, which `checkins.service.ts` names); documents that are only *read* give
  no conflict (write skew is possible);
- a unique index is a key: two inserts of one key conflict (P2002);
- a write outside a transaction is atomic by itself; `createMany` outside a
  transaction is not;
- relations are `NoAction`: deletions cascade nowhere and are not refused.

A transaction is two steps. The first one evaluates the whole body of the
handler on the current documents and stores the write set in the request slot
(`Transaction`); the second installs it (`Commit`). A write that shares a document
with a waiting write set dooms it: its slot becomes idle (`Spared`). Reads that
a handler makes before its transaction are steps of their own, and what was read is
kept in the slot: this is where stale data comes from. `Abort` ends any request at
any step, which stands for every exception, timeout, lost connection and crash;
a guard of the code that throws is therefore a guard of the action.

## 2. Modules

| Module | Models | State and actions |
|---|---|---|
| `Documents` | MongoDB collections, write sets, conflicts (external) | operators only |
| `CouponRows` | the statements of `coupon-pool.service.ts`, and the releases and uses that the guest and check-in services send to the same rows | operators from a collection to the rows written; `*Able` is the condition under which the service does not throw |
| `WeddingDb` | the documents of one couple, the request slots, transactions | `couple coupons guests seats invitations checkIns due req`; `Write`, `Transaction`, `Commit`, `Abort` |
| `GuestRequests` | `create`, `bulk`, `update`, `remove` of `guests.service.ts` | e.g. `CreateReadCouple`, `CreateCheckQuota`, `CreateTransaction` |
| `CouponRequests` | `manuallyAssign`, `summary`, `reconcile`, merge import, quota change of `couples.service.ts` | e.g. `PoolRead`, `PoolInsert` (one row at a time), `ImportReadGuests`, `ImportUpdate` |
| `EntranceRequests` | invitations and check-ins | `GenerateTransaction`, `Revoke`, `Expires`, `Scan`, `MarkExpired`, `CheckInRead`, `CheckInTransaction` |
| `SeatingRequests` | `seating.service.ts` over the standard tables | `AssignSeats`, `UnassignSeats`, `BulkSeats` |
| `Wedding` | composes the four request modules on one database | `Init`, `Next`, `Spec`, all properties |
| `CouponLedger` | what the pool promises: unused rows change freely, a row is used only in the one entry of its guest | abstract specification, instantiated by `Wedding` with `ledger <- coupons` and `entered <- ` the guests with a check-in |
| `TablePlan` | `tables.service.ts`, `initialize`, and the seating and removal of guests as far as the plan is concerned | `tables numbers guests seats req`; `raced`, a history of the guests that were seated at a table whose deletion was under way; a model of its own, since `Wedding` keeps its tables fixed |
| `WeddingMedia` | `wedding-media.service.ts` on `put` and `delete` of `storage.service.ts` | `media objects req`, and `restored`, a history of the rows that a failed removal created again |
| `InvitationDesigns` | `invitation-designs.service.ts`, `create` of `invitation-artifacts.service.ts`, on the same storage | `designs artifacts objects turns req`; `turns` is the chain of promises in `activationLocks`, one queue per process |
| `Sessions` | `auth.service.ts`, `admin-bootstrap.service.ts`, and status, removal, accounts and access agents of `couples.service.ts` | `users emails couple sessions`; `held`, the sessions whose token a client has; `lineage` and `era`, histories of where a session comes from and how often all sessions of a user were ended |
| `InvitationCards` | dates of `invitation-artifacts.service.ts`, `download`, `share`, `revoke`, `publicOpen`, and the delivery marks of `guests.service.ts`, for one guest | `writes` (the `updatedAt` of guest, design and couple), `sent invitations cards links shares req`; histories: `edits`, and in each card `drawn`, what its files show, and `outdated`, what had been edited since when its stamps were read |
| `MCWedding`, `MCTablePlan`, `MCWeddingMedia`, `MCInvitationDesigns`, `MCSessions`, `MCInvitationCards` | instances for TLC | symmetry sets, and the one process of `MCInvitationDesigns` |
| `DocumentsProofs`, `WeddingProofs`, `AllocationProofs`, `TablePlanProofs`, `SessionsProofs`, `WeddingMediaProofs`, `InvitationDesignsProofs`, `InvitationCardsProofs` | the proofs | see section 5 |

In `WeddingMedia` and `InvitationDesigns` a file is its key. A row and a file are written
in separate steps, in the order of the handler, and each of these steps may fail: the
`catch` of the code is an action of its own (`UploadSaveFails`, `RemoveObjectFails`,
`SaveFails`), and what has no `catch`, or only logs, is `Abort` or `Fails`. It is assumed that
a write that reports an error did not happen; an acknowledgement lost on the way is not
modelled. `randomUUID` gives a key that nothing holds, so a key that is free again may
serve as a new one. `Restart` ends every request of a process and empties its lock.

In `Sessions` a token is its session, and `held` grows when an answer reaches a client: a
process that dies, or an answer that is lost, is an `Abort` between the last write and the
answer. Signatures, hashes and expiry are left out; a refresh may come from any client that
holds the token, also twice. In `InvitationCards` an `updatedAt` is the number of writes of its
document, so each write has a later date than the one before: ties within a
millisecond, clocks that differ between processes, and a date taken before the write that
it belongs to is installed are not modelled. The server draws no card: an upload brings finished
files, which the browser drew from what it had loaded of each source at some earlier moment
(`Drawings`), and `create` reads the dates of the sources only then (`Stamped`). A date of a share is a position in the order in which
shares took their dates (`shares`).

These two models and `TablePlan` choose the endpoints that run together at `Init`, out of the
constant `Mixes`.

Abstractions that hold everywhere:

- A statement of the database (an `updateMany`, a find with its `include`) is one step.
- Names, contact data, sides, categories, RSVP, audit records and the access window
  are left out: a rejection because of them is an `Abort`, an acceptance changes nothing
  that is modelled. `tableNumber` follows `tableId` in `Wedding`.
- One couple. Every query is scoped by `coupleId`.
- A token is its invitation: `tokenHash` is unique.
- Ids are never reused: a guest that a replace deleted is `gone`, and requests
  that still know its id fail on it, as `update` and required relations do.
- `bulk` takes at most two guests and the merge import one row, so that TLC can
  enumerate the inputs; an empty `replace` is legal in the code and in the model.
- `reconcile` visits the guests in the order of a query without `orderBy`: any
  order.
- `regenerate` is `generate` for the guest of an invitation; `validate` makes the
  reads of `Scan` and stops.
- Definitions whose comment begins with *Mutant* are faulty variants of the
  definition that follows. No specification uses them: they show that a property
  notices the fault (section 4).

## 3. Runs

All bounds are CONSTANTS in the `.cfg` files: guests, request slots, tables, seats per
table, invitations, `MaxQuota` (the largest coupon number), `MaxCoupons` (the `@Max(10)`
of the DTOs), the quotas and coupon numbers that requests may name, and the endpoints
`Ops` that are called. Two request slots are enough for every race between two handlers;
three guests or three coupons are enough for one request to take what another one counts
on. Ids are symmetric; coupon numbers, seats and table numbers are not, since the code
orders them. `MCMedia` has two slots where the code has three: a race is for one slot, or
for the last free one. `MCDesigns` has four keys: what two requests have put, and the
backgrounds they replace. `MCPlan` has two guests, three table ids for two numbers, one of them a
standard number, and the one capacity below that of a standard table besides the standard and none.

`Mixes` in `MCPlan`, `MCSessions` and `MCCards` is a set of sets of endpoints, one of which each
behaviour uses: a race is between the handlers of a mix, and pairs that share no document
need not be explored together. `MaxEnds` bounds how often all sessions of a user are ended
(once: a session is from before or after it), `MaxWrites` the writes of a source of a card,
`MaxEdits` those that change what it shows (two versions tell an old drawing from a current one), and
`MaxShares` the dates that shares take.

Every request can abort, so deadlock is checked in every run but three: in `MCSessions` a
removed couple may leave no request that writes anything, and in `MCPlan` and `MCCards` the bounds on
ids, writes, cards and shares may be exhausted.

Passing runs:

| Run | Question |
|---|---|
| `MCAllocation` | Two concurrent requests over creation, append, update, removal, manual assignment and reconcile, while the quota changes between 2 and 3 and `summary` fills the pool row by row: does a guest always own exactly its coupons (`ExactAllocation`), and has no number of the quota lost its row (`PoolCoversQuota`)? |
| `MCEntrance` | Two doors, two invitations, revocation, expiry, removal and replace: one entry per guest and a used QR exactly for it (`OneEntryPerGuest`), an entered guest survives a replace (`EntrySurvivesReplace`), and the wedding implements the strict ledger (`StrictLedgerSpec`): an entry uses every coupon its guest has. Without imports, which break the second one (below). |
| `MCImport` | Merge imports, reconcile and check-ins: the proved statements `TypeOK`, `PendingLegal`, `UsedHasCheckIn` and `LedgerSpec` on an instance where their interesting cases occur. |
| `MCSeating` | Seating, bulk seating, updates, removals and a replace on two tables of two seats: mirror and rows agree (`SeatsMirrored`), only live guests sit (`SeatsOfLiveGuests`), and the guests stay within the quota (`WithinQuota`) although `assertQuota` looks at a stale sum: the numbered rows carry the quota. |
| `MCSequential` | One request at a time, every endpoint but the import: `SeatCount`, `AllocationFrozen`, `PoolIsQuota`, `RemovalReleases`, `UsesAreFinal` and `AdmitsOnlyInvited`. All but `UsesAreFinal` fail under races (below), so this run says that races, and not the handlers by themselves, break them; section 5 says under which overlaps they still hold. |
| `MCPlan` | Two overlapping requests over the table plan, seatings and removals of guests, in mixes of endpoints that share documents: does a guest keep its table, unless it was seated there between the check of a deletion and its write (`PlacementStands`), and is every stored table the one that the index has for its number, whatever upserts, creations, renumberings and deletions race for it (`NumbersUnique`)? |
| `MCMedia` | Two uploads, moves or removals at once, with every failure: does a row name a file that exists (`RowsHaveFiles`), and does a slot have one card (`OneCardPerSlot`)? Yes, but for a row that a failed removal created again: the key it restores was read before, and a replacement may have removed that file since. The unique index, and not the look at the slots, keeps cards apart. |
| `MCDesigns` | Backgrounds replaced, designs removed and artifacts created at once, with failures and restarts: no design and no artifact names a file that is gone (`FilesOfRows`). |
| `MCActivation` | Three activations of one process at its lock: one design is active (`OneActive`), with its background (`ActiveHasBackground`), and every activation ends (`ActivationEnds`). |
| `MCSessions` | Three users and sessions, two requests. After all sessions of a user were ended, is a live session always from a later login, or from a request that overlapped the end (`RevocationHolds`)? Is the old session revoked when a client has the new token (`RotationOrder`)? Once a couple is removed, is every access token of its account refused, whatever was under way (`RemovalLocksOut`; agents are the exception below)? Do overlapping bootstraps leave one administrator (`OneAdmin`) and every role as it was (`RolesFixed`)? |
| `MCCards` | Two invitations, cards and links, two requests, three writes of each source, two versions of what a card shows. Has a card that counts as fresh missed no edit of guest, design or couple since its stamps were read, so that it shows old data only if the browser sent it old (`FreshIsCurrent`)? Is no link newer than the last share that its card names (`LastShareIsLast`)? Does an open never undo a revocation (`RevokedForGood`), and does only a request that read the guest before the date was set replace the date at which the invitation was sent (`MarksKeepTheFirstDate`)? |

A run that refutes a statement of the documentation, with a shortest counterexample:

| Run | Statement | What the code does |
|---|---|---|
| `MCFrozen` | `AllocationFrozen`: `docs/DOMAIN_CONTRACT_FREEZE.md:41-42`, one used coupon freezes the allocation | a growing `update` and a check-in overlap; neither writes a document of the other, both commit, and the guest has used and assigned coupons |

Known divergences for which no run is kept:

- `PoolIsQuota` fails when two quota changes read the same old quota
  (`couples.service.ts:221`): `MCSequential.cfg` with two requests and `patch` alone shows it.
- `SeatCount` fails with two updates and a seating (`guests.service.ts:592` compares with the
  count read before the transaction): the same file with two requests and
  `create`, `update`, `seat`.
- `SeatsMirrored` fails when an import moves a guest with seats (`guests.service.ts:430`):
  `MCSeating.cfg` with `import` and `seat`.
- Renumbering a table leaves `Guest.tableNumber` behind (`tables.service.ts:230`), and seating
  never reads `WeddingTable.capacity` while `bulk` may lower it (`seating.service.ts:109`,
  `tables.service.ts:85`): both are visible without interleaving.
- `RemovalReleases` fails when `manuallyAssign` read the guest before its removal
  (`coupon-pool.service.ts:142`, against `docs/DOMAIN_CONTRACT_FREEZE.md:43-45`): `MCSequential.cfg`
  with two requests and `create`, `remove`, `manual`.
- A guest that is seated at a table after a replace, a generation or a removal has found the table
  empty, and before it deletes it, is left at a table that is gone (`tables.service.ts:171`,
  against `docs/openapi.yaml:818`). `PlacementStands` excepts these guests, which are in `raced`,
  and no others; without `\/ g \in raced` it fails in `MCPlan`.
- The browser draws a card and uploads it; `create` reads the `updatedAt` of its sources after that
  (`invitation-artifacts.service.ts:59-68`). An edit between the drawing and these reads gives a card
  that shows old data and is never stale, although `docs/DEPLOYMENT.md:63-66` says that the
  comparison covers every visual field, at the price of false positives only. In `FreshIsCurrent` these are
  the sources in `outdated`; with `Missed(c) = {}` instead it fails in `MCCards`.
- A removed guest keeps `tableId` and `assignedSeats` (`guests.service.ts:634`), and
  `TablesService.remove` then counts it and refuses to delete the table; a single request
  shows it.
- `OneActive` is kept by a lock inside one process. Two processes in which no design is
  active yet switch nothing off, write different documents and both commit: `MCActivation.cfg`
  with a second process shows it.
- A design that is removed while an artifact uploads its files leaves an artifact without
  design (`invitation-artifacts.service.ts:65`, `invitation-designs.service.ts:109`).
- `templateKey: null` passes the check of a generated design, which looks at the stored
  template, and is written (`invitation-designs.service.ts:91`); the model follows the code.
- `AdmitsOnlyInvited` fails when a guest is removed, or its invitation revoked, between the
  scan and the transaction of the check-in, which repeats none of the checks of `resolve`
  (`checkins.service.ts:192`, against `docs/openapi.yaml:410-415`): `MCSequential.cfg` with two
  requests and `create`, `generate`, `revoke`, `checkin`.
- `EntrySurvivesReplace` fails with imports: a guest that was imported without coupons gets
  its invitation after the snapshot of a replace and checks in; the replace shares no
  document with that and deletes the guest who is in (against `docs/ARCHITECTURE.md:25`).
  `MCEntrance.cfg` with `import`, `replace`, `generate`, `checkin` and one guest shows it.
- A refresh is not a transaction, though `docs/ARCHITECTURE.md:8-9` counts session rotation among
  the multi-document mutations that are one: a crash, or a second refresh, between the new row and the
  replacement of the old one leaves two live sessions (`auth.service.ts:141`). When the answer
  of a refresh is lost, the retry with the old token revokes every session of the user.
- A login or refresh that read the user before a reset inserts a session that survives it;
  `RevocationHolds` excepts exactly these. `status` may overwrite the `SUSPENDED` of a couple that
  is removed meanwhile, and creating or enabling an agent while the couple is removed leaves
  an active agent; with three overlapping requests such an agent belongs to a removed couple
  that is `AUTHORIZED`, and `JwtStrategy.validate` does not look at `deletedAt`.
- `resetPassword` and `updateAccount` take the first user of the couple, without role and
  without order (`couples.service.ts:132`, `couples.service.ts:159`): it may be an agent.
- Two bootstraps with different emails at once create two administrators; `OneAdmin` is for
  one configured email.
- `shareLinks` filters `revokedAt: null` without `isSet: false`
  (`invitation-artifacts.service.ts:221`), so that links whose field was never written are not
  listed (against `docs/openapi.yaml:657`).
- Overlapping marks replace the date of the first (`guests.service.ts:530`), where
  `docs/openapi.yaml:327` calls the operation idempotent.
- Marking an invitation as sent writes the guest, so its card becomes `STALE` without any
  change that it shows. `create` always answers `stale: false`, whatever was edited during the upload; a
  slow upload may be the newest artifact and stale while an earlier one is fresh.
- Share links stay open after the removal of the guest or couple and the revocation of the
  invitation; an open that overlaps a revocation still serves the file, and a download
  that overlaps a share makes the share fail.
- A replacement of a card that moved meanwhile goes to the slot where the card is now
  (`wedding-media.service.ts:105`), and two replacements at once leave a file without row.

Liveness. The only thing that a handler waits for, besides the database and the storage, is
the activation lock. `InvitationDesigns` assumes weak fairness of the steps of each request
that has arrived: every call of MongoDB or GridFS ends, with a result or an error, and Node
runs the continuation. Nothing says that requests arrive or that a process restarts. The queue
is first in, first out, as a chain of promises is, so weak fairness is enough. The other
specifications assume no fairness and claim no liveness: their handlers neither retry nor
wait, and every one may end in an error.

## 4. Mutants

For every property of a passing run there is a variant of one modelled definition
with a plausible fault, under which TLC finds the property violated with the same
configuration: an unchecked pool size, a release that includes used rows, a release
of one row only, a replace without its check-in guard, a missing unique index, an
off-by-one in `ensurePool`, `resize` and the surplus of `syncCount`, seats that are
not given up, the wrong key cleaned up after a replacement, a lock that a failure does not
release, a rotation that answers before it revokes, a removal that leaves the agents, stamps
of a card that are taken when it is saved, and so on. The operator stands directly before the definition it varies.

## 5. Proofs

Each theorem is for every value of the constants: any numbers of guests, requests, rows,
keys, sessions and processes, and every choice of the inputs. Where a property holds only
without some endpoint, or without overlapping requests, the theorem says so in a hypothesis
on the constants (`Ops`, `Requests`, `ProcessOf`), given in the last column.

| Module | Theorem | Statement | Hypothesis |
|---|---|---|---|
| `WeddingProofs` | `TypeCorrect` | `[]TypeOK` | |
| | `PendingStaysLegal` | `[]PendingLegal` | |
| | `UsesFinal` | `UsesAreFinal` | |
| | `UsedOnlyByCheckIn` | `[]UsedHasCheckIn` | |
| | `ImplementsLedger` | `LedgerSpec`, the refinement of `CouponLedger` | |
| | `OneEntry` | `[]OneEntryPerGuest` | |
| | `SeatsStayLive` | `[]SeatsOfLiveGuests` | |
| `AllocationProofs` | `PoolCovers` | `[]PoolCoversQuota` | |
| | `PoolIsExact` | `[]PoolIsQuota` | `Steady` |
| | `AllocationIsExact` | `[]ExactAllocation` | no import |
| | `QuotaHolds` | `[]WithinQuota` | no import, `Steady` |
| | `EntrySurvives` | `[]EntrySurvivesReplace` | no import |
| | `MirrorIsExact` | `[]SeatsMirrored` | no import |
| | `SeatsFit` | `[]SeatCount` | no import, `Seatable` |
| | `AllocationStaysFrozen`, `RemovalStaysReleased` | `[]AllocationFrozen`, `[]RemovalReleases` | no import, `Settling` |
| | `ImplementsStrictLedger` | `StrictLedgerSpec` | `NoTopUp` |
| | `AdmissionIsInvited` | `AdmitsOnlyInvited` | `Alone` |
| `TablePlanProofs` | `PlanTypes`, `NumbersStayUnique` | `[]PlanTypeOK`, `[]NumbersUnique` | |
| | `PlacementsStand` | `[]PlacementStands` | |
| `SessionsProofs` | `SessionTypes`, `RevocationStays`, `RotationStays`, `RolesStay` | `[]SessionsTypeOK`, `[]RevocationHolds`, `[]RotationOrder`, `RolesFixed` | |
| | `RemovedStaysOut`, `SingleAdmin` | `[]RemovalLocksOut`, `[]OneAdmin` | |
| `WeddingMediaProofs` | `MediaTypes`, `FilesStay`, `SlotsStay` | `[]MediaTypeOK`, `[]RowsHaveFiles`, `[]OneCardPerSlot` | |
| `InvitationDesignsProofs` | `DesignTypes`, `FilesOfRowsStay`, `ActiveKeepsBackground` | `[]DesignTypeOK`, `[]FilesOfRows`, `[]ActiveHasBackground` | |
| | `OneDesignActive` | `[]OneActive` | `SharedLock` |
| `InvitationCardsProofs` | `CardTypes`, `FreshStays`, `SharesStay`, `RevocationsStay`, `MarksStay` | `[]CardsTypeOK`, `[]FreshIsCurrent`, `[]LastShareIsLast`, `RevokedForGood`, `MarksKeepTheFirstDate` | |

The hypotheses cover the instances of the runs and, where they can, much more:

- *no import* is `"import" \notin Ops`. An import may leave a guest without the coupons that
  its document asks for (against `ExactAllocation`), so that no coupon stands between its check-in and a
  replace (against `EntrySurvivesReplace`), and it may move a seated guest away from its seats (against
  `SeatsMirrored`); section 3 describes the last two. The proofs of the other
  statements with this hypothesis count on exact allocations or mirrors; `SeatCount`, `AllocationFrozen` and
  `RemovalReleases` may well hold with imports that run alone, which is neither proved nor run.
- `Alone` is one request in flight, as in `MCSequential`, with any endpoints.
- `Steady` is `"patch" \notin Ops \/ Alone`: requests may overlap, but not with a change of the
  quota. With `create`, `patch` and `summary` overlapping, TLC finds a row above the quota, and then guests
  who own more coupons than the quota.
- `NoTopUp` is no `update`, `manual` or `import`, the endpoints that give more coupons to a guest
  who is there already, and `Settling` is `NoTopUp \/ Alone`. `MCFrozen` is the counterexample without it.
- `Seatable` is `"update" \notin Ops \/ Alone`; section 3 has the race of two updates and a seating.
- `SharedLock`: all requests belong to one process. With two processes section 3 has the counterexample.

Assumptions: those on the constants, stated in the module that declares them
(`CouponRows`, `WeddingDb`, `TablePlan`, `Sessions`, `WeddingMedia`, `InvitationDesigns`,
`InvitationCards`): null values are no ids, bounds are natural numbers, requests name values
within the bounds, each request belongs to a process. TLC evaluates them in every run of these models.

The same difficulty recurs: a step decides on what it read, and writes later. So each inductive
invariant says of every request what it still *knows*, and of every waiting write
set what it still does in the current state. `DocumentsProofs` has the facts about write
sets that all of them use: what an installed write set leaves alone, and that the requests that
are spared by it share no document with it.

- **Wedding.** `IInv == TypeOK /\ PendingLegal /\ EInv` (`WeddingProofs`). `PendingLegal`: a
  waiting write set changes only unused rows into unused rows and touches no check-in, or it
  enters one guest who is not in, with rows assigned to that guest now. It survives the
  writes of others because a write that would make it illegal shares a coupon row or
  check-in key with it, and dooms it (`SparedLegal`). `TypeOK` alone is inductive but says
  nothing about commits; `PendingLegal` is what makes `Commit` a ledger step. `EInv` adds that
  entries and used invitations match, that only live guests sit, and what a request holds: a waiting set
  uses no invitation unless it is the check-in of a guest not in, and it seats only live guests it
  also writes and takes every seat from a guest it removes; a scanned invitation keeps its guest
  or is purged with it. The module has one lemma per statement of the pool, per kind of step
  (`Write`, `Transaction`, `Commit`, `Abort`, `Continue`), and per handler; `StepSound` joins them.
- **Allocation.** Each of these theorems adds to `IInv` what every waiting write set would make of the documents
  *as they are now*: once it is written the pool still covers the quota (`PendingCovers`), the counts are
  still exact (`Balanced`), the mirror is still the seats (`Mirrors`), no row exceeds the quota
  (`Bounded`). A write of another request keeps this, for it either shares a document with the waiting set
  and dooms it, or touches other rows and other guests. Here it matters what handlers write
  besides what they mean to: a removal writes the guest whose coupons it releases, an allocation
  writes the guest it serves, so the count of a guest and its rows always change hands in
  one write set. What a request has read (the quota before its transaction, the
  rows it still has to insert) is in `Reading`, and `StepForms` reduces every step to one of these:
  a request reads and goes on, prepares a transaction, writes, or commits. `EntrySurvives`
  needs the longest chain: a check-in uses coupons of its guest, which exist since allocations are exact, a replace
  that wipes that guest writes the same rows, so one of the two is doomed (`Wiping`, `Entering`, `Reaches`).
- **Counting.** `SyncCount` and `AssignLowest` take a set of numbers of a given size, so
  exactness is about cardinalities: a guest gets as many of the lowest free rows as it lacks, or gives up as many
  as it has too many. These facts follow from the library's theorems on finite
  sets. `WithinQuota` adds the wishes of all guests; the model states the sum as the cardinality of the set of pairs of
  a guest and a number up to its count, which the owned rows match one to one (`RequestedWithin`). Where a
  count of the lowest rows would need an induction, a least counterexample is ruled out instead
  (`LeastNumber`): the library proves that a nonempty set of natural numbers has a minimal element.
- **Table plan.** The index names exactly the stored tables (`IndexMatches`), and every
  waiting write set is closed: it writes a number together with each table that has or loses
  it. Sets that share no key keep each other closed. For the placements, what a request is about to commit fits the
  guests as they are (`Fit`): every live guest at a table that it deletes was seated there after the
  deletion's check (`OnlyRacedAt`), it leaves the guests that it writes on the seats of their mirrors, and
  moves seats only between nobody and guests that it writes. A seating that is written while such a deletion is
  under way puts its guest into `raced`, which keeps `OnlyRacedAt`.
- **Sessions.** What each request knows of the session it rotates and the era in which it read the
  user (`Flights`), with the two properties themselves. For accounts (`AccountsInv`): every account has
  an email in the index, a removed couple has no active account of its own, there is one administrator at
  most, and every waiting set keeps this (`Proper`): none activates an account of the couple, a removal
  still writes all of them, and one that makes an administrator found none and holds the key of the
  configured email, which every other such set writes too.
- **Media and designs.** A file that a request has put and no row names is known to that
  request only (`OwnFiles`, `Apart`); the file it is about to remove is named at most by the row
  it replaces, and by none once that is saved. Activations change `active` and nothing else. For
  the lock (`InTurn`): a request is in the queue of its process once, only the head of the queue
  may be about to commit (`Turns`), and what waits to commit switches off every other design that
  is active now (`Single`).
- **Cards.** If the stamp of a card, saved or in flight, is the current date of a source, its files
  show that source as it is now or the source is in `outdated`, and not both (`StampedAt`); a waiting share still finds its artifact as it read it and no
  later share on it (`Pending`).

Only model-checked: `ActivationEnds`, since liveness under fairness is out of reach of the prover.
Every invariant and every action property of a passing run is a theorem, under the hypotheses above; nothing is
claimed outside of them. The mutants, and that the interesting cases do occur, rest on the runs.

## 6. Not modelled, and the plan

Every component whose operations change shared state has its actions in a module. What the
plan has left:

1. Weaker hypotheses: `SeatCount`, `AllocationFrozen` and `RemovalReleases` with imports that run alone, and an exact
   account of which two endpoints may overlap in `AdmitsOnlyInvited`.
2. The files of an artifact as an abstract specification: a row shows the last file that was stored
   for it. This would join `InvitationDesigns` and `InvitationCards`, which are separate
   because their states multiply.
3. Imports of several rows: `importGuests` plans each row by itself, and one row keeps the
   inputs enumerable.
4. Clocks: ties and skew of `updatedAt` and `lastShareAt` between processes.

Left out for good: the audit log (fire-and-forget, never read), health checks, routing,
DTO validation, configuration, the seed script, and the profile fields.
