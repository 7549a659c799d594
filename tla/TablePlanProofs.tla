---------------------------- MODULE TablePlanProofs ----------------------------
(***************************************************************************)
(* The documents of the table plan keep their types, each stored table is  *)
(* the one that the unique index has for its number, and no guest loses    *)
(* its table but to a deletion that it was seated in the middle of, proved *)
(* for any numbers of tables, guests, seats and overlapping requests.      *)
(***************************************************************************)
EXTENDS TablePlan, DocumentsProofs

\* The write sets of transactions, and what updates and removals remember.
PlanWrites ==
    [tables  : WriteSets(TableIds, TableDocument),
     numbers : WriteSets(Numbers, TableIds \cup {NoTable}),
     guests  : WriteSets(Guests, GuestDocument),
     seats   : WriteSets(Places, Guests \cup {NoGuest})]

UpdateRequest ==
    [op : {"updateRead", "updateWrite"}, table : TableIds, number : Numbers \cup {Omitted},
     side : Sides \cup {Omitted}, capacity : Capacities \cup {NoCapacity, Omitted}]

RemoveRequest == [op : {"removeCount", "removeWrite"}, table : TableIds]

\* A table that is stored under the number n.
StaysAt(document, n) == document.phase = "stored" /\ document.number = n

\* w writes the index with the tables: a table that it stores under another
\* number is put into the index, one that it takes from a number leaves the
\* index, and it takes a number only from a table that it writes.
Closed(w) ==
    /\ \A t \in DOMAIN w.tables : w.tables[t].phase = "stored" =>
        LET n == w.tables[t].number
        IN  /\ n \in Numbers
            /\ \/ n \in DOMAIN w.numbers /\ w.numbers[n] = t
               \/ n \notin DOMAIN w.numbers /\ StaysAt(tables[t], n)
    /\ \A t \in DOMAIN w.tables :
        Stored(t) /\ ~StaysAt(w.tables[t], tables[t].number) =>
            tables[t].number \in DOMAIN w.numbers
    /\ \A n \in DOMAIN w.numbers :
        /\ numbers[n] # NoTable => numbers[n] \in DOMAIN w.tables
        /\ w.numbers[n] # NoTable =>
            w.numbers[n] \in DOMAIN w.tables /\ StaysAt(w.tables[w.numbers[n]], n)

\* What a request has found out, and what it is about to commit.
Holds(r) ==
    /\ r.op = "commit" => r.w \in PlanWrites /\ Closed(r.w)
    /\ r.op \in {"updateRead", "updateWrite"} => r \in UpdateRequest
    /\ r.op \in {"removeCount", "removeWrite"} => r \in RemoveRequest

\* The index has every stored table at its number, and nothing else.
IndexMatches ==
    /\ \A t \in TableIds : Stored(t) =>
        tables[t].number \in Numbers /\ numbers[tables[t].number] = t
    /\ \A n \in Numbers : numbers[n] # NoTable => StaysAt(tables[numbers[n]], n)

\* The inductive invariant.
IInv ==
    /\ PlanTypeOK
    /\ IndexMatches
    /\ \A p \in Requests : Holds(req[p])

-----------------------------------------------------------------------------
(* The two kinds of step                                                   *)

\* A commit of a closed write set leaves the index matched.
LEMMA InstallMatches ==
    ASSUME PlanTypeOK, IndexMatches, NEW w \in PlanWrites, Closed(w),
           tables' = Install(tables, w.tables), numbers' = Install(numbers, w.numbers)
    PROVE  IndexMatches'
<1>1. /\ DOMAIN tables = TableIds /\ DOMAIN numbers = Numbers
      /\ \A n \in Numbers : numbers[n] \in TableIds \cup {NoTable}
  BY DEF PlanTypeOK
<1>2. /\ \A t \in TableIds :
            tables'[t] = IF t \in DOMAIN w.tables THEN w.tables[t] ELSE tables[t]
      /\ \A n \in Numbers :
            numbers'[n] = IF n \in DOMAIN w.numbers THEN w.numbers[n] ELSE numbers[n]
  BY <1>1 DEF Install
<1>3. /\ DOMAIN w.tables \subseteq TableIds /\ DOMAIN w.numbers \subseteq Numbers
      /\ \A n \in DOMAIN w.numbers : w.numbers[n] \in TableIds \cup {NoTable}
  BY WriteSetElim DEF PlanWrites
<1>4. ASSUME NEW t \in TableIds, tables'[t].phase = "stored"
      PROVE  tables'[t].number \in Numbers /\ numbers'[tables'[t].number] = t
  <2>1. CASE t \in DOMAIN w.tables
    BY <1>2, <1>3, <1>4, <2>1 DEF Closed, IndexMatches, Stored, StaysAt
  <2>2. CASE t \notin DOMAIN w.tables
    <3>1. Stored(t) /\ tables'[t] = tables[t]
      BY <1>2, <1>4, <2>2 DEF Stored
    <3>2. tables[t].number \in Numbers /\ numbers[tables[t].number] = t
      BY <3>1 DEF IndexMatches
    <3>3. t # NoTable
      BY PlanBoundsAssumption
    <3>4. tables[t].number \notin DOMAIN w.numbers
      BY <3>2, <3>3, <2>2 DEF Closed
    <3>5. QED
      BY <1>2, <3>1, <3>2, <3>4
  <2>3. QED
    BY <2>1, <2>2
<1>5. ASSUME NEW n \in Numbers, numbers'[n] # NoTable
      PROVE  StaysAt(tables'[numbers'[n]], n)
  <2>1. CASE n \in DOMAIN w.numbers
    BY <1>2, <1>3, <1>5, <2>1 DEF Closed
  <2>2. CASE n \notin DOMAIN w.numbers
    <3>1. numbers'[n] = numbers[n] /\ numbers[n] \in TableIds
      BY <1>1, <1>2, <1>5, <2>2
    <3>2. StaysAt(tables[numbers[n]], n)
      BY <1>5, <3>1 DEF IndexMatches
    <3>3. CASE numbers[n] \in DOMAIN w.tables
      BY <1>2, <2>2, <3>1, <3>2, <3>3 DEF Closed, StaysAt, Stored
    <3>4. CASE numbers[n] \notin DOMAIN w.tables
      BY <1>2, <3>1, <3>2, <3>4
    <3>5. QED
      BY <3>3, <3>4
  <2>3. QED
    BY <2>1, <2>2
<1>6. QED
  BY <1>4, <1>5 DEF IndexMatches, Stored

\* A commit that shares no key with a pending write set leaves that closed.
LEMMA SparedStaysClosed ==
    ASSUME PlanTypeOK, NEW v \in PlanWrites, NEW w \in PlanWrites, Closed(v), ~Conflict(v, w),
           tables' = Install(tables, w.tables), numbers' = Install(numbers, w.numbers)
    PROVE  Closed(v)'
<1>1. /\ DOMAIN tables = TableIds /\ DOMAIN numbers = Numbers
  BY DEF PlanTypeOK
<1>2. /\ DOMAIN v.tables \subseteq TableIds /\ DOMAIN v.numbers \subseteq Numbers
  BY WriteSetElim DEF PlanWrites
<1>3. /\ DOMAIN v.tables \cap DOMAIN w.tables = {}
      /\ DOMAIN v.numbers \cap DOMAIN w.numbers = {}
  <2>1. DOMAIN v = {"tables", "numbers", "guests", "seats"}
    BY DEF PlanWrites
  <2>2. QED
    BY <2>1 DEF Conflict
<1>4. /\ \A t \in DOMAIN v.tables : tables'[t] = tables[t]
      /\ \A n \in DOMAIN v.numbers : numbers'[n] = numbers[n]
  BY <1>1, <1>2, <1>3 DEF Install
<1>5. QED
  BY <1>4 DEF Closed, Stored

\* A commit of a closed write set keeps the invariant.
LEMMA WriteKeeps ==
    ASSUME IInv, NEW p \in Requests, NEW w \in PlanWrites, Closed(w), Write(p, w, Idle)
    PROVE  IInv'
<1>1. PlanTypeOK'
  <2>1. /\ w.tables \in WriteSets(TableIds, TableDocument)
        /\ w.numbers \in WriteSets(Numbers, TableIds \cup {NoTable})
        /\ w.guests \in WriteSets(Guests, GuestDocument)
        /\ w.seats \in WriteSets(Places, Guests \cup {NoGuest})
    BY DEF PlanWrites
  <2>2. tables' \in [TableIds -> TableDocument]
    BY <2>1, InstallType DEF IInv, PlanTypeOK, Write
  <2>3. numbers' \in [Numbers -> TableIds \cup {NoTable}]
    BY <2>1, InstallType DEF IInv, PlanTypeOK, Write
  <2>4. guests' \in [Guests -> GuestDocument]
    BY <2>1, InstallType DEF IInv, PlanTypeOK, Write
  <2>5. seats' \in [Places -> Guests \cup {NoGuest}]
    BY <2>1, InstallType DEF IInv, PlanTypeOK, Write
  <2>6. DOMAIN req' = Requests
    BY DEF IInv, PlanTypeOK, Write, Spared
  <2>7. DOMAIN w.guests \subseteq Guests
    BY <2>1, WriteSetElim
  <2>8. raced' \subseteq Guests
    BY <2>7 DEF IInv, PlanTypeOK, Write, Meets
  <2>9. QED
    BY <2>2, <2>3, <2>4, <2>5, <2>6, <2>8 DEF PlanTypeOK
<1>2. IndexMatches'
  BY InstallMatches DEF IInv, Write
<1>3. ASSUME NEW q \in Requests
      PROVE  Holds(req[q])'
  <2>1. CASE req'[q] = Idle
    BY <2>1 DEF Holds, Idle
  <2>2. CASE req'[q] # Idle
    <3>1. /\ req'[q] = req[q]
          /\ req[q].op = "commit" => ~Conflict(req[q].w, w)
      BY <2>2 DEF IInv, PlanTypeOK, Write, Spared
    <3>2. Holds(req[q])
      BY DEF IInv
    <3>3. CASE req[q].op = "commit"
      <4>1. PICK v : v = req[q].w
        OBVIOUS
      <4>2. v \in PlanWrites /\ Closed(v) /\ ~Conflict(v, w)
        BY <3>1, <3>2, <3>3, <4>1 DEF Holds
      <4>3. Closed(v)'
        BY <4>2, SparedStaysClosed DEF IInv, Write
      <4>4. QED
        BY <3>1, <3>3, <4>1, <4>2, <4>3 DEF Holds, Closed, Stored
    <3>4. CASE req[q].op # "commit"
      BY <3>1, <3>2, <3>4 DEF Holds
    <3>5. QED
      BY <3>3, <3>4
  <2>3. QED
    BY <2>1, <2>2
<1>4. QED
  BY <1>1, <1>2, <1>3 DEF IInv

\* A step that writes nothing keeps the invariant when its request holds what
\* it needs.
LEMMA ContinueKeeps ==
    ASSUME IInv, NEW p \in Requests, NEW r, Continue(p, r), Holds(r)
    PROVE  IInv'
<1>1. /\ UNCHANGED <<tables, numbers, guests, seats, raced>> /\ DOMAIN req' = Requests
      /\ \A q \in Requests : req'[q] = IF q = p THEN r ELSE req[q]
  BY DEF Continue, IInv, PlanTypeOK
<1>2. PlanTypeOK' /\ IndexMatches'
  BY <1>1 DEF IInv, PlanTypeOK, IndexMatches, Stored
<1>3. ASSUME NEW q \in Requests
      PROVE  Holds(req[q])'
  <2>1. PICK s : s = req'[q]
    OBVIOUS
  <2>2. Holds(s)
    BY <1>1, <2>1 DEF IInv
  <2>3. QED
    BY <1>1, <2>1, <2>2 DEF Holds, Closed, Stored
<1>4. QED
  BY <1>2, <1>3 DEF IInv

\* A transaction waits with a closed write set.
LEMMA TransactionKeeps ==
    ASSUME IInv, NEW p \in Requests, NEW w \in PlanWrites, Closed(w), Transaction(p, w)
    PROVE  IInv'
<1>1. Holds(Committing(w))
  BY DEF Holds, Committing
<1>2. QED
  BY <1>1, ContinueKeeps DEF Transaction

\* A slot that goes idle holds nothing.
LEMMA IdleHolds == Holds(Idle)
BY DEF Holds, Idle

-----------------------------------------------------------------------------
(* Write sets                                                              *)

\* Write sets of the plan are made one collection at a time.
LEMMA PlanWritesParts ==
    /\ NoWrites \in PlanWrites
    /\ \A v \in WriteSets(TableIds, TableDocument),
          i \in WriteSets(Numbers, TableIds \cup {NoTable}) :
            [NoWrites EXCEPT !.tables = v, !.numbers = i] \in PlanWrites
    /\ \A v \in WriteSets(Guests, GuestDocument),
          s \in WriteSets(Places, Guests \cup {NoGuest}) :
            /\ [NoWrites EXCEPT !.guests = v] \in PlanWrites
            /\ [NoWrites EXCEPT !.seats = s, !.guests = v] \in PlanWrites
BY PutType DEF NoWrites, PlanWrites

\* A write set that leaves the tables and the index alone is closed.
LEMMA GuestWritesClosed ==
    ASSUME NEW w, w.tables = Nothing, w.numbers = Nothing
    PROVE  Closed(w)
BY DEF Closed, Nothing

\* The documents that the statements write.
LEMMA TableDocuments ==
    /\ \A phase \in {"none", "stored", "deleted"} :
        NoTableDocument(phase) \in TableDocument /\ NoTableDocument(phase).phase = phase
    /\ \A n \in Numbers, side \in Sides,
          capacity \in Capacities \cup {StandardCapacity, NoCapacity} :
        /\ Table(n, side, capacity) \in TableDocument
        /\ Table(n, side, capacity).phase = "stored"
        /\ Table(n, side, capacity).number = n
BY PlanBoundsAssumption DEF NoTableDocument, Table, TableDocument, Sides, Numbers

\* Fresh ids are different ids of tables that were never stored.
LEMMA FreshIdsShape ==
    ASSUME NEW N, NEW ids \in FreshIds(N)
    PROVE  /\ DOMAIN ids = N
           /\ \A n \in N : ids[n] \in TableIds /\ tables[ids[n]].phase = "none"
           /\ \A m, n \in N : ids[m] = ids[n] => m = n
BY DEF FreshIds, Injection, IsInjective

\* Deleting nothing is writing nothing.
LEMMA DeletingNothing == Deleting({}) = NoWrites
<1> DEFINE docs  == PutAll({}, NoTableDocument("deleted"))
           index == PutAll({tables[t].number : t \in {}}, NoTable)
<1>1. docs = Nothing /\ index = Nothing
  <2>1. docs = Nothing
    BY DEF PutAll, Nothing
  <2>2. index = Nothing
    BY DEF PutAll, Nothing
  <2>3. QED
    BY <2>1, <2>2
<1>2. Deleting({}) = [NoWrites EXCEPT !.tables = docs, !.numbers = index]
  BY DEF Deleting
<1> HIDE DEF docs, index
<1>3. QED
  BY <1>1, <1>2 DEF NoWrites

\* Deleting stored tables takes them from their numbers.
LEMMA DeletingClosed ==
    ASSUME PlanTypeOK, IndexMatches, NEW T \in SUBSET TableIds, \A t \in T : Stored(t)
    PROVE  /\ Deleting(T) \in PlanWrites
           /\ Closed(Deleting(T))
           /\ Deleting(T).tables = PutAll(T, NoTableDocument("deleted"))
           /\ Deleting(T).numbers = PutAll({tables[t].number : t \in T}, NoTable)
<1> DEFINE docs  == PutAll(T, NoTableDocument("deleted"))
           index == PutAll({tables[t].number : t \in T}, NoTable)
<1>1. \A t \in T : tables[t].number \in Numbers /\ numbers[tables[t].number] = t
  BY DEF IndexMatches
<1>2. /\ docs \in WriteSets(TableIds, TableDocument)
      /\ index \in WriteSets(Numbers, TableIds \cup {NoTable})
  <2>1. NoTableDocument("deleted") \in TableDocument
    BY TableDocuments
  <2>2. {tables[t].number : t \in T} \in SUBSET Numbers
    BY <1>1
  <2>3. QED
    BY <2>1, <2>2, PutType
<1>3. /\ Deleting(T) = [NoWrites EXCEPT !.tables = docs, !.numbers = index]
      /\ Deleting(T).tables = docs /\ Deleting(T).numbers = index
  BY DEF Deleting, NoWrites
<1>4. /\ DOMAIN docs = T /\ \A t \in T : docs[t].phase = "deleted"
      /\ DOMAIN index = {tables[t].number : t \in T}
      /\ \A n \in DOMAIN index : index[n] = NoTable
  BY TableDocuments DEF PutAll
<1>5. Deleting(T) \in PlanWrites
  BY <1>2, <1>3, PlanWritesParts
<1> HIDE DEF docs, index
<1>6. Closed(Deleting(T))
  BY <1>1, <1>3, <1>4 DEF Closed
<1>7. QED
  BY <1>3, <1>5, <1>6 DEF docs, index

\* The rows of a request, or of the initialization.
PlanRows(S) == [S -> [side : Sides, capacity : RowCapacities \cup {StandardCapacity}]]

\* Rows that have a table keep it at its number, the others get a new one, and
\* the numbers of deleted tables go to new tables or to none.
LEMMA UpsertingClosed ==
    ASSUME PlanTypeOK, IndexMatches, NEW T \in SUBSET TableIds, \A t \in T : Stored(t),
           NEW S \in SUBSET Numbers, NEW rows \in PlanRows(S),
           NEW ids \in FreshIds(Missing(Deleting(T), rows))
    PROVE  /\ Upserting(Deleting(T), rows, ids) \in PlanWrites
           /\ Closed(Upserting(Deleting(T), rows, ids))
           /\ \A t \in DOMAIN Upserting(Deleting(T), rows, ids).tables :
                \/ Upserting(Deleting(T), rows, ids).tables[t].phase = "stored"
                \/ (t \in T /\ Upserting(Deleting(T), rows, ids).tables[t].phase = "deleted")
           /\ Upserting(Deleting(T), rows, ids).guests = Nothing
           /\ Upserting(Deleting(T), rows, ids).seats = Nothing
<1> DEFINE w0   == Deleting(T)
           new  == Missing(w0, rows)
           kept == {numbers[n] : n \in S \ new}
           fresh == {ids[n] : n \in new}
           Document(t) ==
                IF t \in kept
                THEN LET row == rows[tables[t].number]
                     IN  [tables[t] EXCEPT !.side = row.side,
                                           !.capacity = Given(row.capacity, @)]
                ELSE LET n == CHOOSE m \in new : ids[m] = t
                     IN  Table(n, rows[n].side, Given(rows[n].capacity, NoCapacity))
           docs == [t \in kept \cup fresh |-> Document(t)]
           index == [n \in new |-> ids[n]]
           w == Upserting(w0, rows, ids)
<1>1. /\ w0 \in PlanWrites
      /\ w0.tables = PutAll(T, NoTableDocument("deleted"))
      /\ w0.numbers = PutAll({tables[t].number : t \in T}, NoTable)
  BY DeletingClosed
<1>2. DOMAIN rows = S /\ S \subseteq Numbers
  BY DEF PlanRows
<1>3. /\ DOMAIN ids = new
      /\ \A n \in new : ids[n] \in TableIds /\ tables[ids[n]].phase = "none"
      /\ \A m, n \in new : ids[m] = ids[n] => m = n
  BY FreshIdsShape
<1>4. w = [w0 EXCEPT !.tables = Then(w0.tables, docs), !.numbers = Then(w0.numbers, index)]
  BY <1>2 DEF Upserting
<1>5. /\ DOMAIN w0.tables = T /\ \A t \in T : w0.tables[t].phase = "deleted"
      /\ DOMAIN w0.numbers = {tables[t].number : t \in T}
      /\ \A n \in DOMAIN w0.numbers : w0.numbers[n] = NoTable
  BY <1>1, TableDocuments DEF PutAll
<1>6. new = {n \in S : n \in DOMAIN w0.numbers \/ numbers[n] = NoTable}
  BY <1>2, <1>5 DEF Missing, Install, PlanTypeOK
<1> HIDE DEF w0, new
<1>7. \A n \in S \ new :
        /\ numbers[n] \in TableIds /\ Stored(numbers[n]) /\ tables[numbers[n]].number = n
        /\ numbers[n] \notin T
  <2>1. SUFFICES ASSUME NEW n \in S \ new
                 PROVE  /\ numbers[n] \in TableIds /\ Stored(numbers[n])
                        /\ tables[numbers[n]].number = n /\ numbers[n] \notin T
    OBVIOUS
  <2>2. n \in Numbers /\ numbers[n] # NoTable /\ n \notin DOMAIN w0.numbers
    BY <1>2, <1>6
  <2>3. numbers[n] \in TableIds /\ StaysAt(tables[numbers[n]], n)
    BY <2>2 DEF IndexMatches, PlanTypeOK
  <2>4. QED
    BY <1>5, <2>2, <2>3 DEF StaysAt, Stored
<1>8. /\ \A t \in kept : /\ t \in TableIds /\ Stored(t) /\ t \notin T
                         /\ tables[t].number \in S \ new /\ numbers[tables[t].number] = t
      /\ \A t \in fresh : t \in TableIds /\ ~Stored(t) /\ t \notin kept
  BY <1>3, <1>7 DEF Stored
<1>9. ASSUME NEW t \in kept
      PROVE  /\ docs[t] \in TableDocument /\ docs[t].phase = "stored"
             /\ docs[t].number = tables[t].number
  <2>1. tables[t] \in TableDocument /\ tables[t].phase = "stored"
    BY <1>8 DEF PlanTypeOK, Stored
  <2>2. rows[tables[t].number]
            \in [side : Sides, capacity : Capacities \cup {StandardCapacity, Omitted, NoCapacity}]
    BY <1>8 DEF PlanRows, RowCapacities
  <2>3. docs[t] = [tables[t] EXCEPT !.side = rows[tables[t].number].side,
                                    !.capacity = Given(rows[tables[t].number].capacity, @)]
    OBVIOUS
  <2>4. Given(rows[tables[t].number].capacity, tables[t].capacity)
            \in Capacities \cup {StandardCapacity, NoCapacity}
    BY <2>1, <2>2 DEF Given, TableDocument
  <2> HIDE DEF docs
  <2>5. QED
    BY <2>1, <2>2, <2>3, <2>4 DEF TableDocument
<1>10. ASSUME NEW n \in new
       PROVE  /\ docs[ids[n]] \in TableDocument /\ docs[ids[n]].phase = "stored"
              /\ docs[ids[n]].number = n
  <2>1. (CHOOSE m \in new : ids[m] = ids[n]) = n
    BY <1>3
  <2>2. ids[n] \in fresh /\ ids[n] \notin kept
    BY <1>8
  <2>3. docs[ids[n]] = Table(n, rows[n].side, Given(rows[n].capacity, NoCapacity))
    BY <2>1, <2>2
  <2>4. n \in Numbers /\ rows[n].side \in Sides
        /\ Given(rows[n].capacity, NoCapacity) \in Capacities \cup {StandardCapacity, NoCapacity}
    BY <1>2, <1>6 DEF Given, PlanRows, RowCapacities
  <2> HIDE DEF docs
  <2>5. QED
    BY <2>3, <2>4, TableDocuments
<1>11. DOMAIN docs = kept \cup fresh /\ DOMAIN index = new /\ \A n \in new : index[n] = ids[n]
  OBVIOUS
<1> HIDE DEF docs, w, index
<1>12. /\ w \in PlanWrites
       /\ w.tables = Then(w0.tables, docs) /\ w.numbers = Then(w0.numbers, index)
  <2>1. docs \in WriteSets(TableIds, TableDocument)
    <3>1. docs \in [kept \cup fresh -> TableDocument]
      <4>1. \A t \in kept \cup fresh : docs[t] \in TableDocument
        BY <1>9, <1>10
      <4>2. QED
        BY <4>1 DEF docs
    <3>2. kept \cup fresh \in SUBSET TableIds
      BY <1>8
    <3>3. QED
      BY <3>1, <3>2, WriteSetIntro
  <2>2. index \in WriteSets(Numbers, TableIds \cup {NoTable})
    <3>1. index \in [new -> TableIds \cup {NoTable}]
      BY <1>3 DEF index
    <3>2. new \in SUBSET Numbers
      BY <1>2, <1>6
    <3>3. QED
      BY <3>1, <3>2, WriteSetIntro
  <2>3. /\ w0.tables \in WriteSets(TableIds, TableDocument)
        /\ w0.numbers \in WriteSets(Numbers, TableIds \cup {NoTable})
    BY <1>1 DEF PlanWrites
  <2>4. /\ Then(w0.tables, docs) \in WriteSets(TableIds, TableDocument)
        /\ Then(w0.numbers, index) \in WriteSets(Numbers, TableIds \cup {NoTable})
    BY <2>1, <2>2, <2>3, ThenType
  <2> DEFINE v == Then(w0.tables, docs)
             i == Then(w0.numbers, index)
  <2>5. w = [w0 EXCEPT !.tables = v, !.numbers = i]
    BY <1>4
  <2>6. /\ v \in WriteSets(TableIds, TableDocument)
        /\ i \in WriteSets(Numbers, TableIds \cup {NoTable})
    BY <2>4
  <2> HIDE DEF v, i
  <2>7. w \in PlanWrites /\ w.tables = v /\ w.numbers = i
    BY <1>1, <2>5, <2>6 DEF PlanWrites
  <2>8. QED
    BY <2>7 DEF v, i
<1>13. /\ DOMAIN w.tables = T \cup kept \cup fresh
       /\ \A t \in DOMAIN w.tables :
            w.tables[t] = IF t \in kept \cup fresh THEN docs[t] ELSE w0.tables[t]
       /\ DOMAIN w.numbers = DOMAIN w0.numbers \cup new
       /\ \A n \in DOMAIN w.numbers : w.numbers[n] = IF n \in new THEN ids[n] ELSE NoTable
  BY <1>5, <1>11, <1>12 DEF Then
<1> HIDE DEF fresh, kept
<1>14. Closed(w)
  <2>1. ASSUME NEW t \in DOMAIN w.tables, w.tables[t].phase = "stored"
        PROVE  LET n == w.tables[t].number
               IN  /\ n \in Numbers
                   /\ \/ n \in DOMAIN w.numbers /\ w.numbers[n] = t
                      \/ n \notin DOMAIN w.numbers /\ StaysAt(tables[t], n)
    <3>1. CASE t \in kept
      BY <1>2, <1>6, <1>8, <1>9, <1>13, <3>1 DEF StaysAt, Stored
    <3>2. CASE t \in fresh
      <4>1. PICK n \in new : t = ids[n]
        BY <3>2 DEF fresh
      <4>2. QED
        BY <1>2, <1>6, <1>10, <1>13, <3>2, <4>1
    <3>3. QED
      BY <1>5, <1>13, <2>1, <3>1, <3>2
  <2>2. ASSUME NEW t \in DOMAIN w.tables,
               Stored(t), ~StaysAt(w.tables[t], tables[t].number)
        PROVE  tables[t].number \in DOMAIN w.numbers
    <3>1. t \notin kept
      BY <1>9, <1>13, <2>2 DEF StaysAt
    <3>2. t \in T
      BY <1>8, <1>13, <2>2, <3>1
    <3>3. QED
      BY <1>5, <1>13, <3>2
  <2>3. ASSUME NEW n \in DOMAIN w.numbers, numbers[n] # NoTable
        PROVE  numbers[n] \in DOMAIN w.tables
    <3>1. n \in DOMAIN w0.numbers
      BY <1>6, <1>13, <2>3
    <3>2. PICK t \in T : n = tables[t].number
      BY <1>5, <3>1
    <3>3. numbers[n] = t
      BY <3>2 DEF IndexMatches
    <3>4. QED
      BY <1>13, <3>3
  <2>4. ASSUME NEW n \in DOMAIN w.numbers, w.numbers[n] # NoTable
        PROVE  w.numbers[n] \in DOMAIN w.tables /\ StaysAt(w.tables[w.numbers[n]], n)
    <3>1. n \in new /\ w.numbers[n] = ids[n]
      BY <1>13, <2>4
    <3>2. ids[n] \in fresh
      BY <3>1 DEF fresh
    <3>3. QED
      BY <1>10, <1>13, <3>1, <3>2 DEF StaysAt
  <2>5. QED
    BY <2>1, <2>2, <2>3, <2>4 DEF Closed
<1>15. \A t \in DOMAIN w.tables :
          w.tables[t].phase = "stored" \/ (t \in T /\ w.tables[t].phase = "deleted")
  <2>1. SUFFICES ASSUME NEW t \in DOMAIN w.tables
                 PROVE  \/ w.tables[t].phase = "stored"
                        \/ (t \in T /\ w.tables[t].phase = "deleted")
    OBVIOUS
  <2>2. CASE t \in kept
    BY <1>9, <1>13, <2>2
  <2>3. CASE t \in fresh
    <3>1. PICK n \in new : t = ids[n]
      BY <2>3 DEF fresh
    <3>2. QED
      BY <1>10, <1>13, <2>3, <3>1
  <2>4. CASE t \in T /\ t \notin kept \cup fresh
    BY <1>5, <1>13, <2>4
  <2>5. QED
    BY <1>13, <2>2, <2>3, <2>4
<1>16. w.guests = Nothing /\ w.seats = Nothing
  <2>1. w0.guests = Nothing /\ w0.seats = Nothing
    BY DEF w0, Deleting, NoWrites
  <2>2. QED
    BY <1>1, <1>4, <2>1 DEF PlanWrites
<1>17. QED
  BY <1>12, <1>14, <1>15, <1>16 DEF w, w0

-----------------------------------------------------------------------------
(* The handlers of the plan                                                *)

\* The rows of a request are rows of the plan.
LEMMA TableRowsShape ==
    ASSUME NEW rows \in TableRows
    PROVE  \E S \in SUBSET Numbers : rows \in PlanRows(S)
<1>1. PICK S \in SUBSET Numbers :
        rows \in [S -> [side : Sides, capacity : RowCapacities]]
  BY DEF TableRows
<1>2. rows \in PlanRows(S)
  BY <1>1 DEF PlanRows
<1>3. QED
  BY <1>2

\* An upsert after the deletion of stored tables keeps the invariant.
LEMMA UpsertKeeps ==
    ASSUME IInv, NEW p \in Requests, NEW T \in SUBSET TableIds, \A t \in T : Stored(t),
           NEW S \in SUBSET Numbers, NEW rows \in PlanRows(S),
           UpsertTransaction(p, Deleting(T), rows)
    PROVE  IInv'
<1>1. PICK ids \in FreshIds(Missing(Deleting(T), rows)) :
        Transaction(p, Upserting(Deleting(T), rows, ids))
  BY DEF UpsertTransaction
<1>2. /\ Upserting(Deleting(T), rows, ids) \in PlanWrites
      /\ Closed(Upserting(Deleting(T), rows, ids))
  BY UpsertingClosed DEF IInv
<1>3. QED
  BY <1>1, <1>2, TransactionKeeps

LEMMA CreateKeeps == ASSUME IInv, NEW p \in Requests, Create(p) PROVE IInv'
<1>1. PICK n \in Numbers, side \in Sides, capacity \in Capacities \cup {NoCapacity} :
        /\ numbers[n] = NoTable
        /\ \E ids \in FreshIds({n}) :
            Write(p, [NoWrites EXCEPT !.tables  = Put(ids[n], Table(n, side, capacity)),
                                      !.numbers = Put(n, ids[n])], Idle)
  BY DEF Create
<1>2. PICK ids \in FreshIds({n}) :
        Write(p, [NoWrites EXCEPT !.tables  = Put(ids[n], Table(n, side, capacity)),
                                  !.numbers = Put(n, ids[n])], Idle)
  BY <1>1
<1> DEFINE t == ids[n]
           docs == Put(t, Table(n, side, capacity))
           index == Put(n, t)
           w == [NoWrites EXCEPT !.tables = docs, !.numbers = index]
<1>3. t \in TableIds /\ tables[t].phase = "none" /\ t # NoTable
  BY FreshIdsShape, PlanBoundsAssumption
<1>4. /\ Table(n, side, capacity) \in TableDocument
      /\ Table(n, side, capacity).phase = "stored" /\ Table(n, side, capacity).number = n
  BY TableDocuments
<1>5. w \in PlanWrites
  <2>1. /\ docs \in WriteSets(TableIds, TableDocument)
        /\ index \in WriteSets(Numbers, TableIds \cup {NoTable})
    BY <1>3, <1>4, PutType
  <2>2. QED
    BY <2>1, PlanWritesParts
<1>6. Closed(w)
  <2>1. /\ w.tables = docs /\ w.numbers = index
    BY DEF NoWrites
  <2>2. /\ DOMAIN docs = {t} /\ docs[t].phase = "stored" /\ docs[t].number = n
        /\ DOMAIN index = {n} /\ index[n] = t
    BY <1>4 DEF Put
  <2> HIDE DEF w, docs, index, t
  <2>3. QED
    BY <1>1, <1>3, <2>1, <2>2 DEF Closed, Stored, StaysAt
<1>7. Write(p, w, Idle)
  BY <1>2
<1> HIDE DEF w
<1>8. QED
  BY <1>5, <1>6, <1>7, WriteKeeps

LEMMA BulkKeeps == ASSUME IInv, NEW p \in Requests, Bulk(p) PROVE IInv'
<1>1. PICK rows \in TableRows : UpsertTransaction(p, Deleting({}), rows)
  BY DeletingNothing DEF Bulk
<1>2. PICK S \in SUBSET Numbers : rows \in PlanRows(S)
  BY TableRowsShape
<1>3. QED
  BY <1>1, <1>2, UpsertKeeps

LEMMA ReplaceKeeps == ASSUME IInv, NEW p \in Requests, Replace(p) PROVE IInv'
<1>1. PICK rows \in TableRows :
        UpsertTransaction(p, Deleting({t \in TableIds : Stored(t)
                                           /\ tables[t].number \notin DOMAIN rows}), rows)
  BY DEF Replace
<1>2. PICK S \in SUBSET Numbers : rows \in PlanRows(S)
  BY TableRowsShape
<1>3. QED
  BY <1>1, <1>2, UpsertKeeps

LEMMA GenerateKeeps == ASSUME IInv, NEW p \in Requests, Generate(p) PROVE IInv'
<1>1. PICK rows \in TableRows, replace \in BOOLEAN :
        UpsertTransaction(p, IF replace THEN Deleting({t \in TableIds : Stored(t)})
                             ELSE NoWrites, rows)
  BY DEF Generate
<1>2. PICK S \in SUBSET Numbers : rows \in PlanRows(S)
  BY TableRowsShape
<1>3. CASE replace
  <2>1. UpsertTransaction(p, Deleting({t \in TableIds : Stored(t)}), rows)
    BY <1>1, <1>3
  <2>2. QED
    BY <1>2, <2>1, UpsertKeeps
<1>4. CASE ~replace
  <2>1. UpsertTransaction(p, Deleting({}), rows)
    BY <1>1, <1>4, DeletingNothing
  <2>2. QED
    BY <1>2, <2>1, UpsertKeeps
<1>5. QED
  BY <1>3, <1>4

LEMMA InitializeKeeps == ASSUME IInv, NEW p \in Requests, Initialize(p) PROVE IInv'
<1> DEFINE missing == {n \in 1 .. StandardCount : numbers[n] = NoTable}
           rows == [n \in missing |-> [side |-> StandardSide(n), capacity |-> StandardCapacity]]
<1>1. UpsertTransaction(p, Deleting({}), rows)
  BY DeletingNothing DEF Initialize
<1>2. missing \in SUBSET Numbers
  BY PlanBoundsAssumption DEF Numbers
<1>3. rows \in PlanRows(missing)
  BY DEF PlanRows, StandardSide, Sides
<1> HIDE DEF rows, missing
<1>4. QED
  BY <1>1, <1>2, <1>3, UpsertKeeps

\* What an update or a removal has looked up is kept until it writes.
LEMMA LookKeeps ==
    ASSUME IInv, NEW p \in Requests,
           \/ UpdateReadTable(p) \/ UpdateReadSeats(p) \/ RemoveReadTable(p) \/ RemoveCountGuests(p)
    PROVE  IInv'
<1>1. Holds(req[p])
  BY DEF IInv
<1>2. CASE UpdateReadTable(p)
  <2>1. PICK t \in TableIds, n \in Numbers \cup {Omitted}, side \in Sides \cup {Omitted},
             capacity \in Capacities \cup {NoCapacity, Omitted} :
          Continue(p, [op |-> IF capacity = Omitted THEN "updateWrite" ELSE "updateRead",
                       table |-> t, number |-> n, side |-> side, capacity |-> capacity])
    BY <1>2 DEF UpdateReadTable
  <2>2. Holds([op |-> IF capacity = Omitted THEN "updateWrite" ELSE "updateRead",
               table |-> t, number |-> n, side |-> side, capacity |-> capacity])
    BY DEF Holds, UpdateRequest
  <2>3. QED
    BY <2>1, <2>2, ContinueKeeps
<1>3. CASE UpdateReadSeats(p)
  <2>1. /\ req[p] \in UpdateRequest
        /\ Continue(p, [req[p] EXCEPT !.op = "updateWrite"])
    BY <1>1, <1>3 DEF UpdateReadSeats, At, Holds
  <2>2. Holds([req[p] EXCEPT !.op = "updateWrite"])
    BY <2>1 DEF Holds, UpdateRequest
  <2>3. QED
    BY <2>1, <2>2, ContinueKeeps
<1>4. CASE RemoveReadTable(p)
  <2>1. PICK t \in TableIds : Continue(p, [op |-> "removeCount", table |-> t])
    BY <1>4 DEF RemoveReadTable
  <2>2. Holds([op |-> "removeCount", table |-> t])
    BY DEF Holds, RemoveRequest
  <2>3. QED
    BY <2>1, <2>2, ContinueKeeps
<1>5. CASE RemoveCountGuests(p)
  <2>1. /\ req[p] \in RemoveRequest
        /\ Continue(p, [req[p] EXCEPT !.op = "removeWrite"])
    BY <1>1, <1>5 DEF RemoveCountGuests, At, Holds
  <2>2. Holds([req[p] EXCEPT !.op = "removeWrite"])
    BY <2>1 DEF Holds, RemoveRequest
  <2>3. QED
    BY <2>1, <2>2, ContinueKeeps
<1>6. QED
  BY <1>2, <1>3, <1>4, <1>5

\* A table takes its new number in the index when it gives up its old one.
LEMMA UpdateWriteKeeps == ASSUME IInv, NEW p \in Requests, UpdateWrite(p) PROVE IInv'
<1> DEFINE t == req[p].table
           m == tables[t].number
           n == Given(req[p].number, m)
           document == Table(n, Given(req[p].side, tables[t].side),
                                Given(req[p].capacity, tables[t].capacity))
           docs == Put(t, document)
           index == Then(Put(m, NoTable), Put(n, t))
           w == [NoWrites EXCEPT !.tables = docs, !.numbers = index]
<1>1. /\ Stored(t) /\ NumberFree(n, t) /\ Write(p, w, Idle)
  BY DEF UpdateWrite
<1>2. req[p] \in UpdateRequest
  BY DEF UpdateWrite, At, IInv, Holds
<1>3. /\ t \in TableIds /\ t # NoTable /\ tables[t] \in TableDocument
      /\ m \in Numbers /\ numbers[m] = t /\ n \in Numbers
  <2>1. t \in TableIds /\ t # NoTable
    BY <1>2, PlanBoundsAssumption DEF UpdateRequest
  <2>2. m \in Numbers /\ numbers[m] = t /\ tables[t] \in TableDocument
    BY <1>1, <2>1 DEF IInv, IndexMatches, PlanTypeOK
  <2>3. n \in Numbers
    BY <1>2, <2>2 DEF UpdateRequest, Given
  <2>4. QED
    BY <2>1, <2>2, <2>3
<1>4. document \in TableDocument /\ document.phase = "stored" /\ document.number = n
  <2>1. /\ Given(req[p].side, tables[t].side) \in Sides
        /\ Given(req[p].capacity, tables[t].capacity)
                \in Capacities \cup {StandardCapacity, NoCapacity}
    BY <1>2, <1>3 DEF UpdateRequest, TableDocument, Given
  <2> HIDE DEF n
  <2>2. QED
    BY <1>3, <2>1, TableDocuments
<1> HIDE DEF document, n, m, t
<1>5. w \in PlanWrites
  <2>1. docs \in WriteSets(TableIds, TableDocument)
    BY <1>3, <1>4, PutType
  <2>2. index \in WriteSets(Numbers, TableIds \cup {NoTable})
    BY <1>3, PutType, ThenType
  <2>3. QED
    BY <2>1, <2>2, PlanWritesParts
<1>6. Closed(w)
  <2>1. /\ w.tables = docs /\ w.numbers = index
    BY DEF NoWrites
  <2>2. /\ DOMAIN docs = {t} /\ docs[t] = document
        /\ DOMAIN index = {m, n} /\ index[n] = t
        /\ \A k \in DOMAIN index : k # n => index[k] = NoTable
    BY DEF Put, Then
  <2>3. \A k \in {m, n} : numbers[k] \in {NoTable, t}
    BY <1>1, <1>3 DEF NumberFree
  <2> HIDE DEF w, docs, index
  <2>4. QED
    BY <1>3, <1>4, <2>1, <2>2, <2>3 DEF Closed, Stored, StaysAt, m
<1> HIDE DEF w
<1>7. QED
  BY <1>1, <1>5, <1>6, WriteKeeps

LEMMA RemoveWriteKeeps == ASSUME IInv, NEW p \in Requests, RemoveWrite(p) PROVE IInv'
<1>1. req[p] \in RemoveRequest
  BY DEF RemoveWrite, At, IInv, Holds
<1>2. /\ req[p].table \in TableIds /\ Stored(req[p].table)
      /\ Write(p, Deleting({req[p].table}), Idle)
  BY <1>1 DEF RemoveWrite, RemoveRequest
<1>3. Deleting({req[p].table}) \in PlanWrites /\ Closed(Deleting({req[p].table}))
  BY <1>2, DeletingClosed DEF IInv
<1>4. QED
  BY <1>2, <1>3, WriteKeeps

-----------------------------------------------------------------------------
(* The handlers of the guests                                              *)

\* A transaction that writes one guest and some seats keeps the invariant.
LEMMA GuestWriteKeeps ==
    ASSUME IInv, NEW p \in Requests, NEW g \in Guests, NEW document \in GuestDocument,
           NEW s \in WriteSets(Places, Guests \cup {NoGuest}),
           Transaction(p, [NoWrites EXCEPT !.seats = s, !.guests = Put(g, document)])
    PROVE  IInv'
<1> DEFINE w == [NoWrites EXCEPT !.seats = s, !.guests = Put(g, document)]
<1>1. w \in PlanWrites
  BY PutType, PlanWritesParts
<1>2. w.tables = Nothing /\ w.numbers = Nothing
  BY DEF NoWrites
<1> HIDE DEF w
<1>3. Closed(w)
  BY <1>2, GuestWritesClosed
<1>4. QED
  BY <1>1, <1>3, TransactionKeeps DEF w

\* A guest is moved to a table, or to none.
LEMMA SeatedType ==
    ASSUME PlanTypeOK, NEW g \in Guests, NEW t \in TableIds \cup {NoTable},
           NEW S \in SUBSET SeatNumbers
    PROVE  Seated(g, t, S) \in GuestDocument
<1>1. guests[g] \in GuestDocument
  BY DEF PlanTypeOK
<1>2. (IF t = NoTable THEN 0 ELSE tables[t].number) \in 0 .. MaxNumber
  BY PlanBoundsAssumption DEF PlanTypeOK, TableDocument
<1>3. QED
  BY <1>1, <1>2 DEF Seated, GuestDocument

LEMMA GuestStepKeeps == ASSUME IInv, NEW p \in Requests, GuestStep(p) PROVE IInv'
<1>1. PlanTypeOK
  BY DEF IInv
<1>2. \A g \in Guests : PutAll(SeatsOf(g), NoGuest) \in WriteSets(Places, Guests \cup {NoGuest})
  BY PutType DEF SeatsOf
<1>3. CASE Assign(p)
  <2>1. PICK g \in Guests, t \in TableIds, S \in SUBSET SeatNumbers :
          Transaction(p, [NoWrites EXCEPT
             !.seats  = Then(PutAll(SeatsOf(g), NoGuest), PutAll({t} \X S, g)),
             !.guests = Put(g, Seated(g, t, S))])
    BY <1>3 DEF Assign
  <2>2. Then(PutAll(SeatsOf(g), NoGuest), PutAll({t} \X S, g))
            \in WriteSets(Places, Guests \cup {NoGuest})
    <3>1. {t} \X S \in SUBSET Places
      BY DEF Places
    <3>2. PutAll({t} \X S, g) \in WriteSets(Places, Guests \cup {NoGuest})
      BY <3>1, PutType
    <3>3. QED
      BY <1>2, <3>2, ThenType
  <2>3. Seated(g, t, S) \in GuestDocument
    BY <1>1, SeatedType
  <2>4. QED
    BY <2>1, <2>2, <2>3, GuestWriteKeeps
<1>4. CASE Unassign(p)
  <2>1. PICK g \in Guests :
          Transaction(p, [NoWrites EXCEPT !.seats  = PutAll(SeatsOf(g), NoGuest),
                                          !.guests = Put(g, Seated(g, NoTable, {}))])
    BY <1>4 DEF Unassign, Leaving
  <2>2. Seated(g, NoTable, {}) \in GuestDocument
    BY <1>1, SeatedType
  <2>3. QED
    BY <1>2, <2>1, <2>2, GuestWriteKeeps
<1>5. CASE RemoveGuest(p)
  <2>1. PICK g \in Guests :
          Transaction(p, [NoWrites EXCEPT
             !.seats  = PutAll(SeatsOf(g), NoGuest),
             !.guests = Put(g, [guests[g] EXCEPT !.phase = "deleted"])])
    BY <1>5 DEF RemoveGuest
  <2>2. [guests[g] EXCEPT !.phase = "deleted"] \in GuestDocument
    BY <1>1 DEF PlanTypeOK, GuestDocument
  <2>3. QED
    BY <1>2, <2>1, <2>2, GuestWriteKeeps
<1>6. QED
  BY <1>3, <1>4, <1>5 DEF GuestStep

-----------------------------------------------------------------------------
(* The invariant and the theorems                                          *)

LEMMA CommitKeeps == ASSUME IInv, NEW p \in Requests, Commit(p) PROVE IInv'
<1>1. req[p].w \in PlanWrites /\ Closed(req[p].w) /\ Write(p, req[p].w, Idle)
  BY DEF Commit, IInv, Holds
<1>2. QED
  BY <1>1, WriteKeeps

\* The couple starts with the standard tables at their numbers.
LEMMA InitHolds == ASSUME Init PROVE IInv
<1> DEFINE Numbered(t) == \E n \in Numbers : numbers[n] = t
           NumberOf(t) == CHOOSE m \in Numbers : numbers[m] = t
<1>1. /\ numbers \in [Numbers -> TableIds \cup {NoTable}]
      /\ \A n \in Numbers : numbers[n] = NoTable <=> n > StandardCount
      /\ \A m, n \in 1 .. StandardCount : numbers[m] = numbers[n] => m = n
  BY DEF Init
<1>2. ASSUME NEW t \in TableIds, Numbered(t)
      PROVE  /\ NumberOf(t) \in Numbers /\ numbers[NumberOf(t)] = t
             /\ tables[t] = Table(NumberOf(t), StandardSide(NumberOf(t)), StandardCapacity)
  BY <1>2 DEF Init
<1>3. ASSUME NEW t \in TableIds, ~Numbered(t)
      PROVE  tables[t] = NoTableDocument("none")
  BY <1>3 DEF Init
<1>4. \A m, n \in Numbers : numbers[m] = numbers[n] /\ numbers[m] # NoTable => m = n
  BY <1>1, PlanBoundsAssumption DEF Numbers
<1>5. tables \in [TableIds -> TableDocument]
  <2>1. ASSUME NEW t \in TableIds
        PROVE  tables[t] \in TableDocument
    <3>1. CASE Numbered(t)
      <4>1. StandardSide(NumberOf(t)) \in Sides
        BY DEF StandardSide, Sides
      <4> HIDE DEF NumberOf
      <4>2. QED
        BY <1>2, <3>1, <4>1, TableDocuments
    <3>2. CASE ~Numbered(t)
      BY <1>3, <3>2, TableDocuments
    <3>3. QED
      BY <3>1, <3>2
  <2>2. /\ DOMAIN tables = TableIds
        /\ tables = [t \in DOMAIN tables |-> tables[t]]
    BY DEF Init
  <2>3. QED
    BY <2>1, <2>2
<1>6. PlanTypeOK
  <2>1. /\ guests \in [Guests -> GuestDocument]
        /\ seats \in [Places -> Guests \cup {NoGuest}]
        /\ raced \subseteq Guests
        /\ DOMAIN req = Requests
    BY PlanBoundsAssumption DEF Init, GuestDocument
  <2>2. QED
    BY <1>1, <1>5, <2>1 DEF PlanTypeOK
<1>7. IndexMatches
  <2>1. ASSUME NEW t \in TableIds, Stored(t)
        PROVE  tables[t].number \in Numbers /\ numbers[tables[t].number] = t
    <3>1. Numbered(t)
      BY <1>3, <2>1, TableDocuments DEF Stored
    <3>2. NumberOf(t) \in Numbers /\ StandardSide(NumberOf(t)) \in Sides
      BY <1>2, <3>1 DEF StandardSide, Sides
    <3>3. tables[t].number = NumberOf(t) /\ numbers[NumberOf(t)] = t
      <4> HIDE DEF NumberOf
      <4>1. QED
        BY <1>2, <3>1, <3>2, TableDocuments
    <3>4. QED
      BY <3>2, <3>3
  <2>2. ASSUME NEW n \in Numbers, numbers[n] # NoTable
        PROVE  StaysAt(tables[numbers[n]], n)
    <3>1. numbers[n] \in TableIds /\ Numbered(numbers[n])
      BY <1>1, <2>2
    <3>2. NumberOf(numbers[n]) = n
      BY <1>2, <1>4, <2>2, <3>1
    <3>3. StandardSide(n) \in Sides
      BY DEF StandardSide, Sides
    <3>4. tables[numbers[n]] = Table(n, StandardSide(n), StandardCapacity)
      BY <1>2, <3>1, <3>2
    <3>5. QED
      BY <3>3, <3>4, TableDocuments DEF StaysAt
  <2>3. QED
    BY <2>1, <2>2 DEF IndexMatches
<1>8. \A p \in Requests : Holds(req[p])
  BY IdleHolds DEF Init
<1>9. QED
  BY <1>6, <1>7, <1>8 DEF IInv

LEMMA NextKeeps == ASSUME IInv, Next PROVE IInv'
<1>1. PICK p \in Requests : PlanStep(p) \/ GuestStep(p) \/ Commit(p) \/ Abort(p)
  BY DEF Next
<1>2. CASE PlanStep(p)
  BY <1>2, CreateKeeps, BulkKeeps, ReplaceKeeps, GenerateKeeps, InitializeKeeps, LookKeeps,
     UpdateWriteKeeps, RemoveWriteKeeps DEF PlanStep
<1>3. CASE Abort(p)
  BY <1>3, IdleHolds, ContinueKeeps DEF Abort
<1>4. QED
  BY <1>1, <1>2, <1>3, GuestStepKeeps, CommitKeeps

LEMMA Invariance == Spec => []IInv
<1>1. IInv /\ UNCHANGED vars => IInv'
  <2>1. SUFFICES ASSUME IInv, UNCHANGED vars
                 PROVE  IInv'
    OBVIOUS
  <2>2. PlanTypeOK' /\ IndexMatches'
    BY <2>1 DEF vars, IInv, PlanTypeOK, IndexMatches, Stored
  <2>3. ASSUME NEW q \in Requests PROVE Holds(req[q])'
    <3>1. PICK s : s = req[q]
      OBVIOUS
    <3>2. Holds(s) /\ req'[q] = s
      BY <2>1, <3>1 DEF vars, IInv
    <3>3. QED
      BY <2>1, <3>2 DEF vars, Holds, Closed, Stored
  <2>4. QED
    BY <2>2, <2>3 DEF IInv
<1>2. QED
  BY <1>1, InitHolds, NextKeeps, PTL DEF Spec

\* Documents, the index and the seats keep their types, whatever requests
\* overlap (PlanTypeOK).
THEOREM PlanTypes == Spec => []PlanTypeOK
<1>1. IInv => PlanTypeOK
  BY DEF IInv
<1>2. QED
  BY <1>1, Invariance, PTL

\* Overlapping upserts, creations, renumberings and deletions leave every stored
\* table as the one that the index has for its number (NumbersUnique).
THEOREM NumbersStayUnique == Spec => []NumbersUnique
<1>1. IInv => NumbersUnique
  BY DEF IInv, IndexMatches, NumbersUnique
<1>2. QED
  BY <1>1, Invariance, PTL

-----------------------------------------------------------------------------
(* Guests keep their tables, but for those that a deletion has met         *)

\* The live guests of the table t have all met a deletion of it.
OnlyRacedAt(t) ==
    \A g \in Guests : Live(g) /\ guests[g].table = t => g \in raced

\* The guest that has a place once w is written over the seats ss.
SeatedAfter(w, ss, place) == IF place \in DOMAIN w.seats THEN w.seats[place] ELSE ss[place]

\* The tables that w deletes have only guests who have met a deletion; a guest
\* that it writes is left on the seats of its mirror at a table that has been
\* stored; and the seats it writes change hands between nobody and the guests
\* it writes.
Fit(w) ==
    /\ \A t \in DOMAIN w.tables :
        \/ w.tables[t].phase = "stored"
        \/ w.tables[t].phase = "deleted" /\ OnlyRacedAt(t)
    /\ \A g \in DOMAIN w.guests : w.guests[g].phase = "live" =>
        /\ w.guests[g].table # NoTable =>
            tables[w.guests[g].table].phase # "none" /\ w.guests[g].table \notin DOMAIN w.tables
        /\ {place \in Places : SeatedAfter(w, seats, place) = g}
               = {w.guests[g].table} \X w.guests[g].mirror
    /\ \A place \in DOMAIN w.seats :
        /\ seats[place] \in {NoGuest} \cup DOMAIN w.guests
        /\ w.seats[place] \in {NoGuest} \cup DOMAIN w.guests

\* What a request commits fits the guests as they are; one that removes a table
\* has counted the guests there.
Stands(r) ==
    /\ r.op = "commit" => Fit(r.w)
    /\ r.op = "removeWrite" => OnlyRacedAt(r.table)

\* The inductive invariant of the placements.
Standing == PlacementStands /\ \A p \in Requests : Stands(req[p])

LEMMA FitLeavesStanding ==
    ASSUME IInv, PlacementStands, NEW p \in Requests, NEW w \in PlanWrites, Fit(w),
           Write(p, w, Idle)
    PROVE  PlacementStands'
<1>1. /\ tables \in [TableIds -> TableDocument] /\ guests \in [Guests -> GuestDocument]
      /\ DOMAIN guests = Guests /\ DOMAIN tables = TableIds /\ DOMAIN seats = Places
  BY DEF IInv, PlanTypeOK
<1>2. /\ \A t \in TableIds :
          tables'[t] = IF t \in DOMAIN w.tables THEN w.tables[t] ELSE tables[t]
      /\ \A g \in Guests :
          guests'[g] = IF g \in DOMAIN w.guests THEN w.guests[g] ELSE guests[g]
      /\ \A place \in Places : seats'[place] = SeatedAfter(w, seats, place)
      /\ raced' = (raced \ DOMAIN w.guests) \cup Meets(w)
  BY <1>1 DEF Write, Install, SeatedAfter
<1>3. ASSUME NEW g \in Guests, guests'[g].phase = "live", g \in DOMAIN w.guests
      PROVE  /\ guests'[g].table # NoTable =>
                tables'[guests'[g].table].phase = "stored" \/ g \in raced'
             /\ {place \in Places : seats'[place] = g} = {guests'[g].table} \X guests'[g].mirror
  <2>1. guests'[g] = w.guests[g] /\ w.guests[g] \in GuestDocument
    <3>1. w.guests \in WriteSets(Guests, GuestDocument)
      BY DEF PlanWrites
    <3>2. QED
      BY <1>2, <1>3, <3>1, WriteSetElim
  <2>2. /\ w.guests[g].table # NoTable =>
            tables[w.guests[g].table].phase # "none" /\ w.guests[g].table \notin DOMAIN w.tables
        /\ {place \in Places : SeatedAfter(w, seats, place) = g}
               = {w.guests[g].table} \X w.guests[g].mirror
    BY <1>3, <2>1 DEF Fit
  <2>3. {place \in Places : seats'[place] = g} = {place \in Places : SeatedAfter(w, seats, place) = g}
    BY <1>2
  <2>4. w.guests[g].table \in TableIds \cup {NoTable}
    BY <2>1 DEF GuestDocument
  <2>5. ASSUME w.guests[g].table # NoTable
        PROVE  tables'[w.guests[g].table].phase = "stored" \/ g \in raced'
    <3>1. PICK t \in TableIds : t = w.guests[g].table
      BY <2>4, <2>5
    <3>2. tables'[t] = tables[t] /\ tables[t].phase \in {"stored", "deleted"}
      BY <1>1, <1>2, <2>2, <2>5, <3>1 DEF TableDocument
    <3>3. tables[t].phase = "deleted" => g \in Meets(w)
      BY <1>3, <2>5, <3>1 DEF Meets, Going
    <3>4. QED
      BY <1>2, <3>1, <3>2, <3>3
  <2>6. QED
    BY <2>1, <2>2, <2>3, <2>5
<1>4. ASSUME NEW g \in Guests, guests'[g].phase = "live", g \notin DOMAIN w.guests
      PROVE  /\ guests'[g].table # NoTable =>
                tables'[guests'[g].table].phase = "stored" \/ g \in raced'
             /\ {place \in Places : seats'[place] = g} = {guests'[g].table} \X guests'[g].mirror
  <2>1. guests'[g] = guests[g] /\ Live(g) /\ (g \in raced => g \in raced')
    BY <1>2, <1>4 DEF Live
  <2>2. /\ guests[g].table # NoTable => Stored(guests[g].table) \/ g \in raced
        /\ SeatsOf(g) = {guests[g].table} \X guests[g].mirror
    BY <2>1 DEF PlacementStands
  <2>3. g # NoGuest
    BY PlanBoundsAssumption
  <2>4. \A place \in Places : seats'[place] = g <=> seats[place] = g
    BY <1>2, <1>4, <2>3 DEF Fit, SeatedAfter
  <2>5. {place \in Places : seats'[place] = g} = SeatsOf(g)
    BY <2>4 DEF SeatsOf
  <2>6. guests[g].table \in TableIds \cup {NoTable}
    BY <1>1 DEF GuestDocument
  <2>7. ASSUME guests[g].table # NoTable
        PROVE  tables'[guests[g].table].phase = "stored" \/ g \in raced
    <3>1. PICK t \in TableIds : t = guests[g].table
      BY <2>6, <2>7
    <3>2. CASE t \in DOMAIN w.tables
      BY <1>2, <2>1, <3>1, <3>2 DEF Fit, OnlyRacedAt
    <3>3. CASE t \notin DOMAIN w.tables
      BY <1>2, <2>2, <2>7, <3>1, <3>3 DEF Stored
    <3>4. QED
      BY <3>1, <3>2, <3>3
  <2>8. QED
    BY <2>1, <2>2, <2>5, <2>7
<1>5. QED
  BY <1>3, <1>4 DEF PlacementStands, Live, Stored, SeatsOf

\* A guest whose seating is written while a deletion of the table is under way
\* meets it: the deletion may still be written.
LEMMA OnlyRacedStay ==
    ASSUME IInv, NEW p \in Requests, NEW w \in PlanWrites, Write(p, w, Idle),
           NEW t \in TableIds, OnlyRacedAt(t), Going(t)
    PROVE  OnlyRacedAt(t)'
<1>1. /\ \A g \in Guests :
          guests'[g] = IF g \in DOMAIN w.guests THEN w.guests[g] ELSE guests[g]
      /\ raced' = (raced \ DOMAIN w.guests) \cup Meets(w)
  BY DEF IInv, PlanTypeOK, Write, Install
<1>2. SUFFICES ASSUME NEW g \in Guests, guests'[g].phase = "live", guests'[g].table = t
               PROVE  g \in raced'
  BY DEF OnlyRacedAt, Live
<1>3. CASE g \in DOMAIN w.guests
  BY <1>1, <1>2, <1>3, PlanBoundsAssumption DEF Meets
<1>4. CASE g \notin DOMAIN w.guests
  BY <1>1, <1>2, <1>4 DEF OnlyRacedAt, Live
<1>5. QED
  BY <1>3, <1>4

\* A pending transaction that does not conflict with a write still fits.
LEMMA SparedStaysFit ==
    ASSUME IInv, NEW p \in Requests, NEW w \in PlanWrites, Fit(w), Write(p, w, Idle),
           NEW q \in Requests, NEW v \in PlanWrites, At(q, "commit"), req[q].w = v,
           Fit(v), ~Conflict(v, w)
    PROVE  Fit(v)'
<1>1. /\ DOMAIN v.guests \cap DOMAIN w.guests = {} /\ DOMAIN v.seats \cap DOMAIN w.seats = {}
      /\ DOMAIN v.guests \subseteq Guests /\ DOMAIN v.seats \subseteq Places
      /\ \A g \in DOMAIN v.guests : v.guests[g] \in GuestDocument
  <2>1. /\ v.guests \in WriteSets(Guests, GuestDocument)
        /\ v.seats \in WriteSets(Places, Guests \cup {NoGuest})
    BY DEF PlanWrites
  <2>2. DOMAIN v = {"tables", "numbers", "guests", "seats"}
    BY DEF PlanWrites
  <2>3. QED
    BY <2>1, <2>2, WriteSetElim DEF Conflict
<1>2. /\ \A t \in TableIds :
          tables'[t] = IF t \in DOMAIN w.tables THEN w.tables[t] ELSE tables[t]
      /\ \A place \in Places : seats'[place] = SeatedAfter(w, seats, place)
  BY DEF IInv, PlanTypeOK, Write, Install, SeatedAfter
<1>3. ASSUME NEW g \in DOMAIN v.guests, v.guests[g].phase = "live"
      PROVE  /\ v.guests[g].table # NoTable =>
                tables'[v.guests[g].table].phase # "none" /\ v.guests[g].table \notin DOMAIN v.tables
             /\ {place \in Places : SeatedAfter(v, seats', place) = g}
                    = {v.guests[g].table} \X v.guests[g].mirror
  <2>1. /\ v.guests[g].table # NoTable =>
            tables[v.guests[g].table].phase # "none" /\ v.guests[g].table \notin DOMAIN v.tables
        /\ {place \in Places : SeatedAfter(v, seats, place) = g}
               = {v.guests[g].table} \X v.guests[g].mirror
    BY <1>3 DEF Fit
  <2>2. g \in Guests /\ g # NoGuest /\ g \notin DOMAIN w.guests
    BY <1>1, PlanBoundsAssumption
  <2>3. \A place \in Places : SeatedAfter(v, seats', place) = g <=> SeatedAfter(v, seats, place) = g
    <3>1. SUFFICES ASSUME NEW place \in Places
                   PROVE  SeatedAfter(v, seats', place) = g <=> SeatedAfter(v, seats, place) = g
      OBVIOUS
    <3>2. CASE place \in DOMAIN v.seats
      BY <3>2 DEF SeatedAfter
    <3>3. CASE place \notin DOMAIN v.seats
      <4>1. SeatedAfter(v, seats, place) = seats[place] /\ SeatedAfter(v, seats', place) = seats'[place]
        BY <3>3 DEF SeatedAfter
      <4>2. seats'[place] = g <=> seats[place] = g
        BY <1>2, <2>2 DEF Fit, SeatedAfter
      <4>3. QED
        BY <4>1, <4>2
    <3>4. QED
      BY <3>2, <3>3
  <2>4. {place \in Places : SeatedAfter(v, seats', place) = g}
            = {place \in Places : SeatedAfter(v, seats, place) = g}
    BY <2>3
  <2>5. v.guests[g].table \in TableIds \cup {NoTable}
    BY <1>1 DEF GuestDocument
  <2>6. v.guests[g].table # NoTable => tables'[v.guests[g].table].phase # "none"
    BY <1>2, <2>1, <2>5 DEF Fit
  <2>7. QED
    BY <2>1, <2>4, <2>6
<1>4. ASSUME NEW place \in DOMAIN v.seats
      PROVE  /\ seats'[place] \in {NoGuest} \cup DOMAIN v.guests
             /\ v.seats[place] \in {NoGuest} \cup DOMAIN v.guests
  BY <1>1, <1>2, <1>4 DEF Fit, SeatedAfter
<1>5. ASSUME NEW t \in DOMAIN v.tables, v.tables[t].phase # "stored"
      PROVE  v.tables[t].phase = "deleted" /\ OnlyRacedAt(t)'
  <2>1. t \in TableIds
    BY WriteSetElim DEF PlanWrites
  <2>2. v.tables[t].phase = "deleted" /\ OnlyRacedAt(t)
    BY <1>5 DEF Fit
  <2>3. Going(t)
    BY <2>2 DEF Going
  <2>4. QED
    BY <2>1, <2>2, <2>3, OnlyRacedStay
<1>6. QED
  BY <1>3, <1>4, <1>5 DEF Fit

\* A write that fits leaves the placements standing.
LEMMA WriteStands ==
    ASSUME IInv, Standing, NEW p \in Requests, NEW w \in PlanWrites, Fit(w), Write(p, w, Idle)
    PROVE  Standing'
<1>1. PlacementStands'
  BY FitLeavesStanding DEF Standing
<1>2. ASSUME NEW q \in Requests PROVE Stands(req[q])'
  <2>1. CASE req'[q] = Idle
    BY <2>1 DEF Stands, Idle
  <2>2. CASE req'[q] # Idle
    <3>1. /\ req'[q] = req[q]
          /\ req[q].op = "commit" => ~Conflict(req[q].w, w)
      BY <2>2 DEF IInv, PlanTypeOK, Write, Spared
    <3>2. Stands(req[q]) /\ Holds(req[q])
      BY DEF Standing, IInv
    <3>3. CASE At(q, "commit")
      <4>1. PICK v : v = req[q].w
        OBVIOUS
      <4>2. v \in PlanWrites /\ Fit(v) /\ ~Conflict(v, w)
        BY <3>1, <3>2, <3>3, <4>1 DEF Stands, Holds, At
      <4>3. Fit(v)'
        BY <3>3, <4>1, <4>2, SparedStaysFit
      <4>4. req'[q].op = "commit" /\ req'[q].w = v
        BY <3>1, <3>3, <4>1 DEF At
      <4>5. QED
        BY <4>3, <4>4 DEF Stands, Fit, OnlyRacedAt, Live
    <3>4. CASE At(q, "removeWrite")
      <4>1. PICK t : t = req[q].table
        OBVIOUS
      <4>2. t \in TableIds /\ OnlyRacedAt(t) /\ Going(t)
        BY <3>2, <3>4, <4>1 DEF Stands, Holds, At, RemoveRequest, Going
      <4>3. OnlyRacedAt(t)'
        BY <4>2, OnlyRacedStay
      <4>4. req'[q].op = "removeWrite" /\ req'[q].table = t
        BY <3>1, <3>4, <4>1 DEF At
      <4>5. QED
        BY <4>3, <4>4 DEF Stands, OnlyRacedAt, Live
    <3>5. CASE ~At(q, "commit") /\ ~At(q, "removeWrite")
      BY <3>1, <3>5 DEF Stands, At
    <3>6. QED
      BY <3>3, <3>4, <3>5
  <2>3. QED
    BY <2>1, <2>2
<1>3. QED
  BY <1>1, <1>2 DEF Standing

\* A step that writes nothing leaves them standing when its request stands.
LEMMA ContinueStands ==
    ASSUME IInv, Standing, NEW p \in Requests, NEW r, Continue(p, r), Stands(r)
    PROVE  Standing'
<1>1. /\ UNCHANGED <<tables, numbers, guests, seats, raced>>
      /\ \A q \in Requests : req'[q] = IF q = p THEN r ELSE req[q]
  BY DEF Continue, IInv, PlanTypeOK
<1>2. PlacementStands'
  BY <1>1 DEF Standing, PlacementStands, Live, Stored, SeatsOf
<1>3. ASSUME NEW q \in Requests PROVE Stands(req[q])'
  <2>1. PICK s : s = req'[q]
    OBVIOUS
  <2>2. Stands(s)
    BY <1>1, <2>1 DEF Standing
  <2>3. QED
    BY <1>1, <2>1, <2>2 DEF Stands, Fit, OnlyRacedAt, Live
<1>4. QED
  BY <1>2, <1>3 DEF Standing

LEMMA TransactionStands ==
    ASSUME IInv, Standing, NEW p \in Requests, NEW w, Fit(w), Transaction(p, w)
    PROVE  Standing'
<1>1. Stands(Committing(w))
  BY DEF Stands, Committing
<1>2. QED
  BY <1>1, ContinueStands DEF Transaction

\* Writing nothing but tables that are stored, or without live guests, fits.
LEMMA TablesFit ==
    ASSUME NEW w, w.guests = Nothing, w.seats = Nothing,
           \A t \in DOMAIN w.tables :
              \/ w.tables[t].phase = "stored"
              \/ w.tables[t].phase = "deleted" /\ OnlyRacedAt(t)
    PROVE  Fit(w)
<1>1. /\ \A g \in DOMAIN w.guests : FALSE
      /\ \A place \in DOMAIN w.seats : FALSE
  BY DEF Nothing
<1>2. QED
  BY <1>1 DEF Fit

LEMMA NobodyRaced == ASSUME NEW t, LiveAt(t) = {} PROVE OnlyRacedAt(t)
BY DEF LiveAt, OnlyRacedAt

\* An upsert that deletes tables where it sees no live guest leaves the
\* placements standing.
LEMMA UpsertStands ==
    ASSUME IInv, Standing, NEW p \in Requests, NEW T \in SUBSET TableIds,
           \A t \in T : Stored(t) /\ LiveAt(t) = {},
           NEW S \in SUBSET Numbers, NEW rows \in PlanRows(S),
           UpsertTransaction(p, Deleting(T), rows)
    PROVE  Standing'
<1>1. PICK ids \in FreshIds(Missing(Deleting(T), rows)) :
        Transaction(p, Upserting(Deleting(T), rows, ids))
  BY DEF UpsertTransaction
<1>2. PICK w : w = Upserting(Deleting(T), rows, ids)
  OBVIOUS
<1>3. /\ \A t \in DOMAIN w.tables :
            w.tables[t].phase = "stored" \/ (t \in T /\ w.tables[t].phase = "deleted")
      /\ w.guests = Nothing /\ w.seats = Nothing
  BY <1>2, UpsertingClosed DEF IInv
<1>4. \A t \in T : OnlyRacedAt(t)
  BY NobodyRaced
<1>5. Fit(w)
  BY <1>3, <1>4, TablesFit
<1>6. QED
  BY <1>1, <1>2, <1>5, TransactionStands

LEMMA CreateStands == ASSUME IInv, Standing, NEW p \in Requests, Create(p) PROVE Standing'
<1>1. PICK n \in Numbers, side \in Sides, capacity \in Capacities \cup {NoCapacity} :
        \E ids \in FreshIds({n}) :
            Write(p, [NoWrites EXCEPT !.tables  = Put(ids[n], Table(n, side, capacity)),
                                      !.numbers = Put(n, ids[n])], Idle)
  BY DEF Create
<1>2. PICK ids \in FreshIds({n}) :
        Write(p, [NoWrites EXCEPT !.tables  = Put(ids[n], Table(n, side, capacity)),
                                  !.numbers = Put(n, ids[n])], Idle)
  BY <1>1
<1> DEFINE docs == Put(ids[n], Table(n, side, capacity))
           index == Put(n, ids[n])
           w == [NoWrites EXCEPT !.tables = docs, !.numbers = index]
<1>3. ids[n] \in TableIds
  BY FreshIdsShape
<1>4. /\ docs \in WriteSets(TableIds, TableDocument)
      /\ index \in WriteSets(Numbers, TableIds \cup {NoTable})
      /\ \A t \in DOMAIN docs : docs[t].phase = "stored"
  <2>1. Table(n, side, capacity) \in TableDocument /\ Table(n, side, capacity).phase = "stored"
    BY TableDocuments
  <2>2. /\ docs \in WriteSets(TableIds, TableDocument)
        /\ index \in WriteSets(Numbers, TableIds \cup {NoTable})
    BY <1>3, <2>1, PutType
  <2>3. QED
    BY <2>1, <2>2 DEF Put
<1> HIDE DEF docs, index
<1>5. w \in PlanWrites
  BY <1>4, PlanWritesParts
<1>6. w.tables = docs /\ w.guests = Nothing /\ w.seats = Nothing
  BY DEF NoWrites
<1>7. Write(p, w, Idle)
  BY <1>2 DEF docs, index
<1> HIDE DEF w
<1>8. Fit(w)
  BY <1>4, <1>6, TablesFit
<1>9. QED
  BY <1>5, <1>7, <1>8, WriteStands

LEMMA BulkStands ==
    ASSUME IInv, Standing, NEW p \in Requests, Bulk(p) \/ Initialize(p)
    PROVE  Standing'
<1>1. CASE Bulk(p)
  <2>1. PICK rows \in TableRows : UpsertTransaction(p, Deleting({}), rows)
    BY <1>1, DeletingNothing DEF Bulk
  <2>2. PICK S \in SUBSET Numbers : rows \in PlanRows(S)
    BY TableRowsShape
  <2>3. QED
    BY <2>1, <2>2, UpsertStands
<1>2. CASE Initialize(p)
  <2> DEFINE missing == {n \in 1 .. StandardCount : numbers[n] = NoTable}
             rows == [n \in missing |->
                         [side |-> StandardSide(n), capacity |-> StandardCapacity]]
  <2>1. UpsertTransaction(p, Deleting({}), rows)
    BY <1>2, DeletingNothing DEF Initialize
  <2>2. missing \in SUBSET Numbers
    BY PlanBoundsAssumption DEF Numbers
  <2>3. rows \in PlanRows(missing)
    BY DEF PlanRows, StandardSide, Sides
  <2> HIDE DEF rows, missing
  <2>4. QED
    BY <2>1, <2>2, <2>3, UpsertStands
<1>3. QED
  BY <1>1, <1>2

\* A replace looks for live guests at the tables that it deletes.
LEMMA ReplaceStands ==
    ASSUME IInv, Standing, NEW p \in Requests, Replace(p)
    PROVE  Standing'
<1>1. PICK rows \in TableRows :
        LET removed == {t \in TableIds : Stored(t) /\ tables[t].number \notin DOMAIN rows}
        IN  RemovedUnused(removed) /\ UpsertTransaction(p, Deleting(removed), rows)
  BY DEF Replace
<1> DEFINE removed == {t \in TableIds : Stored(t) /\ tables[t].number \notin DOMAIN rows}
<1>2. PICK S \in SUBSET Numbers : rows \in PlanRows(S)
  BY TableRowsShape
<1>3. \A t \in removed : Stored(t) /\ LiveAt(t) = {}
  BY <1>1 DEF RemovedUnused
<1>4. removed \in SUBSET TableIds /\ UpsertTransaction(p, Deleting(removed), rows)
  BY <1>1
<1> HIDE DEF removed
<1>5. QED
  BY <1>2, <1>3, <1>4, UpsertStands

\* A generation that replaces the plan finds no guest at any table.
LEMMA GenerateStands ==
    ASSUME IInv, Standing, NEW p \in Requests, Generate(p)
    PROVE  Standing'
<1>1. PICK rows \in TableRows, replace \in BOOLEAN :
        /\ replace => \A g \in Guests : guests[g].table = NoTable
        /\ UpsertTransaction(p, IF replace THEN Deleting({t \in TableIds : Stored(t)})
                                ELSE NoWrites, rows)
  BY DEF Generate
<1>2. PICK S \in SUBSET Numbers : rows \in PlanRows(S)
  BY TableRowsShape
<1>3. CASE replace
  <2> DEFINE all == {t \in TableIds : Stored(t)}
  <2>1. UpsertTransaction(p, Deleting(all), rows)
    BY <1>1, <1>3
  <2>2. \A t \in all : Stored(t) /\ LiveAt(t) = {}
    BY <1>1, <1>3, PlanBoundsAssumption DEF LiveAt
  <2>3. all \in SUBSET TableIds
    OBVIOUS
  <2> HIDE DEF all
  <2>4. QED
    BY <1>2, <2>1, <2>2, <2>3, UpsertStands
<1>4. CASE ~replace
  <2>1. UpsertTransaction(p, Deleting({}), rows)
    BY <1>1, <1>4, DeletingNothing
  <2>2. QED
    BY <1>2, <2>1, UpsertStands
<1>5. QED
  BY <1>3, <1>4

\* What an update looks up does not matter here; a removal counts the guests of
\* its table.
LEMMA LookStands ==
    ASSUME IInv, Standing, NEW p \in Requests,
           \/ UpdateReadTable(p) \/ UpdateReadSeats(p) \/ RemoveReadTable(p) \/ RemoveCountGuests(p)
    PROVE  Standing'
<1>1. Stands(req[p]) /\ Holds(req[p])
  BY DEF Standing, IInv
<1>2. CASE UpdateReadTable(p)
  <2>1. PICK t \in TableIds, n \in Numbers \cup {Omitted}, side \in Sides \cup {Omitted},
             capacity \in Capacities \cup {NoCapacity, Omitted} :
          Continue(p, [op |-> IF capacity = Omitted THEN "updateWrite" ELSE "updateRead",
                       table |-> t, number |-> n, side |-> side, capacity |-> capacity])
    BY <1>2 DEF UpdateReadTable
  <2>2. Stands([op |-> IF capacity = Omitted THEN "updateWrite" ELSE "updateRead",
                table |-> t, number |-> n, side |-> side, capacity |-> capacity])
    BY DEF Stands
  <2>3. QED
    BY <2>1, <2>2, ContinueStands
<1>3. CASE UpdateReadSeats(p)
  <2>1. /\ req[p] \in UpdateRequest
        /\ Continue(p, [req[p] EXCEPT !.op = "updateWrite"])
    BY <1>1, <1>3 DEF UpdateReadSeats, At, Holds
  <2>2. Stands([req[p] EXCEPT !.op = "updateWrite"])
    BY <2>1 DEF Stands, UpdateRequest
  <2>3. QED
    BY <2>1, <2>2, ContinueStands
<1>4. CASE RemoveReadTable(p)
  <2>1. PICK t \in TableIds : Continue(p, [op |-> "removeCount", table |-> t])
    BY <1>4 DEF RemoveReadTable
  <2>2. Stands([op |-> "removeCount", table |-> t])
    BY DEF Stands
  <2>3. QED
    BY <2>1, <2>2, ContinueStands
<1>5. CASE RemoveCountGuests(p)
  <2>1. /\ req[p] \in RemoveRequest
        /\ \A g \in Guests : guests[g].table # req[p].table
        /\ Continue(p, [req[p] EXCEPT !.op = "removeWrite"])
    BY <1>1, <1>5 DEF RemoveCountGuests, At, Holds, Stands
  <2>2. Stands([req[p] EXCEPT !.op = "removeWrite"])
    BY <2>1 DEF Stands, RemoveRequest, OnlyRacedAt
  <2>3. QED
    BY <2>1, <2>2, ContinueStands
<1>6. QED
  BY <1>2, <1>3, <1>4, <1>5

\* An update stores its table again.
LEMMA UpdateWriteStands ==
    ASSUME IInv, Standing, NEW p \in Requests, UpdateWrite(p)
    PROVE  Standing'
<1> DEFINE t == req[p].table
           m == tables[t].number
           n == Given(req[p].number, m)
           document == Table(n, Given(req[p].side, tables[t].side),
                                Given(req[p].capacity, tables[t].capacity))
           docs == Put(t, document)
           index == Then(Put(m, NoTable), Put(n, t))
           w == [NoWrites EXCEPT !.tables = docs, !.numbers = index]
<1>1. Stored(t) /\ Write(p, w, Idle)
  BY DEF UpdateWrite
<1>2. req[p] \in UpdateRequest
  BY DEF UpdateWrite, At, IInv, Holds
<1>3. /\ t \in TableIds /\ tables[t] \in TableDocument /\ m \in Numbers /\ n \in Numbers
  <2>1. t \in TableIds
    BY <1>2 DEF UpdateRequest
  <2>2. m \in Numbers /\ tables[t] \in TableDocument
    BY <1>1, <2>1 DEF IInv, IndexMatches, PlanTypeOK
  <2>3. n \in Numbers
    BY <1>2, <2>2 DEF UpdateRequest, Given
  <2>4. QED
    BY <2>1, <2>2, <2>3
<1>4. document \in TableDocument /\ document.phase = "stored"
  <2>1. /\ Given(req[p].side, tables[t].side) \in Sides
        /\ Given(req[p].capacity, tables[t].capacity)
                \in Capacities \cup {StandardCapacity, NoCapacity}
    BY <1>2, <1>3 DEF UpdateRequest, TableDocument, Given
  <2> HIDE DEF n
  <2>2. QED
    BY <1>3, <2>1, TableDocuments
<1> HIDE DEF document, n, m, t
<1>5. /\ docs \in WriteSets(TableIds, TableDocument)
      /\ index \in WriteSets(Numbers, TableIds \cup {NoTable})
      /\ \A k \in DOMAIN docs : docs[k].phase = "stored"
  <2>1. docs \in WriteSets(TableIds, TableDocument)
    BY <1>3, <1>4, PutType
  <2>2. index \in WriteSets(Numbers, TableIds \cup {NoTable})
    BY <1>3, PutType, ThenType
  <2>3. \A k \in DOMAIN docs : docs[k].phase = "stored"
    BY <1>4 DEF Put
  <2>4. QED
    BY <2>1, <2>2, <2>3
<1> HIDE DEF docs, index
<1>6. w \in PlanWrites
  BY <1>5, PlanWritesParts
<1>7. w.tables = docs /\ w.guests = Nothing /\ w.seats = Nothing
  BY DEF NoWrites
<1> HIDE DEF w
<1>8. Fit(w)
  BY <1>5, <1>7, TablesFit
<1>9. QED
  BY <1>1, <1>6, <1>8, WriteStands

\* A removal deletes a table at which only those sit who came since it counted.
LEMMA RemoveWriteStands ==
    ASSUME IInv, Standing, NEW p \in Requests, RemoveWrite(p)
    PROVE  Standing'
<1>1. req[p] \in RemoveRequest /\ OnlyRacedAt(req[p].table)
  BY DEF RemoveWrite, At, IInv, Holds, Standing, Stands
<1>2. PICK w : w = Deleting({req[p].table})
  OBVIOUS
<1>3. req[p].table \in TableIds /\ Stored(req[p].table) /\ Write(p, w, Idle)
  BY <1>1, <1>2 DEF RemoveWrite, RemoveRequest
<1>4. w \in PlanWrites /\ w.tables = PutAll({req[p].table}, NoTableDocument("deleted"))
  BY <1>2, <1>3, DeletingClosed DEF IInv
<1>5. w.guests = Nothing /\ w.seats = Nothing
  BY <1>2 DEF Deleting, NoWrites
<1>6. \A t \in DOMAIN w.tables : w.tables[t].phase = "deleted" /\ OnlyRacedAt(t)
  BY <1>1, <1>4, TableDocuments DEF PutAll
<1>7. Fit(w)
  BY <1>5, <1>6, TablesFit
<1>8. QED
  BY <1>3, <1>4, <1>7, WriteStands

-----------------------------------------------------------------------------
(* The handlers of the guests leave them standing                          *)

\* A transaction that writes one guest and its seats leaves the placements
\* standing: ss are the seats that it gives the guest, out of free ones and
\* its own.
LEMMA GuestWriteStands ==
    ASSUME IInv, Standing, NEW p \in Requests, NEW g \in Guests, NEW document, NEW s,
           \A place \in DOMAIN s : seats[place] \in {NoGuest, g} /\ s[place] \in {NoGuest, g},
           document.phase = "live" =>
              /\ document.table # NoTable => Stored(document.table)
              /\ {place \in Places : (IF place \in DOMAIN s THEN s[place] ELSE seats[place]) = g}
                    = {document.table} \X document.mirror,
           Transaction(p, [NoWrites EXCEPT !.seats = s, !.guests = Put(g, document)])
    PROVE  Standing'
<1> DEFINE docs == Put(g, document)
           w == [NoWrites EXCEPT !.seats = s, !.guests = docs]
<1>1. w.tables = Nothing /\ w.guests = docs /\ w.seats = s
  BY DEF NoWrites
<1>2. DOMAIN docs = {g} /\ docs[g] = document
  BY DEF Put
<1>3. DOMAIN w.tables = {}
  BY <1>1 DEF Nothing
<1>4. Transaction(p, w)
  OBVIOUS
<1> HIDE DEF w, docs
<1>5. {place \in Places : SeatedAfter(w, seats, place) = g}
        = {place \in Places : (IF place \in DOMAIN s THEN s[place] ELSE seats[place]) = g}
  BY <1>1 DEF SeatedAfter
<1>6. Fit(w)
  BY <1>1, <1>2, <1>3, <1>5 DEF Fit, Stored
<1>7. QED
  BY <1>4, <1>6, TransactionStands

\* A guest is seated on seats that were free or its own, and nowhere else.
LEMMA AssignStands == ASSUME IInv, Standing, NEW p \in Requests, Assign(p) PROVE Standing'
<1>1. PICK g \in Guests, t \in TableIds, S \in SUBSET SeatNumbers :
        /\ Stored(t)
        /\ \A s \in S : seats[<<t, s>>] \in {NoGuest, g}
        /\ Transaction(p, [NoWrites EXCEPT
             !.seats  = Then(PutAll(SeatsOf(g), NoGuest), PutAll({t} \X S, g)),
             !.guests = Put(g, Seated(g, t, S))])
  BY DEF Assign
<1> DEFINE ss == Then(PutAll(SeatsOf(g), NoGuest), PutAll({t} \X S, g))
           document == Seated(g, t, S)
<1>2. /\ DOMAIN ss = SeatsOf(g) \cup ({t} \X S)
      /\ \A place \in DOMAIN ss : ss[place] = IF place \in {t} \X S THEN g ELSE NoGuest
  BY DEF Then, PutAll
<1>3. t # NoTable /\ g # NoGuest /\ {t} \X S \subseteq Places
  BY PlanBoundsAssumption DEF Places
<1>4. document.table = t /\ document.mirror = S
  <2>1. guests[g] \in GuestDocument
    BY DEF IInv, PlanTypeOK
  <2>2. QED
    BY <2>1 DEF Seated, GuestDocument
<1> HIDE DEF ss, document
<1>5. \A place \in DOMAIN ss : seats[place] \in {NoGuest, g} /\ ss[place] \in {NoGuest, g}
  <2>1. \A place \in {t} \X S : seats[place] \in {NoGuest, g}
    BY <1>1
  <2>2. \A place \in SeatsOf(g) : seats[place] = g
    BY DEF SeatsOf
  <2>3. QED
    BY <1>2, <2>1, <2>2
<1>6. {place \in Places : (IF place \in DOMAIN ss THEN ss[place] ELSE seats[place]) = g} = {t} \X S
  BY <1>2, <1>3 DEF SeatsOf
<1>7. Transaction(p, [NoWrites EXCEPT !.seats = ss, !.guests = Put(g, document)])
  BY <1>1 DEF ss, document
<1>8. QED
  BY <1>1, <1>4, <1>5, <1>6, <1>7, GuestWriteStands

\* A guest that leaves its seats has none.
LEMMA LeaveStands ==
    ASSUME IInv, Standing, NEW p \in Requests, Unassign(p) \/ RemoveGuest(p)
    PROVE  Standing'
<1>1. \A g \in Guests :
        LET ss == PutAll(SeatsOf(g), NoGuest)
        IN  /\ \A place \in DOMAIN ss : seats[place] \in {NoGuest, g} /\ ss[place] \in {NoGuest, g}
            /\ {place \in Places : (IF place \in DOMAIN ss THEN ss[place] ELSE seats[place]) = g}
                  = {}
  BY PlanBoundsAssumption DEF PutAll, SeatsOf
<1>2. \A g \in Guests : guests[g] \in GuestDocument
  BY DEF IInv, PlanTypeOK
<1>3. CASE Unassign(p)
  <2>1. PICK g \in Guests :
          Transaction(p, [NoWrites EXCEPT !.seats  = PutAll(SeatsOf(g), NoGuest),
                                          !.guests = Put(g, Seated(g, NoTable, {}))])
    BY <1>3 DEF Unassign, Leaving
  <2>2. PICK document : document = Seated(g, NoTable, {})
    OBVIOUS
  <2>3. document.table = NoTable /\ document.mirror = {}
    BY <1>2, <2>2 DEF Seated, GuestDocument
  <2>4. {document.table} \X document.mirror = {}
    BY <2>3
  <2> DEFINE ss == PutAll(SeatsOf(g), NoGuest)
  <2>5. /\ \A place \in DOMAIN ss : seats[place] \in {NoGuest, g} /\ ss[place] \in {NoGuest, g}
        /\ {place \in Places : (IF place \in DOMAIN ss THEN ss[place] ELSE seats[place]) = g} = {}
    BY <1>1
  <2>6. Transaction(p, [NoWrites EXCEPT !.seats = ss, !.guests = Put(g, document)])
    BY <2>1, <2>2
  <2> HIDE DEF ss
  <2>7. QED
    BY <2>3, <2>4, <2>5, <2>6, GuestWriteStands
<1>4. CASE RemoveGuest(p)
  <2>1. PICK g \in Guests :
          Transaction(p, [NoWrites EXCEPT
             !.seats  = PutAll(SeatsOf(g), NoGuest),
             !.guests = Put(g, [guests[g] EXCEPT !.phase = "deleted"])])
    BY <1>4 DEF RemoveGuest
  <2>2. PICK document : document = [guests[g] EXCEPT !.phase = "deleted"]
    OBVIOUS
  <2>3. document.phase = "deleted"
    BY <1>2, <2>2 DEF GuestDocument
  <2> DEFINE ss == PutAll(SeatsOf(g), NoGuest)
  <2>4. \A place \in DOMAIN ss : seats[place] \in {NoGuest, g} /\ ss[place] \in {NoGuest, g}
    BY <1>1
  <2>5. Transaction(p, [NoWrites EXCEPT !.seats = ss, !.guests = Put(g, document)])
    BY <2>1, <2>2
  <2> HIDE DEF ss
  <2>6. QED
    BY <2>3, <2>4, <2>5, GuestWriteStands
<1>5. QED
  BY <1>3, <1>4

LEMMA NextStands == ASSUME IInv, Standing, Next PROVE Standing'
<1>1. PICK p \in Requests : PlanStep(p) \/ GuestStep(p) \/ Commit(p) \/ Abort(p)
  BY DEF Next
<1>2. CASE PlanStep(p)
  BY <1>2, CreateStands, BulkStands, ReplaceStands, GenerateStands, LookStands,
     UpdateWriteStands, RemoveWriteStands DEF PlanStep
<1>3. CASE GuestStep(p)
  BY <1>3, AssignStands, LeaveStands DEF GuestStep
<1>4. CASE Commit(p)
  <2>1. PICK w : w = req[p].w
    OBVIOUS
  <2>2. w \in PlanWrites /\ Fit(w) /\ Write(p, w, Idle)
    BY <1>4, <2>1 DEF Commit, IInv, Holds, Standing, Stands
  <2>3. QED
    BY <2>2, WriteStands
<1>5. CASE Abort(p)
  <2>1. Stands(Idle)
    BY DEF Stands, Idle
  <2>2. QED
    BY <1>5, <2>1, ContinueStands DEF Abort
<1>6. QED
  BY <1>1, <1>2, <1>3, <1>4, <1>5

LEMMA InitStands == ASSUME Init PROVE Standing
<1>1. \A g \in Guests : guests[g].table = NoTable /\ guests[g].mirror = {} /\ SeatsOf(g) = {}
  BY PlanBoundsAssumption DEF Init, SeatsOf
<1>2. PlacementStands
  BY <1>1 DEF PlacementStands
<1>3. \A p \in Requests : Stands(req[p])
  BY DEF Init, Stands, Idle
<1>4. QED
  BY <1>2, <1>3 DEF Standing

\* However replaces, generations, deletions, renumberings and seatings overlap,
\* no guest loses its table but one who was seated there between the check of a
\* deletion and its write (PlacementStands).
THEOREM PlacementsStand == Spec => []PlacementStands
<1>1. IInv /\ Standing /\ UNCHANGED vars => Standing'
  <2>1. SUFFICES ASSUME IInv, Standing, UNCHANGED vars
                 PROVE  Standing'
    OBVIOUS
  <2>2. PlacementStands'
    BY <2>1 DEF vars, Standing, PlacementStands, Live, Stored, SeatsOf
  <2>3. ASSUME NEW q \in Requests PROVE Stands(req[q])'
    BY <2>1 DEF vars, Standing, Stands, Fit, OnlyRacedAt, Live
  <2>4. QED
    BY <2>2, <2>3 DEF Standing
<1>2. IInv /\ Standing /\ Next => Standing'
  BY NextStands
<1>3. Init => Standing
  BY InitStands
<1>4. Standing => PlacementStands
  BY DEF Standing
<1>5. QED
  BY <1>1, <1>2, <1>3, <1>4, Invariance, PTL DEF Spec
===============================================================================
