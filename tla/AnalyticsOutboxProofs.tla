------------------------ MODULE AnalyticsOutboxProofs ------------------------
(***************************************************************************)
(* AnalyticsOutbox implements ExactlyOnce, for any accounts, events and     *)
(* sizes.                                                                   *)
(***************************************************************************)
EXTENDS AnalyticsOutbox, FiniteSetTheorems, TLAPS

LEMMA NothingEmpty == Cardinality({}) = 0
BY FS_EmptySet

\* Flush sends entries of the owner that are in the outbox, under the account of the token, or
\* sends nothing.
LEMMA FlushSends ==
  ASSUME NEW u, NEW t \in Accounts \cup {None}, NEW timer \in BOOLEAN, Flush(u, t, timer), TypeOK
  PROVE  /\ due' \in BOOLEAN
         /\ \/ UNCHANGED <<upload, carrier, request>>
            \/ /\ upload' \in Batches(u, outbox) /\ upload' # {}
               /\ upload' \subseteq Owned(outbox, u)
               /\ carrier' = t /\ t \in Accounts
               /\ request' = As(t, upload') /\ request = {}
<1>1. CASE UNCHANGED <<upload, carrier, request>>
  BY <1>1 DEF Flush
<1>2. CASE ~ UNCHANGED <<upload, carrier, request>>
  <2>1. /\ Owned(outbox, u) # {} /\ t # None /\ upload = {}
        /\ upload' \in Batches(u, outbox) /\ carrier' = t /\ request' = As(t, upload')
        /\ due' = timer
    BY <1>2 DEF Flush
  <2>2. upload' # {} /\ upload' \subseteq Owned(outbox, u)
    BY <2>1, NothingEmpty, SizeAssumption DEF Batches
  <2>3. request = {}
    BY <2>1 DEF TypeOK, As
  <2>. QED
    BY <2>1, <2>2, <2>3
<1>. QED
  BY <1>1, <1>2

\* The same for the two steps that flush.
LEMMA FlushStep ==
  ASSUME TypeOK, FireTimer \/ \E u, t \in Accounts \cup {None} : SessionChanged(u, t)
  PROVE  /\ due' \in BOOLEAN
         /\ \/ UNCHANGED <<upload, carrier, request>>
            \/ \E u \in Accounts \cup {None} :
                 /\ u = user'
                 /\ upload' \in Batches(u, outbox) /\ upload' # {}
                 /\ upload' \subseteq Owned(outbox, u)
                 /\ carrier' = token' /\ carrier' \in Accounts
                 /\ request' = As(carrier', upload') /\ request = {}
         /\ user' \in Accounts \cup {None} /\ token' \in Accounts \cup {None}
         /\ token' # None => user' # None
         /\ UNCHANGED <<outbox, file, deletion, restarts, deletions, late, rows, erasing, lateErase,
                        observed, counted>>
<1>1. CASE FireTimer
  <2>1. /\ user \in Accounts \cup {None} /\ token \in Accounts \cup {None}
        /\ token # None => user # None
        /\ Flush(user, token, FALSE) /\ user' = user /\ token' = token
    BY <1>1 DEF FireTimer, TypeOK
  <2>2. /\ due' \in BOOLEAN
        /\ \/ UNCHANGED <<upload, carrier, request>>
           \/ /\ upload' \in Batches(user, outbox) /\ upload' # {}
              /\ upload' \subseteq Owned(outbox, user)
              /\ carrier' = token /\ token \in Accounts
              /\ request' = As(token, upload') /\ request = {}
    BY <2>1, FlushSends
  <2>. QED
    BY <1>1, <2>1, <2>2 DEF FireTimer
<1>2. CASE \E u, t \in Accounts \cup {None} : SessionChanged(u, t)
  <2>1. PICK u \in Accounts \cup {None}, t \in Accounts \cup {None} : SessionChanged(u, t)
    BY <1>2
  <2>2. Flush(u, t, due) /\ due \in BOOLEAN /\ user' = u /\ token' = t
    BY <2>1 DEF SessionChanged, TypeOK
  <2>3. /\ due' \in BOOLEAN
        /\ \/ UNCHANGED <<upload, carrier, request>>
           \/ /\ upload' \in Batches(u, outbox) /\ upload' # {}
              /\ upload' \subseteq Owned(outbox, u)
              /\ carrier' = t /\ t \in Accounts
              /\ request' = As(t, upload') /\ request = {}
    BY <2>2, FlushSends
  <2>. QED
    BY <2>1, <2>2, <2>3 DEF SessionChanged
<1>. QED
  BY <1>1, <1>2

\* Every state of desktop and service is well typed; the service works for the current
\* upload only on what that upload holds, and for the account whose token it carries.
THEOREM TypeCorrect == Spec => []TypeOK
<1>1. Init => TypeOK
  <2>. SUFFICES ASSUME Init
                PROVE  TypeOK
    OBVIOUS
  <2>1. restarts \in 0 .. MaxRestarts /\ deletions \in 0 .. MaxDeletions
    BY BoundAssumption DEF Init
  <2>2. rows \in [Entries -> {0, 1}]
    BY DEF Init
  <2>. QED
    BY <2>1, <2>2 DEF Init, TypeOK
<1>2. TypeOK /\ [Next]_vars => TypeOK'
  <2>. SUFFICES ASSUME TypeOK, [Next]_vars
                PROVE  TypeOK'
    OBVIOUS
  <2>. USE DEF TypeOK
  <2>1. CASE \E e \in Events : Record(e)
    <3>1. PICK e \in Events : Record(e)
      BY <2>1
    <3>2. <<user, e>> \in Entries
      BY <3>1 DEF Record, Entries
    <3>3. outbox' \subseteq outbox \cup {<<user, e>>} /\ file' \in {file, outbox'}
      BY <3>1 DEF Record, SaveOutbox
    <3>. QED
      BY <3>1, <3>2, <3>3 DEF Record, service
  <2>2. CASE FireTimer \/ \E u, t \in Accounts \cup {None} : SessionChanged(u, t)
    <3>1. CASE UNCHANGED <<upload, carrier, request>>
      BY <2>2, <3>1, FlushStep
    <3>2. CASE ~ UNCHANGED <<upload, carrier, request>>
      <4>1. /\ upload' # {} /\ upload' \subseteq outbox /\ carrier' \in Accounts
            /\ request' = As(carrier', upload')
        BY <2>2, <3>2, FlushStep DEF Owned
      <4>. QED
        BY <2>2, <4>1, FlushStep, NoneAssumption
    <3>. QED
      BY <3>1, <3>2
  <2>3. CASE UploadOk
    BY <2>3 DEF UploadOk, SaveOutbox, service
  <2>4. CASE UploadFails
    <3>1. request \subseteq Entries
      BY NoneAssumption DEF As, Entries
    <3>. QED
      BY <2>4, <3>1 DEF UploadFails
  <2>5. CASE DeleteAll
    <3>1. deletions' \in 0 .. MaxDeletions
      BY <2>5, BoundAssumption DEF DeleteAll
    <3>. QED
      BY <2>5, <3>1 DEF DeleteAll
  <2>6. CASE DeletionFails
    BY <2>6 DEF DeletionFails, GiveUpDeletion
  <2>7. CASE DeletionOk
    BY <2>7 DEF DeletionOk, SaveOutbox, service
  <2>8. CASE Restart
    <3>1. restarts' \in 0 .. MaxRestarts
      BY <2>8, BoundAssumption DEF Restart
    <3>2. request \subseteq Entries
      BY NoneAssumption DEF As, Entries
    <3>. QED
      BY <2>8, <3>1, <3>2 DEF Restart, GiveUpDeletion
  <2>9. CASE \/ \E some \in SUBSET request : Store(some)
             \/ \E some \in SUBSET late : StoreLate(some)
    <3>1. request \subseteq Entries
      BY NoneAssumption DEF As, Entries
    <3>2. ASSUME NEW some, some \subseteq Entries, Insert(some)
          PROVE  rows' \in [Entries -> {0, 1}] /\ counted' \subseteq Entries
      BY <3>2 DEF Insert
    <3>. QED
      BY <2>9, <3>1, <3>2 DEF Store, StoreLate, desktop
  <2>10. CASE BreakOff
    BY <2>10 DEF BreakOff, desktop
  <2>11. CASE Erase \/ \E a \in Accounts : EraseLate(a)
    BY <2>11 DEF Erase, EraseLate, DeleteRows, desktop
  <2>12. CASE UNCHANGED vars
    BY <2>12 DEF vars, desktop, service
  <2>. QED
    BY <2>1, <2>2, <2>3, <2>4, <2>5, <2>6, <2>7, <2>8, <2>9, <2>10, <2>11, <2>12 DEF Next
<1>. QED
  BY <1>1, <1>2, PTL DEF Spec

\* The service works on entries only.
LEMMA RequestEntries == ASSUME TypeOK PROVE request \subseteq Entries
BY NoneAssumption DEF TypeOK, As, Entries

-----------------------------------------------------------------------------
\* What a step takes away from the places an event may wait in is given up.
LEMMA GivenUp ==
  ASSUME TypeOK, rows' = rows, observed' = observed, Waiting' \subseteq Waiting
  PROVE  Once!Next
<1>. DEFINE lost == Waiting \ Waiting'
<1>1. lost \in SUBSET Once!Pairs
  BY RequestEntries DEF TypeOK, Waiting, Stored, Entries, Once!Pairs
<1>2. Once!GiveUp(lost)
  BY DEF Once!GiveUp
<1>. QED
  BY <1>1, <1>2 DEF Once!Next

\* The service stores what it was sent: what is new of it is counted, and nothing of it
\* waits any more.
LEMMA StoredCounts ==
  ASSUME TypeOK, NEW some, some \subseteq request \cup late, Insert(some),
         outbox' = outbox, file' = file, observed' = observed,
         request' \cup late' \subseteq request \cup late,
         request \cup late \subseteq request' \cup late' \cup some
  PROVE  Once!Next
<1>. DEFINE new == some \ Stored
<1>1. some \subseteq Entries
  BY RequestEntries DEF TypeOK
<1>2. rows \in [Entries -> {0, 1}] /\ rows' \in [Entries -> {0, 1}]
  BY DEF TypeOK, Insert
<1>3. Stored' = Stored \cup some
  BY <1>1, <1>2 DEF Stored, Insert
<1>4. new \subseteq Waiting /\ Waiting' = Waiting \ new
  BY <1>1, <1>3 DEF Waiting
<1>5. rows' = [p \in Entries |-> IF p \in new THEN rows[p] + 1 ELSE rows[p]]
  <2>1. \A p \in Entries : rows'[p] = IF p \in new THEN rows[p] + 1 ELSE rows[p]
    BY <1>2 DEF Insert, Stored
  <2>. QED
    BY <1>2, <2>1
<1>6. Once!Count(new)
  BY <1>4, <1>5 DEF Once!Count, Once!Pairs, Entries
<1>7. new \in SUBSET Once!Pairs
  BY <1>1 DEF Once!Pairs, Entries
<1>. QED
  BY <1>6, <1>7 DEF Once!Next

\* What is kept on the desktop was recorded.
Known == outbox \cup file \cup upload \subseteq observed

LEMMA NothingInvented == Spec => []Known
<1>1. Init => Known
  BY DEF Init, Known
<1>2. TypeOK /\ Known /\ [Next]_vars => Known'
  <2>. SUFFICES ASSUME TypeOK, Known, [Next]_vars
                PROVE  Known'
    OBVIOUS
  <2>1. CASE \E e \in Events : Record(e)
    BY <2>1 DEF Record, SaveOutbox, Known
  <2>2. CASE FireTimer \/ \E u, t \in Accounts \cup {None} : SessionChanged(u, t)
    <3>1. upload' \subseteq upload \cup outbox /\ UNCHANGED <<outbox, file, observed>>
      BY <2>2, FlushStep DEF Owned
    <3>. QED
      BY <3>1 DEF Known
  <2>3. CASE UploadOk \/ UploadFails \/ DeletionOk \/ Restart
    BY <2>3 DEF UploadOk, UploadFails, DeletionOk, Restart, SaveOutbox, Owned, Known
  <2>4. CASE UNCHANGED <<outbox, file, upload, observed>>
    BY <2>4 DEF Known
  <2>5. CASE \/ DeleteAll \/ DeletionFails \/ BreakOff \/ Erase \/ UNCHANGED vars
             \/ \E some \in SUBSET request : Store(some)
             \/ \E some \in SUBSET late : StoreLate(some)
             \/ \E a \in Accounts : EraseLate(a)
    BY <2>4, <2>5 DEF DeleteAll, DeletionFails, BreakOff, Erase, EraseLate, Store, StoreLate,
           desktop, vars
  <2>. QED
    BY <2>1, <2>2, <2>3, <2>5 DEF Next
<1>. QED
  BY <1>1, <1>2, TypeCorrect, PTL DEF Spec

\* A flush under the token of account b diverts its batch to b; under the owner's own token
\* that changes nothing.
LEMMA FlushDiverts ==
  ASSUME TypeOK, Known, FireTimer \/ \E u, t \in Accounts \cup {None} : SessionChanged(u, t)
  PROVE  Once!Next \/ UNCHANGED <<observed, Waiting, rows>>
<1>1. UNCHANGED <<outbox, file, late, rows, observed>>
  BY FlushStep
<1>2. CASE request' = request
  BY <1>1, <1>2 DEF Waiting, Stored
<1>3. CASE request' # request
  <2>1. /\ upload' \subseteq outbox /\ carrier' \in Accounts
        /\ request' = As(carrier', upload') /\ request = {}
    BY <1>3, FlushStep DEF Owned
  <2>2. Stored' = Stored /\ Stored = Once!Counted
    BY <1>1 DEF Stored, Once!Counted, Once!Pairs, Entries
  <2>3. Waiting' = Waiting \cup (As(carrier', upload') \ Once!Counted)
    BY <1>1, <2>1, <2>2 DEF Waiting
  <2>4. Once!Divert(carrier', upload')
    BY <1>1, <2>1, <2>3 DEF Once!Divert, As, Known
  <2>5. upload' \in SUBSET Once!Pairs
    BY <2>1 DEF TypeOK, Entries, Once!Pairs
  <2>. QED
    BY <2>1, <2>4, <2>5 DEF Once!Next
<1>. QED
  BY <1>2, <1>3

\* A deletion takes the rows of one account, and of those what still waits somewhere may be
\* counted again.
LEMMA RowsErased ==
  ASSUME TypeOK, NEW a \in Accounts, DeleteRows(a),
         UNCHANGED <<outbox, file, request, late, observed>>
  PROVE  Once!Next
<1>. DEFINE again == Waiting' \ Waiting
<1>1. rows' = [q \in Once!Pairs |-> IF q[1] = a THEN 0 ELSE rows[q]]
  BY DEF DeleteRows, Once!Pairs, Entries
<1>2. Stored' = {q \in Stored : q[1] # a}
  BY <1>1 DEF TypeOK, Stored, Once!Pairs, Entries
<1>3. Waiting \subseteq Waiting' /\ again \subseteq {q \in Stored : q[1] = a}
  BY <1>2 DEF Waiting
<1>4. Stored = Once!Counted
  BY DEF Stored, Once!Counted, Once!Pairs, Entries
<1>5. Once!Erase(a, again)
  BY <1>1, <1>3, <1>4 DEF Once!Erase
<1>6. again \in SUBSET Once!Pairs
  BY <1>3 DEF Stored, Once!Pairs, Entries
<1>. QED
  BY <1>5, <1>6 DEF Once!Next

LEMMA RecordObserves ==
  ASSUME TypeOK, NEW e \in Events, Record(e)
  PROVE  Once!Next
<1>. DEFINE p == <<user, e>>
            lost == Waiting \ Waiting'
<1>1. /\ p \in Entries /\ rows' = rows /\ Stored' = Stored
      /\ observed' = observed \cup {p} /\ request' = request /\ late' = late
  BY DEF Record, service, TypeOK, Entries, Stored
<1>2. /\ outbox' \subseteq outbox \cup {p} /\ p \in outbox'
      /\ file' \subseteq file \cup outbox'
  BY DEF Record, SaveOutbox
<1>3. Waiting' \subseteq Waiting \cup {p} /\ (p \notin Stored => p \in Waiting')
  BY <1>1, <1>2 DEF Waiting
<1>4. Stored = Once!Counted /\ Waiting' \cap Stored = {}
  BY <1>1 DEF Stored, Waiting, Once!Counted, Once!Pairs, Entries
<1>5. Waiting' = (Waiting \ lost) \cup ({p} \ Once!Counted)
  BY <1>3, <1>4
<1>6. Once!Record(p, lost)
  BY <1>1, <1>5 DEF Once!Record
<1>7. p \in Once!Pairs /\ lost \in SUBSET Once!Pairs
  BY <1>1, RequestEntries DEF TypeOK, Waiting, Entries, Once!Pairs
<1>. QED
  BY <1>6, <1>7 DEF Once!Next

\* The desktop's outbox with its file and the service's table count each event once: every
\* step records, diverts, counts, erases or gives up, or changes nothing of that.
THEOREM CountsOnce == Spec => ImplementsOnce
<1>1. Init => Once!Init
  BY DEF Init, Once!Init, Waiting, Entries, Once!Pairs
<1>2. TypeOK /\ Known /\ [Next]_vars => [Once!Next]_<<observed, Waiting, rows>>
  <2>. SUFFICES ASSUME TypeOK, Known, [Next]_vars
                PROVE  Once!Next \/ UNCHANGED <<observed, Waiting, rows>>
    OBVIOUS
  <2>1. CASE \E e \in Events : Record(e)
    BY <2>1, RecordObserves
  <2>2. CASE FireTimer \/ \E u, t \in Accounts \cup {None} : SessionChanged(u, t)
    BY <2>2, FlushDiverts
  <2>3. CASE \/ UploadOk \/ UploadFails \/ DeleteAll \/ DeletionOk \/ DeletionFails
             \/ Restart \/ BreakOff
    <3>1. /\ outbox' \cup file' \subseteq outbox \cup file
          /\ request' \cup late' \subseteq request \cup late
          /\ rows' = rows /\ observed' = observed
      BY <2>3 DEF UploadOk, UploadFails, DeleteAll, DeletionOk, DeletionFails, Restart,
                  BreakOff, SaveOutbox, Owned, service, desktop
    <3>2. Waiting' \subseteq Waiting
      BY <3>1 DEF Waiting, Stored
    <3>. QED
      BY <3>1, <3>2, GivenUp
  <2>4. CASE \E some \in SUBSET request : Store(some)
    BY <2>4, StoredCounts DEF Store, desktop
  <2>5. CASE \E some \in SUBSET late : StoreLate(some)
    BY <2>5, StoredCounts DEF StoreLate, desktop
  <2>6. CASE Erase \/ \E a \in Accounts : EraseLate(a)
    <3>1. PICK a \in Accounts : DeleteRows(a) /\ UNCHANGED <<desktop, request, late, observed>>
      BY <2>6 DEF Erase, EraseLate, TypeOK
    <3>. QED
      BY <3>1, RowsErased DEF desktop
  <2>7. CASE UNCHANGED vars
    BY <2>7 DEF vars, desktop, service, Waiting, Stored
  <2>. QED
    BY <2>1, <2>2, <2>3, <2>4, <2>5, <2>6, <2>7 DEF Next
<1>. QED
  BY <1>1, <1>2, TypeCorrect, NothingInvented, PTL DEF Spec, ImplementsOnce, Once!Spec

-----------------------------------------------------------------------------
\* What ExactlyOnce specifies is what its name says: no account counts anything twice or that
\* nobody observed, and what is counted does not wait to be counted again.
LEMMA AbstractOnce == Once!Spec => []Once!CountedOnce
<1>. DEFINE OK == /\ rows \in [Once!Pairs -> Nat] /\ Waiting \subseteq Once!Pairs
                  /\ Once!CountedOnce
<1>1. Once!Init => OK
  BY DEF Once!Init, Once!CountedOnce, Once!Counted
<1>2. OK /\ [Once!Next]_<<observed, Waiting, rows>> => OK'
  <2>. SUFFICES ASSUME OK, Once!Next
                PROVE  OK'
    BY DEF Once!CountedOnce, Once!Counted
  <2>. USE DEF Once!CountedOnce, Once!Counted
  <2>1. CASE \E p \in Once!Pairs, lost \in SUBSET Once!Pairs : Once!Record(p, lost)
    BY <2>1 DEF Once!Record
  <2>2. CASE \E lost \in SUBSET Once!Pairs : Once!GiveUp(lost)
    BY <2>2 DEF Once!GiveUp
  <2>3. CASE \E b \in Accounts, some \in SUBSET Once!Pairs : Once!Divert(b, some)
    BY <2>3 DEF Once!Divert, Once!Pairs
  <2>4. CASE \E some \in SUBSET Once!Pairs : Once!Count(some)
    BY <2>4 DEF Once!Count
  <2>5. CASE \E a \in Accounts, again \in SUBSET Once!Pairs : Once!Erase(a, again)
    BY <2>5 DEF Once!Erase
  <2>. QED
    BY <2>1, <2>2, <2>3, <2>4, <2>5 DEF Once!Next
<1>. HIDE DEF OK
<1>3. OK => Once!CountedOnce
  BY DEF OK
<1>. QED
  BY <1>1, <1>2, <1>3, PTL DEF Once!Spec

\* So no order of answers, failures, restarts and deletions makes the service count an event
\* twice for an account, or keeps one it has counted on its way to that account.
THEOREM NothingTwice == Spec => []Once!CountedOnce
BY CountsOnce, AbstractOnce, PTL DEF ImplementsOnce

-----------------------------------------------------------------------------
(* The outbox at its cap *)

\* What is kept on the desktop stays within the caps, and a call carries the events of one
\* account.
Bounded ==
  /\ \A s \in {outbox, file} : IsFiniteSet(s) /\ Cardinality(s) <= MaxOutbox
  /\ IsFiniteSet(upload) /\ Cardinality(upload) <= BatchSize
  /\ \A p, q \in upload : p[1] = q[1]

\* Taking entries away keeps a set within its cap.
LEMMA SmallerFits ==
  ASSUME NEW s, NEW r, NEW n \in Nat, IsFiniteSet(s), Cardinality(s) <= n, r \subseteq s
  PROVE  IsFiniteSet(r) /\ Cardinality(r) <= n
<1>1. IsFiniteSet(r) /\ Cardinality(r) <= Cardinality(s)
  BY FS_Subset
<1>2. Cardinality(r) \in Nat /\ Cardinality(s) \in Nat
  BY <1>1, FS_CardinalityType
<1>. QED
  BY <1>1, <1>2

LEMMA NothingFits ==
  ASSUME NEW n \in Nat
  PROVE  IsFiniteSet({}) /\ Cardinality({}) <= n
BY FS_EmptySet

LEMMA RecordFits ==
  ASSUME Bounded, NEW e \in Events, Record(e)
  PROVE  \A s \in {outbox', file'} : IsFiniteSet(s) /\ Cardinality(s) <= MaxOutbox
<1>. DEFINE entries == outbox \cup {<<user, e>>}
<1>1. CASE UNCHANGED <<outbox, file>>
  BY <1>1 DEF Bounded
<1>2. ASSUME NEW lost \in SUBSET outbox, Cardinality(entries \ lost) <= MaxOutbox,
             SaveOutbox(entries \ lost)
      PROVE  \A s \in {outbox', file'} : IsFiniteSet(s) /\ Cardinality(s) <= MaxOutbox
  <2>1. IsFiniteSet(entries)
    BY FS_AddElement DEF Bounded
  <2>2. IsFiniteSet(entries \ lost)
    BY <2>1, FS_Subset
  <2>3. outbox' = entries \ lost /\ file' \in {file, entries \ lost}
    BY <1>2 DEF SaveOutbox
  <2>. QED
    BY <1>2, <2>2, <2>3 DEF Bounded
<1>. QED
  BY <1>1, <1>2 DEF Record

\* flush cuts its batch from the entries of the account that is signed in.
LEMMA FlushFits ==
  ASSUME Bounded, TypeOK, FireTimer \/ \E u, t \in Accounts \cup {None} : SessionChanged(u, t)
  PROVE  /\ IsFiniteSet(upload') /\ Cardinality(upload') <= BatchSize
         /\ \A p, q \in upload' : p[1] = q[1]
<1>1. CASE UNCHANGED upload
  BY <1>1 DEF Bounded
<1>2. CASE ~ UNCHANGED upload
  <2>1. PICK u \in Accounts \cup {None} : upload' \in Batches(u, outbox)
    BY <1>2, FlushStep
  <2>2. upload' \subseteq Owned(outbox, u) /\ Cardinality(upload') <= BatchSize
    BY <2>1 DEF Batches
  <2>3. IsFiniteSet(upload')
    BY <2>2, FS_Subset DEF Bounded, Owned
  <2>. QED
    BY <2>2, <2>3 DEF Owned
<1>. QED
  BY <1>1, <1>2

\* The outbox, its file and a call never outgrow MAX_OUTBOX_EVENTS and BATCH_SIZE, and a batch
\* is of one account, whatever fails or comes late.
THEOREM StaysBounded == Spec => []Bounded
<1>1. Init => Bounded
  BY NothingFits, SizeAssumption DEF Init, Bounded
<1>2. TypeOK /\ Bounded /\ [Next]_vars => Bounded'
  <2>. SUFFICES ASSUME TypeOK, Bounded, [Next]_vars
                PROVE  Bounded'
    OBVIOUS
  <2>1. CASE \E e \in Events : Record(e)
    <3>1. PICK e \in Events : Record(e)
      BY <2>1
    <3>2. upload' = upload
      BY <3>1 DEF Record
    <3>. QED
      BY <3>1, <3>2, RecordFits DEF Bounded
  <2>2. CASE FireTimer \/ \E u, t \in Accounts \cup {None} : SessionChanged(u, t)
    <3>1. outbox' = outbox /\ file' = file
      BY <2>2, FlushStep
    <3>. QED
      BY <2>2, <3>1, FlushFits DEF Bounded
  <2>3. CASE UploadOk \/ UploadFails \/ DeletionOk \/ Restart
    <3>1. /\ outbox' \subseteq outbox \/ outbox' = file
          /\ file' \in {file, outbox'} /\ upload' \in {upload, {}}
      BY <2>3 DEF UploadOk, UploadFails, DeletionOk, Restart, SaveOutbox, Owned
    <3>2. IsFiniteSet(outbox') /\ Cardinality(outbox') <= MaxOutbox
      BY <3>1, SmallerFits, SizeAssumption DEF Bounded
    <3>3. IsFiniteSet(upload') /\ Cardinality(upload') <= BatchSize
      BY <3>1, NothingFits, SizeAssumption DEF Bounded
    <3>. QED
      BY <3>1, <3>2, <3>3 DEF Bounded
  <2>4. CASE \/ DeleteAll \/ DeletionFails \/ BreakOff \/ Erase \/ UNCHANGED vars
             \/ \E some \in SUBSET request : Store(some)
             \/ \E some \in SUBSET late : StoreLate(some)
             \/ \E a \in Accounts : EraseLate(a)
    <3>1. UNCHANGED <<outbox, file, upload>>
      BY <2>4 DEF DeleteAll, DeletionFails, BreakOff, Erase, EraseLate, Store, StoreLate,
             desktop, vars
    <3>. QED
      BY <3>1 DEF Bounded
  <2>. QED
    BY <2>1, <2>2, <2>3, <2>4 DEF Next
<1>. QED
  BY <1>1, <1>2, TypeCorrect, PTL DEF Spec

-----------------------------------------------------------------------------
(* What leaves the outbox *)

\* The service has counted what it was sent and works on no more.
SentIsCounted == As(carrier, upload) \ request \subseteq counted

LEMMA SentStep ==
  ASSUME TypeOK, SentIsCounted, [Next]_vars
  PROVE  SentIsCounted'
<1>1. CASE upload' = {} \/ request' = As(carrier', upload')
  BY <1>1 DEF SentIsCounted, As
<1>2. CASE UNCHANGED <<upload, carrier, request, counted>>
  BY <1>2 DEF SentIsCounted, As
<1>3. CASE FireTimer \/ \E u, t \in Accounts \cup {None} : SessionChanged(u, t)
  BY <1>1, <1>2, <1>3, FlushStep
<1>4. CASE UploadOk \/ UploadFails \/ Restart
  BY <1>1, <1>4 DEF UploadOk, UploadFails, Restart
<1>5. CASE \/ DeleteAll \/ DeletionOk \/ DeletionFails \/ BreakOff \/ Erase \/ UNCHANGED vars
           \/ \E e \in Events : Record(e)
           \/ \E a \in Accounts : EraseLate(a)
  BY <1>2, <1>5 DEF DeleteAll, DeletionOk, DeletionFails, BreakOff, Erase, EraseLate, Record,
         service,
                    desktop, vars
<1>6. CASE \/ \E some \in SUBSET request : Store(some)
           \/ \E some \in SUBSET late : StoreLate(some)
  <2>1. PICK some : /\ counted' = counted \cup some /\ request \ some \subseteq request'
                    /\ UNCHANGED <<upload, carrier>>
    BY <1>6 DEF Store, StoreLate, Insert, desktop
  <2>2. As(carrier', upload') = As(carrier, upload)
    BY <2>1 DEF As
  <2>. QED
    BY <2>1, <2>2 DEF SentIsCounted
<1>. QED
  BY <1>3, <1>4, <1>5, <1>6 DEF Next

\* Why an entry leaves the outbox.
Leaves(p) ==
  \/ <<carrier, p[2]>> \in counted
  \/ Cardinality(outbox') = MaxOutbox
  \/ deletion = p[1] /\ deletion' = None
  \/ restarts' # restarts

LEMMA LeavesStep ==
  ASSUME TypeOK, SentIsCounted, [Next]_vars
  PROVE  \A p \in outbox \ outbox' : Leaves(p)
<1>1. CASE outbox \subseteq outbox'
  BY <1>1
<1>2. CASE \E e \in Events : Record(e)
  <2>1. PICK e \in Events : Record(e)
    BY <1>2
  <2>. DEFINE entries == outbox \cup {<<user, e>>}
  <2>2. \/ outbox' = outbox
        \/ \E lost \in SUBSET outbox :
             /\ lost # {} => Cardinality(entries \ lost) = MaxOutbox
             /\ outbox' = entries \ lost
    BY <2>1 DEF Record, SaveOutbox
  <2>. QED
    BY <2>2 DEF Leaves
<1>3. CASE UploadOk
  <2>1. outbox' = outbox \ upload /\ request = {}
    BY <1>3 DEF UploadOk, SaveOutbox
  <2>2. \A p \in upload : <<carrier, p[2]>> \in counted
    BY <2>1 DEF SentIsCounted, As
  <2>. QED
    BY <2>1, <2>2 DEF Leaves
<1>4. CASE DeletionOk
  BY <1>4 DEF DeletionOk, SaveOutbox, Owned, Leaves
<1>5. CASE Restart
  BY <1>5, BoundAssumption DEF Restart, TypeOK, Leaves
<1>6. CASE \/ FireTimer \/ UploadFails \/ DeleteAll \/ DeletionFails \/ BreakOff \/ Erase
           \/ \E u, t \in Accounts \cup {None} : SessionChanged(u, t)
           \/ \E some \in SUBSET request : Store(some)
           \/ \E some \in SUBSET late : StoreLate(some)
           \/ \E a \in Accounts : EraseLate(a)
           \/ UNCHANGED vars
  <2>1. outbox' = outbox
    BY <1>6 DEF FireTimer, UploadFails, DeleteAll, DeletionFails, BreakOff, Erase, EraseLate,
       SessionChanged, Store, StoreLate, desktop, vars
  <2>. QED
    BY <1>1, <2>1
<1>. QED
  BY <1>2, <1>3, <1>4, <1>5, <1>6 DEF Next

\* No event is lost on the way while the app runs, the outbox has room and its owner deletes
\* nothing: only what the service has counted leaves the outbox, whoever it counted it for.
THEOREM NoneLeavesUncounted == Spec => KeptUntilCounted
<1>1. Init => SentIsCounted
  BY DEF Init, SentIsCounted, As
<1>2. TypeOK /\ SentIsCounted /\ [Next]_vars => SentIsCounted'
  BY SentStep
<1>3. TypeOK /\ SentIsCounted /\ [Next]_vars => [\A p \in outbox \ outbox' : Leaves(p)]_vars
  BY LeavesStep
<1>4. ASSUME [\A p \in outbox \ outbox' : Leaves(p)]_vars
      PROVE  [\A p \in outbox \ outbox' :
                \/ <<carrier, p[2]>> \in counted
                \/ Cardinality(outbox') = MaxOutbox
                \/ deletion = p[1] /\ deletion' = None
                \/ restarts' # restarts]_vars
  BY <1>4 DEF Leaves
<1>. QED
  BY TypeCorrect, <1>1, <1>2, <1>3, <1>4, PTL DEF Spec, KeptUntilCounted

-----------------------------------------------------------------------------
(* Whose events an account counts *)

OwnToken == token \in {user, None}

\* With the owner's own token, all that is stored or on its way there was recorded.
OwnEvents ==
  /\ Stored \cup request \cup late \subseteq observed
  /\ \A p \in upload : p[1] = carrier

LEMMA OwnStep ==
  ASSUME TypeOK, Known, OwnEvents, OwnToken', [Next]_vars
  PROVE  OwnEvents'
<1>. USE DEF OwnEvents
<1>1. CASE FireTimer \/ \E u, t \in Accounts \cup {None} : SessionChanged(u, t)
  <2>1. UNCHANGED <<late, observed>> /\ Stored' = Stored
    BY <1>1, FlushStep DEF Stored
  <2>2. CASE UNCHANGED <<upload, carrier, request>>
    BY <2>1, <2>2
  <2>3. CASE ~ UNCHANGED <<upload, carrier, request>>
    <3>1. /\ upload' \subseteq Owned(outbox, user')
          /\ carrier' = token' /\ carrier' \in Accounts
          /\ request' = As(carrier', upload')
      BY <1>1, <2>3, FlushStep
    <3>2. carrier' = user'
      BY <3>1, NoneAssumption DEF OwnToken
    <3>3. \A p \in upload' : p[1] = carrier' /\ <<p[1], p[2]>> = p
      BY <3>1, <3>2 DEF Owned, TypeOK, Entries
    <3>4. request' \subseteq upload'
      BY <3>1, <3>3 DEF As
    <3>5. upload' \subseteq observed
      BY <3>1 DEF Owned, Known
    <3>. QED
      BY <2>1, <3>3, <3>4, <3>5
  <2>. QED
    BY <2>2, <2>3
<1>2. CASE UNCHANGED <<late, rows, request, upload, carrier>> /\ observed \subseteq observed'
  BY <1>2 DEF Stored
<1>3. CASE \/ DeleteAll \/ DeletionOk \/ DeletionFails \/ UNCHANGED vars
           \/ \E e \in Events : Record(e)
  BY <1>2, <1>3 DEF DeleteAll, DeletionOk, DeletionFails, GiveUpDeletion, Record, service,
         desktop, vars
<1>4. CASE UploadOk \/ UploadFails \/ Restart \/ BreakOff
  <2>1. /\ rows' = rows /\ observed' = observed
        /\ request' \cup late' \subseteq request \cup late
        /\ upload' = {} \/ UNCHANGED <<upload, carrier>>
    BY <1>4 DEF UploadOk, UploadFails, Restart, BreakOff, service, desktop
  <2>. QED
    BY <2>1 DEF Stored
<1>5. CASE \/ \E some \in SUBSET request : Store(some)
           \/ \E some \in SUBSET late : StoreLate(some)
  <2>1. PICK some \in SUBSET (request \cup late) :
          /\ Insert(some) /\ request' \cup late' \subseteq request \cup late
          /\ UNCHANGED <<upload, carrier, observed>>
    BY <1>5 DEF Store, StoreLate, desktop
  <2>2. Stored' \subseteq Stored \cup some
    BY <2>1 DEF Insert, Stored
  <2>. QED
    BY <2>1, <2>2
<1>6. CASE Erase \/ \E a \in Accounts : EraseLate(a)
  <2>1. PICK a : DeleteRows(a) /\ UNCHANGED <<request, late, upload, carrier, observed>>
    BY <1>6 DEF Erase, EraseLate, desktop
  <2>2. Stored' \subseteq Stored
    BY <2>1 DEF DeleteRows, Stored
  <2>. QED
    BY <2>1, <2>2
<1>. QED
  BY <1>1, <1>3, <1>4, <1>5, <1>6 DEF Next

\* As long as the session never shows one account and carries the token of another, events do
\* not cross an account switch: whatever is lost, stored late, restored from the file or
\* deleted, an account counts only what was recorded while it was signed in.
THEOREM OwnTokenKeepsEvents == Spec /\ []OwnToken => []StaysWithOwner
<1>1. Init => OwnEvents
  BY DEF Init, OwnEvents, Stored
<1>2. TypeOK /\ Known /\ OwnEvents /\ OwnToken' /\ [Next]_vars => OwnEvents'
  BY OwnStep
<1>3. OwnEvents => StaysWithOwner
  BY DEF OwnEvents, StaysWithOwner
<1>. QED
  BY TypeCorrect, NothingInvented, <1>1, <1>2, <1>3, PTL DEF Spec
=============================================================================
