------------------------- MODULE BackupStorageProofs -------------------------
(***************************************************************************)
(* What the service promises of a user's backups, for any number of         *)
(* backups, requests and failures.                                          *)
(*                                                                         *)
(* A request deletes what it has read about some steps before.  That is     *)
(* safe because of what cannot change any more about a backup once its      *)
(* upload is over: no row and no object appears, and it is not acknowledged *)
(* unless it was going to be.  Steady says this of a step.                  *)
(***************************************************************************)
EXTENDS BackupStorage, FiniteSetTheorems, TLAPS

Pending ==
  {b \in Backups : \E r \in Requests : Id(r) = b /\ req[r].at \in {"store", "insert"}}
Over == Begun \ Pending

\* Their uploads have their rows, and are answered with success whatever still fails.
Maintenance == {"retain", "expire", "read", "list", "orphans", "missing"}
Assured(r) == req[r].kind = "upload" /\ req[r].at \in Maintenance
Accepted == acked \cup {b \in Backups : \E r \in Requests : Id(r) = b /\ Assured(r)}

\* The backups whose copies the service owes its user.
Few(b) == Cardinality({c \in Backups : Newer(c, b)}) < Retention
Owed == {b \in Accepted \ (dropped \cup damaged) : user /\ Few(b)}
OwedAreKept == \A b \in Owed : b \in rows /\ objects[b] = "good"

KindFits(r) ==
  /\ req[r].kind \in {"upload", "get", "delete"} => Id(r) \in Backups
  /\ req[r].at \in {"store", "insert", "discard"} => req[r].kind = "upload"
  /\ req[r].at \in {"fetch", "purge", "delete", "drop"} => req[r].kind \in {"get", "delete"}

\* Uploads do not share an id, and have their object before their row.
UploadsApart ==
  \A r, q \in Requests :
    /\ req[r].at \in {"store", "insert"} /\ req[q].at \in {"store", "insert"} /\ Id(r) = Id(q)
    => r = q
UploadFits(r) ==
  /\ req[r].at \in {"store", "insert"} => Id(r) \in Begun
  /\ At(r, "store") => objects[Id(r)] = "none"
  /\ At(r, "insert") => objects[Id(r)] \in {"good", "damaged"} /\ age[Id(r)] < Grace
                        /\ (objects[Id(r)] = "damaged" => Id(r) \in damaged)

\* What a request has read before it deletes still holds, whatever others have done since.
WorkFits(r) ==
  /\ At(r, "discard") => Id(r) \in Over \ Accepted
  /\ req[r].at \in {"expire", "orphans"} => req[r].keys \subseteq Over \ rows
  /\ At(r, "list") => req[r].old \ req[r].known \subseteq Over \ rows /\ req[r].known \subseteq Over
  /\ req[r].at \in {"orphans", "missing"} =>
       \A b \in req[r].known : b \in Over /\ objects[b] = "none"
  /\ req[r].at \in {"fetch", "purge", "delete", "drop"} => Id(r) \in Over
  /\ At(r, "purge") => Id(r) \in damaged \/ Id(r) \notin Accepted
  /\ At(r, "drop") => objects[Id(r)] = "none"
  /\ req[r].at \in {"delete", "drop"} /\ req[r].kind = "delete" => Id(r) \in dropped
  /\ At(r, "delete") => req[r].kind = "delete"
  /\ req[r].at \in {"fetch", "purge"} => req[r].kind = "get"
  /\ At(r, "erase") => req[r].keys \subseteq Over \cap dropped

Past ==
  /\ rows \subseteq Inserted /\ Inserted \subseteq Over
  /\ Accepted \subseteq Over /\ deleted \subseteq Over /\ DeletedIsGone
  /\ Present \subseteq Begun
  /\ \A b \in Backups : objects[b] = "damaged" => b \in damaged \/ b \in Over \ Accepted

Inv ==
  /\ TypeOK /\ UploadsApart /\ Past /\ OwedAreKept
  /\ \A r \in Requests : KindFits(r) /\ UploadFits(r) /\ WorkFits(r)

\* Of two backups one was inserted before the other, and every insertion sees those before it.
Ordered ==
  /\ \A b, c \in Backups : c \in earlier[b] => b \in Inserted /\ c \in Inserted
  /\ \A b, c \in Inserted : b \in earlier[c] \/ c \in earlier[b]
  /\ \A b, c \in Inserted : b \in earlier[c] /\ c \in earlier[b] => b = c
  /\ \A b, c, d \in Inserted : b \in earlier[c] /\ c \in earlier[d] => b \in earlier[d]

Retaining == {r \in Requests : At(r, "retain")}

\* The retention is kept up to the requests that have not come to it and to the failures.
Kept == Ordered /\ IsFiniteSet(Retaining) /\ RetentionHolds

\* What no step changes about the backups whose upload is over.
Steady ==
  /\ Over \subseteq Over' /\ Over \cap rows' \subseteq rows
  /\ \A b \in Over : objects[b] = "none" => objects'[b] = "none"
  /\ Over \cap Accepted' \subseteq Accepted
  /\ dropped \subseteq dropped' /\ damaged \subseteq damaged'

USE DEF Id, At, order

-----------------------------------------------------------------------------
(* Types *)

LEMMA RequestReplaced ==
  ASSUME req \in [Requests -> Request], NEW r \in Requests, NEW x \in Request,
         req' = [req EXCEPT ![r] = x]
  PROVE  req' \in [Requests -> Request] /\ req'[r] = x
         /\ \A q \in Requests \ {r} : req'[q] = req[q]
  OBVIOUS

LEMMA NoRequestIsOne == NoRequest \in Request
  BY DEF NoRequest, Request, Kinds, Stages

LEMMA Moved ==
  ASSUME TypeOK, NEW r \in Requests, NEW stage \in Stages, Goes(r, stage)
  PROVE  /\ [req[r] EXCEPT !.at = stage] \in Request
         /\ req' = [req EXCEPT ![r] = [req[r] EXCEPT !.at = stage]]
<1>1. req[r] \in Request
  BY DEF TypeOK
<1>2. [req[r] EXCEPT !.at = stage] \in Request
  BY <1>1 DEF Request
<1>. QED
  BY <1>2 DEF Goes

LEMMA InitInv == Init => Inv
<1>. SUFFICES ASSUME Init
              PROVE  Inv
  OBVIOUS
<1>1. TypeOK
  BY NoRequestIsOne, NumberAssumption DEF Init, TypeOK
<1>2. \A r \in Requests : req[r] = NoRequest
  BY DEF Init
<1>3. Pending = {} /\ Accepted = {} /\ Owed = {}
  BY <1>2 DEF Init, Pending, Accepted, Assured, Maintenance, Owed, NoRequest
<1>4. Past
  BY <1>3 DEF Init, Past, Over, Inserted, DeletedIsGone, Present
<1>5. UploadsApart /\ \A r \in Requests : KindFits(r) /\ UploadFits(r) /\ WorkFits(r)
  BY <1>2 DEF UploadsApart, KindFits, UploadFits, WorkFits, At, NoRequest
<1>. QED
  BY <1>1, <1>3, <1>4, <1>5 DEF Inv, OwedAreKept
LEMMA TypeStep == Inv /\ [Next]_vars => TypeOK'
<1>. SUFFICES ASSUME Inv, [Next]_vars
              PROVE  TypeOK'
  OBVIOUS
<1>1. TypeOK /\ (\A r \in Requests : KindFits(r))
  BY DEF Inv
<1>r. \A r \in Requests : req[r] \in Request
  BY <1>1 DEF TypeOK
<1>n. NoRequest \in Request
  BY NoRequestIsOne
<1>b. Inserted \subseteq Backups
  BY DEF Inserted
<1>2. ASSUME NEW r \in Requests, NEW b \in Backups,
             PutBackup(r, b) \/ GetBackup(r, b) \/ DeleteBackup(r, b)
      PROVE  TypeOK'
  <2>1. \A kind \in Kinds, stage \in Stages :
           [NoRequest EXCEPT !.at = stage, !.kind = kind, !.id = b] \in Request
    BY DEF NoRequest, Request, Kinds, Stages
  <2>2. req' \in [Requests -> Request]
    BY <1>1, <1>2, <2>1
    DEF TypeOK, PutBackup, GetBackup, DeleteBackup, Starts, Kinds, Stages
  <2>3. now' \in Nat /\ created' \in [Backups -> 0 .. now'] /\ earlier' = earlier
    <3>1. CASE PutBackup(r, b)
      <4>1. now' \in {now, now + 1} /\ created' = [created EXCEPT ![b] = now']
        BY <3>1 DEF PutBackup
      <4>2. now \in Nat /\ created \in [Backups -> 0 .. now]
        BY <1>1 DEF TypeOK
      <4>3. now' \in Nat /\ 0 .. now \subseteq 0 .. now' /\ now' \in 0 .. now'
        BY <4>1, <4>2
      <4>4. created' \in [Backups -> 0 .. now']
        BY <4>1, <4>2, <4>3
      <4>. QED
        BY <3>1, <4>3, <4>4 DEF PutBackup
    <3>2. CASE GetBackup(r, b) \/ DeleteBackup(r, b)
      BY <1>1, <3>2 DEF TypeOK, GetBackup, DeleteBackup
    <3>. QED
      BY <1>2, <3>1, <3>2
  <2>. QED
    BY <1>1, <1>2, <2>2, <2>3 DEF TypeOK, PutBackup, GetBackup, DeleteBackup, seen
<1>3. ASSUME NEW r \in Requests, ListBackups(r)
      PROVE  TypeOK'
  <2>1. [NoRequest EXCEPT !.at = "retain", !.kind = "list", !.id = None] \in Request
    BY DEF NoRequest, Request, Kinds, Stages
  <2>. QED
    BY <1>1, <1>3, <2>1 DEF TypeOK, ListBackups, Starts, seen
<1>4. ASSUME NEW r \in Requests, DeleteUser(r)
      PROVE  TypeOK'
  <2>1. rows \subseteq Backups
    BY <1>1 DEF TypeOK
  <2>2. [NoRequest EXCEPT !.at = "erase", !.kind = "user", !.keys = rows] \in Request
    BY <2>1 DEF NoRequest, Request, Kinds, Stages
  <2>. QED
    BY <1>1, <1>4, <2>1, <2>2 DEF TypeOK, DeleteUser
<1>q. ASSUME NEW r \in Requests, NEW x \in Request, req' = [req EXCEPT ![r] = x]
      PROVE  req' \in [Requests -> Request]
  BY <1>1, <1>q, RequestReplaced DEF TypeOK
<1>. DEFINE Shelf == /\ objects' \in [Backups -> {"none", "good", "damaged"}]
                     /\ age' \in [Backups -> 0 .. Grace]
<1>f. ASSUME Fails \/ Works
      PROVE  failures' \in 0 .. MaxFailures
  BY <1>1, <1>f, NumberAssumption DEF TypeOK, Fails, Works
<1>d. ASSUME NEW B, Removes(B) \/ Throws(B)
      PROVE  Shelf /\ (Fails \/ Works)
  BY <1>1, <1>d, NumberAssumption DEF TypeOK, Removes, Throws, Without
<1>i. ASSUME NEW b \in Backups, user, UNCHANGED user, Insert(b) \/ UNCHANGED <<rows, order>>
      PROVE  /\ rows' \subseteq IF user' THEN Backups ELSE {}
             /\ now' \in Nat /\ created' \in [Backups -> 0 .. now']
             /\ earlier' \in [Backups -> SUBSET Backups]
  BY <1>1, <1>b, <1>i DEF TypeOK, Insert
<1>m. ASSUME NEW r \in Requests, NEW stage \in Stages, Goes(r, stage)
      PROVE  req' \in [Requests -> Request]
  BY <1>1, <1>m, Moved, RequestReplaced DEF TypeOK
<1>e. ASSUME NEW r \in Requests, Ends(r)
      PROVE  req' \in [Requests -> Request]
  BY <1>1, <1>e, <1>n, RequestReplaced DEF TypeOK, Ends
<1>. USE DEF Stages
<1>5. ASSUME NEW r \in Requests, Upload(r)
      PROVE  TypeOK'
  <2>0. req[r].at \in {"store", "insert", "discard"} => Id(r) \in Backups
    BY <1>1 DEF KindFits
  <2>1. CASE StoreObject(r)
    <3>1. req' \in [Requests -> Request]
      BY <1>m, <2>1 DEF StoreObject
    <3>2. Shelf
      BY <1>1, <2>0, <2>1, NumberAssumption DEF StoreObject, TypeOK, At
    <3>. QED
      BY <1>1, <1>f, <2>1, <3>1, <3>2 DEF StoreObject, TypeOK, seen
  <2>2. CASE StoreFails(r)
    <3>1. req' \in [Requests -> Request]
      BY <1>m, <1>e, <2>2 DEF StoreFails
    <3>2. Shelf
      BY <1>1, <2>0, <2>2, NumberAssumption DEF StoreFails, TypeOK, At
    <3>. QED
      BY <1>1, <1>f, <2>2, <3>1, <3>2 DEF StoreFails, TypeOK, seen
  <2>3. CASE InsertRow(r)
    <3>1. req' \in [Requests -> Request]
      BY <1>m, <2>3 DEF InsertRow
    <3>2. Id(r) \in Backups /\ user /\ UNCHANGED user /\ Insert(Id(r))
      BY <2>0, <2>3 DEF InsertRow
    <3>3. /\ rows' \subseteq IF user' THEN Backups ELSE {}
          /\ now' \in Nat /\ created' \in [Backups -> 0 .. now']
          /\ earlier' \in [Backups -> SUBSET Backups]
      BY <1>i, <3>2
    <3>. QED
      BY <1>1, <1>f, <2>3, <3>1, <3>3 DEF InsertRow, TypeOK, seen
  <2>4. CASE InsertFails(r)
    <3>1. req' \in [Requests -> Request]
      BY <1>m, <2>4 DEF InsertFails
    <3>2. /\ Id(r) \in Backups /\ UNCHANGED user /\ (Fails \/ Works)
          /\ UNCHANGED <<rows, order>> \/ (user /\ Insert(Id(r)))
      <4>1. Id(r) \in Backups /\ UNCHANGED user
        BY <2>0, <2>4 DEF InsertFails
      <4>2. CASE ~user /\ UNCHANGED <<rows, order>> /\ Works
        BY <4>1, <4>2
      <4>3. CASE user /\ Fails /\ (Insert(Id(r)) \/ UNCHANGED <<rows, order>>)
        BY <4>1, <4>3
      <4>. QED
        BY <2>4, <4>2, <4>3 DEF InsertFails
    <3>3. /\ rows' \subseteq IF user' THEN Backups ELSE {}
          /\ now' \in Nat /\ created' \in [Backups -> 0 .. now']
          /\ earlier' \in [Backups -> SUBSET Backups]
      BY <1>1, <1>i, <3>2 DEF TypeOK
    <3>. QED
      BY <1>1, <1>f, <2>4, <3>1, <3>2, <3>3 DEF InsertFails, TypeOK, seen
  <2>5. CASE Discard(r)
    <3>1. req' \in [Requests -> Request]
      BY <1>e, <2>5 DEF Discard
    <3>. QED
      BY <1>1, <1>f, <1>d, <2>5, <3>1 DEF Discard, TypeOK, seen
  <2>. QED
    BY <1>5, <2>1, <2>2, <2>3, <2>4, <2>5 DEF Upload
<1>6. ASSUME NEW r \in Requests, Maintain(r)
      PROVE  TypeOK'
  <2>r. /\ req[r].keys \subseteq Backups /\ req[r].known \subseteq Backups
        /\ req[r].old \subseteq Backups
        /\ req[r].at \in Stages /\ rows \subseteq Backups /\ Present \subseteq Backups
    BY <1>1, <1>r DEF TypeOK, Request, Present
  <2>m. ASSUME Maintained(r)
        PROVE  /\ req' \in [Requests -> Request]
               /\ acked' \cup dropped' \cup deleted' \cup damaged' \subseteq Backups
    BY <1>1, <1>e, <2>m DEF Maintained, TypeOK, KindFits
  <2>1. CASE Retain(r)
    <3>1. PICK K \in SUBSET Backups, stage \in Stages :
             /\ rows' = rows \ K
             /\ req' = [req EXCEPT ![r].at = stage, ![r].keys = K]
      BY <2>1, <2>r DEF Retain, Expired
    <3>2. req' \in [Requests -> Request]
      <4>. DEFINE x == [req[r] EXCEPT !.at = stage, !.keys = K]
      <4>1. x \in Request /\ req' = [req EXCEPT ![r] = x]
        BY <1>r, <3>1 DEF Request
      <4>. HIDE DEF x
      <4>. QED
        BY <1>q, <4>1
    <3>. QED
      BY <1>1, <1>f, <2>1, <3>1, <3>2 DEF Retain, TypeOK, seen
  <2>2. CASE RetainFails(r)
    BY <1>1, <1>f, <1>m, <2>2 DEF RetainFails, TypeOK, seen
  <2>3. CASE DeleteExpired(r)
    <3>1. req' \in [Requests -> Request]
      <4>. DEFINE x == [req[r] EXCEPT !.at = "read", !.keys = {}]
      <4>1. x \in Request /\ req' = [req EXCEPT ![r] = x]
        BY <1>r, <2>3 DEF DeleteExpired, Request
      <4>. HIDE DEF x
      <4>. QED
        BY <1>q, <4>1
    <3>. QED
      BY <1>1, <1>f, <1>d, <2>3, <3>1 DEF DeleteExpired, TypeOK, seen
  <2>4. CASE ReadRows(r)
    <3>1. PICK O \in SUBSET Backups :
             req' = [req EXCEPT ![r].at = "list", ![r].known = rows, ![r].old = O]
      BY <2>4, <2>r DEF ReadRows
    <3>2. req' \in [Requests -> Request]
      <4>. DEFINE x == [req[r] EXCEPT !.at = "list", !.known = rows, !.old = O]
      <4>1. x \in Request /\ req' = [req EXCEPT ![r] = x]
        BY <1>r, <2>r, <3>1 DEF Request
      <4>. HIDE DEF x
      <4>. QED
        BY <1>q, <4>1
    <3>. QED
      BY <1>1, <1>f, <2>4, <3>2 DEF ReadRows, TypeOK, seen
  <2>5. CASE ListObjects(r)
    <3>1. PICK K \in SUBSET Backups, N \in SUBSET Backups :
             req' = [req EXCEPT ![r].at = "orphans", ![r].keys = K, ![r].known = N, ![r].old = {}]
      BY <1>r, <2>5, <2>r DEF ListObjects, Listed
    <3>2. req' \in [Requests -> Request]
      <4>. DEFINE x == [req[r] EXCEPT !.at = "orphans", !.keys = K, !.known = N, !.old = {}]
      <4>1. x \in Request /\ req' = [req EXCEPT ![r] = x]
        BY <1>r, <3>1 DEF Request
      <4>. HIDE DEF x
      <4>. QED
        BY <1>q, <4>1
    <3>. QED
      BY <1>1, <1>f, <2>5, <3>2 DEF ListObjects, TypeOK, seen
  <2>6. CASE DeleteOrphans(r)
    <3>1. req' \in [Requests -> Request]
      <4>. DEFINE x == [req[r] EXCEPT !.at = "missing", !.keys = {}]
      <4>1. x \in Request /\ req' = [req EXCEPT ![r] = x]
        BY <1>r, <2>6 DEF DeleteOrphans, Request
      <4>. HIDE DEF x
      <4>. QED
        BY <1>q, <4>1
    <3>. QED
      BY <1>1, <1>f, <1>d, <2>6, <3>1 DEF DeleteOrphans, TypeOK, seen
  <2>7. CASE DeleteMissing(r)
    <3>1. ASSUME NEW b \in req[r].known, req' = [req EXCEPT ![r].known = @ \ {b}]
          PROVE  req' \in [Requests -> Request]
      <4>. DEFINE x == [req[r] EXCEPT !.known = @ \ {b}]
      <4>1. x \in Request /\ req' = [req EXCEPT ![r] = x]
        BY <1>r, <3>1 DEF Request
      <4>. HIDE DEF x
      <4>. QED
        BY <1>q, <4>1
    <3>2. /\ req' \in [Requests -> Request]
          /\ acked' \cup dropped' \cup deleted' \cup damaged' \subseteq Backups
      BY <1>1, <2>7, <2>m, <3>1 DEF DeleteMissing, TypeOK, seen
    <3>. QED
      BY <1>1, <1>f, <2>7, <3>2 DEF DeleteMissing, TypeOK, seen
  <2>8. CASE ReconcileFails(r)
    BY <1>1, <1>f, <2>8, <2>m DEF ReconcileFails, TypeOK
  <2>. QED
    BY <1>6, <2>1, <2>2, <2>3, <2>4, <2>5, <2>6, <2>7, <2>8 DEF Maintain
<1>7. ASSUME NEW r \in Requests, Download(r)
      PROVE  TypeOK'
  <2>0. At(r, "fetch") => Id(r) \in Backups /\ objects[Id(r)] \in {"none", "good", "damaged"}
    BY <1>1 DEF KindFits, At, TypeOK
  <2>1. req' \in [Requests -> Request]
    BY <1>m, <1>e, <1>7, <2>0 DEF Download, FetchObject, FetchFails, Purge
  <2>2. Shelf /\ (Fails \/ Works)
    BY <1>1, <1>d, <1>7 DEF Download, FetchObject, FetchFails, Purge, TypeOK
  <2>. QED
    BY <1>1, <1>f, <1>7, <2>1, <2>2 DEF Download, FetchObject, FetchFails, Purge, TypeOK, seen
<1>8. ASSUME NEW r \in Requests, Delete(r)
      PROVE  TypeOK'
  <2>1. CASE DeleteObject(r)
    BY <1>1, <1>d, <1>f, <1>m, <1>e, <2>1 DEF DeleteObject, TypeOK, seen
  <2>2. CASE DropRow(r)
    <3>1. Id(r) \in Backups
      BY <1>1, <2>2 DEF DropRow, KindFits, At
    <3>. QED
      BY <1>1, <1>f, <1>e, <2>2, <3>1 DEF DropRow, TypeOK
  <2>3. CASE EraseObjects(r)
    <3>1. req' \in [Requests -> Request]
      <4>. DEFINE x == [req[r] EXCEPT !.at = "cascade", !.keys = {}]
      <4>1. x \in Request
        BY <1>r DEF Request
      <4>2. Ends(r) \/ req' = [req EXCEPT ![r] = x]
        BY <2>3 DEF EraseObjects
      <4>. HIDE DEF x
      <4>. QED
        BY <1>e, <1>q, <4>1, <4>2
    <3>. QED
      BY <1>1, <1>d, <1>f, <2>3, <3>1 DEF EraseObjects, TypeOK, seen
  <2>4. CASE Cascade(r)
    <3>1. req' \in [Requests -> Request] /\ failures' \in 0 .. MaxFailures
      BY <1>f, <1>e, <2>4 DEF Cascade
    <3>2. user' \in BOOLEAN /\ rows' \subseteq IF user' THEN Backups ELSE {}
      <4>1. CASE user' = FALSE /\ rows' = {}
        BY <4>1
      <4>2. CASE user' = user /\ rows' = rows
        BY <1>1, <4>2 DEF TypeOK
      <4>. QED
        BY <2>4, <4>1, <4>2 DEF Cascade
    <3>. QED
      BY <1>1, <2>4, <3>1, <3>2 DEF Cascade, TypeOK, seen
  <2>. QED
    BY <1>8, <2>1, <2>2, <2>3, <2>4 DEF Delete
<1>9. ASSUME Tick
      PROVE  TypeOK'
  BY <1>1, <1>9, NumberAssumption DEF Tick, TypeOK, seen
<1>10. ASSUME NEW b \in Backups, Damage(b)
       PROVE  TypeOK'
  BY <1>1, <1>10, <1>f DEF Damage, TypeOK
<1>11. CASE UNCHANGED vars
  BY <1>1, <1>11 DEF TypeOK, vars, seen
<1>. QED
  BY <1>2, <1>3, <1>4, <1>5, <1>6, <1>7, <1>8, <1>9, <1>10, <1>11 DEF Next, Handle
-----------------------------------------------------------------------------
(* What a step does to the uploads that run, are over, and are accepted *)

LEMMA SameUploads ==
  ASSUME TypeOK, NEW r \in Requests, NEW x \in Request, req' = [req EXCEPT ![r] = x],
         req[r].at \notin {"store", "insert"}, x.at \notin {"store", "insert"}, order' = order
  PROVE  Pending' = Pending /\ Over' = Over /\ Begun' = Begun /\ Inserted' = Inserted
<1>1. Begun' = Begun /\ Inserted' = Inserted
  BY DEF Begun, Inserted
<1>2. \A q \in Requests : q # r => req'[q] = req[q]
  BY DEF TypeOK
<1>3. req'[r] = x
  BY DEF TypeOK
<1>4. Pending' = Pending
  BY <1>2, <1>3 DEF Pending
<1>. QED
  BY <1>1, <1>4 DEF Over

LEMMA SameAccepted ==
  ASSUME TypeOK, NEW r \in Requests, NEW x \in Request, req' = [req EXCEPT ![r] = x],
         acked' = acked,
         (x.kind = "upload" /\ x.at \in Maintenance) <=> Assured(r),
         Assured(r) => x.id = Id(r)
  PROVE  Accepted' = Accepted
<1>1. \A q \in Requests : q # r => req'[q] = req[q]
  BY DEF TypeOK
<1>2. req'[r] = x
  BY DEF TypeOK
<1>. QED
  BY <1>1, <1>2 DEF Accepted, Assured

LEMMA MaintainedAccepts ==
  ASSUME TypeOK, NEW r \in Requests, KindFits(r), req[r].at \in Maintenance, Maintained(r)
  PROVE  Accepted' = Accepted
<1>1. \A q \in Requests : q # r => req'[q] = req[q]
  BY DEF TypeOK, Maintained, Ends
<1>2. req'[r] = NoRequest
  BY DEF TypeOK, Maintained, Ends
<1>3. ~Assured(r)'
  BY <1>2 DEF Assured, NoRequest
<1>4. CASE req[r].kind = "upload"
  <2>1. acked' = acked \cup {Id(r)} /\ Id(r) \in Backups /\ Assured(r)
    BY <1>4 DEF Maintained, KindFits, Assured
  <2>. QED
    BY <1>1, <1>3, <2>1 DEF Accepted, Assured
<1>5. CASE req[r].kind # "upload"
  BY <1>1, <1>3, <1>5 DEF Accepted, Assured, Maintained
<1>. QED
  BY <1>4, <1>5

\* The bucket deletes no object of an upload that still runs.
LEMMA Removed ==
  ASSUME TypeOK, NEW B \in SUBSET Over, Removes(B) \/ Throws(B)
  PROVE  /\ \A b \in Backups : objects'[b] \in {objects[b], "none"}
         /\ \A b \in Backups \ B : objects'[b] = objects[b] /\ age'[b] = age[b]
         /\ \A b \in Pending : objects'[b] = objects[b] /\ age'[b] = age[b]
<1>1. \A b \in Pending : b \in Backups \ B
  BY DEF Pending, Over
<1>. QED
  BY <1>1 DEF TypeOK, Removes, Throws, Without

\* A backup with few newer ones had few before: what is newer than it stays so.
LEMMA FewBefore ==
  ASSUME NEW c, Few(c)', \A d \in Backups : Newer(d, c) => Newer(d, c)'
  PROVE  Few(c)
<1>. DEFINE New == {d \in Backups : Newer(d, c)}
            Later == {d \in Backups : Newer(d, c)'}
<1>1. New \subseteq Later /\ IsFiniteSet(Later)
  BY BackupAssumption, FS_Subset
<1>2. /\ Cardinality(New) <= Cardinality(Later)
      /\ Cardinality(Later) \in Nat /\ Cardinality(New) \in Nat
  BY <1>1, FS_Subset, FS_CardinalityType
<1>3. Cardinality(Later) < Retention
  BY DEF Few
<1>. HIDE DEF New, Later
<1>4. Cardinality(New) < Retention
  BY <1>2, <1>3, NumberAssumption
<1>. QED
  BY <1>4 DEF Few, New

\* Requests that do not move keep what they have read, if a step is steady.
LEMMA OthersFit ==
  ASSUME Steady, NEW q \in Requests, req'[q] = req[q], KindFits(q), WorkFits(q)
  PROVE  KindFits(q)' /\ WorkFits(q)'
<1>1. KindFits(q)'
  BY DEF KindFits
<1>2. WorkFits(q)'
  BY DEF WorkFits, Steady, At
<1>. QED
  BY <1>1, <1>2

\* A step of a request that neither begins nor ends an upload, adds nothing to the stores
\* and deletes nothing that is owed.
LEMMA QuietStep ==
  ASSUME Inv, TypeOK', NEW r \in Requests, NEW x \in Request, req' = [req EXCEPT ![r] = x],
         req[r].at \notin {"store", "insert"}, x.at \notin {"store", "insert"},
         order' = order, damaged' = damaged, dropped \subseteq dropped', rows' \subseteq rows,
         Accepted' = Accepted, user' => user,
         \A b \in Backups : objects'[b] \in {objects[b], "none"},
         \A b \in Pending : objects'[b] = objects[b] /\ age'[b] = age[b],
         \A b \in Owed \ dropped' : user' => b \in rows' /\ objects'[b] = objects[b],
         \A b \in deleted' \ deleted : b \in Over /\ b \notin rows' /\ objects'[b] = "none",
         KindFits(r)', WorkFits(r)'
  PROVE  Inv'
<1>1. TypeOK /\ UploadsApart /\ Past /\ OwedAreKept
      /\ \A q \in Requests : KindFits(q) /\ UploadFits(q) /\ WorkFits(q)
  BY DEF Inv
<1>2. Pending' = Pending /\ Over' = Over /\ Begun' = Begun /\ Inserted' = Inserted
  BY <1>1, SameUploads
<1>3. req'[r] = x /\ \A q \in Requests : q # r => req'[q] = req[q]
  BY <1>1 DEF TypeOK
<1>o. Over \subseteq Backups
  BY DEF Over, Begun
<1>4. Steady
  BY <1>2, <1>o DEF Steady
<1>5. UploadsApart'
  BY <1>1, <1>3 DEF UploadsApart
<1>6. ASSUME NEW q \in Requests
      PROVE  KindFits(q)' /\ UploadFits(q)' /\ WorkFits(q)'
  <2>1. CASE q = r
    BY <1>3, <2>1 DEF UploadFits, At
  <2>2. CASE q # r
    <3>1. KindFits(q)' /\ WorkFits(q)'
      BY <1>1, <1>3, <1>4, <2>2, OthersFit
    <3>2. req[q].at \in {"store", "insert"} => Id(q) \in Pending
      BY <1>1 DEF Pending, KindFits
    <3>3. UploadFits(q)'
      BY <1>1, <1>2, <1>3, <2>2, <3>2 DEF UploadFits, At
    <3>. QED
      BY <3>1, <3>3
  <2>. QED
    BY <2>1, <2>2
<1>7. Past'
  <2>1. (rows \subseteq Inserted /\ Inserted \subseteq Over /\ Accepted \subseteq Over)'
    BY <1>1, <1>2 DEF Past
  <2>2. (deleted \subseteq Over /\ DeletedIsGone)'
    BY <1>1, <1>2, <1>o DEF Past, DeletedIsGone
  <2>3. (Present \subseteq Begun)'
    BY <1>1, <1>2 DEF Past, Present
  <2>4. (\A b \in Backups : objects[b] = "damaged" => b \in damaged \/ b \in Over \ Accepted)'
    BY <1>1, <1>2 DEF Past
  <2>. QED
    BY <2>1, <2>2, <2>3, <2>4 DEF Past
<1>8. OwedAreKept'
  <2>1. \A b \in Backups : Few(b)' = Few(b)
    BY DEF Few, Newer, Begun
  <2>2. SUFFICES ASSUME NEW b \in Owed'
                 PROVE  b \in rows' /\ objects'[b] = "good"
    BY DEF OwedAreKept
  <2>3. b \in Backups
    BY <1>2, <1>7, <1>o DEF Owed, Past
  <2>4. b \in Owed \ dropped' /\ user'
    BY <2>1, <2>3 DEF Owed
  <2>. QED
    BY <1>1, <2>4 DEF OwedAreKept
<1>. QED
  BY <1>5, <1>6, <1>7, <1>8 DEF Inv
\* It reads, or it only moves on.
LEMMA QuietMove ==
  ASSUME Inv, TypeOK', NEW r \in Requests, NEW x \in Request, req' = [req EXCEPT ![r] = x],
         req[r].at \notin {"store", "insert"}, x.at \notin {"store", "insert"},
         UNCHANGED <<user, rows, objects, age, order, deleted, damaged>>,
         dropped \subseteq dropped', Accepted' = Accepted, KindFits(r)', WorkFits(r)'
  PROVE  Inv'
<1>1. \A b \in Owed : b \in rows /\ objects[b] = "good"
  BY DEF Inv, OwedAreKept
<1>. QED
  BY <1>1, QuietStep

-----------------------------------------------------------------------------
(* The steps *)

LEMMA QuietRequests ==
  ASSUME Inv, TypeOK', NEW r \in Requests,
         \/ ListBackups(r) \/ DeleteUser(r)
         \/ \E b \in Backups : GetBackup(r, b) \/ DeleteBackup(r, b)
  PROVE  Inv'
<1>1. TypeOK /\ Past /\ req[r] \in Request /\ Over \subseteq Backups
  BY DEF Inv, TypeOK, Over, Begun
<1>2. ASSUME NEW x \in Request, At(r, "idle"), req' = [req EXCEPT ![r] = x],
             x.at \in {"retain", "fetch", "delete", "erase"}, x.kind # "upload",
             UNCHANGED <<user, rows, objects, age, order, acked, deleted, damaged>>,
             dropped \subseteq dropped',
             x.kind \in {"get", "delete"} <=> x.at \in {"fetch", "delete"},
             x.at \in {"fetch", "delete"} => x.id \in rows,
             x.at = "delete" => x.id \in dropped' /\ x.kind = "delete",
             x.at = "fetch" => x.kind = "get",
             x.at = "erase" => x.keys \subseteq rows \cap dropped'
      PROVE  Inv'
  <2>2. req'[r] = x
    BY <1>1, <1>2 DEF TypeOK
  <2>3. Over' = Over
    BY <1>1, <1>2, SameUploads
  <2>4. Accepted' = Accepted
    BY <1>1, <1>2, <2>2, SameAccepted DEF Assured, Maintenance
  <2>5. KindFits(r)'
    BY <1>1, <1>2, <2>2 DEF KindFits, TypeOK
  <2>6. WorkFits(r)'
    BY <1>1, <1>2, <2>2, <2>3 DEF WorkFits, Past
  <2>. QED
    BY <1>2, <2>4, <2>5, <2>6, QuietMove
<1>3. CASE ListBackups(r)
  <2>. DEFINE x == [NoRequest EXCEPT !.at = "retain", !.kind = "list", !.id = None]
  <2>1. x \in Request /\ x.at = "retain" /\ x.kind = "list"
    BY DEF NoRequest, Request, Kinds, Stages
  <2>2. req' = [req EXCEPT ![r] = x]
    BY <1>3 DEF ListBackups, Starts
  <2>. HIDE DEF x
  <2>. QED
    BY <1>2, <1>3, <2>1, <2>2 DEF ListBackups, Starts, seen
<1>4. CASE DeleteUser(r)
  <2>. DEFINE x == [NoRequest EXCEPT !.at = "erase", !.kind = "user", !.keys = rows]
  <2>1. rows \in SUBSET Backups /\ rows \subseteq dropped'
    BY <1>1, <1>4 DEF TypeOK, DeleteUser
  <2>2. x \in Request /\ x.at = "erase" /\ x.kind = "user" /\ x.keys = rows
    BY <2>1 DEF NoRequest, Request, Kinds, Stages
  <2>3. req' = [req EXCEPT ![r] = x]
    BY <1>4 DEF DeleteUser
  <2>. HIDE DEF x
  <2>. QED
    BY <1>2, <1>4, <2>1, <2>2, <2>3 DEF DeleteUser
<1>5. ASSUME NEW b \in Backups, GetBackup(r, b)
      PROVE  Inv'
  <2>. DEFINE x == [NoRequest EXCEPT !.at = "fetch", !.kind = "get", !.id = b]
  <2>1. x \in Request /\ x.at = "fetch" /\ x.kind = "get" /\ x.id = b
    BY DEF NoRequest, Request, Kinds, Stages
  <2>2. req' = [req EXCEPT ![r] = x]
    BY <1>5 DEF GetBackup, Starts
  <2>. HIDE DEF x
  <2>. QED
    BY <1>2, <1>5, <2>1, <2>2 DEF GetBackup, Starts, seen
<1>6. ASSUME NEW b \in Backups, DeleteBackup(r, b)
      PROVE  Inv'
  <2>. DEFINE x == [NoRequest EXCEPT !.at = "delete", !.kind = "delete", !.id = b]
  <2>1. x \in Request /\ x.at = "delete" /\ x.kind = "delete" /\ x.id = b
    BY DEF NoRequest, Request, Kinds, Stages
  <2>2. req' = [req EXCEPT ![r] = x]
    BY <1>6 DEF DeleteBackup, Starts
  <2>. HIDE DEF x
  <2>. QED
    BY <1>2, <1>6, <2>1, <2>2 DEF DeleteBackup, Starts
<1>. QED
  BY <1>3, <1>4, <1>5, <1>6
\* The retention takes none of the newest.
LEMMA FewAreRetained ==
  ASSUME rows \subseteq Backups, NEW b, Few(b)
  PROVE  ~(Rank(b) >= Retention)
<1>. DEFINE New == {c \in Backups : Newer(c, b)}
            NewRows == {c \in rows : Newer(c, b)}
<1>1. IsFiniteSet(New)
  BY BackupAssumption, FS_Subset
<1>2. NewRows \in SUBSET New
  OBVIOUS
<1>3. Cardinality(NewRows) <= Cardinality(New) /\ Cardinality(New) \in Nat
      /\ Cardinality(NewRows) \in Nat
  BY <1>1, <1>2, FS_Subset, FS_CardinalityType
<1>4. Cardinality(New) < Retention /\ Rank(b) = Cardinality(NewRows)
  BY DEF Few, Rank
<1>. HIDE DEF New, NewRows
<1>. QED
  BY <1>3, <1>4, NumberAssumption

LEMMA Maintains ==
  ASSUME Inv, TypeOK', NEW r \in Requests, Maintain(r)
  PROVE  Inv'
<1>1. /\ TypeOK /\ Past /\ OwedAreKept /\ KindFits(r) /\ WorkFits(r) /\ req[r] \in Request
      /\ Over \subseteq Backups /\ rows \subseteq Over
  BY DEF Inv, TypeOK, Over, Begun, Past
<1>2. ASSUME NEW x \in Request, req' = [req EXCEPT ![r] = x],
             req[r].at \in Maintenance, x.at \in Maintenance,
             x.kind = req[r].kind, x.id = req[r].id, order' = order, acked' = acked
      PROVE  Over' = Over /\ Accepted' = Accepted /\ req'[r] = x /\ KindFits(r)'
             /\ req[r].at \notin {"store", "insert"} /\ x.at \notin {"store", "insert"}
  <2>1. req'[r] = x
    BY <1>1, <1>2 DEF TypeOK
  <2>2. Over' = Over
    BY <1>1, <1>2, SameUploads DEF Maintenance
  <2>3. Accepted' = Accepted
    BY <1>1, <1>2, SameAccepted DEF Assured
  <2>4. KindFits(r)'
    BY <1>1, <1>2, <2>1 DEF KindFits, Maintenance
  <2>. QED
    BY <1>2, <2>1, <2>2, <2>3, <2>4 DEF Maintenance
<1>m. ASSUME Maintained(r), req[r].at \in Maintenance, UNCHANGED <<user, objects, age, order>>,
             rows' \subseteq rows, \A b \in Owed : b \in rows'
      PROVE  Inv'
  <2>1. Accepted' = Accepted
    BY <1>1, <1>m, MaintainedAccepts
  <2>2. req' = [req EXCEPT ![r] = NoRequest] /\ req'[r] = NoRequest
    BY <1>1, <1>m DEF Maintained, Ends, TypeOK
  <2>3. KindFits(r)' /\ WorkFits(r)'
    BY <2>2 DEF KindFits, WorkFits, NoRequest
  <2>. QED
    BY <1>1, <1>m, <2>1, <2>2, <2>3, NoRequestIsOne, QuietStep
    DEF Maintained, Maintenance, NoRequest
<1>e. \A b \in Owed : b \notin Expired
  BY <1>1, FewAreRetained DEF Owed, Expired
<1>3. CASE Retain(r)
  <2>. DEFINE E == Expired
              x == [req[r] EXCEPT !.at = IF E = {} THEN "read" ELSE "expire", !.keys = E]
  <2>1. /\ x \in Request /\ x.at \in {"read", "expire"} /\ x.kind = req[r].kind /\ x.id = req[r].id
        /\ x.keys = E
    BY <1>1 DEF Request, Stages, TypeOK, Expired
  <2>2. req' = [req EXCEPT ![r] = x] /\ rows' = rows \ E /\ E \subseteq rows
    BY <1>3 DEF Retain, Expired
  <2>3. \A b \in Owed : b \notin E
    BY <1>e
  <2>. HIDE DEF x, E
  <2>4. /\ Over' = Over /\ Accepted' = Accepted /\ req'[r] = x /\ KindFits(r)'
        /\ req[r].at \notin {"store", "insert"} /\ x.at \notin {"store", "insert"}
    BY <1>2, <1>3, <2>1, <2>2 DEF Retain, Maintenance, seen
  <2>5. WorkFits(r)'
    BY <1>1, <2>1, <2>2, <2>4 DEF WorkFits
  <2>. QED
    BY <1>1, <1>3, <2>1, <2>2, <2>3, <2>4, <2>5, QuietStep DEF Retain, OwedAreKept, seen
<1>4. CASE RetainFails(r)
  <2>. DEFINE x == [req[r] EXCEPT !.at = "read"]
  <2>1. x \in Request /\ x.at = "read" /\ x.kind = req[r].kind /\ x.id = req[r].id
    BY <1>1 DEF Request, Stages
  <2>2. req' = [req EXCEPT ![r] = x]
    BY <1>4 DEF RetainFails, Goes
  <2>. HIDE DEF x
  <2>3. /\ Over' = Over /\ Accepted' = Accepted /\ req'[r] = x /\ KindFits(r)'
        /\ req[r].at \notin {"store", "insert"} /\ x.at \notin {"store", "insert"}
    BY <1>2, <1>4, <2>1, <2>2 DEF RetainFails, Maintenance, seen
  <2>4. WorkFits(r)'
    BY <2>1, <2>3 DEF WorkFits
  <2>5. rows' \subseteq rows /\ \A b \in Owed : b \in rows'
    BY <1>1, <1>e, <1>4 DEF RetainFails, OwedAreKept
  <2>. QED
    BY <1>4, <2>1, <2>2, <2>3, <2>4, <2>5, QuietStep DEF RetainFails, seen
<1>5. CASE DeleteExpired(r) \/ DeleteOrphans(r)
  <2>1. PICK stage \in {"read", "missing"} :
           /\ req' = [req EXCEPT ![r].at = stage, ![r].keys = {}]
           /\ stage = "missing" => At(r, "orphans")
    BY <1>5 DEF DeleteExpired, DeleteOrphans
  <2>. DEFINE x == [req[r] EXCEPT !.at = stage, !.keys = {}]
  <2>2. /\ x \in Request /\ x.at = stage /\ x.kind = req[r].kind /\ x.id = req[r].id
        /\ x.known = req[r].known
    BY <1>1 DEF Request, Stages
  <2>3. req' = [req EXCEPT ![r] = x]
    BY <2>1
  <2>. HIDE DEF x
  <2>4. req[r].at \in {"expire", "orphans"} /\ req[r].keys \subseteq Over \ rows
    BY <1>1, <1>5 DEF DeleteExpired, DeleteOrphans, WorkFits
  <2>5. /\ \A b \in Backups : objects'[b] \in {objects[b], "none"}
        /\ \A b \in Backups \ req[r].keys : objects'[b] = objects[b]
        /\ \A b \in Pending : objects'[b] = objects[b] /\ age'[b] = age[b]
    BY <1>1, <1>5, <2>4, Removed DEF DeleteExpired, DeleteOrphans
  <2>6. /\ Over' = Over /\ Accepted' = Accepted /\ req'[r] = x /\ KindFits(r)'
        /\ req[r].at \notin {"store", "insert"} /\ x.at \notin {"store", "insert"}
    BY <1>2, <1>5, <2>2, <2>3, <2>4 DEF DeleteExpired, DeleteOrphans, Maintenance, seen
  <2>7. WorkFits(r)'
    BY <1>1, <2>1, <2>2, <2>5, <2>6 DEF WorkFits
  <2>8. \A b \in Owed : b \in rows /\ objects'[b] = objects[b]
    BY <1>1, <2>4, <2>5 DEF OwedAreKept
  <2>9. UNCHANGED <<user, rows, order, dropped, deleted, damaged>>
    BY <1>5 DEF DeleteExpired, DeleteOrphans, seen
  <2>. QED
    BY <2>2, <2>3, <2>5, <2>6, <2>7, <2>8, <2>9, QuietStep
<1>6. CASE ReadRows(r)
  <2>. DEFINE O == {b \in Present : age[b] = Grace}
              x == [req[r] EXCEPT !.at = "list", !.known = rows, !.old = O]
  <2>1. O \subseteq Backups /\ rows \subseteq Backups
    BY <1>1 DEF Present
  <2>2. /\ x \in Request /\ x.at = "list" /\ x.kind = req[r].kind /\ x.id = req[r].id
        /\ x.known = rows /\ x.old = O
    BY <1>1, <2>1 DEF Request, Stages
  <2>3. req' = [req EXCEPT ![r] = x]
    BY <1>6 DEF ReadRows
  <2>4. O \subseteq Over
    <3>1. ASSUME NEW b \in O, b \in Pending
          PROVE  FALSE
      <4>1. PICK q \in Requests : Id(q) = b /\ req[q].at \in {"store", "insert"}
        BY <3>1 DEF Pending
      <4>2. UploadFits(q) /\ objects[b] # "none" /\ age[b] = Grace
        BY DEF Inv, Present
      <4>. QED
        BY <4>1, <4>2, NumberAssumption DEF UploadFits
    <3>2. O \subseteq Begun
      BY <1>1 DEF Past
    <3>. QED
      BY <3>1, <3>2 DEF Over
  <2>. HIDE DEF x, O
  <2>5. /\ Over' = Over /\ Accepted' = Accepted /\ req'[r] = x /\ KindFits(r)'
        /\ req[r].at \notin {"store", "insert"} /\ x.at \notin {"store", "insert"}
    BY <1>2, <1>6, <2>2, <2>3 DEF ReadRows, Maintenance, seen
  <2>6. WorkFits(r)'
    BY <1>1, <1>6, <2>2, <2>4, <2>5 DEF WorkFits, ReadRows
  <2>. QED
    BY <1>6, <2>2, <2>3, <2>5, <2>6, QuietMove DEF ReadRows, seen
<1>7. CASE ListObjects(r)
  <2>1. PICK K \in SUBSET Backups, N \in SUBSET Backups :
           /\ req' = [req EXCEPT ![r].at = "orphans", ![r].keys = K, ![r].known = N, ![r].old = {}]
           /\ K \subseteq req[r].old \ req[r].known
           /\ N \subseteq req[r].known \ Present
    <3>1. PICK present \in SUBSET Present, complete \in BOOLEAN :
             Listed(r, present, complete) /\ (complete => present = Present)
      BY <1>7 DEF ListObjects
    <3>. DEFINE K == (present \cap req[r].old) \ req[r].known
                N == IF complete THEN req[r].known \ present ELSE {}
    <3>2. K \in SUBSET Backups /\ N \in SUBSET Backups
      BY <1>1 DEF Request
    <3>3. req' = [req EXCEPT ![r].at = "orphans", ![r].keys = K, ![r].known = N, ![r].old = {}]
      BY <1>1, <3>1 DEF Listed, TypeOK
    <3>4. K \subseteq req[r].old \ req[r].known /\ N \subseteq req[r].known \ Present
      BY <3>1
    <3>. HIDE DEF K, N
    <3>. QED
      BY <3>2, <3>3, <3>4
  <2>. DEFINE x == [req[r] EXCEPT !.at = "orphans", !.keys = K, !.known = N, !.old = {}]
  <2>2. /\ x \in Request /\ x.at = "orphans" /\ x.kind = req[r].kind /\ x.id = req[r].id
        /\ x.keys = K /\ x.known = N
    BY <1>1 DEF Request, Stages
  <2>3. req' = [req EXCEPT ![r] = x]
    BY <2>1
  <2>. HIDE DEF x
  <2>4. K \subseteq Over \ rows /\ \A b \in N : b \in Over /\ objects[b] = "none"
    BY <1>1, <1>7, <2>1 DEF ListObjects, WorkFits, Present
  <2>5. /\ Over' = Over /\ Accepted' = Accepted /\ req'[r] = x /\ KindFits(r)'
        /\ req[r].at \notin {"store", "insert"} /\ x.at \notin {"store", "insert"}
    BY <1>2, <1>7, <2>2, <2>3 DEF ListObjects, Maintenance, seen
  <2>6. WorkFits(r)'
    BY <1>7, <2>2, <2>4, <2>5 DEF WorkFits, ListObjects
  <2>. QED
    BY <1>7, <2>2, <2>3, <2>5, <2>6, QuietMove DEF ListObjects, seen
<1>8. CASE DeleteMissing(r)
  <2>0. At(r, "missing") /\ \A b \in req[r].known : b \in Over /\ objects[b] = "none"
    BY <1>1, <1>8 DEF DeleteMissing, WorkFits
  <2>1. ASSUME NEW b \in req[r].known, rows' = rows \ {b},
               req' = [req EXCEPT ![r].known = @ \ {b}],
               UNCHANGED <<user, objects, age, order, seen>>
        PROVE  Inv'
    <3>. DEFINE x == [req[r] EXCEPT !.known = @ \ {b}]
    <3>1. /\ x \in Request /\ x.at = req[r].at /\ x.kind = req[r].kind /\ x.id = req[r].id
          /\ x.known \subseteq req[r].known
      BY <1>1 DEF Request
    <3>2. req' = [req EXCEPT ![r] = x]
      BY <2>1
    <3>. HIDE DEF x
    <3>3. /\ Over' = Over /\ Accepted' = Accepted /\ req'[r] = x /\ KindFits(r)'
          /\ req[r].at \notin {"store", "insert"} /\ x.at \notin {"store", "insert"}
      BY <1>2, <2>0, <2>1, <3>1, <3>2 DEF Maintenance, seen
    <3>4. WorkFits(r)'
      BY <2>0, <2>1, <3>1, <3>3 DEF WorkFits
    <3>5. \A c \in Owed : c \in rows'
      BY <1>1, <2>0, <2>1 DEF OwedAreKept
    <3>. QED
      BY <2>1, <3>1, <3>2, <3>3, <3>4, <3>5, QuietStep DEF seen
  <2>2. CASE req[r].known = {} /\ Maintained(r) /\ UNCHANGED <<user, rows, objects, age, order>>
    <3>1. \A b \in Owed : b \in rows
      BY <1>1 DEF OwedAreKept
    <3>. QED
      BY <1>m, <2>0, <2>2, <3>1 DEF Maintenance
  <2>. QED
    BY <1>8, <2>1, <2>2 DEF DeleteMissing
<1>9. CASE ReconcileFails(r)
  <2>1. \A b \in Owed : b \in rows /\ objects[b] # "none"
    BY <1>1 DEF OwedAreKept
  <2>2. At(r, "missing") => \A b \in req[r].known : objects[b] = "none"
    BY <1>1 DEF WorkFits
  <2>3. rows' \subseteq rows /\ \A b \in Owed : b \in rows'
    BY <1>9, <2>1, <2>2 DEF ReconcileFails
  <2>. QED
    BY <1>m, <1>9, <2>3 DEF ReconcileFails, Maintenance
<1>. QED
  BY <1>3, <1>4, <1>5, <1>6, <1>7, <1>8, <1>9 DEF Maintain
LEMMA Deletes ==
  ASSUME Inv, TypeOK', NEW r \in Requests, Discard(r) \/ Download(r) \/ Delete(r)
  PROVE  Inv'
<1>1. /\ TypeOK /\ Past /\ OwedAreKept /\ KindFits(r) /\ WorkFits(r) /\ req[r] \in Request
      /\ Over \subseteq Backups /\ rows \subseteq Over
  BY DEF Inv, TypeOK, Over, Begun, Past
<1>a. req[r].at \in {"discard", "fetch", "purge", "delete", "drop", "erase", "cascade"}
      /\ acked' = acked /\ order' = order
  BY DEF Discard, Download, FetchObject, FetchFails, Purge, Delete, DeleteObject, DropRow,
         EraseObjects, Cascade, seen
\* The request ends, or goes on to delete.
<1>2. ASSUME NEW x \in Request, req' = [req EXCEPT ![r] = x],
             x = NoRequest \/ x.at \in {"purge", "drop", "cascade"}
      PROVE  Over' = Over /\ Accepted' = Accepted /\ req'[r] = x
             /\ req[r].at \notin {"store", "insert"} /\ x.at \notin {"store", "insert"}
  <2>1. req'[r] = x
    BY <1>1, <1>2 DEF TypeOK
  <2>2. x.at \notin {"store", "insert"} /\ x.at \notin Maintenance
    BY <1>2 DEF NoRequest, Maintenance
  <2>3. Over' = Over
    BY <1>1, <1>2, <1>a, <2>2, SameUploads
  <2>4. Accepted' = Accepted
    BY <1>1, <1>2, <1>a, <2>2, SameAccepted DEF Assured, Maintenance
  <2>. QED
    BY <1>a, <2>1, <2>2, <2>3, <2>4
<1>e. ASSUME Ends(r)
      PROVE  /\ Over' = Over /\ Accepted' = Accepted /\ req[r].at \notin {"store", "insert"}
             /\ NoRequest.at \notin {"store", "insert"} /\ KindFits(r)' /\ WorkFits(r)'
             /\ req' = [req EXCEPT ![r] = NoRequest]
  <2>1. req' = [req EXCEPT ![r] = NoRequest]
    BY <1>e DEF Ends
  <2>2. /\ Over' = Over /\ Accepted' = Accepted /\ req'[r] = NoRequest
        /\ req[r].at \notin {"store", "insert"} /\ NoRequest.at \notin {"store", "insert"}
    BY <1>2, <2>1, NoRequestIsOne
  <2>3. KindFits(r)' /\ WorkFits(r)'
    BY <2>2 DEF KindFits, WorkFits, NoRequest
  <2>. QED
    BY <2>1, <2>2, <2>3
<1>g. ASSUME NEW stage \in {"purge", "drop"}, Goes(r, stage),
             req[r].at \in {"fetch", "purge", "delete"}, dropped' = dropped, damaged' = damaged,
             stage = "purge" => At(r, "fetch") /\ (Id(r) \in damaged \/ Id(r) \notin Accepted),
             stage = "drop" => objects'[Id(r)] = "none"
      PROVE  \E x \in Request :
               /\ Over' = Over /\ Accepted' = Accepted /\ req[r].at \notin {"store", "insert"}
               /\ x.at \notin {"store", "insert"} /\ KindFits(r)' /\ WorkFits(r)'
               /\ req' = [req EXCEPT ![r] = x]
  <2>. DEFINE x == [req[r] EXCEPT !.at = stage]
  <2>1. x \in Request /\ x.at = stage /\ x.kind = req[r].kind /\ x.id = req[r].id
    BY <1>1 DEF Request, Stages
  <2>2. req' = [req EXCEPT ![r] = x]
    BY <1>g DEF Goes
  <2>. HIDE DEF x
  <2>3. /\ Over' = Over /\ Accepted' = Accepted /\ req'[r] = x
        /\ req[r].at \notin {"store", "insert"} /\ x.at \notin {"store", "insert"}
    BY <1>2, <2>1, <2>2
  <2>4. KindFits(r)'
    BY <1>1, <1>g, <2>1, <2>3 DEF KindFits
  <2>5. /\ Id(r) \in Over /\ (stage = "drop" /\ req[r].kind = "delete" => Id(r) \in dropped)
        /\ stage = "purge" => req[r].kind = "get"
    BY <1>1, <1>g DEF WorkFits
  <2>6. WorkFits(r)'
    BY <1>g, <2>1, <2>3, <2>5 DEF WorkFits
  <2>. QED
    BY <2>1, <2>2, <2>3, <2>4, <2>6
\* The bucket deletes objects that nobody is owed.
<1>b. ASSUME NEW B \in SUBSET Over, Removes(B) \/ Throws(B), B \cap Owed = {},
             UNCHANGED <<user, rows, order, seen>>, NEW x \in Request,
             req[r].at \notin {"store", "insert"}, x.at \notin {"store", "insert"},
             req' = [req EXCEPT ![r] = x], Accepted' = Accepted, KindFits(r)', WorkFits(r)'
      PROVE  Inv'
  <2>1. /\ \A b \in Backups : objects'[b] \in {objects[b], "none"}
        /\ \A b \in Backups \ B : objects'[b] = objects[b]
        /\ \A b \in Pending : objects'[b] = objects[b] /\ age'[b] = age[b]
    BY <1>1, <1>b, Removed
  <2>2. \A b \in Owed : b \in rows /\ objects'[b] = objects[b]
    BY <1>1, <1>b, <2>1 DEF OwedAreKept
  <2>3. UNCHANGED <<user, rows, order, dropped, deleted, damaged>>
    BY <1>b DEF seen
  <2>4. /\ req[r].at \notin {"store", "insert"} /\ x.at \notin {"store", "insert"}
        /\ req' = [req EXCEPT ![r] = x] /\ Accepted' = Accepted /\ KindFits(r)' /\ WorkFits(r)'
    BY <1>b
  <2>. HIDE DEF At, Id
  <2>. QED
    BY <2>1, <2>2, <2>3, <2>4, QuietStep
<1>3. CASE Discard(r)
  <2>1. {Id(r)} \in SUBSET Over /\ {Id(r)} \cap Owed = {}
    BY <1>1, <1>3 DEF Discard, WorkFits, Owed
  <2>. QED
    BY <1>3, <1>e, <1>b, <2>1, NoRequestIsOne DEF Discard
<1>4. CASE FetchObject(r)
  <2>1. Id(r) \in Over /\ objects[Id(r)] \in {"none", "good", "damaged"}
        /\ UNCHANGED <<user, rows, objects, age, order, dropped, deleted, damaged>>
    BY <1>1, <1>4 DEF FetchObject, WorkFits, TypeOK, seen
  <2>2. CASE Ends(r)
    BY <1>e, <2>1, <2>2, NoRequestIsOne, QuietMove
  <2>3. ASSUME NEW stage \in {"purge", "drop"}, Goes(r, stage),
               stage = "purge" => objects[Id(r)] = "damaged",
               stage = "drop" => objects[Id(r)] = "none"
        PROVE  Inv'
    <3>1. stage = "purge" => Id(r) \in damaged \/ Id(r) \notin Accepted
      BY <1>1, <2>1, <2>3 DEF Past
    <3>2. At(r, "fetch")
      BY <1>4 DEF FetchObject
    <3>. QED
      BY <1>g, <2>1, <2>3, <3>1, <3>2, QuietMove
  <2>. QED
    BY <1>4, <2>1, <2>2, <2>3 DEF FetchObject
<1>5. CASE FetchFails(r)
  BY <1>5, <1>e, NoRequestIsOne, QuietMove DEF FetchFails, seen
<1>6. CASE Purge(r) \/ DeleteObject(r)
  <2>1. {Id(r)} \in SUBSET Over /\ {Id(r)} \cap Owed = {}
    BY <1>1, <1>6 DEF Purge, DeleteObject, WorkFits, Owed
  <2>2. /\ req[r].at \in {"purge", "delete"} /\ UNCHANGED <<user, rows, order, seen>>
        /\ dropped' = dropped /\ damaged' = damaged
        /\ (Removes({Id(r)}) /\ Goes(r, "drop")) \/ (Throws({Id(r)}) /\ Ends(r))
    BY <1>6 DEF Purge, DeleteObject, seen
  <2>3. CASE Throws({Id(r)}) /\ Ends(r)
    BY <1>e, <1>b, <2>1, <2>2, <2>3, NoRequestIsOne
  <2>4. CASE Removes({Id(r)}) /\ Goes(r, "drop")
    <3>1. objects'[Id(r)] = "none"
      BY <1>1, <2>1, <2>4 DEF Removes, Without
    <3>. QED
      BY <1>g, <1>b, <2>1, <2>2, <2>4, <3>1
  <2>. QED
    BY <2>2, <2>3, <2>4
<1>7. CASE DropRow(r)
  <2>1. /\ Id(r) \in Over /\ objects[Id(r)] = "none" /\ rows' \subseteq rows
        /\ \A b \in rows \ {Id(r)} : b \in rows'
        /\ \A b \in deleted' \ deleted : b = Id(r) /\ b \notin rows'
        /\ UNCHANGED <<user, objects, age, order, dropped, damaged>>
    BY <1>1, <1>7 DEF DropRow, WorkFits
  <2>2. \A b \in Owed : b \in rows'
    BY <1>1, <2>1 DEF OwedAreKept
  <2>3. Ends(r)
    BY <1>7 DEF DropRow
  <2>. QED
    BY <1>e, <2>1, <2>2, <2>3, NoRequestIsOne, QuietStep
<1>8. CASE EraseObjects(r)
  <2>1. /\ req[r].keys \in SUBSET Over /\ req[r].keys \cap Owed = {}
        /\ UNCHANGED <<user, rows, order, seen>>
    BY <1>1, <1>8 DEF EraseObjects, WorkFits, Owed
  <2>2. CASE Throws(req[r].keys) /\ Ends(r)
    BY <1>e, <1>b, <2>1, <2>2, NoRequestIsOne
  <2>3. CASE Removes(req[r].keys) /\ req' = [req EXCEPT ![r].at = "cascade", ![r].keys = {}]
    <3>. DEFINE x == [req[r] EXCEPT !.at = "cascade", !.keys = {}]
    <3>1. x \in Request /\ x.at = "cascade" /\ x.kind = req[r].kind /\ x.id = req[r].id
      BY <1>1 DEF Request, Stages
    <3>2. req' = [req EXCEPT ![r] = x]
      BY <2>3
    <3>. HIDE DEF x
    <3>3. /\ Over' = Over /\ Accepted' = Accepted /\ req'[r] = x
          /\ req[r].at \notin {"store", "insert"} /\ x.at \notin {"store", "insert"}
      BY <1>2, <3>1, <3>2
    <3>4. KindFits(r)' /\ WorkFits(r)'
      BY <1>1, <3>1, <3>3 DEF KindFits, WorkFits
    <3>. QED
      BY <1>b, <2>1, <2>3, <3>1, <3>2, <3>3, <3>4
  <2>. QED
    BY <1>8, <2>2, <2>3 DEF EraseObjects
<1>9. CASE Cascade(r)
  <2>1. Ends(r) /\ UNCHANGED <<objects, age, order, dropped, deleted, damaged>>
    BY <1>9 DEF Cascade, seen
  <2>2. CASE user' = user /\ rows' = rows
    BY <1>e, <2>1, <2>2, NoRequestIsOne, QuietMove
  <2>3. CASE user' = FALSE /\ rows' = {}
    <3>1. /\ Accepted' = Accepted /\ req[r].at \notin {"store", "insert"}
          /\ NoRequest.at \notin {"store", "insert"} /\ KindFits(r)' /\ WorkFits(r)'
          /\ req' = [req EXCEPT ![r] = NoRequest] /\ NoRequest \in Request
      BY <1>e, <2>1, NoRequestIsOne
    <3>2. ~user' /\ rows' \subseteq rows
      BY <2>3
    <3>3. user' => user
      BY <3>2
    <3>4. \A b \in Owed \ dropped' : user' => b \in rows' /\ objects'[b] = objects[b]
      BY <3>2
    <3>5. /\ \A b \in Backups : objects'[b] \in {objects[b], "none"}
          /\ \A b \in Pending : objects'[b] = objects[b] /\ age'[b] = age[b]
          /\ \A b \in deleted' \ deleted : b \in Over /\ b \notin rows' /\ objects'[b] = "none"
      BY <2>1
    <3>. QED
      BY <2>1, <3>1, <3>2, <3>3, <3>4, <3>5, QuietStep
  <2>. QED
    BY <1>9, <2>2, <2>3 DEF Cascade
<1>. QED
  BY <1>3, <1>4, <1>5, <1>6, <1>7, <1>8, <1>9 DEF Download, Delete
\* An upload is over: the stores change only at its id, and it is accepted with its row.
LEMMA UploadEnds ==
  ASSUME Inv, TypeOK', NEW r \in Requests, NEW x \in Request, req' = [req EXCEPT ![r] = x],
         req[r].at \in {"store", "insert"}, x.at \notin {"store", "insert"},
         UNCHANGED <<user, acked, dropped, deleted, damaged>>,
         \A b \in Backups \ {Id(r)} : objects'[b] = objects[b] /\ age'[b] = age[b],
         Insert(Id(r)) \/ UNCHANGED <<rows, order>>,
         x.kind = "upload" /\ x.at \in Maintenance =>
           x.id = Id(r) /\ Id(r) \in rows' /\ (objects'[Id(r)] = "good" \/ Id(r) \in damaged),
         x.at \in {"idle", "retain", "discard"},
         x.at = "discard" => x.kind = "upload" /\ x.id = Id(r),
         x.kind \in {"get", "delete", "upload"} => x.id \in Backups
  PROVE  Inv'
<1>1. /\ TypeOK /\ UploadsApart /\ Past /\ OwedAreKept
      /\ \A q \in Requests : KindFits(q) /\ UploadFits(q) /\ WorkFits(q)
  BY DEF Inv
<1>2. req'[r] = x /\ \A q \in Requests : q # r => req'[q] = req[q]
  BY <1>1 DEF TypeOK
<1>3. Id(r) \in Backups /\ Id(r) \in Pending /\ Id(r) \in Begun
  BY <1>1 DEF KindFits, UploadFits, Pending
<1>4. Pending' = Pending \ {Id(r)}
  BY <1>1, <1>2 DEF Pending, UploadsApart
<1>5. Begun' = Begun /\ Over' = Over \cup {Id(r)} /\ Id(r) \notin Over
  <2>1. Begun' = Begun
    BY DEF Begun, Insert
  <2>. QED
    BY <1>3, <1>4, <2>1 DEF Over
<1>r. /\ rows \subseteq rows' /\ rows' \subseteq rows \cup {Id(r)}
      /\ \A b \in Backups \ {Id(r)} : earlier'[b] = earlier[b]
      /\ created' = created
  BY <1>1 DEF Insert, TypeOK
<1>s. (rows \subseteq Inserted /\ Inserted \subseteq Over)'
  <2>1. CASE UNCHANGED <<rows, order>>
    BY <1>1, <1>5, <2>1 DEF Past, Inserted
  <2>2. CASE Insert(Id(r))
    <3>1. rows' = rows \cup {Id(r)} /\ Inserted' = Inserted \cup {Id(r)}
      BY <1>1, <1>3, <2>2 DEF Insert, Inserted, TypeOK
    <3>. QED
      BY <1>1, <1>5, <3>1 DEF Past
  <2>. QED
    BY <2>1, <2>2
<1>6. Accepted' = Accepted \cup (IF x.kind = "upload" /\ x.at \in Maintenance THEN {Id(r)} ELSE {})
  <2>1. ~Assured(r)
    BY DEF Assured, Maintenance
  <2>2. CASE x.kind = "upload" /\ x.at \in Maintenance
    BY <1>2, <1>3, <2>1, <2>2 DEF Accepted, Assured
  <2>3. CASE ~(x.kind = "upload" /\ x.at \in Maintenance)
    BY <1>2, <2>1, <2>3 DEF Accepted, Assured
  <2>. QED
    BY <2>2, <2>3
<1>o. Over \subseteq Backups /\ Over' \subseteq Backups
  BY <1>3, <1>5 DEF Over, Begun
<1>7. Id(r) \notin rows /\ Id(r) \notin Accepted /\ Id(r) \notin deleted
  BY <1>1, <1>5 DEF Past
<1>8. Steady
  BY <1>5, <1>6, <1>r, <1>o DEF Steady
<1>9. UploadsApart'
  BY <1>1, <1>2 DEF UploadsApart
<1>10. ASSUME NEW q \in Requests
       PROVE  KindFits(q)' /\ UploadFits(q)' /\ WorkFits(q)'
  <2>1. CASE q = r
    <3>1. KindFits(r)' /\ UploadFits(r)'
      BY <1>2 DEF KindFits, UploadFits
    <3>2. WorkFits(r)'
      BY <1>2, <1>5, <1>6, <1>7 DEF WorkFits, Maintenance
    <3>. QED
      BY <2>1, <3>1, <3>2
  <2>2. CASE q # r
    <3>1. KindFits(q)' /\ WorkFits(q)'
      BY <1>1, <1>2, <1>8, <2>2, OthersFit
    <3>2. req[q].at \in {"store", "insert"} => Id(q) \in Backups \ {Id(r)}
      BY <1>1, <2>2 DEF KindFits, UploadsApart
    <3>3. UploadFits(q)'
      BY <1>1, <1>2, <1>5, <2>2, <3>2 DEF UploadFits
    <3>. QED
      BY <3>1, <3>3
  <2>. QED
    BY <2>1, <2>2
<1>11. Past'
  <2>1. (rows \subseteq Inserted /\ Inserted \subseteq Over /\ Accepted \subseteq Over)'
    BY <1>1, <1>5, <1>6, <1>s DEF Past
  <2>2. (deleted \subseteq Over /\ DeletedIsGone)'
    BY <1>1, <1>5, <1>7, <1>r, <1>o DEF Past, DeletedIsGone
  <2>3. (Present \subseteq Begun)'
    BY <1>1, <1>3, <1>5 DEF Past, Present
  <2>4. (\A b \in Backups : objects[b] = "damaged" => b \in damaged \/ b \in Over \ Accepted)'
    BY <1>1, <1>5, <1>6, <1>7 DEF Past, Maintenance
  <2>. QED
    BY <2>1, <2>2, <2>3, <2>4 DEF Past
<1>12. OwedAreKept'
  <2>1. \A b \in Backups \ {Id(r)} : Few(b)' = Few(b)
    BY <1>5, <1>r DEF Few, Newer
  <2>2. SUFFICES ASSUME NEW b \in Owed'
                 PROVE  b \in rows' /\ objects'[b] = "good"
    BY DEF OwedAreKept
  <2>3. b \in Backups /\ b \in Accepted'
    BY <1>11, <1>o DEF Owed, Past
  <2>4. CASE b = Id(r)
    <3>1. b \notin damaged
      BY DEF Owed
    <3>. QED
      BY <1>6, <1>7, <2>3, <2>4, <3>1
  <2>5. CASE b # Id(r)
    <3>1. b \in Owed
      BY <1>6, <2>1, <2>3, <2>5 DEF Owed
    <3>. QED
      BY <1>1, <1>r, <2>3, <2>5, <3>1 DEF OwedAreKept
  <2>. QED
    BY <2>4, <2>5
<1>. QED
  BY <1>9, <1>10, <1>11, <1>12 DEF Inv

LEMMA Uploads ==
  ASSUME Inv, TypeOK', NEW r \in Requests, StoreFails(r) \/ InsertRow(r) \/ InsertFails(r)
  PROVE  Inv'
<1>1. /\ TypeOK /\ KindFits(r) /\ UploadFits(r) /\ req[r] \in Request
      /\ req[r].at \in {"store", "insert"}
  BY DEF Inv, TypeOK, StoreFails, InsertRow, InsertFails
<1>2. Id(r) \in Backups /\ req[r].kind = "upload"
  BY <1>1 DEF KindFits
<1>3. ASSUME NEW stage \in {"retain", "discard"}, Goes(r, stage)
      PROVE  \E x \in Request : /\ req' = [req EXCEPT ![r] = x] /\ x.at = stage
                                /\ x.kind = "upload" /\ x.id = Id(r)
  <2>. DEFINE x == [req[r] EXCEPT !.at = stage]
  <2>1. x \in Request /\ x.at = stage /\ x.kind = req[r].kind /\ x.id = req[r].id
    BY <1>1 DEF Request, Stages
  <2>2. req' = [req EXCEPT ![r] = x]
    BY <1>3 DEF Goes
  <2>. HIDE DEF x
  <2>. QED
    BY <1>2, <2>1, <2>2
<1>4. CASE StoreFails(r)
  <2>1. /\ UNCHANGED <<user, rows, order, acked, dropped, deleted, damaged>>
        /\ \A b \in Backups \ {Id(r)} : objects'[b] = objects[b] /\ age'[b] = age[b]
    BY <1>1, <1>4 DEF StoreFails, TypeOK, seen
  <2>2. CASE Ends(r)
    <3>1. req' = [req EXCEPT ![r] = NoRequest] /\ NoRequest.at = "idle" /\ NoRequest.kind = "list"
      BY <2>2 DEF Ends, NoRequest
    <3>. QED
      BY <1>1, <2>1, <3>1, NoRequestIsOne, UploadEnds DEF Maintenance
  <2>3. CASE Goes(r, "discard")
    BY <1>1, <1>2, <1>3, <2>1, <2>3, UploadEnds DEF Maintenance
  <2>. QED
    BY <1>4, <2>2, <2>3 DEF StoreFails
<1>5. CASE InsertRow(r)
  <2>1. /\ UNCHANGED <<user, objects, age, acked, dropped, deleted, damaged>>
        /\ Insert(Id(r)) /\ Id(r) \in rows' /\ Goes(r, "retain") /\ At(r, "insert")
    BY <1>5 DEF InsertRow, Insert, seen
  <2>2. objects[Id(r)] = "good" \/ Id(r) \in damaged
    BY <1>1, <2>1 DEF UploadFits
  <2>. QED
    BY <1>1, <1>2, <1>3, <2>1, <2>2, UploadEnds DEF Maintenance
<1>6. CASE InsertFails(r)
  <2>1. /\ UNCHANGED <<user, objects, age, acked, dropped, deleted, damaged>>
        /\ Insert(Id(r)) \/ UNCHANGED <<rows, order>>
        /\ Goes(r, "discard")
    BY <1>6 DEF InsertFails, seen
  <2>. QED
    BY <1>1, <1>2, <1>3, <2>1, UploadEnds DEF Maintenance
<1>. QED
  BY <1>4, <1>5, <1>6
LEMMA StoresObject ==
  ASSUME Inv, TypeOK', NEW r \in Requests, StoreObject(r)
  PROVE  Inv'
<1>1. /\ TypeOK /\ UploadsApart /\ Past /\ OwedAreKept
      /\ \A q \in Requests : KindFits(q) /\ UploadFits(q) /\ WorkFits(q)
  BY DEF Inv
<1>2. /\ At(r, "store") /\ UNCHANGED <<user, rows, order, acked, dropped, deleted, damaged>>
      /\ req' = [req EXCEPT ![r].at = "insert"]
  BY DEF StoreObject, Goes, seen
<1>3. /\ req'[r] = [req[r] EXCEPT !.at = "insert"]
      /\ \A q \in Requests : q # r => req'[q] = req[q]
  BY <1>1, <1>2 DEF TypeOK
<1>4. /\ req[r] \in Request /\ req'[r].at = "insert" /\ req'[r].id = Id(r)
      /\ req'[r].kind = req[r].kind
  BY <1>1, <1>3 DEF TypeOK, Request
<1>5. Id(r) \in Backups /\ Id(r) \in Pending /\ Id(r) \in Begun /\ Id(r) \notin Over
  BY <1>1, <1>2 DEF KindFits, UploadFits, Pending, Over
<1>6. /\ objects'[Id(r)] = "good" /\ age'[Id(r)] = 0
      /\ \A b \in Backups \ {Id(r)} : objects'[b] = objects[b] /\ age'[b] = age[b]
  BY <1>1, <1>5 DEF StoreObject, TypeOK
<1>7. Begun' = Begun /\ Pending' = Pending /\ Inserted' = Inserted
  BY <1>2, <1>3, <1>4 DEF Begun, Pending, Inserted
<1>8. Over' = Over /\ Over \subseteq Backups
  BY <1>7 DEF Over, Begun
<1>9. Accepted' = Accepted
  BY <1>2, <1>3, <1>4 DEF Accepted, Assured, Maintenance
<1>10. Steady
  BY <1>2, <1>5, <1>6, <1>8, <1>9 DEF Steady
<1>11. UploadsApart'
  BY <1>1, <1>2, <1>3, <1>4 DEF UploadsApart
<1>12. ASSUME NEW q \in Requests
       PROVE  KindFits(q)' /\ UploadFits(q)' /\ WorkFits(q)'
  <2>1. CASE q = r
    <3>1. KindFits(r)' /\ WorkFits(r)'
      BY <1>1, <1>2, <1>4 DEF KindFits, WorkFits
    <3>2. UploadFits(r)'
      BY <1>4, <1>5, <1>6, <1>7, NumberAssumption DEF UploadFits
    <3>. QED
      BY <2>1, <3>1, <3>2
  <2>2. CASE q # r
    <3>1. KindFits(q)' /\ WorkFits(q)'
      BY <1>1, <1>3, <1>10, <2>2, OthersFit
    <3>2. req[q].at \in {"store", "insert"} => Id(q) \in Backups \ {Id(r)}
      BY <1>1, <1>2, <2>2 DEF KindFits, UploadsApart
    <3>3. UploadFits(q)'
      BY <1>1, <1>2, <1>3, <1>6, <1>7, <2>2, <3>2 DEF UploadFits
    <3>. QED
      BY <3>1, <3>3
  <2>. QED
    BY <2>1, <2>2
<1>13. Past'
  <2>1. (/\ rows \subseteq Inserted /\ Inserted \subseteq Over
         /\ Accepted \subseteq Over /\ deleted \subseteq Over)'
    BY <1>1, <1>2, <1>7, <1>8, <1>9 DEF Past
  <2>2. DeletedIsGone'
    BY <1>1, <1>2, <1>5, <1>6, <1>8 DEF Past, DeletedIsGone
  <2>3. (Present \subseteq Begun)'
    BY <1>1, <1>5, <1>6, <1>7 DEF Past, Present
  <2>4. (\A b \in Backups : objects[b] = "damaged" => b \in damaged \/ b \in Over \ Accepted)'
    BY <1>1, <1>2, <1>6, <1>8, <1>9 DEF Past
  <2>. QED
    BY <2>1, <2>2, <2>3, <2>4 DEF Past
<1>14. OwedAreKept'
  <2>1. \A b \in Backups : Few(b)' = Few(b)
    BY <1>2 DEF Few, Newer, Begun
  <2>2. SUFFICES ASSUME NEW b \in Owed'
                 PROVE  b \in rows' /\ objects'[b] = "good"
    BY DEF OwedAreKept
  <2>3. b \in Backups /\ b # Id(r)
    BY <1>1, <1>5, <1>8, <1>9 DEF Owed, Past
  <2>4. b \in Owed
    BY <1>2, <1>9, <2>1, <2>3 DEF Owed
  <2>. QED
    BY <1>1, <1>2, <1>6, <2>3, <2>4 DEF OwedAreKept
<1>. QED
  BY <1>11, <1>12, <1>13, <1>14 DEF Inv

\* A new upload makes nothing older than it one of fewer.
LEMMA NewUpload ==
  ASSUME Inv, TypeOK', NEW r \in Requests, NEW b \in Backups, PutBackup(r, b)
  PROVE  Inv'
<1>1. /\ TypeOK /\ UploadsApart /\ Past /\ OwedAreKept
      /\ \A q \in Requests : KindFits(q) /\ UploadFits(q) /\ WorkFits(q)
  BY DEF Inv
<1>. DEFINE x == [NoRequest EXCEPT !.at = "store", !.kind = "upload", !.id = b]
<1>2. x.at = "store" /\ x.kind = "upload" /\ x.id = b
  BY DEF NoRequest
<1>3. /\ req[r].at = "idle" /\ b \notin Begun /\ now' \in {now, now + 1}
      /\ created' = [created EXCEPT ![b] = now'] /\ earlier' = earlier
      /\ req' = [req EXCEPT ![r] = x]
      /\ UNCHANGED <<user, rows, objects, age, acked, dropped, deleted, damaged>>
  BY DEF PutBackup, Starts, seen
<1>. HIDE DEF x
<1>4. req'[r] = x /\ \A q \in Requests : q # r => req'[q] = req[q]
  BY <1>1, <1>3 DEF TypeOK
<1>b. Begun \in SUBSET Backups
  BY DEF Begun
<1>c. /\ created'[b] = now' /\ \A c \in Backups \ {b} : created'[c] = created[c]
      /\ \A c \in Backups : created[c] \in Nat /\ created[c] <= now
  BY <1>1, <1>3 DEF TypeOK
<1>z. now' # 0
  <2>1. CASE now' = now + 1
    BY <1>1, <2>1 DEF TypeOK
  <2>2. ASSUME NEW q \in Requests, now' = now, req[q].at \in {"store", "insert"}
        PROVE  now' # 0
    <3>1. Id(q) \in Begun
      BY <1>1, <2>2 DEF UploadFits
    <3>. QED
      BY <1>1, <1>c, <2>2, <3>1 DEF Begun, TypeOK
  <2>. QED
    BY <2>1, <2>2 DEF PutBackup
<1>5. Begun' = Begun \cup {b} /\ Inserted' = Inserted
  BY <1>3, <1>c, <1>z DEF Begun, Inserted
<1>6. Pending' = Pending \cup {b}
  BY <1>2, <1>3, <1>4 DEF Pending
<1>7. Over' = Over /\ b \notin Over /\ Over \subseteq Backups
  BY <1>3, <1>5, <1>6, <1>b DEF Over
<1>8. Accepted' = Accepted
  BY <1>2, <1>3, <1>4 DEF Accepted, Assured, Maintenance
<1>9. Steady
  BY <1>3, <1>7, <1>8 DEF Steady
<1>10. \A q \in Requests : req[q].at \in {"store", "insert"} => Id(q) # b
  BY <1>1, <1>3 DEF UploadFits
<1>11. UploadsApart'
  BY <1>1, <1>2, <1>4, <1>10 DEF UploadsApart
<1>12. ASSUME NEW q \in Requests
       PROVE  KindFits(q)' /\ UploadFits(q)' /\ WorkFits(q)'
  <2>1. CASE q = r
    <3>1. KindFits(r)' /\ WorkFits(r)'
      BY <1>2, <1>4 DEF KindFits, WorkFits
    <3>2. objects[b] = "none"
      BY <1>1, <1>3 DEF Past, Present
    <3>3. UploadFits(r)'
      BY <1>2, <1>3, <1>4, <1>5, <3>2 DEF UploadFits
    <3>. QED
      BY <2>1, <3>1, <3>3
  <2>2. CASE q # r
    <3>1. KindFits(q)' /\ WorkFits(q)'
      BY <1>1, <1>4, <1>9, <2>2, OthersFit
    <3>2. UploadFits(q)'
      BY <1>1, <1>3, <1>4, <1>5, <2>2 DEF UploadFits
    <3>. QED
      BY <3>1, <3>2
  <2>. QED
    BY <2>1, <2>2
<1>13. Past'
  BY <1>1, <1>3, <1>5, <1>7, <1>8 DEF Past, DeletedIsGone, Present
<1>14. OwedAreKept'
  <2>1. ASSUME NEW c \in Backups, c # b, Few(c)'
        PROVE  Few(c)
    <3>1. \A d \in Backups : Newer(d, c) => Newer(d, c)'
      BY <1>3, <1>5, <1>c, <2>1 DEF Newer
    <3>. QED
      BY <2>1, <3>1, FewBefore
  <2>2. SUFFICES ASSUME NEW c \in Owed'
                 PROVE  c \in rows' /\ objects'[c] = "good"
    BY DEF OwedAreKept
  <2>3. c \in Backups /\ c # b
    BY <1>7, <1>13 DEF Owed, Past
  <2>4. c \in Owed
    BY <1>3, <1>8, <2>1, <2>3 DEF Owed
  <2>. QED
    BY <1>1, <1>3, <2>4 DEF OwedAreKept
<1>. QED
  BY <1>11, <1>12, <1>13, <1>14 DEF Inv

LEMMA Ages ==
  ASSUME Inv, TypeOK', Tick \/ \E b \in Backups : Damage(b)
  PROVE  Inv'
<1>1. /\ TypeOK /\ UploadsApart /\ Past /\ OwedAreKept
      /\ \A q \in Requests : KindFits(q) /\ UploadFits(q) /\ WorkFits(q)
  BY DEF Inv
<1>2. UNCHANGED <<user, rows, order, req, acked, dropped, deleted>>
  BY DEF Tick, Damage, seen
<1>3. Begun' = Begun /\ Pending' = Pending /\ Accepted' = Accepted /\ Inserted' = Inserted
  BY <1>2 DEF Begun, Pending, Accepted, Assured, Inserted
<1>4. Over' = Over /\ Over \subseteq Backups
  BY <1>3 DEF Over, Begun
<1>5. /\ \A b \in Backups : \/ objects'[b] = objects[b]
                            \/ objects[b] = "good" /\ objects'[b] = "damaged" /\ b \in damaged'
      /\ damaged \subseteq damaged'
  <2>1. CASE Tick
    BY <2>1 DEF Tick, seen
  <2>2. ASSUME NEW d \in Backups, Damage(d)
        PROVE  /\ \A b \in Backups \ {d} : objects'[b] = objects[b]
               /\ objects[d] = "good" /\ objects'[d] = "damaged" /\ damaged' = damaged \cup {d}
    BY <1>1, <2>2 DEF Damage, TypeOK
  <2>. QED
    BY <2>1, <2>2
<1>6. Steady
  BY <1>2, <1>3, <1>4, <1>5 DEF Steady
<1>7. ASSUME NEW q \in Requests
      PROVE  KindFits(q)' /\ UploadFits(q)' /\ WorkFits(q)'
  <2>1. KindFits(q)' /\ WorkFits(q)'
    BY <1>1, <1>2, <1>6, OthersFit
  <2>2. At(q, "insert") => age'[Id(q)] < Grace
    <3>1. CASE Tick
      <4>1. At(q, "insert") => Id(q) \in Backups /\ age[Id(q)] + 1 < Grace /\ age[Id(q)] < Grace
        BY <1>1, <3>1 DEF Tick, KindFits, UploadFits
      <4>2. \A b \in Backups : age'[b] \in {age[b], age[b] + 1}
        BY <1>1, <3>1 DEF Tick, TypeOK
      <4>. QED
        BY <4>1, <4>2
    <3>2. CASE \E b \in Backups : Damage(b)
      BY <1>1, <3>2 DEF Damage, UploadFits
    <3>. QED
      BY <3>1, <3>2
  <2>3. req[q].at \in {"store", "insert"} => Id(q) \in Backups
    BY <1>1 DEF KindFits
  <2>4. UploadFits(q)'
    BY <1>1, <1>2, <1>3, <1>5, <2>2, <2>3 DEF UploadFits
  <2>. QED
    BY <2>1, <2>4
<1>8. UploadsApart'
  BY <1>1, <1>2 DEF UploadsApart
<1>9. Past'
  <2>1. (/\ rows \subseteq Inserted /\ Inserted \subseteq Over
         /\ Accepted \subseteq Over /\ deleted \subseteq Over)'
    BY <1>1, <1>2, <1>3, <1>4 DEF Past
  <2>2. DeletedIsGone'
    BY <1>1, <1>2, <1>4, <1>5 DEF Past, DeletedIsGone
  <2>3. (Present \subseteq Begun)'
    BY <1>1, <1>3, <1>5 DEF Past, Present
  <2>4. (\A b \in Backups : objects[b] = "damaged" => b \in damaged \/ b \in Over \ Accepted)'
    BY <1>1, <1>3, <1>4, <1>5 DEF Past
  <2>. QED
    BY <2>1, <2>2, <2>3, <2>4 DEF Past
<1>10. OwedAreKept'
  <2>1. \A b \in Backups : Few(b)' = Few(b)
    BY <1>2 DEF Few, Newer, Begun
  <2>2. SUFFICES ASSUME NEW b \in Owed'
                 PROVE  b \in rows' /\ objects'[b] = "good"
    BY DEF OwedAreKept
  <2>3. b \in Backups /\ b \notin damaged' /\ damaged \subseteq damaged'
    BY <1>1, <1>3, <1>4, <1>5 DEF Owed, Past
  <2>4. b \in Owed
    BY <1>2, <1>3, <2>1, <2>3 DEF Owed
  <2>. QED
    BY <1>1, <1>2, <1>5, <2>3, <2>4 DEF OwedAreKept
<1>. QED
  BY <1>7, <1>8, <1>9, <1>10 DEF Inv
LEMMA Step == Inv /\ [Next]_vars => Inv'
<1>. SUFFICES ASSUME Inv, [Next]_vars
              PROVE  Inv'
  OBVIOUS
<1>t. TypeOK'
  BY TypeStep
<1>1. ASSUME NEW r \in Requests, Handle(r)
      PROVE  Inv'
  BY <1>t, <1>1, StoresObject, Uploads, Maintains, Deletes DEF Handle, Upload
<1>2. ASSUME NEW r \in Requests,
             \/ ListBackups(r) \/ DeleteUser(r)
             \/ \E b \in Backups : GetBackup(r, b) \/ DeleteBackup(r, b)
      PROVE  Inv'
  BY <1>t, <1>2, QuietRequests
<1>3. ASSUME NEW r \in Requests, NEW b \in Backups, PutBackup(r, b)
      PROVE  Inv'
  BY <1>t, <1>3, NewUpload
<1>4. CASE Tick \/ \E b \in Backups : Damage(b)
  BY <1>t, <1>4, Ages
<1>5. CASE UNCHANGED vars
  <2>. USE <1>5 DEF vars, seen
  <2>1. Begun' = Begun /\ Pending' = Pending /\ Accepted' = Accepted /\ Inserted' = Inserted
    BY DEF Begun, Pending, Accepted, Assured, Inserted
  <2>2. Over' = Over
    BY <2>1 DEF Over
  <2>3. UploadsApart' /\ \A r \in Requests : KindFits(r)' /\ UploadFits(r)' /\ WorkFits(r)'
    BY <2>1, <2>2 DEF Inv, UploadsApart, KindFits, UploadFits, WorkFits
  <2>4. Past'
    BY <2>1, <2>2 DEF Inv, Past, DeletedIsGone, Present
  <2>5. \A b \in Backups : Few(b)' = Few(b)
    BY DEF Few, Newer, Begun
  <2>6. Accepted \subseteq Backups
    BY DEF Inv, TypeOK, Accepted
  <2>7. Owed' = Owed
    BY <2>1, <2>5, <2>6 DEF Owed
  <2>8. OwedAreKept'
    BY <2>7 DEF Inv, OwedAreKept
  <2>. QED
    BY <1>t, <2>3, <2>4, <2>8 DEF Inv
<1>. QED
  BY <1>1, <1>2, <1>3, <1>4, <1>5 DEF Next

(* The retention *)

LEMMA OrderStep ==
  ASSUME Inv, Ordered, [Next]_vars
  PROVE  Ordered'
<1>1. CASE earlier' = earlier
  <2>1. Inserted' = Inserted
    BY <1>1 DEF Inserted
  <2>. QED
    BY <1>1, <2>1 DEF Ordered
<1>2. ASSUME NEW r \in Requests, At(r, "insert"), Insert(Id(r))
      PROVE  Ordered'
  <2>. DEFINE b == Id(r)
  <2>1. Inserted \in SUBSET Backups /\ earlier \in [Backups -> SUBSET Backups] /\ b \in Backups
    BY <1>2 DEF Inv, TypeOK, Inserted, KindFits
  <2>2. b \notin Inserted
    BY <1>2, <2>1 DEF Inv, Past, Over, Pending
  <2>3. /\ earlier'[b] = Inserted \cup {b}
        /\ \A c \in Backups \ {b} : earlier'[c] = earlier[c]
    BY <1>2, <2>1 DEF Insert
  <2>. HIDE DEF b
  <2>4. Inserted' = Inserted \cup {b}
    BY <2>1, <2>2, <2>3 DEF Inserted
  <2>5. \A c \in Backups : b \notin earlier[c]
    BY <2>1, <2>2 DEF Ordered
  <2>. QED
    BY <2>1, <2>2, <2>3, <2>4, <2>5 DEF Ordered
<1>3. \/ earlier' = earlier
      \/ \E r \in Requests : At(r, "insert") /\ Insert(Id(r))
  BY DEF Next, vars, Handle, Upload, Maintain, Download, Delete, StoreObject, StoreFails,
         InsertRow, InsertFails, Discard, Retain, RetainFails, DeleteExpired, ReadRows,
         ListObjects, DeleteOrphans, DeleteMissing, ReconcileFails, FetchObject, FetchFails,
         Purge, DeleteObject, DropRow, EraseObjects, Cascade, Tick, Damage, ListBackups,
         DeleteUser, PutBackup, GetBackup, DeleteBackup
<1>. QED
  BY <1>1, <1>2, <1>3

\* The newer of two rows has the smaller rank.
LEMMA RanksApart ==
  ASSUME TypeOK, Ordered, rows \subseteq Inserted, NEW b \in rows, NEW c \in rows, Newer(c, b)
  PROVE  Rank(c) \in Nat /\ Rank(b) \in Nat /\ Rank(c) < Rank(b)
<1>. DEFINE AboveB == {d \in rows : Newer(d, b)}
            AboveC == {d \in rows : Newer(d, c)}
<1>1. Inserted \in SUBSET Backups /\ \A d \in Backups : created[d] \in Nat
  BY DEF Inserted, TypeOK
<1>2. IsFiniteSet(rows)
  BY <1>1, BackupAssumption, FS_Subset
<1>3. AboveC \subseteq AboveB
  <2>1. SUFFICES ASSUME NEW d \in rows, Newer(d, c)
                 PROVE  Newer(d, b)
    OBVIOUS
  <2>2. created[b] \in Nat /\ created[c] \in Nat /\ created[d] \in Nat
    BY <1>1
  <2>3. c \in earlier[b] \/ b \in earlier[c]
    BY DEF Ordered
  <2>4. d # b
    BY <2>1, <2>2, <2>3 DEF Newer
  <2>5. c \notin earlier[b] /\ d \notin earlier[c] => d \notin earlier[b]
    BY <2>4 DEF Ordered
  <2>. QED
    BY <2>1, <2>2, <2>4, <2>5 DEF Newer
<1>4. c \in AboveB /\ c \notin AboveC
  BY DEF Newer
<1>5. IsFiniteSet(AboveB) /\ IsFiniteSet(AboveC)
  BY <1>2, FS_Subset
<1>6. /\ Cardinality(AboveC) <= Cardinality(AboveB)
      /\ Cardinality(AboveB) = Cardinality(AboveC) => AboveB = AboveC
  BY <1>3, <1>5, FS_Subset
<1>7. Cardinality(AboveB) \in Nat /\ Cardinality(AboveC) \in Nat
  BY <1>5, FS_CardinalityType
<1>8. Cardinality(AboveB) # Cardinality(AboveC)
  BY <1>4, <1>6
<1>9. Rank(b) = Cardinality(AboveB) /\ Rank(c) = Cardinality(AboveC)
  BY DEF Rank
<1>. HIDE DEF AboveB, AboveC
<1>. QED
  BY <1>6, <1>7, <1>8, <1>9

\* No more rows than are retained have a rank below the number to retain.
LEMMA FewRank ==
  ASSUME TypeOK, Ordered, rows \subseteq Inserted, rows \subseteq Begun
  PROVE  Cardinality({b \in rows : Rank(b) < Retention}) <= Retention
<1>. DEFINE First == {b \in rows : Rank(b) < Retention}
            f == [b \in First |-> Rank(b)]
            Places == 0 .. (Retention - 1)
<1>1. \A b, c \in rows : b # c => Newer(b, c) \/ Newer(c, b)
  <2>1. \A b \in rows : created[b] \in Nat
    BY DEF Begun, TypeOK
  <2>2. \A b, c \in rows : b # c => b \notin earlier[c] \/ c \notin earlier[b]
    BY DEF Ordered
  <2>. QED
    BY <2>1, <2>2 DEF Newer
<1>2. \A b, c \in rows : b # c => Rank(b) # Rank(c)
  BY <1>1, RanksApart
<1>3. \A b \in rows : Rank(b) \in Nat
  <2>1. IsFiniteSet(rows)
    BY BackupAssumption, FS_Subset DEF Begun
  <2>. QED
    BY <2>1, FS_Subset, FS_CardinalityType DEF Rank
<1>4. f \in [First -> Places]
  BY <1>3, NumberAssumption
<1>5. f \in Injection(First, Places)
  BY <1>2, <1>4 DEF Injection, IsInjective
<1>6. IsFiniteSet(Places) /\ Cardinality(Places) = Retention
  BY FS_Interval, NumberAssumption
<1>. HIDE DEF f, Places
<1>7. Cardinality(First) <= Cardinality(Places)
  BY <1>5, <1>6, FS_Injection
<1>. QED
  BY <1>6, <1>7

\* What the steps that neither insert a row nor enforce the retention do about them.
LEMMA QuietSteps ==
  ASSUME Inv, [Next]_vars
  PROVE  \/ \E r \in Requests : InsertRow(r) \/ InsertFails(r) \/ Retain(r) \/ RetainFails(r)
         \/ /\ rows' \subseteq rows /\ failures' \in {failures, failures + 1}
            /\ \/ Retaining' = Retaining
               \/ \E r \in Requests : Retaining' = Retaining \cup {r}
<1>. DEFINE Quiet ==
       /\ rows' \subseteq rows /\ failures' \in {failures, failures + 1}
       /\ \/ Retaining' = Retaining
          \/ \E r \in Requests : Retaining' = Retaining \cup {r}
<1>1. TypeOK
  BY DEF Inv
<1>r. req \in [Requests -> Request]
  BY <1>1 DEF TypeOK
<1>2. ASSUME NEW r \in Requests, NEW x, req' = [req EXCEPT ![r] = x], x.at # "retain",
             req[r].at # "retain"
      PROVE  Retaining' = Retaining
  BY <1>r, <1>2 DEF Retaining
<1>3. ASSUME NEW r \in Requests, Ends(r), req[r].at # "retain"
      PROVE  Retaining' = Retaining
  <2>1. NoRequest.at # "retain"
    BY DEF NoRequest
  <2>. QED
    BY <1>2, <1>3, <2>1 DEF Ends
<1>4. ASSUME NEW r \in Requests, NEW stage \in Stages \ {"retain"}, Goes(r, stage),
             req[r].at # "retain"
      PROVE  Retaining' = Retaining
  <2>1. [req[r] EXCEPT !.at = stage].at # "retain"
    BY <1>r DEF Request
  <2>. QED
    BY <1>2, <1>1, <1>4, <2>1, Moved
<1>5. ASSUME NEW r \in Requests, NEW stage \in Stages \ {"retain"}, NEW kind, NEW b,
             Starts(r, kind, b, stage)
      PROVE  Retaining' = Retaining
  <2>1. [NoRequest EXCEPT !.at = stage, !.kind = kind, !.id = b].at # "retain"
    BY DEF NoRequest
  <2>. QED
    BY <1>2, <1>5, <2>1 DEF Starts
<1>6. ASSUME NEW B, Removes(B) \/ Throws(B)
      PROVE  failures' \in {failures, failures + 1}
  BY <1>6 DEF Removes, Throws, Fails, Works
<1>. USE DEF Stages
<1>7. ASSUME NEW r \in Requests, NEW b \in Backups,
             PutBackup(r, b) \/ GetBackup(r, b) \/ DeleteBackup(r, b)
      PROVE  Quiet
  BY <1>5, <1>7 DEF PutBackup, GetBackup, DeleteBackup
<1>8. ASSUME NEW r \in Requests, ListBackups(r)
      PROVE  Quiet
  <2>1. [NoRequest EXCEPT !.at = "retain", !.kind = "list", !.id = None].at = "retain"
    BY DEF NoRequest
  <2>2. Retaining' = Retaining \cup {r}
    BY <1>r, <1>8, <2>1 DEF ListBackups, Starts, Retaining
  <2>. QED
    BY <1>8, <2>2 DEF ListBackups
<1>9. ASSUME NEW r \in Requests, DeleteUser(r)
      PROVE  Quiet
  <2>1. [NoRequest EXCEPT !.at = "erase", !.kind = "user", !.keys = rows].at # "retain"
    BY DEF NoRequest
  <2>. QED
    BY <1>2, <1>9, <2>1 DEF DeleteUser
<1>10. ASSUME NEW r \in Requests, StoreObject(r) \/ StoreFails(r) \/ Discard(r)
       PROVE  Quiet
  BY <1>3, <1>4, <1>6, <1>10 DEF StoreObject, StoreFails, Discard, Fails, Works
<1>11. ASSUME NEW r \in Requests, DeleteExpired(r) \/ DeleteOrphans(r)
       PROVE  Quiet
  <2>1. ASSUME NEW stage \in {"read", "missing"}, At(r, "expire") \/ At(r, "orphans"),
               req' = [req EXCEPT ![r].at = stage, ![r].keys = {}]
        PROVE  Retaining' = Retaining
    <3>1. [req[r] EXCEPT !.at = stage, !.keys = {}].at # "retain"
      BY <1>r DEF Request
    <3>2. req' = [req EXCEPT ![r] = [req[r] EXCEPT !.at = stage, !.keys = {}]]
      BY <2>1
    <3>. QED
      BY <1>2, <2>1, <3>1, <3>2
  <2>2. Retaining' = Retaining
    BY <1>11, <2>1 DEF DeleteExpired, DeleteOrphans
  <2>. QED
    BY <1>6, <1>11, <2>2 DEF DeleteExpired, DeleteOrphans
<1>12. ASSUME NEW r \in Requests, ReadRows(r)
       PROVE  Quiet
  <2>1. PICK O : req' = [req EXCEPT ![r].at = "list", ![r].known = rows, ![r].old = O]
    BY <1>12 DEF ReadRows
  <2>2. [req[r] EXCEPT !.at = "list", !.known = rows, !.old = O].at # "retain"
    BY <1>r DEF Request
  <2>3. req' = [req EXCEPT ![r] = [req[r] EXCEPT !.at = "list", !.known = rows, !.old = O]]
    BY <2>1
  <2>4. Retaining' = Retaining
    BY <1>2, <1>12, <2>2, <2>3 DEF ReadRows
  <2>. QED
    BY <1>12, <2>4 DEF ReadRows, Works
<1>13. ASSUME NEW r \in Requests, ListObjects(r)
       PROVE  Quiet
  <2>1. PICK K, N :
           req' = [req EXCEPT ![r].at = "orphans", ![r].keys = K, ![r].known = N, ![r].old = {}]
    BY <1>13 DEF ListObjects, Listed
  <2>2. [req[r] EXCEPT !.at = "orphans", !.keys = K, !.known = N, !.old = {}].at # "retain"
    BY <1>r DEF Request
  <2>3. Retaining' = Retaining
    BY <1>2, <1>13, <2>1, <2>2 DEF ListObjects
  <2>. QED
    BY <1>13, <2>3 DEF ListObjects, Works, Fails
<1>14. ASSUME NEW r \in Requests, DeleteMissing(r) \/ ReconcileFails(r)
       PROVE  Quiet
  <2>1. CASE Maintained(r)
    BY <1>3, <1>14, <2>1 DEF DeleteMissing, ReconcileFails, Maintained, Works, Fails
  <2>2. ASSUME NEW b, rows' = rows \ {b}, req' = [req EXCEPT ![r].known = @ \ {b}], Works,
               At(r, "missing")
        PROVE  Quiet
    <3>1. [req[r] EXCEPT !.known = @ \ {b}].at # "retain"
      BY <1>r, <2>2 DEF Request
    <3>2. Retaining' = Retaining
      BY <1>2, <2>2, <3>1
    <3>. QED
      BY <2>2, <3>2 DEF Works
  <2>. QED
    BY <1>14, <2>1, <2>2 DEF DeleteMissing, ReconcileFails
<1>15. ASSUME NEW r \in Requests, Download(r)
       PROVE  Quiet
  <2>1. CASE FetchObject(r)
    <3>1. \/ Ends(r) \/ Goes(r, "drop") \/ Goes(r, "purge")
          \/ objects[Id(r)] \notin {"none", "good", "damaged"}
      BY <2>1 DEF FetchObject
    <3>2. objects[Id(r)] \in {"none", "good", "damaged"}
      BY <2>1 DEF Inv, TypeOK, KindFits, FetchObject
    <3>. QED
      BY <1>3, <1>4, <2>1, <3>1, <3>2 DEF FetchObject, Works
  <2>2. CASE FetchFails(r) \/ Purge(r)
    BY <1>3, <1>4, <1>6, <2>2 DEF FetchFails, Purge, Fails
  <2>. QED
    BY <1>15, <2>1, <2>2 DEF Download
<1>16. ASSUME NEW r \in Requests, Delete(r)
       PROVE  Quiet
  <2>1. CASE DeleteObject(r)
    BY <1>3, <1>4, <1>6, <2>1 DEF DeleteObject
  <2>2. CASE DropRow(r) \/ Cascade(r)
    BY <1>3, <2>2 DEF DropRow, Cascade, Fails, Works
  <2>3. CASE EraseObjects(r)
    <3>1. [req[r] EXCEPT !.at = "cascade", !.keys = {}].at # "retain"
      BY <1>r DEF Request
    <3>2. At(r, "erase")
          /\ (Ends(r) \/ req' = [req EXCEPT ![r] = [req[r] EXCEPT !.at = "cascade", !.keys = {}]])
      BY <2>3 DEF EraseObjects
    <3>3. Retaining' = Retaining
      BY <1>2, <1>3, <3>1, <3>2
    <3>. QED
      BY <1>6, <2>3, <3>3 DEF EraseObjects
  <2>. QED
    BY <1>16, <2>1, <2>2, <2>3 DEF Delete
<1>17. ASSUME Tick \/ (\E b \in Backups : Damage(b)) \/ UNCHANGED vars
       PROVE  Quiet
  BY <1>17 DEF Tick, Damage, Fails, vars, Retaining
<1>. HIDE DEF Quiet
<1>18. ASSUME NEW r \in Requests, Upload(r)
       PROVE  Quiet \/ InsertRow(r) \/ InsertFails(r)
  BY <1>10, <1>18 DEF Upload
<1>19. ASSUME NEW r \in Requests, Maintain(r)
       PROVE  Quiet \/ Retain(r) \/ RetainFails(r)
  BY <1>11, <1>12, <1>13, <1>14, <1>19 DEF Maintain
<1>20. ASSUME NEW r \in Requests, Handle(r)
       PROVE  Quiet \/ InsertRow(r) \/ InsertFails(r) \/ Retain(r) \/ RetainFails(r)
  BY <1>15, <1>16, <1>18, <1>19, <1>20 DEF Handle
<1>21. ASSUME NEW r \in Requests,
              ListBackups(r) \/ DeleteUser(r)
              \/ \E b \in Backups : PutBackup(r, b) \/ GetBackup(r, b) \/ DeleteBackup(r, b)
       PROVE  Quiet
  BY <1>7, <1>8, <1>9, <1>21
<1>22. Quiet \/ \E r \in Requests : Handle(r)
  BY <1>17, <1>21 DEF Next
<1>. QED
  BY <1>20, <1>22 DEF Quiet

LEMMA RetentionStep ==
  ASSUME Inv, Inv', Kept, [Next]_vars
  PROVE  Kept'
<1>1. TypeOK /\ Ordered /\ IsFiniteSet(Retaining) /\ RetentionHolds
  BY DEF Inv, Kept
<1>2. /\ req \in [Requests -> Request] /\ rows \subseteq Begun /\ Begun \subseteq Backups
      /\ rows \subseteq Inserted
      /\ failures \in Nat /\ failures' \in Nat /\ Retention \in Nat
  BY NumberAssumption DEF Inv, TypeOK, Past, Over, Begun
<1>3. Ordered'
  BY <1>1, OrderStep
<1>4. /\ IsFiniteSet(rows) /\ Cardinality(rows) \in Nat
      /\ Cardinality(Retaining) \in Nat
      /\ Cardinality(rows) <= Retention + Cardinality(Retaining) + failures
  <2>1. IsFiniteSet(rows)
    BY <1>2, BackupAssumption, FS_Subset
  <2>. QED
    BY <1>1, <2>1, FS_CardinalityType DEF RetentionHolds, Retaining
<1>5. SUFFICES /\ IsFiniteSet(Retaining')
               /\ Cardinality(rows') <= Retention + Cardinality(Retaining') + failures'
  BY <1>3 DEF Kept, RetentionHolds, Retaining
<1>6. ASSUME rows' \subseteq rows, failures' \in {failures, failures + 1},
             \/ Retaining' = Retaining
             \/ \E r \in Requests : Retaining' = Retaining \cup {r}
      PROVE  /\ IsFiniteSet(Retaining')
             /\ Cardinality(rows') <= Retention + Cardinality(Retaining') + failures'
  <2>1. Cardinality(rows') <= Cardinality(rows) /\ Cardinality(rows') \in Nat
    BY <1>4, <1>6, FS_Subset, FS_CardinalityType
  <2>2. /\ IsFiniteSet(Retaining') /\ Cardinality(Retaining') \in Nat
        /\ Cardinality(Retaining) <= Cardinality(Retaining')
    <3>1. CASE Retaining' = Retaining
      BY <1>1, <1>4, <3>1
    <3>2. ASSUME NEW r \in Requests, Retaining' = Retaining \cup {r}
          PROVE  /\ IsFiniteSet(Retaining')
                 /\ Cardinality(Retaining') \in {Cardinality(Retaining), Cardinality(Retaining) + 1}
      BY <1>1, <3>2, FS_AddElement
    <3>. QED
      BY <1>4, <1>6, <3>1, <3>2
  <2>. QED
    BY <1>2, <1>4, <1>6, <2>1, <2>2
<1>7. ASSUME NEW r \in Requests, InsertRow(r)
      PROVE  /\ IsFiniteSet(Retaining')
             /\ Cardinality(rows') <= Retention + Cardinality(Retaining') + failures'
  <2>1. r \notin Retaining /\ Retaining' = Retaining \cup {r}
    <3>1. [req[r] EXCEPT !.at = "retain"].at = "retain"
      BY <1>2 DEF Request
    <3>. QED
      BY <1>2, <1>7, <3>1 DEF InsertRow, Goes, Retaining
  <2>2. IsFiniteSet(Retaining') /\ Cardinality(Retaining') = Cardinality(Retaining) + 1
    BY <1>1, <2>1, FS_AddElement
  <2>3. rows' = rows \cup {Id(r)} /\ failures' = failures
    BY <1>7 DEF InsertRow, Insert, Works
  <2>4. Cardinality(rows') \in {Cardinality(rows), Cardinality(rows) + 1}
    BY <1>4, <2>3, FS_AddElement
  <2>. QED
    BY <1>2, <1>4, <2>2, <2>3, <2>4
<1>8. ASSUME NEW r \in Requests, InsertFails(r)
      PROVE  /\ IsFiniteSet(Retaining')
             /\ Cardinality(rows') <= Retention + Cardinality(Retaining') + failures'
  <2>1. Retaining' = Retaining
    <3>1. [req[r] EXCEPT !.at = "discard"].at # "retain"
      BY <1>2 DEF Request
    <3>. QED
      BY <1>2, <1>8, <3>1 DEF InsertFails, Goes, Retaining
  <2>2. CASE rows' = rows
    <3>1. failures <= failures'
      BY <1>2, <1>8 DEF InsertFails, Works, Fails
    <3>. QED
      BY <1>1, <1>2, <1>4, <2>1, <2>2, <3>1
  <2>3. CASE rows' = rows \cup {Id(r)} /\ failures' = failures + 1
    <3>1. Cardinality(rows') \in {Cardinality(rows), Cardinality(rows) + 1}
      BY <1>4, <2>3, FS_AddElement
    <3>. QED
      BY <1>1, <1>2, <1>4, <2>1, <2>3, <3>1
  <2>. QED
    BY <1>8, <2>2, <2>3 DEF InsertFails, Insert, Fails
<1>9. ASSUME NEW r \in Requests, RetainFails(r)
      PROVE  /\ IsFiniteSet(Retaining')
             /\ Cardinality(rows') <= Retention + Cardinality(Retaining') + failures'
  <2>1. r \in Retaining /\ Retaining' = Retaining \ {r}
    <3>1. [req[r] EXCEPT !.at = "read"].at # "retain"
      BY <1>2 DEF Request
    <3>. QED
      BY <1>2, <1>9, <3>1 DEF RetainFails, Goes, Retaining
  <2>2. IsFiniteSet(Retaining') /\ Cardinality(Retaining') = Cardinality(Retaining) - 1
    BY <1>1, <2>1, FS_RemoveElement
  <2>3. rows' \subseteq rows /\ failures' = failures + 1
    BY <1>9 DEF RetainFails, Fails
  <2>4. Cardinality(rows') <= Cardinality(rows) /\ Cardinality(rows') \in Nat
    BY <1>4, <2>3, FS_Subset, FS_CardinalityType
  <2>. QED
    BY <1>2, <1>4, <2>2, <2>3, <2>4
<1>10. ASSUME NEW r \in Requests, Retain(r)
       PROVE  /\ IsFiniteSet(Retaining')
              /\ Cardinality(rows') <= Retention + Cardinality(Retaining') + failures'
  <2>1. PICK K, stage : /\ req' = [req EXCEPT ![r].at = stage, ![r].keys = K]
                        /\ stage \in {"read", "expire"}
    BY <1>10 DEF Retain
  <2>2. Retaining' \subseteq Retaining
    <3>1. [req[r] EXCEPT !.at = stage, !.keys = K].at # "retain"
      BY <1>2, <2>1 DEF Request
    <3>. QED
      BY <1>2, <2>1, <3>1 DEF Retaining
  <2>3. IsFiniteSet(Retaining') /\ Cardinality(Retaining') \in Nat
    BY <1>1, <2>2, FS_Subset, FS_CardinalityType
  <2>4. \A b \in rows : Rank(b) \in Nat
    BY <1>4, FS_Subset, FS_CardinalityType DEF Rank
  <2>5. rows' = {b \in rows : Rank(b) < Retention}
    BY <1>2, <1>10, <2>4 DEF Retain, Expired
  <2>6. Cardinality(rows') <= Retention /\ Cardinality(rows') \in Nat
    <3>1. Cardinality(rows') \in Nat
      BY <1>4, <2>5, FS_Subset, FS_CardinalityType
    <3>. QED
      BY <1>1, <1>2, <2>5, <3>1, FewRank
  <2>. QED
    BY <1>2, <2>3, <2>6
<1>. QED
  BY <1>6, <1>7, <1>8, <1>9, <1>10, QuietSteps

-----------------------------------------------------------------------------
\* The invariant from which the properties follow.
THEOREM Invariant == Spec => []Inv
  BY InitInv, Step, PTL DEF Spec

-----------------------------------------------------------------------------
(* The properties *)

\* The stores, the requests and what is known of them are well typed (TypeOK).
THEOREM TypeCorrect == Spec => []TypeOK
<1>1. Inv => TypeOK
  BY DEF Inv
<1>. QED
  BY <1>1, Invariant, PTL

\* A backup that was acknowledged and is among the newest has its row and its object, however
\* many uploads, clean-ups, downloads and failures there are (AcknowledgedIsKept).
THEOREM KeepsAcknowledged == Spec => []AcknowledgedIsKept
<1>1. Inv => AcknowledgedIsKept
  BY DEF Inv, OwedAreKept, Owed, Accepted, Few, AcknowledgedIsKept
<1>. QED
  BY <1>1, Invariant, PTL

\* A backup whose deletion succeeded does not come back, in either store (DeletedIsGone).
THEOREM DeletesForGood == Spec => []DeletedIsGone
<1>1. Inv => DeletedIsGone
  BY DEF Inv, Past
<1>. QED
  BY <1>1, Invariant, PTL

\* More rows than are retained are there only while an upload or a list has not come to the
\* retention yet, or as many as failures (RetentionHolds).
THEOREM RetentionKept == Spec => []RetentionHolds
<1>1. Init => Kept
  <2>. SUFFICES ASSUME Init
                PROVE  Kept
    OBVIOUS
  <2>1. Inserted = {} /\ rows = {} /\ failures = 0
    BY DEF Init, Inserted
  <2>2. Retaining = {}
    BY DEF Init, Retaining, NoRequest
  <2>. QED
    BY <2>1, <2>2, FS_EmptySet, NumberAssumption
    DEF Init, Kept, Ordered, RetentionHolds, Retaining
<1>2. Inv /\ Inv' /\ Kept /\ [Next]_vars => Kept'
  BY RetentionStep
<1>3. Kept => RetentionHolds
  BY DEF Kept
<1>. QED
  BY <1>1, <1>2, <1>3, Invariant, PTL DEF Spec
=============================================================================
