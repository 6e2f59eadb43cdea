--------------------------- MODULE BackupStorage ---------------------------
(***************************************************************************)
(* Encrypted backups of one user at the service: the database has a row,    *)
(* the bucket an object for each.  No statement writes both, so uploads,    *)
(* downloads, deletions and the maintenance that uploads and lists run are  *)
(* sequences of steps, each at one of the stores, and every step may fail,  *)
(* or take effect although its answer is lost.                              *)
(*                                                                         *)
(* The desktop makes a new id for every upload.  Time is the age of the     *)
(* objects, and the milliseconds in which uploads begin, as far as they     *)
(* differ.  The upload quota only refuses requests and is left out.         *)
(***************************************************************************)
EXTENDS Naturals, FiniteSets

CONSTANTS
  Backups,     \* ids of backups
  Requests,    \* requests at a time
  Retention,   \* BACKUP_RETENTION
  Grace,       \* BACKUP_ORPHAN_GRACE_MS, in ticks
  None,
  MaxFailures  \* bound on failed steps, damaged objects and incomplete listings

ASSUME BackupAssumption == IsFiniteSet(Backups) /\ None \notin Backups
ASSUME NumberAssumption == Retention \in Nat \ {0} /\ Grace \in Nat \ {0} /\ MaxFailures \in Nat

VARIABLES
  user,      \* the user exists
  rows,      \* table encrypted_backups
  objects,   \* the bucket
  age,       \* of the objects, up to Grace
  now,       \* the last millisecond in which an upload began
  created,   \* created_at, 0 before the upload begins
  earlier,   \* of a backup that has been inserted: it and those inserted before it, by rowid
  req,       \* the requests
  acked,     \* backups whose upload was answered with success
  dropped,   \* backups the user has asked to delete
  deleted,   \* backups whose deletion was answered with success
  damaged,   \* backups whose object was damaged in the bucket
  failures   \* failures so far

order == <<now, created, earlier>>
seen == <<acked, dropped, deleted, damaged>>
vars == <<user, rows, objects, age, order, req, seen, failures>>

Kinds == {"upload", "list", "get", "delete", "user"}
Stages ==
  {"idle", "store", "insert", "discard",                             \* putBackup
   "retain", "expire", "read", "list", "orphans", "missing",         \* maintainBackupStorage
   "fetch", "purge", "drop",                                         \* getBackup
   "delete",                                                         \* deleteBackup
   "erase", "cascade"}                                               \* deleteUser
Request ==
  [at : Stages, kind : Kinds, id : Backups \cup {None},
   keys : SUBSET Backups,   \* the objects it is about to delete
   known : SUBSET Backups,  \* the rows it has read, then those without an object
   old : SUBSET Backups]    \* objects that were old when it began to reconcile

TypeOK ==
  /\ user \in BOOLEAN /\ rows \subseteq IF user THEN Backups ELSE {}
  /\ objects \in [Backups -> {"none", "good", "damaged"}] /\ age \in [Backups -> 0 .. Grace]
  /\ now \in Nat /\ created \in [Backups -> 0 .. now]
  /\ earlier \in [Backups -> SUBSET Backups]
  /\ req \in [Requests -> Request]
  /\ acked \cup dropped \cup deleted \cup damaged \subseteq Backups
  /\ failures \in 0 .. MaxFailures

NoRequest == [at |-> "idle", kind |-> "list", id |-> None, keys |-> {}, known |-> {}, old |-> {}]

Init ==
  /\ user = TRUE /\ rows = {} /\ failures = 0
  /\ objects = [b \in Backups |-> "none"] /\ age = [b \in Backups |-> 0]
  /\ now = 0 /\ created = [b \in Backups |-> 0] /\ earlier = [b \in Backups |-> {}]
  /\ req = [r \in Requests |-> NoRequest]
  /\ acked = {} /\ dropped = {} /\ deleted = {} /\ damaged = {}

-----------------------------------------------------------------------------
At(r, stage) == req[r].at = stage
Id(r) == req[r].id
Goes(r, stage) == req' = [req EXCEPT ![r].at = stage]
Ends(r) == req' = [req EXCEPT ![r] = NoRequest]
Starts(r, kind, b, stage) ==
  /\ At(r, "idle") /\ user
  /\ req' = [req EXCEPT ![r] = [NoRequest EXCEPT !.at = stage, !.kind = kind, !.id = b]]

Fails == failures < MaxFailures /\ failures' = failures + 1
Works == UNCHANGED failures

Begun == {b \in Backups : created[b] # 0}
Inserted == {b \in Backups : b \in earlier[b]}
\* ORDER BY created_at DESC, rowid DESC. What is still to be inserted comes after what is.
Newer(c, b) ==
  /\ c \in Begun \ {b}
  /\ created[c] > created[b] \/ (created[c] = created[b] /\ c \notin earlier[b])
Present == {b \in Backups : objects[b] # "none"}
Without(B) ==
  /\ objects' = [b \in Backups |-> IF b \in B THEN "none" ELSE objects[b]]
  /\ age' = [b \in Backups |-> IF b \in B THEN 0 ELSE age[b]]
\* The bucket deletes the objects of B, or throws, when some of them may be gone.
Removes(B) == Without(B) /\ Works
Throws(B) == Fails /\ \E gone \in SUBSET B : Without(gone)

(* An upload *)

\* A new id has no row. It may begin in the millisecond of an upload that has no row yet; after
\* one that has its row it comes in either case.
PutBackup(r, b) ==
  /\ Starts(r, "upload", b, "store") /\ b \notin Begun
  /\ \/ now' = now + 1
     \/ now' = now /\ \E q \in Requests : req[q].at \in {"store", "insert"}
  /\ created' = [created EXCEPT ![b] = now']
  /\ UNCHANGED <<user, rows, objects, age, earlier, seen, failures>>

StoreObject(r) ==
  /\ At(r, "store") /\ objects' = [objects EXCEPT ![Id(r)] = "good"]
  /\ age' = [age EXCEPT ![Id(r)] = 0]
  /\ Goes(r, "insert") /\ Works
  /\ UNCHANGED <<user, rows, order, seen>>

\* The bucket throws, with the object in it or not, or it stores something else.
StoreFails(r) ==
  /\ At(r, "store") /\ Fails
  /\ age' = [age EXCEPT ![Id(r)] = 0]
  /\ \/ Ends(r) /\ objects' \in {objects, [objects EXCEPT ![Id(r)] = "good"]}
     \/ Goes(r, "discard") /\ objects' = [objects EXCEPT ![Id(r)] = "damaged"]
  /\ UNCHANGED <<user, rows, order, seen>>

Insert(b) ==
  /\ rows' = rows \cup {b} /\ earlier' = [earlier EXCEPT ![b] = Inserted \cup {b}]
  /\ UNCHANGED <<now, created>>

\* Mutated form: the database does not check that the user exists.
InsertRowAnyway(r) ==
  /\ At(r, "insert")
  /\ Insert(Id(r)) /\ Goes(r, "retain") /\ Works
  /\ UNCHANGED <<user, objects, age, seen>>

\* The row refers to the user.
InsertRow(r) ==
  /\ At(r, "insert") /\ user
  /\ Insert(Id(r)) /\ Goes(r, "retain") /\ Works
  /\ UNCHANGED <<user, objects, age, seen>>

\* The statement fails, or only its answer gets lost.
InsertFails(r) ==
  /\ At(r, "insert") /\ Goes(r, "discard")
  /\ \/ ~user /\ UNCHANGED <<rows, order>> /\ Works
     \/ user /\ Fails /\ (Insert(Id(r)) \/ UNCHANGED <<rows, order>>)
  /\ UNCHANGED <<user, objects, age, seen>>

\* deleteR2Objects, then the error is thrown.
Discard(r) ==
  /\ At(r, "discard") /\ Ends(r)
  /\ Removes({Id(r)}) \/ Throws({Id(r)})
  /\ UNCHANGED <<user, rows, order, seen>>

(* Maintenance, after an upload and before a list *)

ListBackups(r) ==
  /\ Starts(r, "list", None, "retain")
  /\ UNCHANGED <<user, rows, objects, age, order, seen, failures>>

\* Maintenance is over, also when it fails.
Maintained(r) ==
  /\ Ends(r) /\ acked' = IF req[r].kind = "upload" THEN acked \cup {Id(r)} ELSE acked
  /\ UNCHANGED <<dropped, deleted, damaged>>

Rank(b) == Cardinality({c \in rows : Newer(c, b)})

\* Mutated form: one backup too many is retained.
OneMoreExpired == {b \in rows : Rank(b) > Retention}

Expired == {b \in rows : Rank(b) >= Retention}

\* enforceBackupRetention: one statement deletes the rows behind the newest.
Retain(r) ==
  /\ At(r, "retain") /\ Works /\ rows' = rows \ Expired
  /\ req' = [req EXCEPT ![r].at = IF Expired = {} THEN "read" ELSE "expire",
                        ![r].keys = Expired]
  /\ UNCHANGED <<user, objects, age, order, seen>>

\* What it returns is lost with its answer: the objects are left as orphans.
RetainFails(r) ==
  /\ At(r, "retain") /\ Fails /\ Goes(r, "read") /\ rows' \in {rows, rows \ Expired}
  /\ UNCHANGED <<user, objects, age, order, seen>>

DeleteExpired(r) ==
  /\ At(r, "expire") /\ req' = [req EXCEPT ![r].at = "read", ![r].keys = {}]
  /\ Removes(req[r].keys) \/ Throws(req[r].keys)
  /\ UNCHANGED <<user, rows, order, seen>>

\* Mutated form: orphans of any age are taken.
ReadRowsAnyAge(r) ==
  /\ At(r, "read") /\ Works
  /\ req' = [req EXCEPT ![r].at = "list", ![r].known = rows, ![r].old = Present]
  /\ UNCHANGED <<user, rows, objects, age, order, seen>>

\* reconcileBackupStorage
ReadRows(r) ==
  /\ At(r, "read") /\ Works
  /\ req' = [req EXCEPT ![r].at = "list", ![r].known = rows,
                        ![r].old = {b \in Present : age[b] = Grace}]
  /\ UNCHANGED <<user, rows, objects, age, order, seen>>

\* Mutated form: rows without an object are passed over.
ListedOrphans(r, present, complete) ==
  req' = [req EXCEPT ![r].at = "orphans",
                     ![r].keys = (present \cap req[r].old) \ req[r].known,
                     ![r].known = {}, ![r].old = {}]

\* Rows are missing only when the listing is complete.
Listed(r, present, complete) ==
  req' = [req EXCEPT ![r].at = "orphans",
                     ![r].keys = (present \cap req[r].old) \ req[r].known,
                     ![r].known = IF complete THEN @ \ present ELSE {}, ![r].old = {}]

ListObjects(r) ==
  /\ At(r, "list")
  /\ \/ Listed(r, Present, TRUE) /\ Works
     \/ \E present \in SUBSET Present : Listed(r, present, FALSE) /\ Fails
  /\ UNCHANGED <<user, rows, objects, age, order, seen>>

DeleteOrphans(r) ==
  /\ At(r, "orphans") /\ req' = [req EXCEPT ![r].at = "missing", ![r].keys = {}]
  /\ Removes(req[r].keys) \/ (req[r].keys # {} /\ Throws(req[r].keys))
  /\ UNCHANGED <<user, rows, order, seen>>

\* The rows without an object, one statement for each.
DeleteMissing(r) ==
  /\ At(r, "missing") /\ Works
  /\ \/ \E b \in req[r].known :
          /\ rows' = rows \ {b} /\ req' = [req EXCEPT ![r].known = @ \ {b}]
          /\ UNCHANGED <<user, objects, age, order, seen>>
     \/ req[r].known = {} /\ Maintained(r) /\ UNCHANGED <<user, rows, objects, age, order>>

\* A statement or a call to the bucket fails, and maintenance is given up. The row whose
\* deletion failed may be gone.
ReconcileFails(r) ==
  /\ Fails /\ Maintained(r)
  /\ \/ req[r].at \in {"read", "list"} /\ UNCHANGED rows
     \/ At(r, "missing") /\ \E b \in req[r].known : rows' \in {rows, rows \ {b}}
  /\ UNCHANGED <<user, objects, age, order>>

(* A download *)

GetBackup(r, b) ==
  /\ Starts(r, "get", b, "fetch") /\ b \in rows
  /\ UNCHANGED <<user, rows, objects, age, order, seen, failures>>

\* The bytes are sent, the row has no object, or the object fails its checks.
FetchObject(r) ==
  /\ At(r, "fetch") /\ Works
  /\ CASE objects[Id(r)] = "good" -> Ends(r)
       [] objects[Id(r)] = "none" -> Goes(r, "drop")
       [] objects[Id(r)] = "damaged" -> Goes(r, "purge")
  /\ UNCHANGED <<user, rows, objects, age, order, seen>>

\* The bytes cannot be read at the moment.
FetchFails(r) ==
  /\ At(r, "fetch") /\ Fails /\ Ends(r)
  /\ UNCHANGED <<user, rows, objects, age, order, seen>>

\* purgeBackupPair: without its object the row goes too.
Purge(r) ==
  /\ At(r, "purge")
  /\ (Removes({Id(r)}) /\ Goes(r, "drop")) \/ (Throws({Id(r)}) /\ Ends(r))
  /\ UNCHANGED <<user, rows, order, seen>>

(* Deletions *)

DeleteBackup(r, b) ==
  /\ Starts(r, "delete", b, "delete") /\ b \in rows
  /\ dropped' = dropped \cup {b}
  /\ UNCHANGED <<user, rows, objects, age, order, acked, deleted, damaged, failures>>

\* Mutated form: a failure of the bucket is passed over, as in the clean-ups.
DeleteObjectAnyway(r) ==
  /\ At(r, "delete") /\ Goes(r, "drop")
  /\ Removes({Id(r)}) \/ Throws({Id(r)})
  /\ UNCHANGED <<user, rows, order, seen>>

DeleteObject(r) ==
  /\ At(r, "delete")
  /\ (Removes({Id(r)}) /\ Goes(r, "drop")) \/ (Throws({Id(r)}) /\ Ends(r))
  /\ UNCHANGED <<user, rows, order, seen>>

DropRow(r) ==
  /\ At(r, "drop") /\ Ends(r)
  /\ \/ /\ rows' = rows \ {Id(r)} /\ Works
        /\ deleted' = IF req[r].kind = "delete" THEN deleted \cup {Id(r)} ELSE deleted
     \/ Fails /\ rows' \in {rows, rows \ {Id(r)}} /\ UNCHANGED deleted
  /\ UNCHANGED <<user, objects, age, order, acked, dropped, damaged>>

\* deleteUser: the objects of the rows first, then the user with the rows.
DeleteUser(r) ==
  /\ At(r, "idle") /\ user
  /\ req' = [req EXCEPT ![r] = [NoRequest EXCEPT !.at = "erase", !.kind = "user", !.keys = rows]]
  /\ dropped' = dropped \cup rows
  /\ UNCHANGED <<user, rows, objects, age, order, acked, deleted, damaged, failures>>

EraseObjects(r) ==
  /\ At(r, "erase")
  /\ \/ Removes(req[r].keys) /\ req' = [req EXCEPT ![r].at = "cascade", ![r].keys = {}]
     \/ Throws(req[r].keys) /\ Ends(r)
  /\ UNCHANGED <<user, rows, order, seen>>

Cascade(r) ==
  /\ At(r, "cascade") /\ Ends(r)
  /\ \/ user' = FALSE /\ rows' = {} /\ (Works \/ Fails)
     \/ Fails /\ UNCHANGED <<user, rows>>
  /\ UNCHANGED <<objects, age, order, seen>>

(* The bucket *)

\* Time passes. No upload is between its object and its row for as long as Grace.
Tick ==
  /\ \E b \in Present : age[b] < Grace
  /\ \A r \in Requests : At(r, "insert") => age[Id(r)] + 1 < Grace
  /\ age' = [b \in Backups |-> IF b \in Present /\ age[b] < Grace THEN age[b] + 1 ELSE age[b]]
  /\ UNCHANGED <<user, rows, objects, order, req, seen, failures>>

Damage(b) ==
  /\ objects[b] = "good" /\ Fails
  /\ objects' = [objects EXCEPT ![b] = "damaged"] /\ damaged' = damaged \cup {b}
  /\ UNCHANGED <<user, rows, age, order, req, acked, dropped, deleted>>

-----------------------------------------------------------------------------
Upload(r) == StoreObject(r) \/ StoreFails(r) \/ InsertRow(r) \/ InsertFails(r) \/ Discard(r)

Maintain(r) ==
  \/ Retain(r) \/ RetainFails(r) \/ DeleteExpired(r) \/ ReadRows(r) \/ ListObjects(r)
  \/ DeleteOrphans(r) \/ DeleteMissing(r) \/ ReconcileFails(r)

Download(r) == FetchObject(r) \/ FetchFails(r) \/ Purge(r)

Delete(r) == DeleteObject(r) \/ DropRow(r) \/ EraseObjects(r) \/ Cascade(r)

Handle(r) == Upload(r) \/ Maintain(r) \/ Download(r) \/ Delete(r)

Next ==
  \/ \E r \in Requests :
       \/ \E b \in Backups : PutBackup(r, b) \/ GetBackup(r, b) \/ DeleteBackup(r, b)
       \/ ListBackups(r) \/ DeleteUser(r) \/ Handle(r)
  \/ \E b \in Backups : Damage(b)
  \/ Tick

Spec == Init /\ [][Next]_vars

\* The Worker runs its requests, and the user looks at the list from time to time.
FairSpec ==
  /\ Spec /\ WF_vars(Tick)
  /\ \A r \in Requests : WF_vars(Handle(r))
  /\ SF_vars(\E r \in Requests : ListBackups(r))

-----------------------------------------------------------------------------
(* Properties *)

\* A backup whose upload was answered with success can be restored, as long as it is among the
\* newest, is not deleted and not damaged: no failure, download or clean-up costs a copy.
AcknowledgedIsKept ==
  user => \A b \in acked \ (dropped \cup damaged) :
            Cardinality({c \in Backups : Newer(c, b)}) < Retention =>
              b \in rows /\ objects[b] = "good"

\* A backup whose deletion was answered with success is in neither store.
DeletedIsGone == \A b \in deleted : b \notin rows /\ objects[b] = "none"

\* There are more rows than are retained only while an upload runs or because a step failed.
RetentionHolds ==
  Cardinality(rows) <= Retention + Cardinality({r \in Requests : At(r, "retain")}) + failures

\* The stores come to agree again, whatever failed, unless the user is deleted: objects that
\* nobody can reach and rows that have no object go.
Agree(b) == b \in rows <=> objects[b] # "none"
StoresAgree == \A b \in Backups : ~Agree(b) ~> (Agree(b) \/ ~user)
=============================================================================
