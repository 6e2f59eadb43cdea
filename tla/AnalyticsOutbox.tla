--------------------------- MODULE AnalyticsOutbox ---------------------------
(***************************************************************************)
(* Outcome events (carts, checkouts, declines) on their way from the        *)
(* desktop to the service: the outbox of analytics-recorder.js, its file    *)
(* and its flush, and the ingest and the deletion of the Worker.            *)
(*                                                                         *)
(* The recorder runs on one thread; a flush and a deletion each await one   *)
(* call.  A call may fail on the desktop while the service still works on   *)
(* it, so an upload that was given up may be stored later, and a deletion   *)
(* that was given up carried out later.                                     *)
(*                                                                         *)
(* The recorder owns entries by the e-mail of the session; the service      *)
(* stores and deletes under the account of the bearer token.  These are two *)
(* fields of license-authority.js, and they can be of two accounts.         *)
(***************************************************************************)
EXTENDS Naturals, FiniteSets

CONSTANTS
  Accounts,
  Events,       \* event ids
  None,         \* nobody is signed in, no token, no call in flight
  BatchSize,    \* BATCH_SIZE
  MaxOutbox,    \* MAX_OUTBOX_EVENTS
  MaxRestarts,  \* bound on restarts of the app
  MaxDeletions  \* bound on deletions

ASSUME SizeAssumption == BatchSize \in Nat \ {0} /\ MaxOutbox \in Nat \ {0}
ASSUME BoundAssumption == MaxRestarts \in Nat /\ MaxDeletions \in Nat
ASSUME NoneAssumption == None \notin Accounts

\* An entry of the outbox or a row of analytics_events: an account and an event.
Entries == Accounts \X Events

VARIABLES
  user,       \* whose e-mail the active session shows, authority.cached()
  token,      \* whose bearer token the calls of that session carry
  outbox,     \* outbox.entries
  file,       \* the outbox file
  upload,     \* flushInFlight: the batch whose answer is awaited, {} if there is none
  carrier,    \* whose token that call carries
  due,        \* a timer that will flush
  request,    \* service: what it has still to store of the upload
  late,       \* service: what it may still store of uploads the desktop has given up
  rows,       \* service: rows stored for each account and event
  deletion,   \* the owner whose deletion is awaited
  erasing,    \* service: the account it has still to erase for that deletion
  lateErase,  \* service: accounts it may still erase for deletions that were given up
  restarts,   \* restarts so far
  deletions,  \* deletions so far
  observed,   \* history: what was recorded, with the account that was signed in
  counted     \* history: all that was ever a row

desktop == <<user, token, outbox, file, upload, carrier, due, deletion, restarts, deletions>>
service == <<request, late, rows, erasing, lateErase, counted>>
vars == <<desktop, service, observed>>

\* A batch as the service sees it: events under the account of the token.
As(a, batch) == {<<a, p[2]>> : p \in batch}

TypeOK ==
  /\ user \in Accounts \cup {None} /\ token \in Accounts \cup {None}
  /\ token # None => user # None
  /\ outbox \subseteq Entries /\ file \subseteq Entries /\ upload \subseteq Entries
  /\ carrier \in Accounts \cup {None} /\ (carrier = None <=> upload = {})
  /\ request \subseteq As(carrier, upload) /\ late \subseteq Entries
  /\ rows \in [Entries -> {0, 1}]
  /\ deletion \in Accounts \cup {None} /\ erasing \in Accounts \cup {None}
  /\ erasing # None => deletion # None
  /\ lateErase \subseteq Accounts
  /\ observed \subseteq Entries /\ counted \subseteq Entries
  /\ due \in BOOLEAN /\ restarts \in 0 .. MaxRestarts /\ deletions \in 0 .. MaxDeletions

Init ==
  /\ user = None /\ token = None
  /\ outbox = {} /\ file = {} /\ upload = {} /\ carrier = None /\ due = FALSE
  /\ request = {} /\ late = {} /\ rows = [p \in Entries |-> 0]
  /\ deletion = None /\ erasing = None /\ lateErase = {}
  /\ restarts = 0 /\ deletions = 0 /\ observed = {} /\ counted = {}

Stored == {p \in Entries : rows[p] > 0}
Owned(entries, a) == {p \in entries : p[1] = a}

-----------------------------------------------------------------------------
(* The recorder *)

\* Mutated form: the outbox is taken over once it is written.
SaveOutboxFileFirst(entries) ==
  \/ outbox' = entries /\ file' = entries
  \/ UNCHANGED <<outbox, file>>

\* saveOutbox: a write that fails is logged and leaves the old file.
SaveOutbox(entries) ==
  /\ outbox' = entries
  /\ file' \in {file, entries}

\* The batch of a flush: what the owner has waiting, up to BatchSize.
Batches(a, entries) ==
  LET own == Owned(entries, a)
  IN  {b \in SUBSET own : b = own \/ Cardinality(b) = BatchSize}
        \cap {b \in SUBSET own : Cardinality(b) <= BatchSize}

\* flush, with the session of u, the token of t and the given value of the timer: one call
\* at a time, nothing without a session or without entries. Without a token the answer is
\* there at once, and another attempt is due.
Flush(u, t, timer) ==
  IF upload # {} \/ Owned(outbox, u) = {}
    THEN due' = timer /\ UNCHANGED <<upload, carrier, request>>
    ELSE IF t = None
      THEN due' = TRUE /\ UNCHANGED <<upload, carrier, request>>
      ELSE /\ upload' \in Batches(u, outbox)
           /\ carrier' = t /\ request' = As(t, upload')
           /\ due' = timer

\* record: once per event and owner while it waits; at the cap the oldest entries go.
Record(e) ==
  /\ user # None
  /\ observed' = observed \cup {<<user, e>>}
  /\ LET entries == outbox \cup {<<user, e>>}
     IN  IF <<user, e>> \in outbox
           THEN UNCHANGED <<outbox, file, due>>
           ELSE /\ \E lost \in SUBSET outbox :
                     /\ Cardinality(entries \ lost) <= MaxOutbox
                     /\ lost # {} => Cardinality(entries \ lost) = MaxOutbox
                     /\ SaveOutbox(entries \ lost)
                /\ due' = TRUE
  /\ UNCHANGED <<user, token, upload, carrier, deletion, restarts, deletions, service>>

\* A timer of scheduleRetry, or one with no delay.
FireTimer ==
  /\ due
  /\ Flush(user, token, FALSE)
  /\ UNCHANGED <<user, token, outbox, file, deletion, restarts, deletions, late, rows, erasing,
                 lateErase, observed, counted>>

\* onStatus: sign-in, sign-out, or a validation, each five minutes. The e-mail is that of
\* the answer to the validation, or the one read before it was sent; the token is the current
\* one.
SessionChanged(u, t) ==
  /\ u = None => t = None
  /\ user' = u /\ token' = t
  /\ Flush(u, t, due)
  /\ UNCHANGED <<outbox, file, deletion, restarts, deletions, late, rows, erasing, lateErase,
                 observed, counted>>

\* A validation that brings nothing new; one without a token ends the session.
Check == SessionChanged(IF token = None THEN None ELSE user, token)

\* flush after its await: the service has answered that it stored the batch.
UploadOk ==
  /\ upload # {} /\ request = {}
  /\ SaveOutbox(outbox \ upload)
  /\ upload' = {} /\ carrier' = None
  /\ due' = (due \/ \E p \in upload : Owned(outbox', p[1]) # {})
  /\ UNCHANGED <<user, token, deletion, restarts, deletions, service, observed>>

\* Mutated form: the batch is dropped from the outbox before the answer is looked at.
UploadFailsDropping ==
  /\ upload # {}
  /\ late' = late \cup request /\ request' = {}
  /\ SaveOutbox(outbox \ upload)
  /\ upload' = {} /\ carrier' = None /\ due' = TRUE
  /\ UNCHANGED <<user, token, deletion, restarts, deletions, rows, erasing, lateErase, observed,
                 counted>>

\* flush after its await: no answer, or none that is ok. The service may have stored all of
\* it or still be at work.
UploadFails ==
  /\ upload # {}
  /\ late' = late \cup request /\ request' = {}
  /\ upload' = {} /\ carrier' = None /\ due' = TRUE
  /\ UNCHANGED <<user, token, outbox, file, deletion, restarts, deletions, rows, erasing,
                 lateErase, observed, counted>>

\* deleteAll up to its await; without a token it returns at once.
DeleteAll ==
  /\ user # None /\ token # None /\ deletion = None /\ deletions < MaxDeletions
  /\ deletions' = deletions + 1
  /\ deletion' = user /\ erasing' = token
  /\ UNCHANGED <<user, token, outbox, file, upload, carrier, due, restarts, request, late, rows,
                 lateErase, observed, counted>>

\* deleteAll after its await: it filters the outbox of that moment.
DeletionOk ==
  /\ deletion # None /\ erasing = None
  /\ SaveOutbox(outbox \ Owned(outbox, deletion))
  /\ deletion' = None
  /\ UNCHANGED <<user, token, upload, carrier, due, restarts, deletions, service, observed>>

\* A deletion the desktop gives up is one the service may still carry out.
GiveUpDeletion ==
  /\ deletion' = None /\ erasing' = None
  /\ lateErase' = lateErase \cup ({erasing} \ {None})

DeletionFails ==
  /\ deletion # None
  /\ GiveUpDeletion
  /\ UNCHANGED <<user, token, outbox, file, upload, carrier, due, restarts, deletions, request,
                 late, rows, observed, counted>>

\* The app ends and starts again from the file, without a session until its first check.
Restart ==
  /\ restarts < MaxRestarts
  /\ restarts' = restarts + 1
  /\ user' = None /\ token' = None
  /\ outbox' = file /\ upload' = {} /\ carrier' = None /\ due' = FALSE
  /\ GiveUpDeletion
  /\ late' = late \cup request /\ request' = {}
  /\ UNCHANGED <<file, rows, deletions, observed, counted>>

-----------------------------------------------------------------------------
(* The service *)

\* Mutated form: INSERT, without OR IGNORE.
InsertAgain(entries) ==
  /\ rows' = [p \in Entries |-> IF p \in entries THEN rows[p] + 1 ELSE rows[p]]
  /\ counted' = counted \cup entries

\* INSERT OR IGNORE INTO analytics_events, with the user and the event as the key.
Insert(entries) ==
  /\ rows' = [p \in Entries |-> IF p \in entries THEN 1 ELSE rows[p]]
  /\ counted' = counted \cup entries

\* ingestAnalytics: some of the statements, in a transaction of their own.
Store(some) ==
  /\ some \subseteq request /\ some # {}
  /\ Insert(some)
  /\ request' = request \ some
  /\ UNCHANGED <<desktop, late, erasing, lateErase, observed>>

\* The same for a call the desktop has given up; it may also break off.
StoreLate(some) ==
  /\ some \subseteq late /\ some # {}
  /\ Insert(some)
  /\ late' = late \ some
  /\ UNCHANGED <<desktop, request, erasing, lateErase, observed>>

BreakOff ==
  /\ late # {} /\ late' = {}
  /\ UNCHANGED <<desktop, request, rows, erasing, lateErase, observed, counted>>

\* Mutated form: DELETE without its WHERE.
DeleteEveryRow(a) == rows' = [p \in Entries |-> 0]

\* DELETE FROM analytics_events WHERE user_id = ?
DeleteRows(a) == rows' = [p \in Entries |-> IF p[1] = a THEN 0 ELSE rows[p]]

\* deleteAnalytics, for the account of the token.
Erase ==
  /\ erasing # None /\ erasing' = None
  /\ DeleteRows(erasing)
  /\ UNCHANGED <<desktop, request, late, lateErase, observed, counted>>

\* The same after the desktop has given up the answer.
EraseLate(a) ==
  /\ a \in lateErase /\ lateErase' = lateErase \ {a}
  /\ DeleteRows(a)
  /\ UNCHANGED <<desktop, request, late, erasing, observed, counted>>

-----------------------------------------------------------------------------
Next ==
  \/ \E e \in Events : Record(e)
  \/ FireTimer
  \/ \E u, t \in Accounts \cup {None} : SessionChanged(u, t)
  \/ UploadOk \/ UploadFails
  \/ DeleteAll \/ DeletionOk \/ DeletionFails
  \/ Restart
  \/ \E some \in SUBSET request : Store(some)
  \/ \E some \in SUBSET late : StoreLate(some)
  \/ BreakOff
  \/ Erase \/ \E a \in Accounts : EraseLate(a)

Spec == Init /\ [][Next]_vars

\* An upload ends within its timeout, and the licence check comes back. Timers and deletions
\* need not be fair.
Fairness ==
  /\ WF_vars(UploadOk \/ UploadFails)
  /\ WF_vars(Check)

FairSpec == Spec /\ Fairness

-----------------------------------------------------------------------------
(* Properties *)

\* Everything that may still become a row: in the outbox, in the file a restart reads, in a
\* call of the service, there under the account of the token.
Waiting == (outbox \cup file \cup request \cup late) \ Stored

Once == INSTANCE ExactlyOnce WITH Items <- Events, waiting <- Waiting, count <- rows

\* An account has at most one row of an event, and none of an event nobody recorded, through
\* lost answers, calls that are stored after they were given up, failed writes, restarts,
\* changes of account and deletions carried out late. What deleteAll has deleted is counted
\* again only if it was still waiting somewhere when it was deleted, and a deletion takes the
\* rows of one account. Where the session shows one account and carries the token of another,
\* the event is counted for that other (Divert). (INSERT OR IGNORE by user and event id, and
\* the order of flush, save and deleteAll.)
ImplementsOnce == Once!Spec

\* An event leaves the outbox only once the service has counted it, for the account whose
\* token the upload carried; or newer ones fill the outbox, its owner has everything deleted,
\* or the app starts again from an older file (flush: a batch is kept until it is answered
\* with ok, and only the batch that was sent goes).
KeptUntilCounted ==
  [][\A p \in outbox \ outbox' :
       \/ <<carrier, p[2]>> \in counted
       \/ Cardinality(outbox') = MaxOutbox
       \/ deletion = p[1] /\ deletion' = None
       \/ restarts' # restarts]_vars

\* An event of an account that stays signed in leaves the outbox, unless from some time on
\* uploads only fail: no answer, late or lost, leaves the flush stuck.
EventsArrive ==
  ([]<><<UploadFails>>_vars => []<><<UploadOk>>_vars) =>
    \A p \in Entries : <>[](user = p[1]) => (p \in outbox ~> p \notin outbox)

\* What the service counts for an account was recorded while that account was signed in
\* (cloudflare/license/README.md:188: queued events cannot cross an account switch).
StaysWithOwner == Stored \subseteq observed
=============================================================================
