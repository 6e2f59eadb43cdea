---------------------------- MODULE LicensedOutbox ----------------------------
(***************************************************************************)
(* The analytics outbox under the session of the licence authority:         *)
(* LicenseSession and AnalyticsOutbox side by side.  The recorder reads the *)
(* e-mail of the status (authority.cached()), its calls go out with the     *)
(* bearer token of the moment, and every push of a status makes it flush.   *)
(***************************************************************************)
EXTENDS LicenseSession

CONSTANTS Events, BatchSize, MaxOutbox, MaxDeletions

VARIABLES
  email,       \* licenseState.email
  savedEmail,  \* saved.email, which the validation in flight read before
  outbox, outboxFile, upload, carrier, due, request, late, rows, deletion, erasing, lateErase,
  deletions, observed, counted

licenseVars == vars
outboxVars == <<outbox, outboxFile, upload, carrier, due, request, late, rows, deletion, erasing,
                lateErase, deletions, observed, counted>>

\* What the recorder sees of the session: whose it is, and whose token calls carry.
User == IF ok THEN email ELSE None
Bearer == IF User = None \/ token = None THEN None ELSE Owner[token]

Outbox == INSTANCE AnalyticsOutbox WITH user <- User, token <- Bearer, file <- outboxFile

InitBoth ==
  /\ Init /\ email = None /\ savedEmail = None
  /\ Outbox!Init

\* A status is pushed, with the e-mail e.
Push(e) ==
  /\ email' = e
  /\ Outbox!SessionChanged(User', Bearer')

NoPush == UNCHANGED <<email, outboxVars>>

\* validate reads the e-mail before its call.
ReadEmail ==
  savedEmail' = IF requests["validate"] = None /\ requests'["validate"] # None THEN email
                  ELSE savedEmail

\* validate, started: without a token it locks.
ValidateStarts ==
  /\ StartValidate
  /\ IF requests'["validate"] = None THEN Push(email) ELSE NoPush

LogoutStarts ==
  /\ StartLogout
  /\ IF token = None THEN Push(None) ELSE NoPush

\* An answer that is accepted shows its account, one that ends the session clears the e-mail,
\* one that asks for a new password shows for whom.
AnswerComes(k) ==
  LET answer == requests[k].answer IN
  /\ Answer(k)
  /\ IF answer = "ok" /\ k \in {"validate", "mode", "login", "reset"}
       THEN Push(account')
       ELSE IF k = "logout" \/ (k = "validate" /\ answer = "rejected")
         THEN Push(None)
         ELSE IF k = "login" THEN Push(requests[k].account) ELSE NoPush

\* A validation that fails shows the e-mail it read before its call, if within the grace.
FailureComes(k) ==
  /\ Fail(k)
  /\ CASE k = "validate" -> Push(IF ok' THEN savedEmail ELSE email)
       [] k = "logout" -> Push(None)
       [] OTHER -> NoPush

\* The app ends: authority and recorder start again from their files.
RestartBoth ==
  /\ Restart
  /\ email' = account'
  /\ Outbox!Restart

\* Steps of the recorder and of the service that leave the session alone.
OutboxStep ==
  /\ UNCHANGED <<licenseVars, email, savedEmail>>
  /\ \/ \E e \in Events : Outbox!Record(e)
     \/ Outbox!FireTimer
     \/ Outbox!UploadOk \/ Outbox!UploadFails
     \/ Outbox!DeleteAll \/ Outbox!DeletionOk \/ Outbox!DeletionFails
     \/ \E some \in SUBSET request : Outbox!Store(some)
     \/ \E some \in SUBSET late : Outbox!StoreLate(some)
     \/ Outbox!BreakOff \/ Outbox!Erase \/ \E a \in Accounts : Outbox!EraseLate(a)

SessionStep ==
  /\ \/ ValidateStarts \/ LogoutStarts
     \/ \E k \in Kinds : AnswerComes(k) \/ FailureComes(k)
     \/ Invalidate /\ Push(None)
     \/ RestartBoth
     \/ /\ \/ StartReset \/ StartMode \/ StartUse \/ StartTasks \/ StopTasks \/ Tick
           \/ \E a \in Accounts : StartLogin(a) \/ RequireReset(a)
           \/ \E k \in Kinds : Serve(k)
           \/ \E t \in Tokens : Revoke(t)
        /\ NoPush
  /\ ReadEmail

NextBoth == SessionStep \/ OutboxStep

SpecBoth == InitBoth /\ [][NextBoth]_<<licenseVars, email, savedEmail, outboxVars>>

-----------------------------------------------------------------------------
\* What the service counts for an account was recorded while the app showed that account as
\* signed in, so queued events do not cross an account switch.
StaysWithOwner == Outbox!StaysWithOwner
=============================================================================
