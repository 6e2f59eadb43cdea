--------------------------- MODULE LicenseSession ---------------------------
(***************************************************************************)
(* The Zyn session of one desktop: license-authority.js (the bearer token, *)
(* the state the launcher and the page are told, the file it restarts      *)
(* from, the offline grace), and what the licence service of               *)
(* cloudflare/license keeps for this device's tokens.                      *)
(*                                                                         *)
(* The main process is one thread, but every call of the service is an     *)
(* await: a request is sent, served and answered in steps of their own,    *)
(* and the code that follows the await reads the state as it is then.      *)
(*                                                                         *)
(* Time is counted in ages: how long ago something was validated, up to    *)
(* Old, which is longer than the grace and stands for never as well.       *)
(***************************************************************************)
EXTENDS Integers, FiniteSets

CONSTANTS
  Accounts,
  Tokens,       \* bearer tokens the service may mint for this device
  Owner,        \* the account a token is minted for
  None,         \* no token, no account, no file, no request
  Grace,        \* LICENSE_OFFLINE_GRACE_MS
  MaxInFlight,  \* bound on calls in flight besides a validation
  MaxRestarts   \* bound on restarts of the app

ASSUME OwnerAssumption == Owner \in [Tokens -> Accounts]
ASSUME GraceAssumption == Grace \in Nat
ASSUME BoundAssumption == MaxInFlight \in Nat /\ MaxRestarts \in Nat
Old == Grace + 1
Ages == 0 .. Old

\* The calls that are modelled. "use" is any call on the user's behalf that only
\* reads the session: backups, analytics, brokers, rooms.
Kinds == {"validate", "login", "reset", "logout", "mode", "use"}

VARIABLES
  minted,        \* service: the tokens given out
  live,          \* service: the tokens it accepts
  mustReset,     \* service: accounts whose password has to be changed
  token,         \* licenseToken
  account,       \* licenseState.accountId
  ok,            \* licenseState.ok
  age,           \* the age of licenseValidatedAt
  pendingReset,  \* pendingResetToken: the account it resets
  stored,        \* licenseState.storage is 'encrypted'
  file,          \* license-session.json
  requests,      \* the call of each kind that is in flight
  tasks,         \* tasks run
  lastAnswer,    \* the age of the last answer acceptLicense took (for a property)
  restarts       \* restarts so far

service == <<minted, live, mustReset>>
session == <<token, account, ok, age, pendingReset, stored, file>>
vars == <<service, session, requests, tasks, lastAnswer, restarts>>

Request ==
  [token : Tokens \cup {None},     \* the bearer token it carries, or the one minted
   account : Accounts \cup {None}, \* on whose behalf
   saved : Ages,                   \* saved.validatedAt, which validate read before
   answer : {"none", "ok", "rejected", "reset"}]

Saved == [token : Tokens, account : Accounts \cup {None}, age : Ages]

ASSUME NoneAssumption == None \notin Tokens \cup Accounts \cup Saved \cup Request

TypeOK ==
  /\ minted \subseteq Tokens /\ live \subseteq minted /\ mustReset \subseteq Accounts
  /\ token \in Tokens \cup {None} /\ account \in Accounts \cup {None}
  /\ ok \in BOOLEAN /\ age \in Ages /\ pendingReset \in Accounts \cup {None}
  /\ stored \in BOOLEAN /\ file \in Saved \cup {None}
  /\ requests \in [Kinds -> Request \cup {None}]
  /\ tasks \in BOOLEAN /\ lastAnswer \in Ages /\ restarts \in 0 .. MaxRestarts

Init ==
  /\ minted = {} /\ live = {} /\ mustReset \in SUBSET Accounts
  /\ token = None /\ account = None /\ ok = FALSE /\ age = Old
  /\ pendingReset = None /\ stored = FALSE /\ file = None
  /\ requests = [k \in Kinds |-> None]
  /\ tasks = FALSE /\ lastAnswer = Old /\ restarts = 0

-----------------------------------------------------------------------------
(* What the authority does with an answer *)

Least(a, b) == IF a < b THEN a ELSE b
Older(a) == Least(a + 1, Old)

\* Mutated form: a save that fails leaves the storage as it was reported before.
SaveSessionUnclaimed(t, a) ==
  \/ file' = [token |-> t, account |-> a, age |-> 0] /\ stored' = TRUE
  \/ file' = file /\ stored' = stored

\* saveSession: the file is written, or encryption or the disk failed and the old one
\* stays.
SaveSession(t, a) ==
  \/ t # None /\ file' = [token |-> t, account |-> a, age |-> 0] /\ stored' = TRUE
  \/ file' = file /\ stored' = FALSE

\* acceptLicense, for an answer about account a and with the token t.
AcceptLicense(a, t) ==
  /\ token' = t /\ account' = a /\ ok' = TRUE /\ age' = 0 /\ pendingReset' = None
  /\ SaveSession(t, a)
  /\ lastAnswer' = 0
  /\ UNCHANGED tasks

\* lock: the state is reset, the token and the file go if clear is set, and onLock
\* stops the tasks if stop is set and there was a session.
Lock(clear, stop) ==
  /\ ok' = FALSE /\ pendingReset' = None
  /\ tasks' = (tasks /\ ~(stop /\ (ok \/ token # None)))
  /\ IF clear
       THEN /\ token' = None /\ account' = None /\ age' = Old /\ stored' = FALSE
            /\ file' \in {None, file}
       ELSE /\ stored' = (stored /\ token # None)
            /\ UNCHANGED <<token, account, age, file>>
  /\ UNCHANGED lastAnswer

\* Mutated form: a session kept within the grace counts as validated.
UnavailableRenews(saved) ==
  IF Least(saved, age) <= Grace
    THEN /\ ok' = TRUE /\ age' = 0
         /\ UNCHANGED <<token, account, pendingReset, stored, file, tasks, lastAnswer>>
    ELSE Lock(FALSE, TRUE)

\* Mutated form: the grace is not looked at.
UnavailableForever(saved) ==
  /\ ok' = TRUE
  /\ UNCHANGED <<token, account, age, pendingReset, stored, file, tasks, lastAnswer>>

\* The service could not be reached: the session stays within the grace of the later
\* of the two validation times at hand, the one read before the call and the current.
Unavailable(saved) ==
  IF Least(saved, age) <= Grace
    THEN /\ ok' = TRUE
         /\ UNCHANGED <<token, account, age, pendingReset, stored, file, tasks, lastAnswer>>
    ELSE Lock(FALSE, TRUE)

-----------------------------------------------------------------------------
(* Requests *)

InFlight == {k \in Kinds \ {"validate"} : requests[k] # None}

Call(t, a, saved) == [token |-> t, account |-> a, saved |-> saved, answer |-> "none"]

Send(k, call) ==
  /\ requests[k] = None /\ Cardinality(InFlight) < MaxInFlight
  /\ requests' = [requests EXCEPT ![k] = call]

Without(k) == [requests EXCEPT ![k] = None]

\* Mutated form: an inactive session is not validated.
ValidateOnlyActive(k) ==
  IF requests["validate"] # None
    THEN requests' = Without(k) /\ UNCHANGED <<session, tasks, lastAnswer>>
    ELSE IF ~ok
      THEN requests' = Without(k) /\ Lock(FALSE, FALSE)
      ELSE /\ requests' = [Without(k) EXCEPT !["validate"] = Call(token, None, age)]
           /\ UNCHANGED <<session, tasks, lastAnswer>>

\* validate, when the call of kind k has just been answered or k is not in flight. A
\* second caller joins the validation in flight.
Validate(k) ==
  IF requests["validate"] # None
    THEN requests' = Without(k) /\ UNCHANGED <<session, tasks, lastAnswer>>
    ELSE IF token = None
      THEN requests' = Without(k) /\ Lock(FALSE, FALSE)
      ELSE /\ requests' = [Without(k) EXCEPT !["validate"] = Call(token, None, age)]
           /\ UNCHANGED <<session, tasks, lastAnswer>>

\* The five-minute timer, and every forced status.
StartValidate ==
  /\ requests["validate"] = None
  /\ Validate("validate")
  /\ UNCHANGED <<service, restarts>>

\* The page offers the sign-in form to a session that is not active.
StartLogin(a) ==
  /\ ~ok /\ Send("login", Call(None, a, Old))
  /\ UNCHANGED <<service, session, tasks, lastAnswer, restarts>>

StartReset ==
  /\ pendingReset # None /\ Send("reset", Call(None, pendingReset, Old))
  /\ UNCHANGED <<service, session, tasks, lastAnswer, restarts>>

\* logout, which the page offers to an active session; without a token it locks at once.
StartLogout ==
  /\ ok
  /\ IF token # None
       THEN Send("logout", Call(token, None, Old)) /\ UNCHANGED <<session, tasks, lastAnswer>>
       ELSE Lock(TRUE, TRUE) /\ UNCHANGED requests
  /\ UNCHANGED <<service, restarts>>

StartMode ==
  /\ token # None /\ ok /\ Send("mode", Call(token, None, Old))
  /\ UNCHANGED <<service, session, tasks, lastAnswer, restarts>>

\* backupRequest and the calls like it.
StartUse ==
  /\ token # None /\ ok /\ account # None /\ Send("use", Call(token, account, Old))
  /\ UNCHANGED <<service, session, tasks, lastAnswer, restarts>>

-----------------------------------------------------------------------------
(* The service *)

Reply(k, t, answer) ==
  requests' = [requests EXCEPT ![k].token = t, ![k].answer = answer]

\* Mutated form: the token is handed out and its row not inserted.
MintUnrecorded(a, t) ==
  /\ t \in Tokens \ minted /\ Owner[t] = a
  /\ minted' = minted
  /\ live' = {u \in live : Owner[u] # a} \cup {t}

\* mintLicense: a new token; the account's others on this device end.
Mint(a, t) ==
  /\ t \in Tokens \ minted /\ Owner[t] = a
  /\ minted' = minted \cup {t}
  /\ live' = {u \in live : Owner[u] # a} \cup {t}

\* What the service does about the call of kind k. A refused password changes
\* nothing and is left to Fail.
Serve(k) ==
  LET r == requests[k] IN
  /\ r # None /\ r.answer = "none"
  /\ \/ /\ k \in {"validate", "mode", "use"}
        /\ Reply(k, r.token, IF r.token \in live THEN "ok" ELSE "rejected")
        /\ UNCHANGED service
     \/ /\ k = "login" /\ r.account \notin mustReset
        /\ \E t \in Tokens : Mint(r.account, t) /\ Reply(k, t, "ok")
        /\ UNCHANGED mustReset
     \/ /\ k = "login" /\ r.account \in mustReset
        /\ Reply(k, None, "reset")
        /\ UNCHANGED service
     \/ /\ k = "reset" /\ r.account \in mustReset
        /\ \E t \in Tokens : Mint(r.account, t) /\ Reply(k, t, "ok")
        /\ mustReset' = mustReset \ {r.account}
     \/ /\ k = "reset" /\ r.account \notin mustReset
        /\ Reply(k, None, "rejected")
        /\ UNCHANGED service
     \/ /\ k = "logout"
        /\ live' = live \ {r.token}
        /\ Reply(k, r.token, "ok")
        /\ UNCHANGED <<minted, mustReset>>
  /\ UNCHANGED <<session, tasks, lastAnswer, restarts>>

\* Another device's sign-in, an administrator, or the end of the subscription.
Revoke(t) ==
  /\ t \in live /\ live' = live \ {t}
  /\ UNCHANGED <<minted, mustReset, session, requests, tasks, lastAnswer, restarts>>

\* An administrator sets a temporary password.
RequireReset(a) ==
  /\ a \notin mustReset /\ mustReset' = mustReset \cup {a}
  /\ live' = {t \in live : Owner[t] # a}
  /\ UNCHANGED <<minted, session, requests, tasks, lastAnswer, restarts>>

-----------------------------------------------------------------------------
(* Answers *)

\* The password has to be changed first: the session is not active until then.
AskForReset(a) ==
  /\ pendingReset' = a /\ ok' = FALSE
  /\ UNCHANGED <<token, account, age, stored, file, tasks, lastAnswer>>

\* The answer to the call of kind k arrives. The token is the current one, not the
\* one the call was sent with.
Answer(k) ==
  LET r == requests[k] IN
  /\ r # None /\ r.answer # "none"
  /\ \/ /\ k \in {"validate", "mode"} /\ r.answer = "ok"
        /\ AcceptLicense(Owner[r.token], token)
        /\ requests' = Without(k)
     \/ /\ k = "validate" /\ r.answer = "rejected"
        /\ Lock(TRUE, TRUE)
        /\ requests' = Without(k)
     \/ /\ k \in {"mode", "use"} /\ r.answer = "rejected"
        /\ Validate(k)
     \/ /\ k = "use" /\ r.answer = "ok"
        /\ requests' = Without(k)
        /\ UNCHANGED <<session, tasks, lastAnswer>>
     \/ /\ k \in {"login", "reset"} /\ r.answer = "ok"
        /\ AcceptLicense(r.account, r.token)
        /\ requests' = Without(k)
     \/ /\ k = "login" /\ r.answer = "reset"
        /\ AskForReset(r.account)
        /\ requests' = Without(k)
     \/ /\ k = "reset" /\ r.answer = "rejected"
        /\ pendingReset' = None
        /\ requests' = Without(k)
        /\ UNCHANGED <<token, account, ok, age, stored, file, tasks, lastAnswer>>
     \/ /\ k = "logout"
        /\ Lock(TRUE, TRUE)
        /\ requests' = Without(k)
  /\ UNCHANGED <<service, restarts>>

\* The call, or its answer, is lost, or the service is out of order.
Fail(k) ==
  LET r == requests[k] IN
  /\ r # None
  /\ requests' = Without(k)
  /\ CASE k = "validate" -> Unavailable(r.saved)
       [] k = "logout" -> Lock(TRUE, TRUE)
       [] OTHER -> UNCHANGED <<session, tasks, lastAnswer>>
  /\ UNCHANGED <<service, restarts>>

-----------------------------------------------------------------------------
(* The launcher *)

\* invalidate.
Invalidate ==
  /\ Lock(TRUE, TRUE)
  /\ UNCHANGED <<service, requests, restarts>>

\* A start that guardTaskHelpers lets through.
StartTasks ==
  /\ ok /\ ~tasks /\ tasks' = TRUE
  /\ UNCHANGED <<service, session, requests, lastAnswer, restarts>>

StopTasks ==
  /\ tasks /\ tasks' = FALSE
  /\ UNCHANGED <<service, session, requests, lastAnswer, restarts>>

\* The app ends and starts again: loadSession restores what it can decrypt.
Restart ==
  /\ restarts < MaxRestarts /\ restarts' = restarts + 1
  /\ \/ /\ file # None
        /\ token' = file.token /\ account' = file.account /\ age' = file.age
        /\ stored' = TRUE
     \/ token' = None /\ account' = None /\ age' = Old /\ stored' = FALSE
  /\ ok' = FALSE /\ pendingReset' = None /\ tasks' = FALSE
  /\ requests' = [k \in Kinds |-> None]
  /\ UNCHANGED <<service, file, lastAnswer>>

\* Time goes by.
Tick ==
  /\ age' = Older(age) /\ lastAnswer' = Older(lastAnswer)
  /\ file' = IF file = None THEN None ELSE [file EXCEPT !.age = Older(@)]
  /\ requests' = IF requests["validate"] = None THEN requests
                   ELSE [requests EXCEPT !["validate"].saved = Older(@)]
  /\ UNCHANGED <<service, token, account, ok, pendingReset, stored, tasks, restarts>>

Next ==
  \/ StartValidate \/ StartReset \/ StartLogout \/ StartMode \/ StartUse
  \/ \E a \in Accounts : StartLogin(a) \/ RequireReset(a)
  \/ \E k \in Kinds : Serve(k) \/ Answer(k) \/ Fail(k)
  \/ \E t \in Tokens : Revoke(t)
  \/ Invalidate \/ StartTasks \/ StopTasks \/ Restart \/ Tick

Spec == Init /\ [][Next]_vars

\* The timer of the authority fires, a validation comes to an end (the client gives up
\* after thirty seconds), and time goes on. Other calls may hang.
Timely ==
  /\ WF_vars(Tick) /\ WF_vars(StartValidate)
  /\ WF_vars(Answer("validate") \/ Fail("validate"))

FairSpec == Spec /\ Timely

\* Of endlessly many validations not every one fails.
Reachable == SF_vars(Serve("validate")) /\ SF_vars(Answer("validate"))

-----------------------------------------------------------------------------
(* Properties *)

\* A validation leaves the session active only within the grace of the last answer
\* in which the service accepted a session of this app (validate: the offline
\* branch), whatever ended, restarted or was saved in between.
OfflineWithinGrace ==
  [][requests["validate"] # None /\ requests'["validate"] = None /\ ok'
       => lastAnswer' <= Grace]_vars

\* Where the page is told that the session is kept, a restart resumes that session,
\* with its token, its account and its validation time (saveSession, loadSession,
\* lock), whatever writes failed before.
StoredMatchesFile ==
  stored => token # None /\ file = [token |-> token, account |-> account, age |-> age]

\* A session the service has ended does not stay active: a check finds out, or the
\* checks cannot reach the service and the grace runs out.
RevokedSessionEnds ==
  \A t \in Tokens : (token = t /\ t \notin live) ~> ~(ok /\ token = t)

\* A session that an outage made inactive comes back by itself once the service can
\* be reached, unless it ends or another takes its place.
OutageEnds ==
  Reachable => \A t \in Tokens :
    (token = t /\ t \in live) ~> (ok \/ token # t \/ t \notin live)

\* A call on behalf of an account carries a token of that account (backupRequest).
BackupBound ==
  requests["use"] # None => Owner[requests["use"].token] = requests["use"].account
=============================================================================
