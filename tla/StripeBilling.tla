--------------------------- MODULE StripeBilling ---------------------------
(***************************************************************************)
(* The licence service and Stripe: the webhook that turns events into       *)
(* accounts, access and receipts, and the page on which a buyer reads the   *)
(* receipt with the one-time password.                                      *)
(*                                                                         *)
(* Every await of a handler is a point where other requests come between:   *)
(* an action is what runs from one await to the next, one statement of the  *)
(* database at most.  Stripe delivers an event again until it is told that  *)
(* it was received, in any order, also while an earlier delivery runs.      *)
(*                                                                         *)
(* A purchase makes a customer of its own at Stripe; the session stands for *)
(* it, and for the password made for it.  Billing status and task types are *)
(* left out: nothing is decided by the one, and the other only grows.       *)
(***************************************************************************)
EXTENDS Naturals, FiniteSetsExt

CONSTANTS
  Emails,      \* buyers
  Sessions,    \* checkout sessions that were paid
  EmailOf,     \* a session's email
  Renewals,    \* invoice.paid, customer.subscription.updated and .deleted
  CustomerOf,  \* a renewal's customer
  Until,       \* the end of its period, 0 for a deletion
  Intro,       \* the ends of the time a purchase may give, by when it is handled
  Unlimited,   \* access_until of an account that has no end: NULL
  Requests,    \* webhook requests at a time
  Pages,       \* receipt pages
  None,
  MaxFailures  \* bound on failures of the database and the network

Events == Sessions \cup Renewals

ASSUME SessionAssumption == EmailOf \in [Sessions -> Emails] /\ None \notin Sessions
ASSUME RenewalAssumption ==
  /\ Renewals \cap Sessions = {}
  /\ CustomerOf \in [Renewals -> Sessions] /\ Until \in [Renewals -> Nat]
ASSUME IntroAssumption == Intro \subseteq Nat
ASSUME UnlimitedAssumption == Unlimited \notin Nat
ASSUME NoneAssumption == None \notin Events
ASSUME FailureAssumption == MaxFailures \in Nat

VARIABLES
  users,       \* table users, by email
  claims,      \* table billing_claims, by session
  remembered,  \* table stripe_events
  processed,   \* its rows with processed_at
  req,         \* the webhook requests
  page,        \* the receipt pages
  acked,       \* Stripe: events it was told are received
  failed,      \* events whose handling was broken off
  failures,    \* failures so far
  shown        \* sessions whose password was shown

tables == <<users, claims, remembered, processed>>
stripe == <<acked, failed, failures>>
vars == <<tables, req, page, stripe, shown>>

Secrets == Sessions \cup {None, "own"}
Ends == Intro \cup {0} \cup {Until[e] : e \in Renewals}

User == [exists : BOOLEAN, customer : Sessions \cup {None}, access : Ends \cup {Unlimited},
         password : Secrets]
Claim == [stored : BOOLEAN, password : Sessions \cup {None}, claimed : BOOLEAN]

Stages == {"idle", "remember", "select", "create", "update", "claim", "renew", "mark"}
Request ==
  [at : Stages, event : Events \cup {None},
   email : Emails \cup {None},   \* the user it has read
   access : Ends,                \* and that user's access_until, as a number
   created : BOOLEAN]            \* createdNewUser
Page == [session : Sessions \cup {None}, password : Sessions \cup {None}]

TypeOK ==
  /\ users \in [Emails -> User] /\ claims \in [Sessions -> Claim]
  /\ remembered \subseteq Events /\ processed \subseteq Events
  /\ req \in [Requests -> Request] /\ page \in [Pages -> Page]
  /\ acked \subseteq Events /\ failed \subseteq Events /\ failures \in 0 .. MaxFailures
  /\ shown \subseteq Sessions

NoRequest == [at |-> "idle", event |-> None, email |-> None, access |-> 0, created |-> FALSE]
NoPage == [session |-> None, password |-> None]

NewUser(password) ==
  [exists |-> TRUE, customer |-> None, access |-> Unlimited, password |-> password]

\* Some buyers have an account already, with a password of their own: one an administrator made,
\* which has no end, or one whose time is over.
Init ==
  /\ users \in [Emails -> {[NewUser(None) EXCEPT !.exists = FALSE], NewUser("own"),
                            [NewUser("own") EXCEPT !.access = 0]}]
  /\ claims = [s \in Sessions |-> [stored |-> FALSE, password |-> None, claimed |-> FALSE]]
  /\ remembered = {} /\ processed = {} /\ acked = {} /\ failed = {} /\ failures = 0
  /\ req = [r \in Requests |-> NoRequest]
  /\ page = [p \in Pages |-> NoPage] /\ shown = {}

-----------------------------------------------------------------------------
(* The webhook *)

At(r, stage) == req[r].at = stage
OfPurchase(r) == req[r].event \in Sessions
Buyer(r) == EmailOf[req[r].event]
Goes(r, stage) == req' = [req EXCEPT ![r].at = stage]
\* It handles the event: handleStripeEvent and what follows it.
Handling(r) == req[r].at \in {"select", "create", "update", "claim", "renew", "mark"}

\* Stripe sends an event that it has not been told is received.
Deliver(r, e) ==
  /\ At(r, "idle") /\ e \notin acked
  /\ req' = [req EXCEPT ![r] = [NoRequest EXCEPT !.at = "remember", !.event = e]]
  /\ UNCHANGED <<tables, page, stripe, shown>>

\* The request is answered with success; the answer may get lost.
Answered(r) ==
  /\ req' = [req EXCEPT ![r] = NoRequest]
  /\ \/ acked' = acked \cup {req[r].event} /\ UNCHANGED failures
     \/ failures < MaxFailures /\ failures' = failures + 1 /\ UNCHANGED acked

\* Mutated form: an event is known once it has been processed.
RememberProcessed(r) ==
  /\ At(r, "remember") /\ remembered' = remembered \cup {req[r].event}
  /\ IF req[r].event \in processed THEN Answered(r)
     ELSE Goes(r, "select") /\ UNCHANGED <<acked, failures>>
  /\ UNCHANGED <<users, claims, processed, page, failed, shown>>

\* rememberStripeEvent: the key of the table lets one delivery through.
Remember(r) ==
  /\ At(r, "remember") /\ remembered' = remembered \cup {req[r].event}
  /\ IF req[r].event \in remembered THEN Answered(r)
     ELSE Goes(r, "select") /\ UNCHANGED <<acked, failures>>
  /\ UNCHANGED <<users, claims, processed, page, failed, shown>>

\* Any error of its statement is taken for a known event.
RememberFails(r) ==
  /\ At(r, "remember") /\ failures < MaxFailures
  /\ failures' = failures + 1 /\ failed' = failed \cup {req[r].event}
  /\ req' = [req EXCEPT ![r] = NoRequest] /\ acked' = acked \cup {req[r].event}
  /\ UNCHANGED <<tables, page, shown>>

\* Mutated form: a buyer who is known is passed over.
SelectNewBuyer(r) ==
  /\ At(r, "select") /\ OfPurchase(r)
  /\ Goes(r, IF users[Buyer(r)].exists THEN "mark" ELSE "create")
  /\ UNCHANGED <<tables, page, stripe, shown>>

\* upsertPaidUser looks for the buyer by email.
SelectBuyer(r) ==
  /\ At(r, "select") /\ OfPurchase(r)
  /\ Goes(r, IF users[Buyer(r)].exists THEN "update" ELSE "create")
  /\ UNCHANGED <<tables, page, stripe, shown>>

\* Mutated form: the account of the same email is replaced.
CreateOrReplaceUser(r) ==
  /\ At(r, "create")
  /\ users' = [users EXCEPT ![Buyer(r)] = NewUser(req[r].event)]
  /\ req' = [req EXCEPT ![r].at = "update", ![r].created = TRUE]
  /\ UNCHANGED <<claims, remembered, processed, page, stripe, shown>>

\* createUserRecord; emails are unique. The account has no end yet.
CreateUser(r) ==
  /\ At(r, "create") /\ ~users[Buyer(r)].exists
  /\ users' = [users EXCEPT ![Buyer(r)] = NewUser(req[r].event)]
  /\ req' = [req EXCEPT ![r].at = "update", ![r].created = TRUE]
  /\ UNCHANGED <<claims, remembered, processed, page, stripe, shown>>

\* Another request has created the account in between.
CreateConflicts(r) ==
  /\ At(r, "create") /\ users[Buyer(r)].exists
  /\ req' = [req EXCEPT ![r] = NoRequest] /\ failed' = failed \cup {req[r].event}
  /\ UNCHANGED <<tables, page, acked, failures, shown>>

\* upsertPaidUser gives the account its customer and its time, whatever time it had.
UpdatePaidUser(r) ==
  /\ At(r, "update")
  /\ \E end \in Intro :
       users' = [users EXCEPT ![Buyer(r)].customer = req[r].event, ![Buyer(r)].access = end]
  /\ Goes(r, "claim")
  /\ UNCHANGED <<claims, remembered, processed, page, stripe, shown>>

\* Mutated form: the receipt has the password of the account, whoever set it.
StoreAnyPassword(r) ==
  /\ At(r, "claim")
  /\ claims' = [claims EXCEPT ![req[r].event].stored = TRUE,
                              ![req[r].event].password = users[Buyer(r)].password]
  /\ Goes(r, "mark")
  /\ UNCHANGED <<users, remembered, processed, page, stripe, shown>>

StoreBillingClaim(r) ==
  /\ At(r, "claim")
  /\ claims' = [claims EXCEPT ![req[r].event].stored = TRUE,
                              ![req[r].event].password =
                                IF req[r].created THEN req[r].event ELSE None]
  /\ Goes(r, "mark")
  /\ UNCHANGED <<users, remembered, processed, page, stripe, shown>>

\* Number(user.access_until) || 0
AsNumber(access) == IF access = Unlimited THEN 0 ELSE access

\* applyStripeInvoice and applyStripeSubscription read the customer's account; without one
\* they are done.
SelectCustomer(r) ==
  /\ At(r, "select") /\ ~OfPurchase(r)
  /\ LET known == {m \in Emails : users[m].exists /\ users[m].customer = CustomerOf[req[r].event]}
     IN  IF known = {}
           THEN Goes(r, "mark")
           ELSE \E m \in known :
                  req' = [req EXCEPT ![r].at = "renew", ![r].email = m,
                                     ![r].access = AsNumber(users[m].access)]
  /\ UNCHANGED <<tables, page, stripe, shown>>

\* They write the later of what they have read and the end of the period.
Renew(r) ==
  /\ At(r, "renew")
  /\ users' = [users EXCEPT ![req[r].email].access = Max({req[r].access, Until[req[r].event]})]
  /\ Goes(r, "mark")
  /\ UNCHANGED <<claims, remembered, processed, page, stripe, shown>>

MarkProcessed(r) ==
  /\ At(r, "mark")
  /\ processed' = processed \cup {req[r].event} /\ Answered(r)
  /\ UNCHANGED <<users, claims, remembered, page, failed, shown>>

\* A statement fails, or the Worker ends: Stripe is told that the event was not received.
BreakOff(r) ==
  /\ Handling(r) /\ failures < MaxFailures /\ failures' = failures + 1
  /\ failed' = failed \cup {req[r].event} /\ req' = [req EXCEPT ![r] = NoRequest]
  /\ UNCHANGED <<tables, page, acked, shown>>

-----------------------------------------------------------------------------
(* The receipt *)

\* claimBillingSession reads a claim that was not read before; any other has no password.
ReadClaim(p, s) ==
  /\ page[p].session = None /\ claims[s].stored /\ ~claims[s].claimed
  /\ page' = [page EXCEPT ![p] = [session |-> s, password |-> claims[s].password]]
  /\ UNCHANGED <<tables, req, stripe, shown>>

\* The answer reaches the page, or not.
ClosePage(p) ==
  /\ page' = [page EXCEPT ![p] = NoPage]
  /\ shown' \in {shown, IF page[p].password = None THEN shown ELSE shown \cup {page[p].session}}

\* Mutated form: the claim is not marked.
TakePasswordOnly(p) ==
  /\ page[p].session # None /\ ClosePage(p)
  /\ UNCHANGED <<tables, req, stripe>>

\* It marks the claim, removes the password from it and answers with what it has read.
TakePassword(p) ==
  /\ page[p].session # None /\ ClosePage(p)
  /\ claims' = [claims EXCEPT ![page[p].session] =
                  IF @.claimed THEN @ ELSE [@ EXCEPT !.claimed = TRUE, !.password = None]]
  /\ UNCHANGED <<users, remembered, processed, req, stripe>>

\* Its statement fails.
TakeFails(p) ==
  /\ page[p].session # None /\ page' = [page EXCEPT ![p] = NoPage]
  /\ UNCHANGED <<tables, req, stripe, shown>>

\* The first sign-in asks for a password of the user's own.
ResetPassword(m) ==
  /\ users[m].exists /\ users[m].password # "own"
  /\ users' = [users EXCEPT ![m].password = "own"]
  /\ UNCHANGED <<claims, remembered, processed, req, page, stripe, shown>>

-----------------------------------------------------------------------------
Purchase(r) ==
  SelectBuyer(r) \/ CreateUser(r) \/ CreateConflicts(r) \/ UpdatePaidUser(r) \/ StoreBillingClaim(r)

Renewal(r) == SelectCustomer(r) \/ Renew(r)

Handle(r) == Remember(r) \/ Purchase(r) \/ Renewal(r) \/ MarkProcessed(r)

Fault(r) == RememberFails(r) \/ BreakOff(r)

Receipt(p) == (\E s \in Sessions : ReadClaim(p, s)) \/ TakePassword(p) \/ TakeFails(p)

Next ==
  \/ \E r \in Requests : (\E e \in Events : Deliver(r, e)) \/ Handle(r) \/ Fault(r)
  \/ \E p \in Pages : Receipt(p)
  \/ \E m \in Emails : ResetPassword(m)

Spec == Init /\ [][Next]_vars

\* The Worker runs its requests, and Stripe does not give up.
FairSpec ==
  /\ Spec
  /\ \A r \in Requests : WF_vars(Handle(r))
  /\ \A e \in Events : SF_vars(\E r \in Requests : Deliver(r, e))

-----------------------------------------------------------------------------
(* Properties *)

\* However often an event is delivered, also while it is being handled, it is handled once:
\* it does not create, pay or renew twice.
HandledOnce ==
  \A r \in Requests :
    Handling(r) => /\ req[r].event \notin processed
                   /\ \A q \in Requests \ {r} : Handling(q) => req[q].event # req[r].event

\* The password on a receipt opens the account, unless the user has set another one: of two
\* purchases of one email neither may overwrite the account the other has just created.
ReceiptOpensAccount ==
  \A s \in Sessions :
    claims[s].password # None => users[EmailOf[s]].password \in {claims[s].password, "own"}

\* A password that was shown is not shown to who asks for the receipt later.
ShownOnce ==
  [][\A p \in Pages, s \in shown :
       page[p].session = None /\ page'[p].session = s => page'[p].password = None]_vars

\* Every purchase gets its receipt, unless its handling fails.
PurchaseIsServed == \A s \in Sessions : <>(claims[s].stored \/ s \in failed)
=============================================================================
