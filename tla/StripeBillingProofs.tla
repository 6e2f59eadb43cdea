------------------------- MODULE StripeBillingProofs -------------------------
(***************************************************************************)
(* The safety properties of StripeBilling, for any buyers, purchases,       *)
(* renewals, requests and pages.                                            *)
(***************************************************************************)
EXTENDS StripeBilling, TLAPS

\* What a request holds at its stage.
RequestsConsistent ==
  \A r \in Requests :
    /\ req[r].at # "idle" => req[r].event \in Events
    /\ req[r].at \in {"create", "update", "claim"} => req[r].event \in Sessions
    /\ At(r, "renew") => req[r].email \in Emails /\ req[r].event \in Renewals
    /\ Handling(r) => req[r].event \in remembered

\* A session that has made its account, for a request or in a claim: the account is there,
\* and opens with the session's password or with the user's own.
Opens(s) == users[EmailOf[s]].exists /\ users[EmailOf[s]].password \in {s, "own"}

PasswordsOpen ==
  /\ \A r \in Requests : req[r].created => req[r].event \in Sessions /\ Opens(req[r].event)
  /\ \A s \in Sessions : claims[s].password # None => claims[s].password = s /\ Opens(s)

Inv == TypeOK /\ processed \subseteq remembered /\ RequestsConsistent /\ HandledOnce

LEMMA LaterEnd ==
  ASSUME NEW a \in Nat, NEW b \in Nat
  PROVE  Max({a, b}) \in {a, b} /\ Max({a, b}) >= a
<1>1. \E x \in {a, b} : \A y \in {a, b} : x >= y
  <2>1. CASE a >= b
    BY <2>1
  <2>2. CASE ~(a >= b)
    BY <2>2
  <2>. QED
    BY <2>1, <2>2
<1>. QED
  BY <1>1 DEF Max

LEMMA EndsAreNumbers == Ends \subseteq Nat
<1>1. \A e \in Renewals : Until[e] \in Nat
  BY RenewalAssumption
<1>2. SUFFICES ASSUME NEW x \in Ends
               PROVE  x \in Nat
  OBVIOUS
<1>3. CASE \E e \in Renewals : x = Until[e]
  BY <1>1, <1>3
<1>4. CASE x \in Intro \cup {0}
  BY <1>4, IntroAssumption
<1>. QED
  BY <1>3, <1>4 DEF Ends

\* One account, claim or request is replaced.
LEMMA Replaced ==
  ASSUME NEW S, NEW T, NEW f \in [S -> T], NEW k, NEW x \in T
  PROVE  [f EXCEPT ![k] = x] \in [S -> T]
  OBVIOUS

LEMMA BuyerKnown == \A r \in Requests : req[r].event \in Sessions => Buyer(r) \in Emails
  BY SessionAssumption DEF Buyer

LEMMA InitInv == Init => Inv
<1>. SUFFICES ASSUME Init
              PROVE  Inv
  OBVIOUS
<1>1. TypeOK
  <2>1. users \in [Emails -> User]
    <3>1. \A w \in {None, "own"} : NewUser(w) \in User
      BY DEF NewUser, User, Secrets
    <3>2. [NewUser(None) EXCEPT !.exists = FALSE] \in User
      BY <3>1 DEF User
    <3>3. [NewUser("own") EXCEPT !.access = 0] \in User
      BY <3>1 DEF User, Ends
    <3>. QED
      BY <3>1, <3>2, <3>3 DEF Init
  <2>. QED
    BY <2>1, FailureAssumption
    DEF Init, TypeOK, Claim, Request, Stages, Page, NoRequest, NoPage, Ends
<1>. QED
  BY <1>1 DEF Init, Inv, RequestsConsistent, HandledOnce, Handling, At, NoRequest

\* A step of one request that only moves it on keeps the invariant.
LEMMA Moves ==
  ASSUME Inv, NEW r \in Requests, NEW x \in Request,
         req' = [req EXCEPT ![r] = x],
         UNCHANGED <<remembered, processed>>, TypeOK',
         x.at # "idle" => x.event = req[r].event /\ x.event \in Events,
         x.at \in {"create", "update", "claim"} => x.event \in Sessions,
         x.at = "renew" => x.email \in Emails /\ x.event \in Renewals,
         x.at \in {"idle", "remember"} \/ Handling(r)
  PROVE  Inv'
<1>. USE DEF Inv, TypeOK
<1>1. RequestsConsistent'
  BY DEF RequestsConsistent, At, Handling, Request, Stages
<1>2. HandledOnce'
  BY DEF HandledOnce, Handling, Request, Stages
<1>. QED
  BY <1>1, <1>2

LEMMA GoesOn ==
  ASSUME Inv, NEW r \in Requests, NEW stage \in Stages, Goes(r, stage), Handling(r),
         UNCHANGED <<remembered, processed>>, TypeOK', stage \notin {"idle", "renew"},
         stage \in {"create", "update", "claim"} => req[r].event \in Sessions
  PROVE  Inv'
<1>. DEFINE x == [req[r] EXCEPT !.at = stage]
<1>1. req[r] \in Request
  BY DEF Inv, TypeOK
<1>2. x \in Request /\ x.at = stage /\ x.event = req[r].event
  BY <1>1 DEF Request
<1>3. req' = [req EXCEPT ![r] = x]
  BY DEF Goes
<1>4. x.event \in Events
  BY <1>2 DEF Inv, RequestsConsistent, Handling
<1>. QED
  BY <1>2, <1>3, <1>4, Moves

LEMMA TypeStep == TypeOK /\ RequestsConsistent /\ [Next]_vars => TypeOK'
<1>. SUFFICES ASSUME TypeOK, RequestsConsistent, [Next]_vars
              PROVE  TypeOK'
  OBVIOUS
<1>. USE DEF TypeOK
<1>1. NoRequest \in Request /\ NoPage \in Page
  BY DEF NoRequest, NoPage, Request, Page, Stages, Ends
<1>2. ASSUME NEW r \in Requests, NEW e \in Events, Deliver(r, e)
      PROVE  TypeOK'
  <2>1. [NoRequest EXCEPT !.at = "remember", !.event = e] \in Request
    BY <1>1 DEF NoRequest, Request, Stages
  <2>. QED
    BY <1>2, <2>1 DEF Deliver, tables, stripe
<1>3. ASSUME NEW r \in Requests, Handle(r)
      PROVE  TypeOK'
  <2>. USE DEF Goes, At, Request, Stages
  <2>1. CASE Remember(r)
    <3>1. req[r].event \in Events
      BY <2>1 DEF Remember, RequestsConsistent
    <3>2. req' \in [Requests -> Request]
      BY <1>1, <2>1 DEF Remember, Answered
    <3>. QED
      BY <2>1, <3>1, <3>2, FailureAssumption DEF Remember, Answered
  <2>2. CASE SelectBuyer(r)
    BY <2>2 DEF SelectBuyer, tables, stripe
  <2>3. CASE CreateUser(r)
    <3>1. req[r].event \in Sessions
      BY <2>3 DEF CreateUser, RequestsConsistent
    <3>2. NewUser(req[r].event) \in User
      BY <3>1 DEF NewUser, User, Secrets
    <3>3. users' \in [Emails -> User]
      BY <2>3, <3>2, Replaced DEF CreateUser
    <3>. QED
      BY <2>3, <3>3 DEF CreateUser, stripe
  <2>4. CASE CreateConflicts(r)
    BY <1>1, <2>4 DEF CreateConflicts, tables, RequestsConsistent
  <2>5. CASE UpdatePaidUser(r)
    <3>1. req[r].event \in Sessions
      BY <2>5 DEF UpdatePaidUser, RequestsConsistent
    <3>2. PICK end \in Intro :
            users' = [users EXCEPT ![Buyer(r)].customer = req[r].event, ![Buyer(r)].access = end]
      BY <2>5 DEF UpdatePaidUser
    <3>3. Buyer(r) \in Emails
      BY <3>1, BuyerKnown
    <3>4. DEFINE u == [users[Buyer(r)] EXCEPT !.customer = req[r].event, !.access = end]
    <3>5. u \in User
      BY <3>1, <3>3 DEF User, Ends
    <3>6. users' = [users EXCEPT ![Buyer(r)] = u]
      BY <3>2, <3>3
    <3>7. users' \in [Emails -> User]
      BY <3>5, <3>6, Replaced
    <3>. QED
      BY <2>5, <3>7 DEF UpdatePaidUser, stripe
  <2>6. CASE StoreBillingClaim(r)
    <3>1. req[r].event \in Sessions
      BY <2>6 DEF StoreBillingClaim, RequestsConsistent
    <3>2. DEFINE s == req[r].event
                 c == [claims[s] EXCEPT !.stored = TRUE,
                                        !.password = IF req[r].created THEN s ELSE None]
    <3>3. c \in Claim
      BY <3>1 DEF Claim
    <3>4. claims' = [claims EXCEPT ![s] = c]
      BY <2>6, <3>1 DEF StoreBillingClaim
    <3>5. claims' \in [Sessions -> Claim]
      BY <3>3, <3>4, Replaced
    <3>. QED
      BY <2>6, <3>5 DEF StoreBillingClaim, stripe
  <2>7. CASE SelectCustomer(r)
    <3>1. \A m \in Emails : AsNumber(users[m].access) \in Ends
      BY DEF User, AsNumber, Ends
    <3>2. ASSUME Goes(r, "mark")
          PROVE  req' \in [Requests -> Request]
      <4>1. [req[r] EXCEPT !.at = "mark"] \in Request
        OBVIOUS
      <4>2. req' = [req EXCEPT ![r] = [req[r] EXCEPT !.at = "mark"]]
        BY <3>2
      <4>. QED
        BY <4>1, <4>2, Replaced
    <3>3. ASSUME NEW m \in Emails,
                 req' = [req EXCEPT ![r].at = "renew", ![r].email = m,
                                    ![r].access = AsNumber(users[m].access)]
          PROVE  req' \in [Requests -> Request]
      <4>1. DEFINE x == [req[r] EXCEPT !.at = "renew", !.email = m,
                                     !.access = AsNumber(users[m].access)]
      <4>2. x \in Request
        BY <3>1
      <4>3. req' = [req EXCEPT ![r] = x]
        BY <3>3
      <4>. QED
        BY <4>2, <4>3, Replaced
    <3>4. req' \in [Requests -> Request]
      BY <2>7, <3>2, <3>3 DEF SelectCustomer
    <3>. QED
      BY <2>7, <3>4 DEF SelectCustomer, tables, stripe
  <2>8. CASE Renew(r)
    <3>1. req[r].event \in Renewals /\ req[r].email \in Emails
      BY <2>8 DEF Renew, RequestsConsistent
    <3>2. Until[req[r].event] \in Ends /\ req[r].access \in Ends
      BY <3>1 DEF Ends
    <3>3. Max({req[r].access, Until[req[r].event]}) \in Ends
      BY <3>2, LaterEnd, EndsAreNumbers
    <3>4. users' \in [Emails -> User]
      <4>. DEFINE m == req[r].email
                  x == [users[m] EXCEPT !.access = Max({req[r].access, Until[req[r].event]})]
      <4>1. users[m] \in User /\ users \in [Emails -> User]
        BY <3>1
      <4>2. x \in User
        BY <3>3, <4>1 DEF User
      <4>3. users' = [users EXCEPT ![m] = x]
        BY <2>8 DEF Renew
      <4>. HIDE DEF m, x
      <4>4. m \in Emails
        BY <3>1 DEF m
      <4>. QED
        BY <4>1, <4>2, <4>3, <4>4
    <3>. QED
      BY <2>8, <3>4 DEF Renew, stripe
  <2>9. CASE MarkProcessed(r)
    <3>1. req[r].event \in Events
      BY <2>9 DEF MarkProcessed, RequestsConsistent
    <3>. QED
      BY <1>1, <2>9, <3>1, FailureAssumption DEF MarkProcessed, Answered
  <2>. QED
    BY <1>3, <2>1, <2>2, <2>3, <2>4, <2>5, <2>6, <2>7, <2>8, <2>9 DEF Handle, Purchase, Renewal
<1>4. ASSUME NEW r \in Requests, Fault(r)
      PROVE  TypeOK'
  <2>1. req[r].event \in Events
    BY <1>4 DEF Fault, RememberFails, BreakOff, RequestsConsistent, At, Handling
  <2>. QED
    BY <1>1, <1>4, <2>1, FailureAssumption
    DEF Fault, RememberFails, BreakOff, tables
<1>5. ASSUME NEW p \in Pages, Receipt(p)
      PROVE  TypeOK'
  <2>1. CASE \E s \in Sessions : ReadClaim(p, s)
    <3>1. PICK s \in Sessions : ReadClaim(p, s)
      BY <2>1
    <3>2. [session |-> s, password |-> claims[s].password] \in Page
      BY DEF Page, Claim
    <3>. QED
      BY <3>1, <3>2 DEF ReadClaim, tables, stripe
  <2>2. CASE TakePassword(p)
    <3>1. page[p].session \in Sessions
      BY <2>2 DEF TakePassword, Page
    <3>2. claims' \in [Sessions -> Claim]
      BY <2>2, <3>1 DEF TakePassword, Claim
    <3>3. page' \in [Pages -> Page] /\ shown' \subseteq Sessions
      BY <1>1, <2>2, <3>1 DEF TakePassword, ClosePage
    <3>. QED
      BY <2>2, <3>2, <3>3 DEF TakePassword, stripe
  <2>3. CASE TakeFails(p)
    BY <1>1, <2>3 DEF TakeFails, tables, stripe
  <2>. QED
    BY <1>5, <2>1, <2>2, <2>3 DEF Receipt
<1>6. ASSUME NEW m \in Emails, ResetPassword(m)
      PROVE  TypeOK'
  <2>1. users' \in [Emails -> User]
    BY <1>6 DEF ResetPassword, User, Secrets
  <2>. QED
    BY <1>6, <2>1 DEF ResetPassword, stripe
<1>7. CASE UNCHANGED vars
  BY <1>7 DEF vars, tables, stripe
<1>. QED
  BY <1>2, <1>3, <1>4, <1>5, <1>6, <1>7 DEF Next

-----------------------------------------------------------------------------
(* The invariant of the webhook *)

LEMMA Step == Inv /\ [Next]_vars => Inv'
<1>. SUFFICES ASSUME Inv, [Next]_vars
              PROVE  Inv'
  OBVIOUS
<1>t. TypeOK'
  BY TypeStep DEF Inv
<1>r. \A r \in Requests : req[r] \in Request
  BY DEF Inv, TypeOK
<1>n. NoRequest \in Request
  BY DEF NoRequest, Request, Stages, Ends
<1>1. ASSUME NEW r \in Requests, NEW e \in Events, Deliver(r, e)
      PROVE  Inv'
  <2>. DEFINE x == [NoRequest EXCEPT !.at = "remember", !.event = e]
  <2>1. req' = [req EXCEPT ![r] = x] /\ UNCHANGED <<remembered, processed>>
    BY <1>1 DEF Deliver, tables
  <2>2. RequestsConsistent'
    BY <1>1, <2>1 DEF Inv, TypeOK, RequestsConsistent, At, Handling, NoRequest
  <2>3. HandledOnce'
    BY <2>1 DEF Inv, TypeOK, HandledOnce, Handling, NoRequest
  <2>. QED
    BY <1>t, <2>1, <2>2, <2>3 DEF Inv
<1>2. ASSUME NEW r \in Requests, Handle(r)
      PROVE  Inv'
  <2>. USE DEF Goes, At
  <2>1. CASE Remember(r)
    <3>1. req[r].event \in Events
      BY <2>1 DEF Inv, Remember, RequestsConsistent
    <3>2. CASE req[r].event \in remembered
      <4>1. /\ req' = [req EXCEPT ![r] = NoRequest]
            /\ remembered' = remembered /\ processed' = processed
        BY <2>1, <3>2 DEF Remember, Answered
      <4>. QED
        BY <1>t, <1>n, <4>1, Moves DEF NoRequest
    <3>3. CASE req[r].event \notin remembered
      <4>1. /\ req' = [req EXCEPT ![r].at = "select"]
            /\ remembered' = remembered \cup {req[r].event} /\ processed' = processed
        BY <2>1, <3>3 DEF Remember
      <4>2. RequestsConsistent'
        BY <2>1, <3>1, <4>1 DEF Remember, Inv, TypeOK, RequestsConsistent, Handling, Request
      <4>3. HandledOnce'
        BY <3>3, <4>1 DEF Inv, TypeOK, RequestsConsistent, HandledOnce, Handling, Request
      <4>. QED
        BY <1>t, <4>1, <4>2, <4>3 DEF Inv
    <3>. QED
      BY <3>2, <3>3
  <2>2. CASE SelectBuyer(r)
    BY <1>t, <2>2, GoesOn DEF SelectBuyer, OfPurchase, Handling, Stages, tables
  <2>3. CASE CreateUser(r)
    <3>. DEFINE x == [req[r] EXCEPT !.at = "update", !.created = TRUE]
    <3>1. req[r].event \in Sessions /\ req[r].event \in Events
      BY <2>3 DEF CreateUser, Inv, RequestsConsistent, Events
    <3>2. x \in Request /\ x.at = "update" /\ x.event = req[r].event
      BY <1>r DEF Request, Stages
    <3>3. req' = [req EXCEPT ![r] = x] /\ UNCHANGED <<remembered, processed>>
      BY <2>3 DEF CreateUser
    <3>4. Handling(r)
      BY <2>3 DEF CreateUser, Handling
    <3>. QED
      BY <1>t, <3>1, <3>2, <3>3, <3>4, Moves
  <2>4. CASE CreateConflicts(r)
    BY <1>t, <1>n, <2>4, Moves DEF CreateConflicts, NoRequest, tables
  <2>5. CASE UpdatePaidUser(r)
    BY <1>t, <2>5, GoesOn DEF UpdatePaidUser, Handling, Stages, Inv, RequestsConsistent
  <2>6. CASE StoreBillingClaim(r)
    BY <1>t, <2>6, GoesOn DEF StoreBillingClaim, Handling, Stages
  <2>7. CASE SelectCustomer(r)
    <3>1. CASE Goes(r, "mark")
      <4>. HIDE DEF Goes
      <4>. QED
        BY <1>t, <2>7, <3>1, GoesOn DEF SelectCustomer, Handling, Stages, tables
    <3>2. ASSUME NEW m \in Emails,
                 req' = [req EXCEPT ![r].at = "renew", ![r].email = m,
                                    ![r].access = AsNumber(users[m].access)]
          PROVE  Inv'
      <4>. DEFINE x == [req[r] EXCEPT !.at = "renew", !.email = m,
                                     !.access = AsNumber(users[m].access)]
      <4>1. AsNumber(users[m].access) \in Ends
        BY DEF Inv, TypeOK, User, AsNumber, Ends
      <4>2. x \in Request /\ x.at = "renew" /\ x.event = req[r].event /\ x.email = m
        BY <1>r, <4>1 DEF Request, Stages
      <4>3. req' = [req EXCEPT ![r] = x] /\ UNCHANGED <<remembered, processed>>
        BY <2>7, <3>2 DEF SelectCustomer, tables
      <4>4. x.event \in Events /\ x.event \in Renewals /\ Handling(r)
        BY <2>7, <4>2
        DEF SelectCustomer, Handling, OfPurchase, Inv, RequestsConsistent, Events
      <4>. QED
        BY <1>t, <4>2, <4>3, <4>4, Moves
    <3>. QED
      BY <2>7, <3>1, <3>2 DEF SelectCustomer
  <2>8. CASE Renew(r)
    BY <1>t, <2>8, GoesOn DEF Renew, Handling, Stages
  <2>9. CASE MarkProcessed(r)
    <3>1. /\ req' = [req EXCEPT ![r] = NoRequest] /\ remembered' = remembered
          /\ processed' = processed \cup {req[r].event} /\ Handling(r)
      BY <2>9 DEF MarkProcessed, Answered, Handling
    <3>2. RequestsConsistent'
      BY <3>1 DEF Inv, TypeOK, RequestsConsistent, Handling, NoRequest
    <3>3. HandledOnce'
      BY <3>1 DEF Inv, TypeOK, HandledOnce, Handling, NoRequest
    <3>4. (processed \subseteq remembered)'
      BY <3>1 DEF Inv, RequestsConsistent
    <3>. QED
      BY <1>t, <3>2, <3>3, <3>4 DEF Inv
  <2>. QED
    BY <1>2, <2>1, <2>2, <2>3, <2>4, <2>5, <2>6, <2>7, <2>8, <2>9 DEF Handle, Purchase, Renewal
<1>3. ASSUME NEW r \in Requests, Fault(r)
      PROVE  Inv'
  BY <1>3, <1>t, <1>n, Moves DEF Fault, RememberFails, BreakOff, NoRequest, tables
<1>4. CASE UNCHANGED <<req, remembered, processed>>
  BY <1>t, <1>4 DEF Inv, RequestsConsistent, HandledOnce, Handling, At
<1>5. ASSUME NEW p \in Pages, Receipt(p)
      PROVE  UNCHANGED <<req, remembered, processed>>
  BY <1>5 DEF Receipt, ReadClaim, TakePassword, TakeFails, tables
<1>6. ASSUME NEW m \in Emails, ResetPassword(m)
      PROVE  UNCHANGED <<req, remembered, processed>>
  BY <1>6 DEF ResetPassword
<1>7. UNCHANGED vars => UNCHANGED <<req, remembered, processed>>
  BY DEF vars, tables
<1>. QED
  BY <1>1, <1>2, <1>3, <1>4, <1>5, <1>6, <1>7 DEF Next

\* The tables, the requests and the pages hold what the code can put there.
THEOREM TypeCorrect == Spec => []TypeOK
<1>1. Inv => TypeOK
  BY DEF Inv
<1>. QED
  BY InitInv, Step, <1>1, PTL DEF Spec

\* However many requests deliver an event, one of them handles it, once.
THEOREM HandlesOnce == Spec => []HandledOnce
<1>1. Inv => HandledOnce
  BY DEF Inv
<1>. QED
  BY InitInv, Step, <1>1, PTL DEF Spec

-----------------------------------------------------------------------------
(* The receipt *)

\* What one step may do to an account that exists: its password stays or becomes the user's
\* own.
LEMMA AccountsStay ==
  ASSUME Inv, [Next]_vars, NEW m \in Emails, users[m].exists
  PROVE  users'[m].exists /\ users'[m].password \in {users[m].password, "own"}
<1>. USE DEF Inv, TypeOK, User
<1>1. ASSUME NEW r \in Requests, CreateUser(r)
      PROVE  users'[m] = users[m]
  BY <1>1 DEF CreateUser
<1>2. ASSUME NEW r \in Requests, UpdatePaidUser(r)
      PROVE  users'[m].exists /\ users'[m].password = users[m].password
  BY <1>2 DEF UpdatePaidUser
<1>3. ASSUME NEW r \in Requests, Renew(r)
      PROVE  users'[m].exists /\ users'[m].password = users[m].password
  BY <1>3 DEF Renew
<1>4. ASSUME NEW k \in Emails, ResetPassword(k)
      PROVE  users'[m].exists /\ users'[m].password \in {users[m].password, "own"}
  BY <1>4 DEF ResetPassword
<1>5. CASE UNCHANGED users
  BY <1>5
<1>6. ASSUME NEW r \in Requests,
             \/ \E e \in Events : Deliver(r, e)
             \/ Remember(r) \/ SelectBuyer(r) \/ CreateConflicts(r) \/ StoreBillingClaim(r)
             \/ SelectCustomer(r) \/ MarkProcessed(r) \/ Fault(r)
      PROVE  UNCHANGED users
  BY <1>6 DEF Deliver, Remember, SelectBuyer, CreateConflicts, StoreBillingClaim, SelectCustomer,
              MarkProcessed, Fault, RememberFails, BreakOff, tables
<1>7. ASSUME NEW p \in Pages, Receipt(p)
      PROVE  UNCHANGED users
  BY <1>7 DEF Receipt, ReadClaim, TakePassword, TakeFails, tables
<1>8. UNCHANGED vars => UNCHANGED users
  BY DEF vars, tables
<1>. QED
  BY <1>1, <1>2, <1>3, <1>4, <1>5, <1>6, <1>7, <1>8 DEF Next, Handle, Purchase, Renewal

\* A request says that it has made the account only if it just has, and keeps its event.
LEMMA CreatedStays ==
  ASSUME Inv, [Next]_vars, NEW r \in Requests, req'[r].created
  PROVE  \/ req[r].created /\ req'[r].event = req[r].event
         \/ CreateUser(r) /\ req'[r].event = req[r].event
<1>. USE DEF Inv, TypeOK, Request, Goes, NoRequest
<1>1. ASSUME NEW q \in Requests, NEW e \in Events, Deliver(q, e)
      PROVE  req[r].created /\ req'[r].event = req[r].event
  BY <1>1 DEF Deliver
<1>2. ASSUME NEW q \in Requests, CreateUser(q)
      PROVE  \/ req[r].created /\ req'[r].event = req[r].event
             \/ CreateUser(r) /\ req'[r].event = req[r].event
  BY <1>2 DEF CreateUser
<1>3. ASSUME NEW q \in Requests,
             \/ Remember(q) \/ CreateConflicts(q) \/ MarkProcessed(q) \/ Fault(q)
      PROVE  req[r].created /\ req'[r].event = req[r].event
  BY <1>3 DEF Remember, CreateConflicts, MarkProcessed, Answered, Fault, RememberFails, BreakOff
<1>4. ASSUME NEW q \in Requests,
             \/ SelectBuyer(q) \/ UpdatePaidUser(q) \/ StoreBillingClaim(q) \/ Renew(q)
             \/ SelectCustomer(q)
      PROVE  req[r].created /\ req'[r].event = req[r].event
  <2>1. CASE \E stage \in Stages : Goes(q, stage)
    BY <2>1
  <2>2. CASE SelectCustomer(q) /\ ~\E stage \in Stages : Goes(q, stage)
    <3>1. PICK m \in Emails :
            req' = [req EXCEPT ![q].at = "renew", ![q].email = m,
                               ![q].access = AsNumber(users[m].access)]
      BY <2>2 DEF SelectCustomer, Stages
    <3>. QED
      BY <3>1
  <2>. QED
    BY <1>4, <2>1, <2>2 DEF SelectBuyer, UpdatePaidUser, StoreBillingClaim, Renew, Stages
<1>5. CASE UNCHANGED req
  BY <1>5
<1>6. ASSUME NEW p \in Pages, Receipt(p)
      PROVE  UNCHANGED req
  BY <1>6 DEF Receipt, ReadClaim, TakePassword, TakeFails
<1>7. ASSUME NEW m \in Emails, ResetPassword(m)
      PROVE  UNCHANGED req
  BY <1>7 DEF ResetPassword
<1>8. UNCHANGED vars => UNCHANGED req
  BY DEF vars
<1>. QED
  BY <1>1, <1>2, <1>3, <1>4, <1>5, <1>6, <1>7, <1>8 DEF Next, Handle, Purchase, Renewal

\* A claim keeps its password until it is taken; it gets one from the request that made the
\* account.
LEMMA ClaimsStay ==
  ASSUME Inv, [Next]_vars, NEW s \in Sessions
  PROVE  /\ \/ claims'[s].password \in {claims[s].password, None}
            \/ /\ claims'[s].password = s
               /\ \E r \in Requests : req[r].created /\ req[r].event = s
         /\ claims[s].claimed => claims'[s].claimed
<1>. DEFINE P == /\ \/ claims'[s].password \in {claims[s].password, None}
                    \/ /\ claims'[s].password = s
                       /\ \E r \in Requests : req[r].created /\ req[r].event = s
                 /\ claims[s].claimed => claims'[s].claimed
<1>. USE DEF Inv, TypeOK, Claim
<1>1. ASSUME NEW r \in Requests, StoreBillingClaim(r)
      PROVE  P
  BY <1>1 DEF StoreBillingClaim
<1>2. ASSUME NEW p \in Pages, TakePassword(p)
      PROVE  P
  BY <1>2 DEF TakePassword
<1>3. ASSUME UNCHANGED claims
      PROVE  P
  BY <1>3
<1>4. ASSUME NEW r \in Requests,
             \/ \E e \in Events : Deliver(r, e)
             \/ Remember(r) \/ SelectBuyer(r) \/ CreateUser(r) \/ CreateConflicts(r)
             \/ UpdatePaidUser(r) \/ SelectCustomer(r) \/ Renew(r) \/ MarkProcessed(r) \/ Fault(r)
      PROVE  UNCHANGED claims
  BY <1>4 DEF Deliver, Remember, SelectBuyer, CreateUser, CreateConflicts, UpdatePaidUser,
              SelectCustomer, Renew, MarkProcessed, Fault, RememberFails, BreakOff, tables
<1>5. ASSUME NEW p \in Pages, (\E k \in Sessions : ReadClaim(p, k)) \/ TakeFails(p)
      PROVE  UNCHANGED claims
  BY <1>5 DEF ReadClaim, TakeFails, tables
<1>6. ASSUME NEW m \in Emails, ResetPassword(m)
      PROVE  UNCHANGED claims
  BY <1>6 DEF ResetPassword
<1>7. UNCHANGED vars => UNCHANGED claims
  BY DEF vars, tables
<1>. HIDE DEF P
<1>8. P
  BY <1>1, <1>2, <1>3, <1>4, <1>5, <1>6, <1>7 DEF Next, Handle, Purchase, Renewal, Receipt
<1>. QED
  BY <1>8 DEF P

LEMMA OpenStep == Inv /\ PasswordsOpen /\ [Next]_vars => PasswordsOpen'
<1>. SUFFICES ASSUME Inv, PasswordsOpen, [Next]_vars
              PROVE  PasswordsOpen'
  OBVIOUS
<1>1. ASSUME NEW s \in Sessions, Opens(s)
      PROVE  Opens(s)'
  <2>1. EmailOf[s] \in Emails
    BY SessionAssumption
  <2>. QED
    BY <1>1, <2>1, AccountsStay DEF Opens
<1>2. ASSUME NEW r \in Requests, req'[r].created
      PROVE  \E s \in Sessions : req'[r].event = s /\ Opens(s)'
  <2>1. CASE req[r].created /\ req'[r].event = req[r].event
    BY <1>1, <2>1 DEF PasswordsOpen
  <2>2. CASE CreateUser(r) /\ req'[r].event = req[r].event
    <3>1. req[r].event \in Sessions
      BY <2>2 DEF CreateUser, Inv, RequestsConsistent, At
    <3>2. Buyer(r) \in Emails /\ Buyer(r) = EmailOf[req[r].event]
      BY <3>1, BuyerKnown DEF Buyer
    <3>3. users'[Buyer(r)].exists /\ users'[Buyer(r)].password = req[r].event
      BY <2>2, <3>2 DEF CreateUser, NewUser, Inv, TypeOK
    <3>4. PICK s \in Sessions : s = req[r].event
      BY <3>1
    <3>5. Opens(s)'
      BY <3>2, <3>3, <3>4 DEF Opens
    <3>. QED
      BY <2>2, <3>4, <3>5
  <2>. QED
    BY <1>2, <2>1, <2>2, CreatedStays
<1>3. ASSUME NEW s \in Sessions, claims'[s].password # None
      PROVE  claims'[s].password = s /\ Opens(s)'
  <2>1. claims'[s].password = s /\ Opens(s)
    BY <1>3, ClaimsStay DEF PasswordsOpen
  <2>. QED
    BY <1>1, <2>1
<1>. QED
  BY <1>2, <1>3 DEF PasswordsOpen, Opens

\* The password on every receipt opens the account, or the user has set another one: however
\* many purchases of one email run, no account is made twice.
THEOREM ReceiptsOpen == Spec => []ReceiptOpensAccount
<1>1. Init => PasswordsOpen
  BY DEF Init, PasswordsOpen, NoRequest
<1>2. PasswordsOpen => ReceiptOpensAccount
  BY DEF PasswordsOpen, ReceiptOpensAccount, Opens
<1>. QED
  BY InitInv, Step, OpenStep, <1>1, <1>2, PTL DEF Spec

\* A claim whose password was shown is marked.
ShownAreClaimed == \A s \in shown : claims[s].claimed

\* No password is shown on two receipts one after the other, whatever fails between the
\* statements.
THEOREM ShowsOnce == Spec => ShownOnce
<1>1. Init => ShownAreClaimed
  BY DEF Init, ShownAreClaimed
<1>2. Inv /\ ShownAreClaimed /\ [Next]_vars => ShownAreClaimed'
  <2>. SUFFICES ASSUME Inv, ShownAreClaimed, [Next]_vars, NEW s \in shown'
                PROVE  claims'[s].claimed
    BY DEF ShownAreClaimed
  <2>1. CASE s \in shown
    <3>1. s \in Sessions
      BY <2>1 DEF Inv, TypeOK
    <3>. QED
      BY <2>1, <3>1, ClaimsStay DEF ShownAreClaimed
  <2>2. CASE s \notin shown
    <3>1. PICK p \in Pages : TakePassword(p)
      BY <2>2 DEF Next, Handle, Purchase, Renewal, Fault, Receipt, Deliver, Remember, SelectBuyer,
                  CreateUser, CreateConflicts, UpdatePaidUser, StoreBillingClaim, SelectCustomer,
                  Renew, MarkProcessed, RememberFails, BreakOff, ReadClaim, TakeFails,
                  ResetPassword, vars
    <3>2. s = page[p].session /\ s \in Sessions
      BY <2>2, <3>1 DEF TakePassword, ClosePage, Inv, TypeOK, Page
    <3>. QED
      BY <3>1, <3>2 DEF TakePassword, Inv, TypeOK, Claim
  <2>. QED
    BY <2>1, <2>2
<1>3. Inv /\ ShownAreClaimed /\ [Next]_vars =>
        [\A p \in Pages, s \in shown :
           page[p].session = None /\ page'[p].session = s => page'[p].password = None]_vars
  <2>. SUFFICES ASSUME Inv, ShownAreClaimed, Next, NEW p \in Pages, NEW s \in shown,
                       page[p].session = None, page'[p].session = s
                PROVE  FALSE
    BY DEF vars
  <2>1. s \in Sessions /\ s # None /\ claims[s].claimed
    BY SessionAssumption DEF Inv, TypeOK, ShownAreClaimed
  <2>2. PICK q \in Pages : Receipt(q)
    BY <2>1 DEF Next, Handle, Purchase, Renewal, Fault, Deliver, Remember, SelectBuyer,
                CreateUser, CreateConflicts, UpdatePaidUser, StoreBillingClaim, SelectCustomer,
                Renew, MarkProcessed, RememberFails, BreakOff, ResetPassword
  <2>3. CASE \E k \in Sessions : ReadClaim(q, k)
    BY <2>1, <2>3 DEF ReadClaim, Inv, TypeOK
  <2>4. CASE TakePassword(q) \/ TakeFails(q)
    BY <2>1, <2>4 DEF TakePassword, TakeFails, ClosePage, NoPage, Inv, TypeOK
  <2>. QED
    BY <2>2, <2>3, <2>4 DEF Receipt
<1>. QED
  BY InitInv, Step, <1>1, <1>2, <1>3, PTL DEF Spec, ShownOnce

-----------------------------------------------------------------------------
(* What becomes of an event *)

InHand(e) == \E r \in Requests : Handling(r) /\ req[r].event = e

\* Stripe does not send again what it was told is received, and the table keeps out what it
\* knows: such an event has been processed, is being handled, or its handling was broken off.
NoneLost == \A e \in remembered \cup acked : e \in processed \cup failed \/ InHand(e)

\* A purchase that counts as processed has given its buyer an account and a receipt.
PurchasesServed ==
  \A s \in Sessions \cap processed : claims[s].stored /\ users[EmailOf[s]].exists

\* What the stages behind an await rely on: no other request has undone it.
StagesBuild ==
  \A r \in Requests :
    /\ req[r].at \in {"update", "claim"} => users[Buyer(r)].exists
    /\ At(r, "mark") /\ OfPurchase(r) => claims[req[r].event].stored /\ users[Buyer(r)].exists

\* The steps that take a request from one await to the next.
Advance(r) ==
  \/ SelectBuyer(r) \/ CreateUser(r) \/ UpdatePaidUser(r) \/ StoreBillingClaim(r)
  \/ SelectCustomer(r) \/ Renew(r)

LEMMA Advances ==
  ASSUME Inv, NEW q \in Requests, Advance(q)
  PROVE  /\ \A r \in Requests \ {q} : req'[r] = req[r]
         /\ req'[q].event = req[q].event
         /\ req'[q].at \in {"create", "update", "claim", "renew", "mark"}
         /\ SelectCustomer(q) \/ Renew(q) => req'[q].at \in {"renew", "mark"}
         /\ UNCHANGED <<remembered, processed, acked, failed>>
<1>. USE DEF Inv, TypeOK, Request, At, Goes
<1>1. UNCHANGED <<remembered, processed, acked, failed>>
  BY DEF Advance, SelectBuyer, CreateUser, UpdatePaidUser, StoreBillingClaim, SelectCustomer, Renew,
     tables, stripe
<1>2. CASE SelectBuyer(q) \/ UpdatePaidUser(q) \/ StoreBillingClaim(q)
  <2>1. \E stage \in {"create", "update", "claim", "mark"} : req' = [req EXCEPT ![q].at = stage]
    BY <1>2 DEF SelectBuyer, UpdatePaidUser, StoreBillingClaim
  <2>2. ~SelectCustomer(q) /\ ~Renew(q)
    BY <1>2 DEF SelectBuyer, UpdatePaidUser, StoreBillingClaim, SelectCustomer, Renew
  <2>. QED
    BY <1>1, <2>1, <2>2
<1>3. CASE CreateUser(q)
  <2>1. /\ req' = [req EXCEPT ![q].at = "update", ![q].created = TRUE]
        /\ ~SelectCustomer(q) /\ ~Renew(q)
    BY <1>3 DEF CreateUser, SelectCustomer, Renew
  <2>. QED
    BY <1>1, <2>1
<1>4. CASE SelectCustomer(q) \/ Renew(q)
  <2>1. CASE req' = [req EXCEPT ![q].at = "mark"]
    BY <1>1, <2>1
  <2>2. ASSUME NEW m \in Emails,
               req' = [req EXCEPT ![q].at = "renew", ![q].email = m,
                               ![q].access = AsNumber(users[m].access)]
        PROVE  /\ \A r \in Requests \ {q} : req'[r] = req[r]
               /\ req'[q].event = req[q].event /\ req'[q].at = "renew"
    BY <2>2
  <2>3. \/ req' = [req EXCEPT ![q].at = "mark"]
        \/ \E m \in Emails :
             req' = [req EXCEPT ![q].at = "renew", ![q].email = m,
                               ![q].access = AsNumber(users[m].access)]
    BY <1>4 DEF SelectCustomer, Renew
  <2>. QED
    BY <1>1, <2>1, <2>2, <2>3
<1>. QED
  BY <1>2, <1>3, <1>4 DEF Advance

\* What a step does to a request that handles an event.
LEMMA HandlingGoesOn ==
  ASSUME Inv, [Next]_vars, NEW r \in Requests, Handling(r)
  PROVE  \/ Handling(r)' /\ req'[r].event = req[r].event
         \/ req'[r] = NoRequest /\ req[r].event \in processed' \cup failed'
<1>. DEFINE P == \/ Handling(r)' /\ req'[r].event = req[r].event
                 \/ req'[r] = NoRequest /\ req[r].event \in processed' \cup failed'
<1>. USE DEF Inv, TypeOK, Request, Handling, At
<1>1. ASSUME req'[r] = req[r]
      PROVE  P
  BY <1>1
<1>2. ASSUME NEW q \in Requests, NEW e \in Events, Deliver(q, e)
      PROVE  req'[r] = req[r]
  BY <1>2 DEF Deliver
<1>3. ASSUME NEW q \in Requests, Remember(q) \/ RememberFails(q)
      PROVE  req'[r] = req[r]
  BY <1>3 DEF Remember, RememberFails, Answered, Goes
<1>4. ASSUME NEW q \in Requests, CreateConflicts(q) \/ MarkProcessed(q) \/ BreakOff(q)
      PROVE  P
  BY <1>4 DEF CreateConflicts, MarkProcessed, BreakOff, Answered
<1>5. ASSUME NEW q \in Requests, Advance(q)
      PROVE  P
  BY <1>5, Advances
<1>6. ASSUME NEW p \in Pages, Receipt(p)
      PROVE  req'[r] = req[r]
  BY <1>6 DEF Receipt, ReadClaim, TakePassword, TakeFails
<1>7. ASSUME NEW m \in Emails, ResetPassword(m)
      PROVE  req'[r] = req[r]
  BY <1>7 DEF ResetPassword
<1>8. UNCHANGED vars => req'[r] = req[r]
  BY DEF vars
<1>. HIDE DEF P
<1>9. P
  BY <1>1, <1>2, <1>3, <1>4, <1>5, <1>6, <1>7, <1>8
     DEF Next, Handle, Purchase, Renewal, Fault, Advance
<1>. QED
  BY <1>9 DEF P

\* What a step adds to the events the table knows and to those Stripe was told.
LEMMA KnownGrow ==
  ASSUME Inv, [Next]_vars
  PROVE  /\ processed \subseteq processed' /\ failed \subseteq failed'
         /\ \A e \in remembered' \ remembered : InHand(e)'
         /\ acked' \ acked \subseteq remembered \cup processed' \cup failed'
<1>. DEFINE P == /\ processed \subseteq processed' /\ failed \subseteq failed'
                 /\ \A e \in remembered' \ remembered : InHand(e)'
                 /\ acked' \ acked \subseteq remembered \cup processed' \cup failed'
<1>1. ASSUME UNCHANGED <<processed, failed, remembered, acked>>
      PROVE  P
  BY <1>1
<1>2. ASSUME NEW q \in Requests, Remember(q)
      PROVE  P
  <2>1. UNCHANGED <<processed, failed>> /\ remembered' = remembered \cup {req[q].event}
    BY <1>2 DEF Remember
  <2>2. CASE req[q].event \in remembered
    BY <1>2, <2>1, <2>2 DEF Remember, Answered
  <2>3. CASE req[q].event \notin remembered
    <3>1. Goes(q, "select") /\ acked' = acked
      BY <1>2, <2>3 DEF Remember
    <3>2. req'[q].at = "select" /\ req'[q].event = req[q].event
      BY <3>1 DEF Goes, Inv, TypeOK, Request
    <3>3. \A e \in remembered' \ remembered : InHand(e)'
      BY <2>1, <3>2 DEF InHand, Handling
    <3>. QED
      BY <2>1, <3>1, <3>3
  <2>. QED
    BY <2>2, <2>3
<1>3. ASSUME NEW q \in Requests, MarkProcessed(q) \/ Fault(q) \/ CreateConflicts(q)
      PROVE  P
  BY <1>3 DEF MarkProcessed, Fault, RememberFails, BreakOff, CreateConflicts, Answered, tables
<1>4. ASSUME NEW r \in Requests, Advance(r) \/ \E e \in Events : Deliver(r, e)
      PROVE  UNCHANGED <<processed, failed, remembered, acked>>
  BY <1>4, Advances DEF Deliver, tables, stripe
<1>5. ASSUME NEW p \in Pages, Receipt(p)
      PROVE  UNCHANGED <<processed, failed, remembered, acked>>
  BY <1>5 DEF Receipt, ReadClaim, TakePassword, TakeFails, tables, stripe
<1>6. ASSUME NEW m \in Emails, ResetPassword(m)
      PROVE  UNCHANGED <<processed, failed, remembered, acked>>
  BY <1>6 DEF ResetPassword, stripe
<1>7. UNCHANGED vars => UNCHANGED <<processed, failed, remembered, acked>>
  BY DEF vars, tables, stripe
<1>. HIDE DEF P
<1>8. P
  BY <1>1, <1>2, <1>3, <1>4, <1>5, <1>6, <1>7 DEF Next, Handle, Purchase, Renewal, Advance
<1>. QED
  BY <1>8 DEF P

\* No event gets lost between the deliveries: one that Stripe will not send again, or that a
\* further delivery would not handle, was processed, is in hand, or was broken off.
THEOREM EventsAccounted == Spec => []NoneLost
<1>1. Init => NoneLost
  BY DEF Init, NoneLost
<1>2. Inv /\ NoneLost /\ [Next]_vars => NoneLost'
  <2>. SUFFICES ASSUME Inv, NoneLost, [Next]_vars, NEW e \in remembered' \cup acked'
                PROVE  e \in processed' \cup failed' \/ InHand(e)'
    BY DEF NoneLost
  <2>1. CASE e \in remembered \cup acked
    <3>1. CASE e \in processed \cup failed
      BY <3>1, KnownGrow
    <3>2. CASE InHand(e)
      <4>1. PICK r \in Requests : Handling(r) /\ req[r].event = e
        BY <3>2 DEF InHand
      <4>. QED
        BY <4>1, HandlingGoesOn DEF InHand
    <3>. QED
      BY <2>1, <3>1, <3>2 DEF NoneLost
  <2>2. CASE e \notin remembered \cup acked
    BY <2>2, KnownGrow
  <2>. QED
    BY <2>1, <2>2
<1>. QED
  BY InitInv, Step, <1>1, <1>2, PTL DEF Spec

\* How a request comes to the stages behind an await.
LEMMA StageSteps ==
  ASSUME Inv, [Next]_vars, NEW r \in Requests
  PROVE  \/ req'[r] = req[r]
         \/ req'[r].at \in {"idle", "remember", "select"}
         \/ Advance(r) /\ req'[r].event = req[r].event
<1>. DEFINE P == \/ req'[r] = req[r]
                 \/ req'[r].at \in {"idle", "remember", "select"}
                 \/ Advance(r) /\ req'[r].event = req[r].event
<1>. USE DEF Inv, TypeOK, Request, At
<1>0. ASSUME NEW q \in Requests, NEW e \in Events, Deliver(q, e)
      PROVE  P
  <2>. DEFINE x == [NoRequest EXCEPT !.at = "remember", !.event = e]
  <2>1. req' = [req EXCEPT ![q] = x] /\ x.at = "remember"
    BY <1>0 DEF Deliver, NoRequest
  <2>. HIDE DEF x
  <2>. QED
    BY <2>1
<1>1. ASSUME NEW q \in Requests, Fault(q) \/ CreateConflicts(q) \/ MarkProcessed(q)
      PROVE  P
  <2>1. req' = [req EXCEPT ![q] = NoRequest] /\ NoRequest.at = "idle"
    BY <1>1 DEF Fault, RememberFails, BreakOff, CreateConflicts, MarkProcessed, Answered, NoRequest
  <2>. QED
    BY <2>1
<1>2. ASSUME NEW q \in Requests, Remember(q)
      PROVE  P
  BY <1>2 DEF Remember, Answered, Goes, NoRequest
<1>3. ASSUME NEW q \in Requests, Advance(q)
      PROVE  P
  BY <1>3, Advances
<1>4. ASSUME NEW p \in Pages, Receipt(p)
      PROVE  req'[r] = req[r]
  BY <1>4 DEF Receipt, ReadClaim, TakePassword, TakeFails
<1>5. ASSUME NEW m \in Emails, ResetPassword(m)
      PROVE  req'[r] = req[r]
  BY <1>5 DEF ResetPassword
<1>6. UNCHANGED vars => req'[r] = req[r]
  BY DEF vars
<1>7. req'[r] = req[r] => P
  OBVIOUS
<1>. HIDE DEF P
<1>8. P
  BY <1>0, <1>1, <1>2, <1>3, <1>4, <1>5, <1>6, <1>7 DEF Next, Handle, Purchase, Renewal, Advance
<1>. QED
  BY <1>8 DEF P

\* A receipt that is stored stays so.
LEMMA ReceiptsStay ==
  ASSUME Inv, [Next]_vars, NEW s \in Sessions, claims[s].stored
  PROVE  claims'[s].stored
<1>. USE DEF Inv, TypeOK, Claim
<1>1. ASSUME NEW r \in Requests, StoreBillingClaim(r)
      PROVE  claims'[s].stored
  BY <1>1 DEF StoreBillingClaim
<1>2. ASSUME NEW p \in Pages, TakePassword(p)
      PROVE  claims'[s].stored
  BY <1>2 DEF TakePassword
<1>3. ASSUME UNCHANGED claims
      PROVE  claims'[s].stored
  BY <1>3
<1>4. ASSUME NEW r \in Requests,
             \/ \E e \in Events : Deliver(r, e)
             \/ Remember(r) \/ SelectBuyer(r) \/ CreateUser(r) \/ CreateConflicts(r)
             \/ UpdatePaidUser(r) \/ SelectCustomer(r) \/ Renew(r) \/ MarkProcessed(r) \/ Fault(r)
      PROVE  UNCHANGED claims
  BY <1>4 DEF Deliver, Remember, SelectBuyer, CreateUser, CreateConflicts, UpdatePaidUser,
              SelectCustomer, Renew, MarkProcessed, Fault, RememberFails, BreakOff, tables
<1>5. ASSUME NEW p \in Pages, (\E k \in Sessions : ReadClaim(p, k)) \/ TakeFails(p)
      PROVE  UNCHANGED claims
  BY <1>5 DEF ReadClaim, TakeFails, tables
<1>6. ASSUME NEW m \in Emails, ResetPassword(m)
      PROVE  UNCHANGED claims
  BY <1>6 DEF ResetPassword
<1>7. UNCHANGED vars => UNCHANGED claims
  BY DEF vars, tables
<1>. QED
  BY <1>1, <1>2, <1>3, <1>4, <1>5, <1>6, <1>7 DEF Next, Handle, Purchase, Renewal, Receipt

LEMMA StagesStep == Inv /\ StagesBuild /\ [Next]_vars => StagesBuild'
<1>. SUFFICES ASSUME Inv, StagesBuild, [Next]_vars, NEW r \in Requests
              PROVE  /\ req'[r].at \in {"update", "claim"} => users'[Buyer(r)'].exists
                     /\ req'[r].at = "mark" /\ req'[r].event \in Sessions
                          => claims'[req'[r].event].stored /\ users'[Buyer(r)'].exists
  BY DEF StagesBuild, At, OfPurchase
<1>1. \A m \in Emails : users[m].exists => users'[m].exists
  BY AccountsStay
<1>2. \A s \in Sessions : claims[s].stored => claims'[s].stored
  BY ReceiptsStay
<1>3. \A s \in Sessions : EmailOf[s] \in Emails
  BY SessionAssumption
<1>4. req[r].at \in {"create", "update", "claim"} => req[r].event \in Sessions
  BY DEF Inv, RequestsConsistent
<1>5. CASE req'[r] = req[r]
  BY <1>1, <1>2, <1>3, <1>4, <1>5 DEF StagesBuild, Buyer, At, OfPurchase
<1>6. CASE req'[r].at \in {"idle", "remember", "select"}
  BY <1>6
<1>7. CASE SelectBuyer(r) /\ req'[r].event = req[r].event
  <2>1. req[r].event \in Sessions /\ users' = users
    BY <1>7 DEF SelectBuyer, OfPurchase, tables
  <2>2. req'[r].at = IF users[Buyer(r)].exists THEN "update" ELSE "create"
    BY <1>7 DEF SelectBuyer, Goes, Inv, TypeOK, Request
  <2>. QED
    BY <1>7, <2>1, <2>2 DEF Buyer
<1>8. CASE CreateUser(r) /\ req'[r].event = req[r].event
  <2>1. Buyer(r) \in Emails /\ req'[r].at = "update"
    BY <1>3, <1>4, <1>8 DEF CreateUser, Buyer, At, Inv, TypeOK, Request
  <2>2. users'[Buyer(r)].exists
    BY <1>8, <2>1 DEF CreateUser, NewUser, Inv, TypeOK
  <2>. QED
    BY <1>8, <2>1, <2>2 DEF Buyer
<1>9. CASE UpdatePaidUser(r) /\ req'[r].event = req[r].event
  <2>1. req[r].event \in Sessions /\ users[Buyer(r)].exists /\ req'[r].at = "claim"
    BY <1>4, <1>9 DEF UpdatePaidUser, StagesBuild, At, Goes, Inv, TypeOK, Request
  <2>. QED
    BY <1>1, <1>3, <1>9, <2>1 DEF Buyer
<1>10. CASE StoreBillingClaim(r) /\ req'[r].event = req[r].event
  <2>1. req[r].event \in Sessions /\ users[Buyer(r)].exists /\ req'[r].at = "mark"
    BY <1>4, <1>10 DEF StoreBillingClaim, StagesBuild, At, Goes, Inv, TypeOK, Request
  <2>2. claims'[req[r].event].stored
    BY <1>10, <2>1 DEF StoreBillingClaim, Inv, TypeOK, Claim
  <2>. QED
    BY <1>1, <1>3, <1>10, <2>1, <2>2 DEF Buyer
<1>11. CASE (SelectCustomer(r) \/ Renew(r)) /\ req'[r].event = req[r].event
  <2>1. req[r].event \notin Sessions
    BY <1>11, RenewalAssumption DEF SelectCustomer, OfPurchase, Renew, Inv, RequestsConsistent
  <2>2. req'[r].at \in {"mark", "renew"}
    BY <1>11, Advances DEF Advance
  <2>. QED
    BY <1>11, <2>1, <2>2
<1>. QED
  BY <1>5, <1>6, <1>7, <1>8, <1>9, <1>10, <1>11, StageSteps DEF Advance

\* Whatever else runs between the statements of its handling, a purchase that counts as
\* processed has its account and its receipt.
THEOREM ProcessedIsServed == Spec => []PurchasesServed
<1>1. Init => StagesBuild /\ PurchasesServed
  BY DEF Init, StagesBuild, PurchasesServed, At, NoRequest
<1>2. Inv /\ StagesBuild /\ PurchasesServed /\ [Next]_vars => PurchasesServed'
  <2>. SUFFICES ASSUME Inv, StagesBuild, PurchasesServed, [Next]_vars,
                       NEW s \in Sessions, s \in processed'
                PROVE  claims'[s].stored /\ users'[EmailOf[s]].exists
    BY DEF PurchasesServed
  <2>1. EmailOf[s] \in Emails
    BY SessionAssumption
  <2>2. claims[s].stored /\ users[EmailOf[s]].exists
    <3>1. CASE s \in processed
      BY <3>1 DEF PurchasesServed
    <3>2. CASE s \notin processed
      <4>1. PICK r \in Requests : MarkProcessed(r) /\ req[r].event = s
        <5>1. ASSUME ~\E r \in Requests : MarkProcessed(r)
              PROVE  processed' = processed
          BY <5>1
          DEF Next, Handle, Purchase, Renewal, Fault, Receipt, Deliver, Remember, SelectBuyer,
             CreateUser, CreateConflicts, UpdatePaidUser, StoreBillingClaim, SelectCustomer, Renew,
             RememberFails, BreakOff, ReadClaim, TakePassword, TakeFails, ResetPassword,
              vars, tables
        <5>. QED
          BY <3>2, <5>1 DEF MarkProcessed
      <4>. QED
        BY <4>1 DEF MarkProcessed, StagesBuild, OfPurchase, Buyer
    <3>. QED
      BY <3>1, <3>2
  <2>. QED
    BY <2>1, <2>2, AccountsStay, ReceiptsStay
<1>. QED
  BY InitInv, Step, StagesStep, <1>1, <1>2, PTL DEF Spec

-----------------------------------------------------------------------------
(* Access *)

\* The account has less time than before.
Shortens(m) ==
  /\ users'[m].access # Unlimited
  /\ users[m].access = Unlimited \/ users'[m].access < users[m].access

\* The request is about to write the time of m.
Writes(q, m) == \/ At(q, "renew") /\ req[q].email = m
                \/ At(q, "update") /\ Buyer(q) = m

\* No other event of an account is about to be written between the read and the write of a
\* renewal. The code has nothing that sees to it.
RenewalsApart ==
  \A q, r \in Requests : q # r /\ At(r, "renew") => ~Writes(q, req[r].email)

\* Only a purchase of its buyer shortens the time of an account.
PurchasesAlone ==
  [][\A m \in Emails : Shortens(m) => \E r \in Requests : UpdatePaidUser(r) /\ Buyer(r) = m]_vars

\* An account a renewal can find has an end, and what a renewal has read is still true.
Dated(u) == u.customer # None => u.access # Unlimited
ReadsCurrent ==
  /\ \A m \in Emails : Dated(users[m])
  /\ \A r \in Requests : At(r, "renew") =>
       users[req[r].email].exists /\ users[req[r].email].access = req[r].access

\* What a step writes to the accounts.
LEMMA AccountSteps ==
  ASSUME TypeOK, RequestsConsistent, [Next]_vars, NEW m \in Emails
  PROVE  \/ users'[m] = users[m]
         \/ users'[m] = [users[m] EXCEPT !.password = "own"]
         \/ /\ ~users[m].exists /\ users'[m].exists
            /\ users'[m].customer = None /\ users'[m].access = Unlimited
         \/ \E r \in Requests, end \in Intro :
              /\ UpdatePaidUser(r) /\ Buyer(r) = m
              /\ users'[m].access = end /\ users'[m].exists = users[m].exists
         \/ \E r \in Requests :
              /\ Renew(r) /\ req[r].email = m
              /\ users'[m] = [users[m] EXCEPT !.access = Max({req[r].access, Until[req[r].event]})]
<1>. USE DEF TypeOK
<1>1. users \in [Emails -> User] /\ users[m] \in User
  OBVIOUS
<1>2. CASE UNCHANGED users
  BY <1>2
<1>3. ASSUME NEW r \in Requests, CreateUser(r)
      PROVE  \/ users'[m] = users[m]
             \/ /\ ~users[m].exists /\ users'[m].exists
                /\ users'[m].customer = None /\ users'[m].access = Unlimited
  BY <1>1, <1>3 DEF CreateUser, NewUser
<1>4. ASSUME NEW r \in Requests, UpdatePaidUser(r)
      PROVE  \/ users'[m] = users[m]
             \/ \E end \in Intro : /\ Buyer(r) = m /\ users'[m].access = end
                                   /\ users'[m].exists = users[m].exists
  <2>1. PICK end \in Intro :
          users' = [users EXCEPT ![Buyer(r)].customer = req[r].event, ![Buyer(r)].access = end]
    BY <1>4 DEF UpdatePaidUser
  <2>2. users[m] \in [exists : BOOLEAN, customer : Sessions \cup {None},
                      access : Ends \cup {Unlimited}, password : Secrets]
    BY <1>1 DEF User
  <2>3. Buyer(r) # m => users'[m] = users[m]
    BY <1>1, <2>1
  <2>4. Buyer(r) = m => users'[m] = [[users[m] EXCEPT !.customer = req[r].event]
                                       EXCEPT !.access = end]
    BY <1>1, <2>1
  <2>5. Buyer(r) = m => users'[m].access = end /\ users'[m].exists = users[m].exists
    BY <2>2, <2>4
  <2>. QED
    BY <2>3, <2>5
<1>5. ASSUME NEW r \in Requests, Renew(r)
      PROVE  \/ users'[m] = users[m]
             \/ /\ req[r].email = m
                /\ users'[m] = [users[m] EXCEPT !.access =
                                   Max({req[r].access, Until[req[r].event]})]
  BY <1>1, <1>5 DEF Renew
<1>6. ASSUME NEW n \in Emails, ResetPassword(n)
      PROVE  users'[m] = users[m] \/ users'[m] = [users[m] EXCEPT !.password = "own"]
  BY <1>1, <1>6 DEF ResetPassword
<1>7. \/ UNCHANGED users
      \/ \E r \in Requests : CreateUser(r) \/ UpdatePaidUser(r) \/ Renew(r)
      \/ \E n \in Emails : ResetPassword(n)
  BY DEF Next, Deliver, Handle, Purchase, Renewal, Remember, SelectBuyer, CreateConflicts,
         StoreBillingClaim, SelectCustomer, MarkProcessed, Fault, RememberFails, BreakOff, Receipt,
         ReadClaim, TakePassword, TakeFails, vars, tables
<1>. QED
  BY <1>2, <1>3, <1>4, <1>5, <1>6, <1>7

\* How a request comes to stand before the write of a renewal.
LEMMA RenewalSteps ==
  ASSUME Inv, [Next]_vars, NEW r \in Requests, At(r, "renew")'
  PROVE  \/ At(r, "renew") /\ req'[r] = req[r] /\ ~Renew(r) /\ ~UpdatePaidUser(r)
         \/ \E m \in Emails :
              /\ users[m].exists /\ users[m].customer \in Sessions /\ UNCHANGED users
              /\ req'[r].email = m /\ req'[r].access = AsNumber(users[m].access)
<1>. USE DEF Inv, TypeOK, At
<1>0. ASSUME NEW stage, Goes(r, stage) PROVE req'[r].at = stage
  <2>1. req[r] \in Request /\ req' = [req EXCEPT ![r].at = stage]
    BY <1>0 DEF Goes
  <2>. QED
    BY <2>1 DEF Request
<1>1. CASE req'[r] = req[r]
  BY <1>0, <1>1 DEF Renew, UpdatePaidUser
<1>2. CASE Advance(r)
  <2>1. SelectCustomer(r)
    <3>1. ~CreateUser(r)
      <4>1. CreateUser(r) => req'[r].at = "update"
        BY DEF CreateUser, Request
      <4>. QED
        BY <4>1
    <3>. QED
      BY <1>0, <1>2, <3>1 DEF Advance, SelectBuyer, UpdatePaidUser, StoreBillingClaim, Renew
  <2>2. req[r].event \in Renewals
    BY <2>1 DEF SelectCustomer, OfPurchase, RequestsConsistent, Events
  <2>3. ~Goes(r, "mark")
    BY <1>0
  <2>4. PICK m \in Emails :
          /\ users[m].exists /\ users[m].customer = CustomerOf[req[r].event]
          /\ req' = [req EXCEPT ![r].at = "renew", ![r].email = m,
                                ![r].access = AsNumber(users[m].access)]
    BY <2>1, <2>3 DEF SelectCustomer
  <2>5. req'[r].email = m /\ req'[r].access = AsNumber(users[m].access)
    BY <2>4 DEF Request
  <2>. QED
    BY <2>1, <2>2, <2>4, <2>5, RenewalAssumption DEF SelectCustomer, tables
<1>. QED
  BY <1>1, <1>2, StageSteps

LEMMA ReadsStayCurrent ==
  ASSUME Inv, ReadsCurrent, RenewalsApart, [Next]_vars
  PROVE  ReadsCurrent'
<1>1. TypeOK /\ RequestsConsistent /\ users \in [Emails -> User] /\ req \in [Requests -> Request]
  BY DEF Inv, TypeOK
<1>2. ASSUME NEW r \in Requests, Renew(r)
      PROVE  Max({req[r].access, Until[req[r].event]}) \in Nat
  <2>1. req[r].event \in Renewals /\ req[r].access \in Nat
    BY <1>1, <1>2, EndsAreNumbers DEF Renew, RequestsConsistent, Request
  <2>2. Until[req[r].event] \in Nat
    BY <2>1, RenewalAssumption
  <2>. QED
    BY <2>1, <2>2, LaterEnd
<1>3. ASSUME NEW m \in Emails PROVE Dated(users[m])'
  <2>. USE DEF Dated
  <2>1. users[m] \in User
    BY <1>1
  <2>2. CASE users'[m] = users[m] \/ users'[m] = [users[m] EXCEPT !.password = "own"]
    BY <2>1, <2>2 DEF ReadsCurrent, User
  <2>3. CASE users'[m].customer = None
    BY <2>3
  <2>4. CASE users'[m].access \in Intro
    BY <2>4, IntroAssumption, UnlimitedAssumption
  <2>5. ASSUME NEW r \in Requests, Renew(r),
               users'[m] = [users[m] EXCEPT !.access = Max({req[r].access, Until[req[r].event]})]
        PROVE  Dated(users[m])'
    <3>1. users'[m].access = Max({req[r].access, Until[req[r].event]})
      BY <2>1, <2>5 DEF User
    <3>. QED
      BY <1>2, <2>5, <3>1, UnlimitedAssumption
  <2>. HIDE DEF Dated
  <2>. QED
    BY <1>1, <2>2, <2>3, <2>4, <2>5, AccountSteps DEF Dated
<1>4. ASSUME NEW r \in Requests, At(r, "renew")'
      PROVE  users'[req'[r].email].exists /\ users'[req'[r].email].access = req'[r].access
  <2>1. CASE At(r, "renew") /\ req'[r] = req[r] /\ ~Renew(r) /\ ~UpdatePaidUser(r)
    <3>. DEFINE m == req[r].email
    <3>1. m \in Emails /\ users[m] \in User /\ users[m].exists /\ users[m].access = req[r].access
      BY <1>1, <2>1 DEF ReadsCurrent, RequestsConsistent
    <3>2. ASSUME NEW q \in Requests, \/ UpdatePaidUser(q) /\ Buyer(q) = m
                                     \/ Renew(q) /\ req[q].email = m
          PROVE  FALSE
      <4>1. q # r
        BY <2>1, <3>2
      <4>2. Writes(q, m)
        BY <3>2 DEF Writes, UpdatePaidUser, Renew
      <4>. QED
        BY <2>1, <4>1, <4>2 DEF RenewalsApart
    <3>3. users'[m] = users[m] \/ users'[m] = [users[m] EXCEPT !.password = "own"]
      <4>. HIDE DEF m
      <4>1. \/ users'[m] = users[m]
            \/ users'[m] = [users[m] EXCEPT !.password = "own"]
            \/ ~users[m].exists
            \/ \E q \in Requests : \/ UpdatePaidUser(q) /\ Buyer(q) = m
                                   \/ Renew(q) /\ req[q].email = m
        BY <1>1, <3>1, AccountSteps
      <4>. QED
        BY <3>1, <3>2, <4>1
    <3>. QED
      BY <2>1, <3>1, <3>3 DEF User
  <2>2. ASSUME NEW m \in Emails,
               users[m].exists, users[m].customer \in Sessions, UNCHANGED users,
               req'[r].email = m, req'[r].access = AsNumber(users[m].access)
        PROVE  users'[m].exists /\ users'[m].access = req'[r].access
    <3>1. users[m].access # Unlimited
      BY <2>2, NoneAssumption DEF ReadsCurrent, Dated, Events
    <3>. QED
      BY <2>2, <3>1 DEF AsNumber
  <2>. QED
    BY <1>4, <2>1, <2>2, RenewalSteps
<1>. QED
  BY <1>3, <1>4 DEF ReadsCurrent

\* As long as no other event of an account is about to be written between the read and the write
\* of a renewal, the time of an account is shortened by a purchase of its buyer only, which takes
\* what Stripe says of the purchase whatever the account had (upsertPaidUser); no renewal or
\* deletion of a subscription does, whatever period it is of (applyStripeInvoice,
\* applyStripeSubscription).
THEOREM OnlyPurchasesShorten == Spec /\ []RenewalsApart => PurchasesAlone
<1>. DEFINE A ==
       \A m \in Emails : Shortens(m) => \E r \in Requests : UpdatePaidUser(r) /\ Buyer(r) = m
<1>1. Init => ReadsCurrent
  BY DEF Init, ReadsCurrent, Dated, NewUser, NoRequest, At
<1>2. Inv /\ ReadsCurrent /\ RenewalsApart /\ [Next]_vars => ReadsCurrent'
  BY ReadsStayCurrent
<1>3. ASSUME Inv, ReadsCurrent, [Next]_vars, NEW m \in Emails, Shortens(m)
      PROVE  \E r \in Requests : UpdatePaidUser(r) /\ Buyer(r) = m
  <2>1. TypeOK /\ RequestsConsistent /\ users[m] \in User
    BY <1>3 DEF Inv, TypeOK
  <2>2. users'[m].access # users[m].access
    <3>1. users[m].access # Unlimited => users[m].access \in Nat
      BY <2>1, EndsAreNumbers DEF User
    <3>. QED
      BY <1>3, <3>1 DEF Shortens
  <2>3. CASE users'[m] = [users[m] EXCEPT !.password = "own"]
    BY <2>1, <2>2, <2>3 DEF User
  <2>4. CASE users'[m].access = Unlimited
    BY <1>3, <2>4 DEF Shortens
  <2>5. ASSUME NEW r \in Requests, Renew(r), req[r].email = m,
               users'[m] = [users[m] EXCEPT !.access = Max({req[r].access, Until[req[r].event]})]
        PROVE  FALSE
    <3>1. req[r].event \in Renewals /\ req[r].access \in Nat /\ users[m].access = req[r].access
      BY <1>3, <2>1, <2>5, EndsAreNumbers
      DEF Renew, RequestsConsistent, Request, ReadsCurrent, TypeOK
    <3>2. Until[req[r].event] \in Nat
      BY <3>1, RenewalAssumption
    <3>3. users'[m].access = Max({req[r].access, Until[req[r].event]})
      BY <2>1, <2>5 DEF User
    <3>4. users'[m].access \in Nat /\ users'[m].access >= users[m].access
      BY <3>1, <3>2, <3>3, LaterEnd
    <3>. QED
      BY <1>3, <3>1, <3>4, UnlimitedAssumption DEF Shortens
  <2>. QED
    BY <1>3, <2>1, <2>2, <2>3, <2>4, <2>5, AccountSteps
<1>4. Inv /\ ReadsCurrent /\ [Next]_vars => [A]_vars
  BY <1>3
<1>. QED
  BY InitInv, Step, <1>1, <1>2, <1>4, PTL DEF Spec, PurchasesAlone
=============================================================================
