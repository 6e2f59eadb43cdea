--------------------------- MODULE TargetCheckout ---------------------------
(***************************************************************************)
(* One Target checkout task: the step loop of HandleTask with the errors it *)
(* handles, the hub that tells it about restocks, edits of its watch list,  *)
(* and the retailer's cart and orders as far as the answers let one see.    *)
(*                                                                         *)
(* An action is the case of the switch for one step, and with it the head   *)
(* of the next turn of the loop.  A request that fails and leaves the step  *)
(* for another try is Again.  What a request does at the retailer may       *)
(* happen although its answer is lost.                                      *)
(***************************************************************************)
EXTENDS Naturals, FiniteSets, Sequences

CONSTANTS
  Products,        \* TCINs
  PreloadItem,     \* the item carted once to open a cart
  FillerItem,      \* FillerItem
  None,            \* no selection
  Configs,         \* the settings to check: of UseFillerItem and Endless
  Lists,           \* the watch lists a user may set: functions into Interests
  VerifyRetries,   \* checkOrderVerifyRetries
  PaymentRetries,  \* refused payments until the cart is prepared again
  SessionRetries,  \* refreshes of a bad session
  FillerRetries,   \* fillerOrderRetryLimit
  MaxClock,        \* bound on the times of restocks
  MaxOrders,       \* bound on orders
  MaxEdits         \* bound on edits

Interests == {"no", "watched", "priority"}
Items == Products \cup {PreloadItem, FillerItem}

ASSUME ItemAssumption ==
  /\ None \notin Products /\ PreloadItem \notin Products /\ FillerItem \notin Products
ASSUME ListAssumption == Lists \subseteq [Products -> Interests]
ASSUME ConfigAssumption == Configs \subseteq [filler : BOOLEAN, endless : BOOLEAN]
ASSUME LimitAssumption ==
  /\ VerifyRetries \in Nat \ {0} /\ PaymentRetries \in Nat \ {0}
  /\ SessionRetries \in Nat /\ FillerRetries \in Nat \ {0}
ASSUME BoundAssumption == MaxClock \in Nat /\ MaxOrders \in Nat /\ MaxEdits \in Nat

VARIABLES
  config,    \* UseFillerItem and Endless
  t,         \* the task
  watch,     \* its watch list, as of the edits it has taken
  edits,     \* edits so far
  hub,       \* the hub: time of a product's ping, 0 if it is not in stock
  clock,     \* time of the latest restock
  cart,      \* retailer: the account's cart
  orders,    \* retailer: orders placed
  reported   \* orders reported as a success

retailer == <<cart, orders>>
vars == <<config, t, watch, edits, hub, clock, retailer, reported>>

SignInSteps ==
  {"get-session", "get-login-session", "get-shape", "login", "otp-login", "request-code",
   "get-code", "submit-code", "get-auth-codes", "get-auth-redirect", "refresh-login",
   "get-address-book", "set-address"}
CartSteps ==
  {"preload-atc", "prepare-checkout", "clear-cart", "atc-filler-item", "wait-for-restock",
   "add-to-cart", "get-cart", "submit-payment"}
\* checkoutCommitted: the steps that keep the selection whatever the user edits.
CommittedSteps ==
  {"submit-order", "oos-check-cart", "remove-payment", "wait-to-check", "check-order",
   "get-orders", "cancel-filler", "checkout", "decline", "stop"}
Steps == SignInSteps \cup CartSteps \cup CommittedSteps \cup {"stopped"}

OrderIds == 1 .. MaxOrders
Order == [items : SUBSET Items, product : Products \cup {None},
          fate : {"open", "lost", "good", "bad"}]

Task ==
  [step : Steps,                        \* NextStep
   after : Steps \cup {""},             \* StepAfterSolve
   selected : Products \cup {None},     \* RestockTCIN
   pingAt : 0 .. MaxClock,              \* StockPing.At
   since : 0 .. MaxClock,               \* stockWaitAfter
   carted : BOOLEAN,                    \* TaskState is Carted
   items : SUBSET Items,                \* CartedItems
   checkout : BOOLEAN,                  \* Checkout
   ref : 0 .. MaxOrders,                \* CheckoutData, 0 if there is none
   attempts : 0 .. VerifyRetries,       \* CheckOrderAttempts
   payErrors : 0 .. PaymentRetries,     \* PassedCartErrors
   refreshes : 0 .. SessionRetries,     \* SessionRefreshAttempts
   retries : 0 .. FillerRetries]        \* FillerOrderRetries

TypeOK ==
  /\ config \in Configs
  /\ t \in Task /\ t.ref <= Len(orders) /\ t.pingAt <= clock /\ t.since <= clock
  /\ watch \in [Products -> Interests] /\ edits \in 0 .. MaxEdits
  /\ clock \in 0 .. MaxClock /\ hub \in [Products -> 0 .. clock]
  /\ cart \subseteq Items
  /\ orders \in Seq(Order) /\ Len(orders) <= MaxOrders
  /\ reported \subseteq 1 .. Len(orders)

Init ==
  /\ config \in Configs
  /\ t = [step |-> "get-session", after |-> "", selected |-> None,
          pingAt |-> 0, since |-> 0, carted |-> FALSE, items |-> {}, checkout |-> FALSE,
          ref |-> 0, attempts |-> 0, payErrors |-> 0, refreshes |-> 0, retries |-> 0]
  /\ watch \in Lists /\ edits = 0
  /\ hub = [p \in Products |-> 0] /\ clock = 0
  /\ cart = {} /\ orders = <<>> /\ reported = {}

-----------------------------------------------------------------------------
(* Moving on *)

At(s) == t.step = s
GoesTo(u, s) == [u EXCEPT !.step = s]
GoTo(s) == GoesTo(t, s)
\* By way of get-shape, with s as the step after it.
Solve(s) == [GoTo("get-shape") EXCEPT !.after = s]
Stopped == GoTo("stopped")

IsInStock(stock, p) == p # None /\ stock[p] # 0

\* Mutated form: the way to the order's status is left out of the list.
CommittedUntilOrdered(u) ==
  u.checkout \/ u.step \in CommittedSteps \ {"wait-to-check", "check-order"}

checkoutCommitted(u) == u.checkout \/ u.step \in CommittedSteps

shouldAbandonSelected(u, w) == u.selected # None /\ w[u.selected] = "no"

shouldPivotToPriority(u, w, stock) ==
  /\ u.selected # None /\ w[u.selected] # "priority"
  /\ \E p \in Products : w[p] = "priority" /\ IsInStock(stock, p)

\* abandonSelectedProduct: the signal is kept, the cart is cleared if it is known to be filled.
Abandoned(u) ==
  [u EXCEPT !.after = "", !.selected = None, !.pingAt = 0,
            !.step = IF u.carted THEN "clear-cart" ELSE "wait-for-restock"]

\* applyWatchListSelectionChange
HeadOfLoop(u, w, stock) ==
  IF ~checkoutCommitted(u) /\ (shouldAbandonSelected(u, w) \/ shouldPivotToPriority(u, w, stock))
    THEN Abandoned(u) ELSE u

\* The step ends in one of the states of choices, and the head of the loop takes pending
\* edits and looks at the selection.
Ends(choices) ==
  /\ \/ UNCHANGED <<watch, edits>>
     \/ edits < MaxEdits /\ edits' = edits + 1 /\ watch' \in Lists
  /\ \E u \in choices : t' = HeadOfLoop(u, watch', hub')
  /\ UNCHANGED <<config, clock>>

\* Only the task moves.
Moves(choices) == UNCHANGED <<hub, retailer, reported>> /\ Ends(choices)

\* The watermark after a bail: the ping tried last, or now.
Watermark == IF t.pingAt # 0 THEN t.pingAt ELSE clock

\* maybeBailRestock, and bailToRestock as far as the task goes.
Bailed == [GoTo("wait-for-restock") EXCEPT !.since = Watermark, !.after = ""]

\* MarkOutOfStock for the selection.
Marked == [p \in Products |-> IF p = t.selected THEN 0 ELSE hub[p]]

MustBail == t.selected # None /\ ~IsInStock(hub, t.selected)

resetCheckoutState(u) ==
  [u EXCEPT !.checkout = FALSE, !.items = {}, !.attempts = 0, !.retries = 0]

\* A request failed or was refused, and HandleErrors keeps the step: no answer, 403, 429,
\* DCO, an answer that cannot be read.
Again ==
  /\ t.step \in (SignInSteps \cup CartSteps \cup {"submit-order", "get-orders", "cancel-filler"})
                  \ {"wait-for-restock"}
  /\ Moves({t})

\* stop, or a stop-tasks message: the loop ends.
Stop ==
  /\ t.step # "stopped" /\ t' = Stopped
  /\ UNCHANGED <<config, watch, edits, hub, clock, retailer, reported>>

-----------------------------------------------------------------------------
(* Sign-in *)

GetSession == At("get-session") /\ Moves({GoTo("refresh-login"), GoTo("get-login-session")})

\* With UseOtpLogin or without.
GetLoginSession == At("get-login-session") /\ Moves({Solve("login"), Solve("otp-login")})

\* The harvested headers have come; a task on its way to the cart first looks at the hub.
GetShape ==
  /\ At("get-shape")
  /\ IF t.after = "add-to-cart" /\ MustBail
       THEN Moves({Bailed})
       ELSE t.after # "" /\ Moves({GoTo(t.after)})

\* Refused for wrong credentials, a second factor, or spent headers.
Login ==
  At("login") /\ Moves({GoTo("get-auth-codes"), Solve("login"), Solve("request-code"), Stopped})

\* Spent headers turn it into a login with the password: HandleErrors is told "login".
LoginOTP == At("otp-login") /\ Moves({GoTo("get-code"), Solve("otp-login"), Solve("login")})

RequestCode ==
  At("request-code") /\ Moves({GoTo("get-code"), GoTo("login"), Solve("request-code"), Stopped})

GetCode == At("get-code") /\ Moves({Solve("submit-code"), GoTo("request-code")})

SubmitCode ==
  /\ At("submit-code")
  /\ Moves({GoTo("get-auth-codes"), Solve("submit-code"), Solve("request-code"), Stopped})

GetAuthCodes == At("get-auth-codes") /\ Moves({GoTo("get-auth-redirect"), Stopped})

GetAuthRedirect == At("get-auth-redirect") /\ Moves({GoTo("get-address-book")})

\* A session that cannot be refreshed is signed in anew.
RefreshLogin ==
  /\ At("refresh-login")
  /\ Moves({[GoTo(IF t.after = "" THEN "get-address-book" ELSE t.after) EXCEPT !.after = ""],
            GoTo("get-login-session")})

\* A new client for the new session may fail to be built.
BadSession ==
  /\ At("get-address-book") \/ At("set-address")
  /\ LET u == [t EXCEPT !.refreshes = @ + 1]
     IN  Moves(IF t.refreshes >= SessionRetries THEN {Stopped} ELSE {u, GoesTo(u, "get-session")})

GetAddresses == At("get-address-book") /\ Moves({GoTo("set-address"), GoTo("preload-atc")})

SetAddress == At("set-address") /\ Moves({GoTo("get-address-book")})

-----------------------------------------------------------------------------
(* Restocks and the cart *)

\* AddToCart of an item for the cart itself: carted, refused or unknown, sold out, not found.
\* The last two are taken for the product's.
AddToCart(item, next) ==
  \/ /\ cart' = cart \cup {item} /\ UNCHANGED hub
     /\ Ends({GoTo(next), t})
  \/ UNCHANGED <<cart, hub>> /\ Ends({GoTo("oos-check-cart")})
  \/ hub' = Marked /\ UNCHANGED cart /\ Ends({Bailed})

Preload ==
  At("preload-atc") /\ UNCHANGED <<orders, reported>> /\ AddToCart(PreloadItem, "prepare-checkout")

\* It learns what is in the cart.
PrepareCheckout ==
  At("prepare-checkout") /\ Moves({[GoTo("clear-cart") EXCEPT !.items = @ \cup cart]})

NextAfterClear == IF config.filler THEN "atc-filler-item" ELSE "wait-for-restock"

\* RemoveFromCart for the first item it knows of, whose answer lists what is left; an item
\* that is gone already is answered with 404, which changes nothing.
ClearCart ==
  /\ At("clear-cart") /\ UNCHANGED <<hub, orders, reported>>
  /\ \/ t.items = {} /\ UNCHANGED cart /\ Ends({GoTo(NextAfterClear)})
     \/ \E item \in t.items :
          /\ cart' = cart \ {item}
          /\ Ends({t} \cup (IF item \in cart
                              THEN {[GoTo(IF cart' = {} THEN NextAfterClear ELSE t.step)
                                       EXCEPT !.items = cart']}
                              ELSE {}))

CartFiller ==
  /\ At("atc-filler-item") /\ UNCHANGED <<orders, reported>>
  /\ AddToCart(FillerItem, "wait-for-restock")

Fresh(p) == watch[p] # "no" /\ hub[p] > t.since

\* waitForStockPing: a priority product first, only pings after the watermark.
TakePing(p) ==
  /\ At("wait-for-restock") /\ Fresh(p)
  /\ watch[p] = "priority" \/ ~\E q \in Products : watch[q] = "priority" /\ Fresh(q)
  /\ Moves({[Solve("add-to-cart") EXCEPT !.selected = p, !.pingAt = hub[p], !.since = hub[p]]})

\* waitForStockPing takes edits too, without a look at the selection.
WaitEdit ==
  /\ At("wait-for-restock") /\ edits < MaxEdits
  /\ edits' = edits + 1 /\ watch' \in Lists
  /\ UNCHANGED <<config, t, hub, clock, retailer, reported>>

\* After an hour of waiting.
WaitRefresh ==
  At("wait-for-restock") /\ Moves({[GoTo("refresh-login") EXCEPT !.after = "wait-for-restock"]})

\* The product is carted, or not for any reason; each try starts from a clean checkout state.
CartProduct ==
  /\ At("add-to-cart") /\ ~MustBail /\ UNCHANGED <<orders, reported>>
  /\ LET try == resetCheckoutState(t)
     IN  \/ /\ cart' = cart \cup {t.selected} /\ UNCHANGED hub
            /\ Ends({[GoesTo(try, "submit-payment") EXCEPT !.carted = TRUE, !.payErrors = 0]})
         \/ /\ cart' \in {cart, cart \cup {t.selected}} /\ UNCHANGED hub
            /\ Ends({try, [GoesTo(try, "get-shape") EXCEPT !.after = "add-to-cart"]})
         \/ UNCHANGED <<cart, hub>> /\ Ends({GoesTo(try, "oos-check-cart")})
         \/ hub' = Marked /\ UNCHANGED cart /\ Ends({resetCheckoutState(Bailed)})

BailFromCart == At("add-to-cart") /\ MustBail /\ Moves({Bailed})

\* GetCart: the steps to which its failures lead.
CartUnknown == {GoTo("get-cart"), [GoTo("refresh-login") EXCEPT !.after = "get-cart"]}

GetCart ==
  At("get-cart") /\ Moves(CartUnknown \cup {[GoTo("submit-payment") EXCEPT !.items = cart]})

\* SubmitPayment, or the payment the cart has already: GetCart asks for it and may fill in
\* the items. A refusal is counted; refused too often, the cart is prepared again.
SubmitPayment ==
  /\ At("submit-payment")
  /\ \E items \in {t.items, cart}, errors \in {t.payErrors, t.payErrors + 1} :
       LET again == IF errors < PaymentRetries
                    THEN {GoTo("submit-payment")} \cup CartUnknown ELSE {GoTo("preload-atc")}
           refused == {[u EXCEPT !.payErrors = errors] : u \in again}
       IN  /\ errors <= PaymentRetries
           /\ Moves({[u EXCEPT !.items = items] : u \in refused \cup {GoTo("submit-order")}})

-----------------------------------------------------------------------------
(* The order *)

\* The retailer takes the order of the cart.
Place(fate) ==
  /\ cart # {} /\ Len(orders) < MaxOrders
  /\ orders' = Append(orders, [items |-> cart, product |-> t.selected, fate |-> fate])
  /\ cart' = {}

\* With a filler, only an order with the product in it becomes CheckoutData.
IsRealOrder == ~config.filler \/ t.selected \in cart

\* Mutated form: the order is taken for placed though its answer is lost.
SubmitOrderUnanswered ==
  /\ At("submit-order") /\ UNCHANGED <<hub, reported>>
  /\ \/ /\ Place("open")
        /\ Ends({[GoTo("wait-to-check") EXCEPT !.ref = IF IsRealOrder THEN Len(orders) + 1 ELSE @]})
     \/ Place("lost") /\ Ends({GoTo("wait-to-check")})
     \/ UNCHANGED retailer /\ Ends({GoTo("decline"), GoTo("oos-check-cart")})

SubmitOrder ==
  /\ At("submit-order") /\ UNCHANGED <<hub, reported>>
  /\ \/ /\ Place("open")
        /\ Ends({[GoTo("wait-to-check") EXCEPT !.ref = IF IsRealOrder THEN Len(orders) + 1 ELSE @]})
     \/ Place("lost") /\ Ends({t})
     \/ UNCHANGED retailer /\ Ends({GoTo("decline"), GoTo("oos-check-cart")})

\* The order is sent again while there is something left to order besides the filler.
CheckCart ==
  LET gone == Cardinality(cart) <= IF config.filler THEN 1 ELSE 0
  IN  At("oos-check-cart")
      /\ Moves({[GoTo(IF gone THEN "remove-payment" ELSE "submit-order") EXCEPT !.items = cart]}
                 \cup CartUnknown)

bailToRestock == hub' = Marked /\ UNCHANGED <<retailer, reported>> /\ Ends({Bailed})

RemovePayment == At("remove-payment") /\ bailToRestock

WaitToCheck == At("wait-to-check") /\ Moves({GoTo("check-order")})

\* Where a confirmed order goes.
Confirmed(u) ==
  {[GoesTo(u, s) EXCEPT !.checkout = TRUE] :
     s \in IF config.filler THEN {"cancel-filler", "get-orders"} ELSE {"checkout"}}

\* CheckOrder is answered with a status; the retailer keeps to its word.
CheckOrder ==
  /\ At("check-order") /\ t.ref # 0 /\ UNCHANGED <<hub, cart, reported>>
  /\ \E fate \in {"good", "bad"} :
       LET u == [t EXCEPT !.attempts = 0]
       IN  /\ orders[t.ref].fate \in {"open", fate}
           /\ orders' = [orders EXCEPT ![t.ref].fate = fate]
           /\ Ends(IF fate = "good" THEN Confirmed(u)
                                    ELSE {[GoesTo(u, "decline") EXCEPT !.checkout = FALSE]})

\* Mutated form: an order whose status cannot be had is declined.
CheckOrderFailsDeclines ==
  /\ At("check-order")
  /\ Moves(IF t.ref # 0 /\ t.attempts + 1 >= VerifyRetries
             THEN {GoTo("decline")}
             ELSE {[t EXCEPT !.attempts = IF t.ref # 0 THEN @ + 1 ELSE @]})

\* No status: after VerifyRetries tries an order that was submitted is taken for a success.
CheckOrderFails ==
  /\ At("check-order")
  /\ Moves(IF t.ref # 0 /\ t.attempts + 1 >= VerifyRetries
             THEN Confirmed([t EXCEPT !.attempts = VerifyRetries])
             ELSE {[t EXCEPT !.attempts = IF t.ref # 0 THEN @ + 1 ELSE @]})

\* Without an order a 401 means that there is none.
CheckOrderMissing == At("check-order") /\ t.ref = 0 /\ bailToRestock

\* Mutated form: the retries are not limited.
FillerRetryForever == [GoTo("get-orders") EXCEPT !.retries = @ + 1]

\* pendingFillerRetry: the filler cannot be cancelled yet.
FillerRetry ==
  [GoTo(IF t.retries + 1 >= FillerRetries THEN "checkout" ELSE "get-orders")
     EXCEPT !.retries = IF @ < FillerRetries THEN @ + 1 ELSE @]

GetOrders == At("get-orders") /\ Moves({GoTo("cancel-filler"), GoTo("checkout"), FillerRetry})

CancelFiller == At("cancel-filler") /\ Moves({GoTo("checkout"), FillerRetry})

\* Endless tasks go on with the next cart.
NextRound ==
  IF config.endless
    THEN [resetCheckoutState(GoTo("preload-atc")) EXCEPT !.carted = FALSE]
    ELSE [GoTo("stop") EXCEPT !.carted = FALSE]

Checkout ==
  /\ At("checkout") /\ UNCHANGED <<hub, retailer>>
  /\ reported' = reported \cup ({t.ref} \ {0})
  /\ Ends({NextRound})

Decline == At("decline") /\ Moves({NextRound})

-----------------------------------------------------------------------------
(* The hub and the retailer *)

\* A ping that says in stock; its time was taken before the hub's lock, so a ping of another
\* product may have overtaken it.
Publish(p) ==
  \E at \in {clock, clock + 1} \cap 1 .. MaxClock :
    /\ clock' = at /\ hub' = [hub EXCEPT ![p] = at]
    /\ UNCHANGED <<config, t, watch, edits, retailer, reported>>

\* A ping that says out of stock, or another task's bailToRestock.
PublishOut(p) ==
  /\ hub[p] # 0 /\ hub' = [hub EXCEPT ![p] = 0]
  /\ UNCHANGED <<config, t, watch, edits, clock, retailer, reported>>

\* The retailer takes a product that is sold out from the cart.
SoldOut(p) ==
  /\ p \in cart /\ cart' = cart \ {p}
  /\ UNCHANGED <<config, t, watch, edits, hub, clock, orders, reported>>

-----------------------------------------------------------------------------
SignIn ==
  \/ GetSession \/ GetLoginSession \/ GetShape \/ Login \/ LoginOTP \/ RequestCode \/ GetCode
  \/ SubmitCode \/ GetAuthCodes \/ GetAuthRedirect \/ RefreshLogin \/ BadSession
  \/ GetAddresses \/ SetAddress

FillCart ==
  \/ Preload \/ PrepareCheckout \/ ClearCart \/ CartFiller
  \/ \E p \in Products : TakePing(p)
  \/ WaitEdit \/ WaitRefresh \/ CartProduct \/ BailFromCart \/ GetCart \/ SubmitPayment

PlaceOrder ==
  \/ SubmitOrder \/ CheckCart \/ RemovePayment \/ WaitToCheck
  \/ CheckOrder \/ CheckOrderFails \/ CheckOrderMissing
  \/ GetOrders \/ CancelFiller \/ Checkout \/ Decline

World == \E p \in Products : Publish(p) \/ PublishOut(p) \/ SoldOut(p)

Next == Again \/ Stop \/ SignIn \/ FillCart \/ PlaceOrder \/ World

Spec == Init /\ [][Next]_vars

\* The loop runs, and the order history and the cancellation of a filler are not refused for
\* ever. Nothing is assumed of the order's status.
FairSpec ==
  /\ Spec
  /\ WF_vars(WaitToCheck \/ CheckOrder \/ CheckOrderFails \/ Checkout \/ Decline)
  /\ WF_vars(GetOrders) /\ WF_vars(CancelFiller)

-----------------------------------------------------------------------------
(* Properties *)

\* What is reported as a success is an order that was placed for the product the report
\* names, that was not declined and has not been reported before, through lost answers and
\* rounds without end. (With a filler item, an order of nothing but leftovers is not noticed:
\* the order of the round before is asked for again and reported again, even if declined.)
ReportNamesOrder ==
  [][At("checkout") /\ t'.step # "stopped" =>
       /\ t.ref # 0
       /\ \/ /\ orders[t.ref].product = t.selected /\ t.ref \notin reported
             /\ orders[t.ref].fate \in {"open", "good"}
          \/ config.filler /\ t.ref # Len(orders)]_vars

\* A decline is reported only if no order was placed for the product, or the retailer has
\* refused it, or the answer to the order got lost. This is of tasks without a filler item:
\* with one, an order that is taken for leftovers may hold a product of an earlier round.
DeclineIsTrue ==
  At("decline") =>
    \A i \in 1 .. Len(orders) :
      orders[i].fate = "open" /\ t.selected \in orders[i].items => i \in reported

\* An order whose number the task has been told is reported, as a success or a decline,
\* though its status can never be had, unless the user stops the task.
OrdersAreReported ==
  \A i \in OrderIds :
    t.ref = i ~> \/ i \in reported
                 \/ i <= Len(orders) /\ orders[i].fate = "bad"
                 \/ t.step = "stopped"

(* A statement of the tests that the code does not bear out *)

\* When clear-cart is done with it, the cart is empty: an abandoned product is not bought
\* with the next one.
ClearedCartIsEmpty ==
  [][At("clear-cart") /\ t'.step = NextAfterClear => cart' = {}]_vars
=============================================================================
