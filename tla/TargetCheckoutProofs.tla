------------------------ MODULE TargetCheckoutProofs ------------------------
(***************************************************************************)
(* What a Target task reports, for any products, watch lists, settings and  *)
(* limits.  Between the placement of an order and its report the task keeps *)
(* its selection and the order's number: whatever the user edits, the hub   *)
(* says or the retailer does not answer.                                    *)
(***************************************************************************)
EXTENDS TargetCheckout, SequenceTheorems, TLAPS

\* The steps between the placement of an order and its report.
Verifying == {"wait-to-check", "check-order", "get-orders", "cancel-filler", "checkout"}

Elsewhere == Steps \ Verifying

Afters == SignInSteps \cup CartSteps \cup {""}

\* What the loop comes back to after a sign-in is a step it may be in without an order, and
\* whoever is to cart a product has selected one.
TaskFits ==
  /\ t.after \in Afters
  /\ t.step = "add-to-cart" \/ t.after = "add-to-cart" => t.selected \in Products

\* The order in hand is the latest one, for the selection, and not yet reported. With a
\* filler it may be the order of an earlier round, if the latest has the leftovers only.
OrderInHand ==
  /\ t.ref = Len(orders)
  /\ orders[t.ref].product = t.selected /\ orders[t.ref].fate \in {"open", "good"}
  /\ t.ref \notin reported
Leftovers == config.filler /\ t.ref < Len(orders)

Verified ==
  /\ t.step \in Verifying => OrderInHand \/ Leftovers
  /\ t.step \in {"get-orders", "cancel-filler", "checkout"} => t.ref # 0

\* Without a filler every order that may still come is reported or in hand.
NoneForgotten ==
  ~config.filler =>
    \A i \in 1 .. Len(orders) :
      orders[i].fate = "open" => i \in reported \/ t.step = "stopped"
                                 \/ (i = t.ref /\ t.step \in Verifying)

Inv == TypeOK /\ TaskFits /\ Verified /\ NoneForgotten

-----------------------------------------------------------------------------
(* Moving on *)

\* What may be said of a state of the task before the head of the loop.
Fits(u) ==
  /\ u \in Task /\ u.pingAt <= clock /\ u.since <= clock
  /\ u.after \in Afters
  /\ u.step = "add-to-cart" \/ u.after = "add-to-cart" => u.selected \in Products

\* It has to do with no order.
Harmless(u) == Fits(u) /\ u.ref = t.ref /\ u.step \in Elsewhere

LEMMA HeadFits ==
  ASSUME clock \in Nat, NEW u, Fits(u), NEW w, NEW stock
  PROVE  /\ Fits(HeadOfLoop(u, w, stock))
         /\ HeadOfLoop(u, w, stock).ref = u.ref
         /\ u.step \in Elsewhere => HeadOfLoop(u, w, stock).step \in Elsewhere
         /\ u.step \in CommittedSteps => HeadOfLoop(u, w, stock) = u
<1>. DEFINE v == Abandoned(u)
<1>1. Fits(v) /\ v.ref = u.ref /\ v.step \in {"clear-cart", "wait-for-restock"}
  <2>. DEFINE s == IF u.carted THEN "clear-cart" ELSE "wait-for-restock"
  <2>1. v = [u EXCEPT !.after = "", !.selected = None, !.pingAt = 0, !.step = s]
    BY DEF Abandoned
  <2>2. s \in {"clear-cart", "wait-for-restock"}
    OBVIOUS
  <2>. HIDE DEF s, v
  <2>3. v \in Task
    <3>1. s \in Steps
      BY <2>2 DEF Steps, CartSteps
    <3>2. 0 \in 0 .. MaxClock /\ u \in Task
      BY BoundAssumption DEF Fits
    <3>. QED
      BY <2>1, <3>1, <3>2 DEF Task
  <2>4. v.ref = u.ref /\ v.step = s /\ v.after = "" /\ v.pingAt = 0 /\ v.since = u.since
    BY <2>1 DEF Fits, Task
  <2>5. v.pingAt <= clock /\ v.since <= clock
    <3>1. v.since <= clock
      BY <2>4 DEF Fits
    <3>2. v.pingAt = 0
      BY <2>4
    <3>3. v.pingAt <= clock
      BY <3>2
    <3>. QED
      BY <3>1, <3>3
  <2>6. v.after \in Afters /\ v.step # "add-to-cart" /\ v.after # "add-to-cart"
    BY <2>2, <2>4 DEF Afters
  <2>. QED
    BY <2>2, <2>3, <2>4, <2>5, <2>6 DEF Fits
<1>2. HeadOfLoop(u, w, stock) \in {u, v}
  BY DEF HeadOfLoop
<1>3. u.step \in CommittedSteps => HeadOfLoop(u, w, stock) = u
  BY DEF HeadOfLoop, checkoutCommitted
<1>. HIDE DEF v
<1>. QED
  BY <1>1, <1>2, <1>3 DEF Elsewhere, Steps, CartSteps, Verifying

\* Where a turn of the loop ends that has to do with no order.
LEMMA EndsElsewhere ==
  ASSUME Inv, NEW choices, Ends(choices), \A u \in choices : Harmless(u)
  PROVE  /\ Fits(t') /\ t'.ref = t.ref /\ t'.step \in Elsewhere
         /\ config' = config /\ clock' = clock /\ edits' \in 0 .. MaxEdits
         /\ watch' \in [Products -> Interests]
<1>1. PICK u \in choices : t' = HeadOfLoop(u, watch', hub')
  BY DEF Ends
<1>2. clock \in Nat
  BY BoundAssumption DEF Inv, TypeOK
<1>3. Fits(t') /\ t'.ref = t.ref /\ t'.step \in Elsewhere
  BY <1>1, <1>2, HeadFits DEF Harmless
<1>4. config' = config /\ clock' = clock /\ edits' \in 0 .. MaxEdits
      /\ watch' \in [Products -> Interests]
  BY ListAssumption, BoundAssumption DEF Ends, Inv, TypeOK
<1>. QED
  BY <1>3, <1>4

\* The same behind an order, where the head of the loop changes nothing.
LEMMA EndsCommitted ==
  ASSUME Inv, NEW choices, Ends(choices), \A u \in choices : Fits(u) /\ u.step \in CommittedSteps
  PROVE  /\ t' \in choices
         /\ config' = config /\ clock' = clock /\ edits' \in 0 .. MaxEdits
         /\ watch' \in [Products -> Interests]
<1>1. PICK u \in choices : t' = HeadOfLoop(u, watch', hub')
  BY DEF Ends
<1>2. clock \in Nat
  BY BoundAssumption DEF Inv, TypeOK
<1>3. t' = u
  BY <1>1, <1>2, HeadFits
<1>4. config' = config /\ clock' = clock /\ edits' \in 0 .. MaxEdits
      /\ watch' \in [Products -> Interests]
  BY ListAssumption, BoundAssumption DEF Ends, Inv, TypeOK
<1>. QED
  BY <1>3, <1>4

\* A step whose orders, reports and number stay as they are, and that ends elsewhere.
LEMMA Unrelated ==
  ASSUME Inv, NEW choices, Ends(choices), \A u \in choices : Harmless(u),
         UNCHANGED <<orders, reported>>, t.step # "stopped",
         t.step \in Verifying => t.ref = 0,
         cart' \subseteq Items, hub' \in [Products -> 0 .. clock]
  PROVE  Inv'
<1>1. /\ Fits(t') /\ t'.ref = t.ref /\ t'.step \in Elsewhere
      /\ config' = config /\ clock' = clock /\ edits' \in 0 .. MaxEdits
      /\ watch' \in [Products -> Interests]
  BY EndsElsewhere
<1>2. TypeOK'
  BY <1>1 DEF Inv, TypeOK, Fits
<1>3. TaskFits'
  BY <1>1 DEF TaskFits, Fits
<1>4. Verified'
  BY <1>1 DEF Verified, Elsewhere, Verifying
<1>5. NoneForgotten'
  BY <1>1 DEF Inv, NoneForgotten
<1>. QED
  BY <1>2, <1>3, <1>4, <1>5 DEF Inv

LEMMA MovesElsewhere ==
  ASSUME Inv, NEW choices, Moves(choices), \A u \in choices : Harmless(u),
         t.step \notin Verifying, t.step # "stopped"
  PROVE  Inv'
BY Unrelated DEF Moves, retailer, Inv, TypeOK

LEMMA TaskIsFit == Inv => Fits(t)
BY DEF Inv, TypeOK, TaskFits, Fits

LEMMA Going ==
  ASSUME Inv, NEW s \in Elsewhere, s # "add-to-cart"
  PROVE  Harmless(GoTo(s)) /\ (s \in Afters => Harmless(Solve(s)))
<1>1. Fits(t) /\ t \in Task
  BY TaskIsFit DEF Fits
<1>2. s \in Steps /\ "get-shape" \in Elsewhere /\ "get-shape" \in Steps
  BY DEF Elsewhere, Steps, SignInSteps, Verifying
<1>3. Harmless(GoTo(s))
  <2>1. GoTo(s) \in Task
    BY <1>1, <1>2 DEF GoTo, GoesTo, Task
  <2>. QED
    BY <1>1, <2>1 DEF Harmless, Fits, GoTo, GoesTo, Task
<1>4. ASSUME s \in Afters
      PROVE  Harmless(Solve(s))
  <2>1. Solve(s) \in Task
    BY <1>1, <1>2 DEF Solve, GoTo, GoesTo, Task
  <2>. QED
    BY <1>1, <1>2, <1>4, <2>1 DEF Harmless, Fits, Solve, GoTo, GoesTo, Task
<1>. QED
  BY <1>3, <1>4

LEMMA SettingAfter ==
  ASSUME Inv, NEW s \in Elsewhere, NEW a \in Afters, s # "add-to-cart", a # "add-to-cart"
  PROVE  Harmless([GoTo(s) EXCEPT !.after = a])
<1>1. Fits(t) /\ t \in Task
  BY TaskIsFit DEF Fits
<1>2. s \in Steps /\ a \in Steps \cup {""}
  BY DEF Elsewhere, Steps, Afters
<1>3. [GoTo(s) EXCEPT !.after = a] \in Task
  BY <1>1, <1>2 DEF GoTo, GoesTo, Task
<1>. QED
  BY <1>1, <1>3 DEF Harmless, Fits, GoTo, GoesTo, Task

LEMMA StepNames ==
  /\ SignInSteps \cup CartSteps \subseteq Elsewhere \cap Afters
  /\ {"submit-order", "oos-check-cart", "remove-payment", "decline", "stop", "stopped"}
       \subseteq Elsewhere
BY DEF Elsewhere, Afters, Steps, SignInSteps, CartSteps, CommittedSteps, Verifying

LEMMA AfterIsHarmless == Inv /\ t.after # "" => Harmless(GoTo(t.after))
<1>. SUFFICES ASSUME Inv, t.after # ""
              PROVE  Harmless(GoTo(t.after))
  OBVIOUS
<1>1. Fits(t) /\ t \in Task
  BY TaskIsFit DEF Fits
<1>2. t.after \in Elsewhere
  BY StepNames DEF Inv, TaskFits, Afters
<1>3. GoTo(t.after) \in Task
  BY <1>1, <1>2 DEF GoTo, GoesTo, Task, Elsewhere
<1>. QED
  BY <1>1, <1>2, <1>3 DEF Harmless, Fits, GoTo, GoesTo, Task

LEMMA Cleared ==
  ASSUME NEW u, Harmless(u)
  PROVE  Harmless([u EXCEPT !.after = ""])
<1>1. u \in Task
  BY DEF Harmless, Fits
<1>2. [u EXCEPT !.after = ""] \in Task
  BY <1>1 DEF Task
<1>. QED
  BY <1>1, <1>2 DEF Harmless, Fits, Afters, Task

LEMMA BailIsHarmless == Inv => Harmless(Bailed)
<1>. SUFFICES ASSUME Inv
              PROVE  Harmless(Bailed)
  OBVIOUS
<1>1. Fits(t) /\ t \in Task
  BY TaskIsFit DEF Fits
<1>2. Watermark \in 0 .. clock /\ clock \in 0 .. MaxClock
  <2>1. t.pingAt \in 0 .. MaxClock /\ clock \in 0 .. MaxClock
    BY <1>1 DEF Task, Inv, TypeOK
  <2>2. t.pingAt <= clock
    BY DEF Inv, TypeOK
  <2>3. t.pingAt \in 0 .. clock /\ clock \in 0 .. clock
    BY <2>1, <2>2, BoundAssumption
  <2>. QED
    BY <2>1, <2>3 DEF Watermark
<1>3. "wait-for-restock" \in Elsewhere
  BY StepNames DEF CartSteps
<1>4. Watermark \in 0 .. MaxClock
  BY <1>2, BoundAssumption
<1>5. Bailed \in Task
  BY <1>1, <1>3, <1>4 DEF Bailed, GoTo, GoesTo, Task, Elsewhere
<1>6. /\ Bailed.step = "wait-for-restock" /\ Bailed.after = "" /\ Bailed.since = Watermark
      /\ Bailed.ref = t.ref /\ Bailed.pingAt = t.pingAt
  BY <1>1 DEF Bailed, GoTo, GoesTo, Task
<1>7. Bailed.pingAt <= clock
  BY <1>1, <1>6 DEF Fits
<1>8. Bailed.since <= clock
  <2>1. Watermark <= clock
    BY <1>2
  <2>. QED
    BY <1>6, <2>1
<1>9. Bailed.after \in Afters /\ Bailed.step \in Elsewhere
  BY <1>3, <1>6 DEF Afters
<1>. QED
  BY <1>5, <1>6, <1>7, <1>8, <1>9 DEF Harmless, Fits

LEMMA StayHarmless == Inv /\ t.step \in Elsewhere => Harmless(t)
BY TaskIsFit DEF Harmless

LEMMA MarkedFits == Inv => Marked \in [Products -> 0 .. clock]
<1>. SUFFICES ASSUME Inv
              PROVE  Marked \in [Products -> 0 .. clock]
  OBVIOUS
<1>1. clock \in Nat /\ hub \in [Products -> 0 .. clock]
  BY BoundAssumption DEF Inv, TypeOK
<1>2. 0 \in 0 .. clock
  BY <1>1
<1>. QED
  BY <1>1, <1>2 DEF Marked

\* The items the task knows of change, and nothing else.
LEMMA SettingItems ==
  ASSUME Inv, NEW s \in Elsewhere, s # "add-to-cart", NEW known \in SUBSET Items
  PROVE  Harmless([GoTo(s) EXCEPT !.items = known])
<1>1. Harmless(GoTo(s)) /\ GoTo(s) \in Task
  BY Going DEF Harmless, Fits
<1>2. [GoTo(s) EXCEPT !.items = known] \in Task
  BY <1>1 DEF Task
<1>. QED
  BY <1>1, <1>2 DEF Harmless, Fits, Task

\* A clean checkout state, with or without the product in the cart.
LEMMA Resetting ==
  ASSUME NEW u, Harmless(u), NEW b \in BOOLEAN
  PROVE  /\ Harmless(resetCheckoutState(u)) /\ resetCheckoutState(u).selected = u.selected
         /\ Harmless([resetCheckoutState(u) EXCEPT !.carted = b])
<1>. DEFINE v == resetCheckoutState(u)
            w == [v EXCEPT !.carted = b]
<1>1. u \in Task
  BY DEF Harmless, Fits
<1>2. 0 \in 0 .. VerifyRetries /\ 0 \in 0 .. FillerRetries
  BY LimitAssumption
<1>3. v \in Task
  BY <1>1, <1>2 DEF resetCheckoutState, Task
<1>4. /\ v.step = u.step /\ v.after = u.after /\ v.selected = u.selected /\ v.ref = u.ref
      /\ v.pingAt = u.pingAt /\ v.since = u.since
  BY <1>1 DEF resetCheckoutState, Task
<1>5. Harmless(v)
  BY <1>3, <1>4 DEF Harmless, Fits
<1>. HIDE DEF v
<1>6. w \in Task
  BY <1>3 DEF Task
<1>7. /\ w.step = v.step /\ w.after = v.after /\ w.selected = v.selected /\ w.ref = v.ref
      /\ w.pingAt = v.pingAt /\ w.since = v.since
  BY <1>3 DEF Task
<1>8. Harmless(w)
  BY <1>5, <1>6, <1>7 DEF Harmless, Fits
<1>. QED
  BY <1>4, <1>5, <1>8 DEF v

-----------------------------------------------------------------------------
(* The steps *)

LEMMA SignInKeeps == Inv /\ SignIn => Inv'
<1>. SUFFICES ASSUME Inv, SignIn
              PROVE  Inv'
  OBVIOUS
<1>. USE DEF At
<1>. DEFINE S == {"get-session", "get-login-session", "get-shape", "login", "otp-login",
                  "request-code", "get-code", "submit-code", "get-auth-codes",
                  "get-auth-redirect", "refresh-login", "get-address-book", "set-address",
                  "preload-atc", "stopped"}
<1>1. \A s \in S : Harmless(GoTo(s)) /\ (s # "stopped" => Harmless(Solve(s)))
  BY Going, StepNames DEF SignInSteps, CartSteps
<1>2. Harmless(Stopped)
  BY <1>1 DEF Stopped
<1>3. t.step \in S => t.step \notin Verifying
  BY DEF Verifying
<1>4. CASE GetSession
  BY <1>1, <1>3, <1>4, MovesElsewhere DEF GetSession
<1>5. CASE GetLoginSession
  BY <1>1, <1>3, <1>5, MovesElsewhere DEF GetLoginSession
<1>6. CASE GetShape
  <2>1. CASE t.after = "add-to-cart" /\ MustBail
    BY <1>3, <1>6, <2>1, BailIsHarmless, MovesElsewhere DEF GetShape
  <2>2. CASE ~(t.after = "add-to-cart" /\ MustBail)
    <3>1. Moves({GoTo(t.after)}) /\ t.after # "" /\ t.step = "get-shape"
      BY <1>6, <2>2 DEF GetShape
    <3>. QED
      BY <1>3, <3>1, AfterIsHarmless, MovesElsewhere
  <2>. QED
    BY <2>1, <2>2
<1>7. CASE Login
  BY <1>1, <1>2, <1>3, <1>7, MovesElsewhere DEF Login
<1>8. CASE LoginOTP
  BY <1>1, <1>3, <1>8, MovesElsewhere DEF LoginOTP
<1>9. CASE RequestCode
  BY <1>1, <1>2, <1>3, <1>9, MovesElsewhere DEF RequestCode
<1>10. CASE GetCode
  BY <1>1, <1>3, <1>10, MovesElsewhere DEF GetCode
<1>11. CASE SubmitCode
  BY <1>1, <1>2, <1>3, <1>11, MovesElsewhere DEF SubmitCode
<1>12. CASE GetAuthCodes
  BY <1>1, <1>2, <1>3, <1>12, MovesElsewhere DEF GetAuthCodes
<1>13. CASE GetAuthRedirect
  BY <1>1, <1>3, <1>13, MovesElsewhere DEF GetAuthRedirect
<1>14. CASE RefreshLogin
  <2>1. Harmless([GoTo(IF t.after = "" THEN "get-address-book" ELSE t.after) EXCEPT !.after = ""])
    <3>1. CASE t.after = ""
      BY <3>1, SettingAfter, StepNames DEF SignInSteps, Afters
    <3>2. CASE t.after # ""
      BY <3>2, AfterIsHarmless, Cleared
    <3>. QED
      BY <3>1, <3>2
  <2>. QED
    BY <1>1, <1>3, <1>14, <2>1, MovesElsewhere DEF RefreshLogin
<1>15. CASE BadSession
  <2>. DEFINE u == [t EXCEPT !.refreshes = @ + 1]
  <2>1. CASE t.refreshes >= SessionRetries
    BY <1>2, <1>3, <1>15, <2>1, MovesElsewhere DEF BadSession
  <2>2. CASE ~(t.refreshes >= SessionRetries)
    <3>1. t \in Task /\ Harmless(t)
      BY <1>15, TaskIsFit, StepNames DEF BadSession, Harmless, Fits, SignInSteps
    <3>2. u \in Task
      <4>1. t.refreshes \in 0 .. SessionRetries
        BY <3>1 DEF Task
      <4>2. t.refreshes + 1 \in 0 .. SessionRetries
        BY <2>2, <4>1, LimitAssumption
      <4>. QED
        BY <3>1, <4>2 DEF Task
    <3>3. Harmless(u) /\ u \in Task /\ Harmless(GoesTo(u, "get-session"))
      <4>1. Harmless(u)
        BY <3>1, <3>2 DEF Harmless, Fits, Task
      <4>2. GoesTo(u, "get-session") \in Task /\ "get-session" \in Elsewhere
        BY <3>2, StepNames DEF GoesTo, Task, SignInSteps, Elsewhere
      <4>. QED
        BY <3>2, <4>1, <4>2 DEF Harmless, Fits, GoesTo, Task
    <3>. QED
      BY <1>3, <1>15, <2>2, <3>3, MovesElsewhere DEF BadSession
  <2>. QED
    BY <2>1, <2>2
<1>16. CASE GetAddresses
  BY <1>1, <1>3, <1>16, MovesElsewhere DEF GetAddresses
<1>17. CASE SetAddress
  BY <1>1, <1>3, <1>17, MovesElsewhere DEF SetAddress
<1>. QED
  BY <1>4, <1>5, <1>6, <1>7, <1>8, <1>9, <1>10, <1>11, <1>12, <1>13, <1>14, <1>15, <1>16,
     <1>17 DEF SignIn

LEMMA AddingKeeps ==
  ASSUME Inv, NEW item \in Items, NEW next \in Elsewhere, next # "add-to-cart",
         AddToCart(item, next), t.step \in Elsewhere, t.step # "stopped",
         UNCHANGED <<orders, reported>>
  PROVE  Inv'
<1>1. Harmless(t) /\ Harmless(GoTo(next)) /\ Harmless(GoTo("oos-check-cart")) /\ Harmless(Bailed)
  BY StayHarmless, Going, StepNames, BailIsHarmless
<1>2. cart \subseteq Items /\ hub \in [Products -> 0 .. clock] /\ t.step \notin Verifying
  BY DEF Inv, TypeOK, Elsewhere
<1>3. CASE cart' = cart \cup {item} /\ UNCHANGED hub /\ Ends({GoTo(next), t})
  BY <1>1, <1>2, <1>3, Unrelated
<1>4. CASE UNCHANGED <<cart, hub>> /\ Ends({GoTo("oos-check-cart")})
  BY <1>1, <1>2, <1>4, Unrelated
<1>5. CASE hub' = Marked /\ UNCHANGED cart /\ Ends({Bailed})
  BY <1>1, <1>2, <1>5, MarkedFits, Unrelated
<1>. QED
  BY <1>3, <1>4, <1>5 DEF AddToCart

LEMMA ClearCartKeeps == Inv /\ ClearCart => Inv'
<1>. SUFFICES ASSUME Inv, ClearCart
              PROVE  Inv'
  OBVIOUS
<1>1. t.step = "clear-cart" /\ UNCHANGED <<hub, orders, reported>>
  BY DEF ClearCart, At
<1>2. /\ NextAfterClear \in Elsewhere /\ NextAfterClear # "add-to-cart"
      /\ t.step \in Elsewhere /\ t.step \notin Verifying
  BY <1>1, StepNames DEF NextAfterClear, CartSteps, Verifying
<1>3. Harmless(t) /\ Harmless(GoTo(NextAfterClear))
  BY <1>2, StayHarmless, Going
<1>4. cart \subseteq Items /\ hub' \in [Products -> 0 .. clock]
  BY <1>1 DEF Inv, TypeOK
<1>5. CASE t.items = {} /\ UNCHANGED cart /\ Ends({GoTo(NextAfterClear)})
  BY <1>1, <1>2, <1>3, <1>4, <1>5, Unrelated
<1>6. ASSUME NEW item \in t.items, cart' = cart \ {item},
             Ends({t} \cup (IF item \in cart
                              THEN {[GoTo(IF cart' = {} THEN NextAfterClear ELSE t.step)
                                       EXCEPT !.items = cart']}
                              ELSE {}))
      PROVE  Inv'
  <2>. DEFINE s == IF cart' = {} THEN NextAfterClear ELSE t.step
              u == [GoTo(s) EXCEPT !.items = cart']
  <2>1. cart' \in SUBSET Items /\ s \in Elsewhere /\ s # "add-to-cart"
    BY <1>1, <1>2, <1>4, <1>6
  <2>. HIDE DEF s
  <2>2. Harmless(u)
    BY <2>1, SettingItems
  <2>. HIDE DEF u
  <2>3. Ends({t} \cup (IF item \in cart THEN {u} ELSE {}))
    BY <1>6 DEF u, s
  <2>4. \A x \in {t} \cup (IF item \in cart THEN {u} ELSE {}) : Harmless(x)
    BY <1>3, <2>2
  <2>. QED
    BY <1>1, <1>2, <1>4, <2>1, <2>3, <2>4, Unrelated
<1>. QED
  BY <1>5, <1>6 DEF ClearCart

LEMMA CartProductKeeps == Inv /\ CartProduct => Inv'
<1>. SUFFICES ASSUME Inv, CartProduct
              PROVE  Inv'
  OBVIOUS
<1>. DEFINE try == resetCheckoutState(t)
            carted == [GoesTo(try, "submit-payment") EXCEPT !.carted = TRUE, !.payErrors = 0]
            shaped == [GoesTo(try, "get-shape") EXCEPT !.after = "add-to-cart"]
            gone == GoesTo(try, "oos-check-cart")
            bailed == resetCheckoutState(Bailed)
<1>1. /\ t.step = "add-to-cart" /\ t.step \notin Verifying /\ t.step # "stopped"
      /\ UNCHANGED <<orders, reported>>
  BY DEF CartProduct, At, Verifying
<1>2. Harmless(t) /\ t.selected \in Products
  BY <1>1, StayHarmless, StepNames DEF CartSteps, Inv, TaskFits
<1>3. Harmless(try) /\ try \in Task /\ try.selected \in Products /\ Harmless(bailed)
  BY <1>2, Resetting, BailIsHarmless DEF Harmless, Fits
<1>4. /\ "submit-payment" \in Elsewhere /\ "get-shape" \in Elsewhere
      /\ "oos-check-cart" \in Elsewhere /\ "add-to-cart" \in Afters
  BY StepNames DEF SignInSteps, CartSteps
<1>. HIDE DEF try, bailed
<1>5. Harmless(carted) /\ Harmless(shaped) /\ Harmless(gone)
  <2>1. 0 \in 0 .. PaymentRetries
    BY LimitAssumption
  <2>2. /\ "submit-payment" \in Steps /\ "get-shape" \in Steps /\ "oos-check-cart" \in Steps
        /\ "add-to-cart" \in Steps
    BY <1>4 DEF Elsewhere, Steps, CartSteps
  <2>3. carted \in Task
    BY <1>3, <2>1, <2>2 DEF GoesTo, Task
  <2>4. shaped \in Task
    BY <1>3, <2>2 DEF GoesTo, Task
  <2>5. gone \in Task
    BY <1>3, <2>2 DEF GoesTo, Task
  <2>6. Harmless(carted)
    BY <1>3, <1>4, <2>3 DEF Harmless, Fits, GoesTo, Task
  <2>7. Harmless(shaped)
    BY <1>3, <1>4, <2>4 DEF Harmless, Fits, GoesTo, Task
  <2>8. Harmless(gone)
    BY <1>3, <1>4, <2>5 DEF Harmless, Fits, GoesTo, Task
  <2>. QED
    BY <2>6, <2>7, <2>8
<1>. HIDE DEF carted, shaped, gone
<1>6. /\ cart \subseteq Items /\ cart \cup {t.selected} \subseteq Items
      /\ hub \in [Products -> 0 .. clock] /\ Marked \in [Products -> 0 .. clock]
  BY <1>2, MarkedFits DEF Inv, TypeOK, Items
<1>7. CASE cart' = cart \cup {t.selected} /\ UNCHANGED hub /\ Ends({carted})
  BY <1>1, <1>5, <1>6, <1>7, Unrelated
<1>8. CASE cart' \in {cart, cart \cup {t.selected}} /\ UNCHANGED hub /\ Ends({try, shaped})
  BY <1>1, <1>3, <1>5, <1>6, <1>8, Unrelated
<1>9. CASE UNCHANGED <<cart, hub>> /\ Ends({gone})
  BY <1>1, <1>5, <1>6, <1>9, Unrelated
<1>10. CASE hub' = Marked /\ UNCHANGED cart /\ Ends({bailed})
  BY <1>1, <1>3, <1>6, <1>10, Unrelated
<1>. QED
  BY <1>7, <1>8, <1>9, <1>10 DEF CartProduct, carted, shaped, gone, try, bailed

LEMMA TakePingKeeps ==
  ASSUME Inv, NEW p \in Products, TakePing(p)
  PROVE  Inv'
<1>. DEFINE u == [Solve("add-to-cart") EXCEPT !.selected = p, !.pingAt = hub[p], !.since = hub[p]]
<1>1. t.step = "wait-for-restock" /\ Moves({u})
  BY DEF TakePing, At
<1>2. t \in Task /\ "get-shape" \in Elsewhere /\ "get-shape" \in Steps
      /\ "add-to-cart" \in Steps /\ "add-to-cart" \in Afters
  BY StepNames DEF Inv, TypeOK, SignInSteps, CartSteps, Elsewhere
<1>3. hub[p] \in 0 .. MaxClock /\ hub[p] <= clock
  <2>1. clock \in 0 .. MaxClock /\ hub[p] \in 0 .. clock
    BY DEF Inv, TypeOK
  <2>. QED
    BY <2>1, BoundAssumption
<1>4. u \in Task
  BY <1>2, <1>3 DEF Solve, GoTo, GoesTo, Task
<1>5. /\ u.step = "get-shape" /\ u.after = "add-to-cart" /\ u.selected = p /\ u.ref = t.ref
      /\ u.pingAt = hub[p] /\ u.since = hub[p]
  BY <1>2 DEF Solve, GoTo, GoesTo, Task
<1>. HIDE DEF u
<1>6. Harmless(u)
  BY <1>2, <1>3, <1>4, <1>5 DEF Harmless, Fits
<1>7. t.step \notin Verifying /\ t.step # "stopped"
  BY <1>1 DEF Verifying
<1>. QED
  BY <1>1, <1>6, <1>7, MovesElsewhere

LEMMA SubmitPaymentKeeps ==
  ASSUME Inv, SubmitPayment, \A u \in CartUnknown : Harmless(u)
  PROVE  Inv'
<1>1. t \in Task /\ cart \in SUBSET Items /\ t.step = "submit-payment"
  BY DEF Inv, TypeOK, SubmitPayment, At
<1>2. PICK items \in {t.items, cart}, errors \in {t.payErrors, t.payErrors + 1} :
        LET again == IF errors < PaymentRetries
                     THEN {GoTo("submit-payment")} \cup CartUnknown ELSE {GoTo("preload-atc")}
            refused == {[u EXCEPT !.payErrors = errors] : u \in again}
        IN  /\ errors <= PaymentRetries
            /\ Moves({[u EXCEPT !.items = items] : u \in refused \cup {GoTo("submit-order")}})
  BY DEF SubmitPayment
<1>. DEFINE again == IF errors < PaymentRetries
                     THEN {GoTo("submit-payment")} \cup CartUnknown ELSE {GoTo("preload-atc")}
            refused == {[u EXCEPT !.payErrors = errors] : u \in again}
            ends == {[u EXCEPT !.items = items] : u \in refused \cup {GoTo("submit-order")}}
<1>. HIDE DEF again, refused, ends
<1>3. errors \in 0 .. PaymentRetries /\ items \in SUBSET Items
  <2>1. errors <= PaymentRetries
    BY <1>2
  <2>2. t.items \in SUBSET Items /\ t.payErrors \in 0 .. PaymentRetries
    BY <1>1 DEF Task
  <2>. QED
    BY <1>1, <2>1, <2>2, LimitAssumption
<1>4. /\ Harmless(GoTo("submit-payment")) /\ Harmless(GoTo("preload-atc"))
      /\ Harmless(GoTo("submit-order"))
  BY Going, StepNames DEF Harmless, Fits, CartSteps
<1>5. ASSUME NEW u, Harmless(u)
      PROVE  Harmless([u EXCEPT !.payErrors = errors]) /\ Harmless([u EXCEPT !.items = items])
  <2>0. u \in Task
    BY <1>5 DEF Harmless, Fits
  <2>1. /\ [u EXCEPT !.payErrors = errors] \in Task
        /\ [u EXCEPT !.items = items] \in Task
    BY <1>3, <2>0 DEF Task
  <2>. QED
    BY <1>5, <2>1 DEF Harmless, Fits, Task
<1>6. \A u \in again : Harmless(u)
  BY <1>4 DEF again
<1>7. \A u \in refused \cup {GoTo("submit-order")} : Harmless(u)
  BY <1>4, <1>5, <1>6 DEF refused
<1>8. \A u \in ends : Harmless(u)
  BY <1>5, <1>7 DEF ends
<1>9. Moves(ends)
  BY <1>2 DEF ends, refused, again
<1>10. t.step \notin Verifying /\ t.step # "stopped"
  BY <1>1 DEF Verifying
<1>. QED
  BY <1>8, <1>9, <1>10, MovesElsewhere

LEMMA CartUnknownHarmless == Inv => \A u \in CartUnknown : Harmless(u)
BY Going, SettingAfter, StepNames DEF CartUnknown, SignInSteps, CartSteps

LEMMA FillCartKeeps == Inv /\ FillCart => Inv'
<1>. SUFFICES ASSUME Inv, FillCart
              PROVE  Inv'
  OBVIOUS
<1>. USE DEF At
<1>0. PreloadItem \in Items /\ FillerItem \in Items /\ cart \subseteq Items
  BY DEF Items, Inv, TypeOK
<1>n. /\ \A s \in {"preload-atc", "prepare-checkout", "clear-cart", "atc-filler-item",
                  "wait-for-restock", "get-cart", "submit-payment", "refresh-login"} :
             s \in Elsewhere /\ s \in Afters /\ s # "add-to-cart" /\ s \notin Verifying
      /\ \A u \in CartUnknown : Harmless(u)
  BY StepNames, CartUnknownHarmless DEF SignInSteps, CartSteps, Verifying
<1>1. CASE Preload
  BY <1>0, <1>n, <1>1, AddingKeeps DEF Preload
<1>2. CASE PrepareCheckout
  <2>. DEFINE u == [GoTo("clear-cart") EXCEPT !.items = @ \cup cart]
  <2>1. t \in Task /\ t.items \cup cart \in SUBSET Items
    BY <1>0 DEF Inv, TypeOK, Task
  <2>2. u = [GoTo("clear-cart") EXCEPT !.items = t.items \cup cart]
    BY <2>1 DEF GoTo, GoesTo, Task
  <2>3. Harmless([GoTo("clear-cart") EXCEPT !.items = t.items \cup cart])
    BY <1>n, <2>1, SettingItems
  <2>4. Harmless(u)
    BY <2>2, <2>3
  <2>5. t.step = "prepare-checkout" /\ Moves({u})
    BY <1>2 DEF PrepareCheckout
  <2>. HIDE DEF u
  <2>. QED
    BY <1>n, <2>4, <2>5, MovesElsewhere
<1>3. CASE ClearCart
  BY <1>3, ClearCartKeeps
<1>4. CASE CartFiller
  BY <1>0, <1>n, <1>4, AddingKeeps DEF CartFiller
<1>5. CASE \E p \in Products : TakePing(p)
  BY <1>5, TakePingKeeps
<1>6. CASE WaitEdit
  <2>1. UNCHANGED <<config, t, hub, clock, cart, orders, reported>>
    BY <1>6 DEF WaitEdit, retailer
  <2>2. edits' \in 0 .. MaxEdits /\ watch' \in [Products -> Interests]
    BY <1>6, ListAssumption, BoundAssumption DEF WaitEdit, Inv, TypeOK
  <2>. QED
    BY <2>1, <2>2 DEF Inv, TypeOK, TaskFits, Verified, OrderInHand, Leftovers, NoneForgotten
<1>7. CASE WaitRefresh
  BY <1>n, <1>7, SettingAfter, MovesElsewhere DEF WaitRefresh
<1>8. CASE CartProduct
  BY <1>8, CartProductKeeps
<1>9. CASE BailFromCart
  <2>1. t.step \notin Verifying /\ t.step # "stopped"
    BY <1>9 DEF BailFromCart, Verifying
  <2>. QED
    BY <1>9, <2>1, BailIsHarmless, MovesElsewhere DEF BailFromCart
<1>10. CASE GetCart
  <2>1. Harmless([GoTo("submit-payment") EXCEPT !.items = cart])
    BY <1>0, <1>n, SettingItems
  <2>2. t.step = "get-cart"
        /\ Moves(CartUnknown \cup {[GoTo("submit-payment") EXCEPT !.items = cart]})
    BY <1>10 DEF GetCart
  <2>3. \A x \in CartUnknown \cup {[GoTo("submit-payment") EXCEPT !.items = cart]} : Harmless(x)
    BY <1>n, <2>1
  <2>. QED
    BY <1>n, <2>2, <2>3, MovesElsewhere
<1>11. CASE SubmitPayment
  BY <1>n, <1>11, SubmitPaymentKeeps
<1>. QED
  BY <1>1, <1>2, <1>3, <1>4, <1>5, <1>6, <1>7, <1>8, <1>9, <1>10, <1>11 DEF FillCart

\* A turn of the loop between the placement of an order and its report.
Carries(u) ==
  /\ Fits(u) /\ u.step \in Verifying /\ u.ref = t.ref /\ u.selected = t.selected
  /\ u.step \in {"get-orders", "cancel-filler", "checkout"} => u.ref # 0

LEMMA StaysWithOrder ==
  ASSUME Inv, t.step \in Verifying, NEW choices, Moves(choices), \A u \in choices : Carries(u)
  PROVE  Inv'
<1>1. \A u \in choices : Fits(u) /\ u.step \in CommittedSteps
  BY DEF Carries, Verifying, CommittedSteps
<1>2. /\ t' \in choices /\ UNCHANGED <<config, clock, hub, cart, orders, reported>>
      /\ edits' \in 0 .. MaxEdits /\ watch' \in [Products -> Interests]
  BY <1>1, EndsCommitted DEF Moves, retailer
<1>3. Carries(t')
  BY <1>2
<1>4. Fits(t') /\ t'.ref = t.ref /\ t'.selected = t.selected /\ t'.step \in Verifying
  BY <1>2 DEF Carries
<1>5. TypeOK'
  BY <1>2, <1>4 DEF Inv, TypeOK, Fits
<1>6. TaskFits'
  BY <1>4 DEF TaskFits, Fits
<1>7. Verified'
  BY <1>2, <1>3, <1>4 DEF Inv, Verified, OrderInHand, Leftovers, Carries
<1>8. NoneForgotten'
  BY <1>2, <1>4 DEF Inv, NoneForgotten, Verifying
<1>. QED
  BY <1>5, <1>6, <1>7, <1>8 DEF Inv

LEMMA Carrying ==
  ASSUME Inv, NEW s \in Verifying, s \in {"get-orders", "cancel-filler", "checkout"} => t.ref # 0
  PROVE  /\ Carries(GoTo(s))
         /\ \A b \in BOOLEAN, n \in 0 .. VerifyRetries :
              Carries([GoesTo([t EXCEPT !.attempts = n], s) EXCEPT !.checkout = b])
         /\ \A n \in 0 .. FillerRetries : Carries([GoTo(s) EXCEPT !.retries = n])
<1>1. Fits(t) /\ t \in Task
  BY TaskIsFit DEF Fits
<1>2. s \in Steps /\ s # "add-to-cart"
  BY DEF Verifying, Steps, CommittedSteps
<1>3. Carries(GoTo(s)) /\ GoTo(s) \in Task
  <2>1. GoTo(s) \in Task
    BY <1>1, <1>2 DEF GoTo, GoesTo, Task
  <2>. QED
    BY <1>1, <1>2, <2>1 DEF Carries, Fits, GoTo, GoesTo, Task
<1>4. ASSUME NEW b \in BOOLEAN, NEW n \in 0 .. VerifyRetries
      PROVE  Carries([GoesTo([t EXCEPT !.attempts = n], s) EXCEPT !.checkout = b])
  <2>. DEFINE v == [t EXCEPT !.attempts = n]
              u == [GoesTo(v, s) EXCEPT !.checkout = b]
  <2>1. v \in Task
    BY <1>1 DEF Task
  <2>2. GoesTo(v, s) \in Task
    BY <1>2, <2>1 DEF GoesTo, Task
  <2>3. u \in Task
    BY <2>2 DEF Task
  <2>4. /\ u.step = s /\ u.after = t.after /\ u.selected = t.selected /\ u.ref = t.ref
        /\ u.pingAt = t.pingAt /\ u.since = t.since
    BY <1>1 DEF GoesTo, Task
  <2>. HIDE DEF u
  <2>5. u.pingAt <= clock /\ u.since <= clock /\ u.after \in Afters
        /\ (u.after = "add-to-cart" => u.selected \in Products)
    BY <1>1, <2>4 DEF Fits
  <2>6. Fits(u)
    BY <1>2, <2>3, <2>4, <2>5 DEF Fits
  <2>7. Carries(u)
    BY <2>4, <2>6 DEF Carries
  <2>. QED
    BY <2>7 DEF u
<1>5. ASSUME NEW n \in 0 .. FillerRetries
      PROVE  Carries([GoTo(s) EXCEPT !.retries = n])
  <2>1. [GoTo(s) EXCEPT !.retries = n] \in Task
    BY <1>3 DEF Task
  <2>. QED
    BY <1>3, <2>1 DEF Carries, Fits, Task
<1>. QED
  BY <1>3, <1>4, <1>5

LEMMA RetryCarries == Inv /\ t.ref # 0 => Carries(FillerRetry)
<1>. SUFFICES ASSUME Inv, t.ref # 0
              PROVE  Carries(FillerRetry)
  OBVIOUS
<1>. DEFINE n == IF t.retries < FillerRetries THEN t.retries + 1 ELSE t.retries
            s == IF t.retries + 1 >= FillerRetries THEN "checkout" ELSE "get-orders"
<1>1. t \in Task /\ t.retries \in 0 .. FillerRetries
  BY DEF Inv, TypeOK, Task
<1>2. n \in 0 .. FillerRetries /\ s \in Verifying
  BY <1>1, LimitAssumption DEF Verifying
<1>3. FillerRetry = [GoTo(s) EXCEPT !.retries = n]
  BY <1>1 DEF FillerRetry, GoTo, GoesTo, Task
<1>. HIDE DEF n, s
<1>. QED
  BY <1>2, <1>3, Carrying

LEMMA ConfirmedCarry ==
  ASSUME Inv, t.ref # 0, NEW n \in 0 .. VerifyRetries
  PROVE  \A u \in Confirmed([t EXCEPT !.attempts = n]) : Carries(u)
BY Carrying DEF Confirmed, Verifying

LEMMA NextRoundHarmless == Inv => Harmless(NextRound)
<1>. SUFFICES ASSUME Inv
              PROVE  Harmless(NextRound)
  OBVIOUS
<1>1. Harmless(GoTo("preload-atc")) /\ Harmless(GoTo("stop"))
  BY Going, StepNames DEF CartSteps
<1>2. Harmless([resetCheckoutState(GoTo("preload-atc")) EXCEPT !.carted = FALSE])
  BY <1>1, Resetting
<1>3. Harmless([GoTo("stop") EXCEPT !.carted = FALSE])
  <2>1. GoTo("stop") \in Task
    BY <1>1 DEF Harmless, Fits
  <2>2. [GoTo("stop") EXCEPT !.carted = FALSE] \in Task
    BY <2>1 DEF Task
  <2>. QED
    BY <1>1, <2>1, <2>2 DEF Harmless, Fits, Task
<1>. QED
  BY <1>2, <1>3 DEF NextRound

LEMMA OrderKnown ==
  Inv => /\ orders \in Seq(Order) /\ Len(orders) \in Nat /\ t \in Task /\ Fits(t)
         /\ t.ref \in Nat /\ t.ref <= Len(orders)
         /\ (t.ref # 0 => t.ref \in 1 .. Len(orders))
<1>. SUFFICES ASSUME Inv
              PROVE  /\ orders \in Seq(Order) /\ Len(orders) \in Nat /\ t \in Task /\ Fits(t)
                     /\ t.ref \in Nat /\ t.ref <= Len(orders)
                     /\ (t.ref # 0 => t.ref \in 1 .. Len(orders))
  OBVIOUS
<1>1. orders \in Seq(Order) /\ t \in Task /\ t.ref <= Len(orders)
  BY DEF Inv, TypeOK
<1>2. t.ref \in 0 .. MaxOrders
  BY <1>1 DEF Task
<1>3. t.ref \in Nat
  BY <1>2, BoundAssumption
<1>4. Len(orders) \in Nat
  BY <1>1, LenProperties
<1>5. t.ref # 0 => t.ref \in 1 .. Len(orders)
  BY <1>1, <1>3, <1>4
<1>. QED
  BY <1>1, <1>3, <1>4, <1>5, TaskIsFit

\* The retailer takes the order: it is the task's, or the task has not been told.
LEMMA SubmitKeeps == Inv /\ SubmitOrder => Inv'
<1>. SUFFICES ASSUME Inv, SubmitOrder
              PROVE  Inv'
  OBVIOUS
<1>1. /\ t.step = "submit-order" /\ t.step \notin Verifying /\ t.step # "stopped"
      /\ t.step \in Elsewhere /\ t.step \in CommittedSteps /\ UNCHANGED <<hub, reported>>
  BY StepNames DEF SubmitOrder, At, Verifying, CommittedSteps
<1>2. Harmless(t) /\ Fits(t) /\ t \in Task
  BY <1>1, StayHarmless DEF Harmless, Fits
<1>3. /\ orders \in Seq(Order) /\ Len(orders) \in Nat /\ cart \subseteq Items
      /\ reported \subseteq 1 .. Len(orders) /\ t.ref <= Len(orders) /\ t.ref \in Nat
      /\ hub \in [Products -> 0 .. clock]
  <2>1. orders \in Seq(Order) /\ Len(orders) \in Nat /\ t.ref <= Len(orders) /\ t.ref \in Nat
    BY OrderKnown
  <2>. QED
    BY <2>1 DEF Inv, TypeOK
<1>4. ASSUME NEW fate \in {"open", "lost"}, Place(fate)
      PROVE  /\ orders' \in Seq(Order) /\ Len(orders') = Len(orders) + 1
             /\ Len(orders') \in 1 .. MaxOrders /\ cart' = {}
             /\ \A i \in 1 .. Len(orders) : orders'[i] = orders[i]
             /\ orders'[Len(orders')].product = t.selected
             /\ orders'[Len(orders')].fate = fate
  <2>. DEFINE o == [items |-> cart, product |-> t.selected, fate |-> fate]
  <2>1. o \in Order /\ o.product = t.selected /\ o.fate = fate
    BY <1>2, <1>3 DEF Order, Task
  <2>. HIDE DEF o
  <2>2. orders' = Append(orders, o) /\ cart' = {} /\ Len(orders) < MaxOrders
    BY <1>4 DEF Place, o
  <2>. QED
    BY <1>3, <2>1, <2>2, AppendProperties, BoundAssumption
<1>5. CASE Place("open")
           /\ Ends({[GoTo("wait-to-check") 
                      EXCEPT !.ref = IF IsRealOrder THEN Len(orders) + 1 ELSE @]})
  <2>. DEFINE n == IF IsRealOrder THEN Len(orders) + 1 ELSE t.ref
              u == [GoTo("wait-to-check") EXCEPT !.ref = n]
  <2>1. /\ "wait-to-check" \in Steps /\ "wait-to-check" \in CommittedSteps
        /\ "wait-to-check" \in Verifying
    BY DEF Steps, CommittedSteps, Verifying
  <2>2. n \in 0 .. MaxOrders /\ n <= Len(orders) + 1 /\ (~IsRealOrder => n <= Len(orders))
        /\ (IsRealOrder => n = Len(orders) + 1)
    BY <1>3, <1>4, <1>5, BoundAssumption
  <2>3. Ends({u})
    BY <1>2, <1>5 DEF GoTo, GoesTo, Task
  <2>. HIDE DEF n
  <2>4. GoTo("wait-to-check") \in Task
    BY <1>2, <2>1 DEF GoTo, GoesTo, Task
  <2>5. u \in Task
    BY <2>2, <2>4 DEF Task
  <2>6. /\ u.step = "wait-to-check" /\ u.after = t.after /\ u.selected = t.selected /\ u.ref = n
        /\ u.pingAt = t.pingAt /\ u.since = t.since
    BY <1>2 DEF GoTo, GoesTo, Task
  <2>. HIDE DEF u
  <2>7. Fits(u)
    BY <1>2, <2>5, <2>6 DEF Fits
  <2>8. /\ t' = u /\ config' = config /\ clock' = clock /\ edits' \in 0 .. MaxEdits
        /\ watch' \in [Products -> Interests]
    BY <2>1, <2>3, <2>6, <2>7, EndsCommitted
  <2>9. TypeOK'
    <3>1. t' \in Task /\ t'.ref <= Len(orders') /\ t'.pingAt <= clock' /\ t'.since <= clock'
      BY <1>3, <1>4, <1>5, <2>2, <2>6, <2>7, <2>8 DEF Fits
    <3>2. orders' \in Seq(Order) /\ Len(orders') <= MaxOrders /\ cart' \subseteq Items
      BY <1>4, <1>5, BoundAssumption
    <3>3. reported' \subseteq 1 .. Len(orders')
      BY <1>1, <1>3, <1>4, <1>5
    <3>. QED
      BY <1>1, <2>8, <3>1, <3>2, <3>3 DEF Inv, TypeOK
  <2>10. TaskFits'
    BY <2>6, <2>7, <2>8 DEF TaskFits, Fits
  <2>11. Verified'
    <3>1. CASE IsRealOrder
      BY <1>1, <1>3, <1>4, <1>5, <2>2, <2>6, <2>8, <3>1 DEF Verified, OrderInHand
    <3>2. CASE ~IsRealOrder
      BY <1>3, <1>4, <1>5, <2>2, <2>6, <2>8, <3>2 DEF Verified, Leftovers, IsRealOrder
    <3>. QED
      BY <3>1, <3>2
  <2>12. NoneForgotten'
    <3>. SUFFICES ASSUME ~config.filler, NEW i \in 1 .. Len(orders'), orders'[i].fate = "open"
                  PROVE  i \in reported' \/ (i = t'.ref /\ t'.step \in Verifying)
      BY <2>8 DEF NoneForgotten
    <3>1. CASE i = Len(orders) + 1
      BY <2>1, <2>2, <2>6, <2>8, <3>1 DEF IsRealOrder
    <3>2. CASE i \in 1 .. Len(orders)
      BY <1>1, <1>4, <1>5, <3>2 DEF Inv, NoneForgotten
    <3>. QED
      BY <1>3, <1>4, <1>5, <3>1, <3>2
  <2>. QED
    BY <2>9, <2>10, <2>11, <2>12 DEF Inv
<1>6. CASE Place("lost") /\ Ends({t})
  <2>1. /\ t' = t /\ config' = config /\ clock' = clock /\ edits' \in 0 .. MaxEdits
        /\ watch' \in [Products -> Interests]
    BY <1>1, <1>2, <1>6, EndsCommitted
  <2>2. TypeOK'
    <3>1. orders' \in Seq(Order) /\ Len(orders') <= MaxOrders /\ cart' \subseteq Items
          /\ t'.ref <= Len(orders')
      BY <1>3, <1>4, <1>6, <2>1, BoundAssumption
    <3>2. reported' \subseteq 1 .. Len(orders')
      BY <1>1, <1>3, <1>4, <1>6
    <3>. QED
      BY <1>1, <2>1, <3>1, <3>2 DEF Inv, TypeOK
  <2>3. TaskFits' /\ Verified'
    BY <1>1, <2>1 DEF Inv, TaskFits, Verified, Verifying
  <2>4. NoneForgotten'
    <3>. SUFFICES ASSUME ~config.filler, NEW i \in 1 .. Len(orders'), orders'[i].fate = "open"
                  PROVE  i \in reported'
      BY <2>1 DEF NoneForgotten
    <3>1. i \in 1 .. Len(orders)
      BY <1>3, <1>4, <1>6
    <3>. QED
      BY <1>1, <1>4, <1>6, <3>1 DEF Inv, NoneForgotten
  <2>. QED
    BY <2>2, <2>3, <2>4 DEF Inv
<1>7. CASE UNCHANGED retailer /\ Ends({GoTo("decline"), GoTo("oos-check-cart")})
  BY <1>1, <1>3, <1>7, Going, StepNames, Unrelated DEF retailer
<1>. QED
  BY <1>5, <1>6, <1>7 DEF SubmitOrder

\* The retailer says what has become of the order.
LEMMA CheckKeeps == Inv /\ CheckOrder => Inv'
<1>. SUFFICES ASSUME Inv, CheckOrder
              PROVE  Inv'
  OBVIOUS
<1>1. /\ t.step = "check-order" /\ t.step \in Verifying /\ t.ref # 0
      /\ UNCHANGED <<hub, cart, reported>>
  BY DEF CheckOrder, At, Verifying
<1>2. PICK fate \in {"good", "bad"} :
        /\ orders[t.ref].fate \in {"open", fate}
        /\ orders' = [orders EXCEPT ![t.ref].fate = fate]
        /\ Ends(IF fate = "good"
                  THEN Confirmed([t EXCEPT !.attempts = 0])
                  ELSE {[GoesTo([t EXCEPT !.attempts = 0], "decline") EXCEPT !.checkout = FALSE]})
  BY DEF CheckOrder
<1>3. t \in Task /\ Fits(t) /\ t.ref \in 1 .. Len(orders) /\ orders \in Seq(Order)
      /\ 0 \in 0 .. VerifyRetries
  BY <1>1, LimitAssumption, OrderKnown
<1>4. /\ orders' \in Seq(Order) /\ Len(orders') = Len(orders)
      /\ \A i \in 1 .. Len(orders) : orders'[i].product = orders[i].product
                                     /\ (i # t.ref => orders'[i].fate = orders[i].fate)
      /\ orders'[t.ref].fate = fate
  <2>. DEFINE o == [orders[t.ref] EXCEPT !.fate = fate]
  <2>1. orders[t.ref] \in Order
    BY <1>3, ElementOfSeq
  <2>2. o \in Order /\ o.fate = fate /\ o.product = orders[t.ref].product
    BY <2>1 DEF Order
  <2>. HIDE DEF o
  <2>3. orders' = [orders EXCEPT ![t.ref] = o]
    BY <1>2 DEF o
  <2>. QED
    BY <1>3, <2>2, <2>3, ExceptSeq
<1>5. CASE fate = "good"
  <2>1. \A u \in Confirmed([t EXCEPT !.attempts = 0]) : Carries(u)
    BY <1>1, <1>3, ConfirmedCarry
  <2>2. \A u \in Confirmed([t EXCEPT !.attempts = 0]) : Fits(u) /\ u.step \in CommittedSteps
    BY <2>1 DEF Carries, Verifying, CommittedSteps
  <2>3. Ends(Confirmed([t EXCEPT !.attempts = 0]))
    BY <1>2, <1>5
  <2>4. /\ Carries(t') /\ config' = config /\ clock' = clock
        /\ edits' \in 0 .. MaxEdits /\ watch' \in [Products -> Interests]
    BY <2>1, <2>2, <2>3, EndsCommitted
  <2>5. Fits(t') /\ t'.ref = t.ref /\ t'.selected = t.selected /\ t'.step \in Verifying
    BY <2>4 DEF Carries
  <2>6. TypeOK'
    BY <1>1, <1>4, <2>4, <2>5 DEF Inv, TypeOK, Fits
  <2>7. TaskFits'
    BY <2>5 DEF TaskFits, Fits
  <2>8. Verified'
    BY <1>1, <1>3, <1>4, <1>5, <2>4, <2>5 DEF Inv, Verified, OrderInHand, Leftovers
  <2>9. NoneForgotten'
    BY <1>1, <1>4, <1>5, <2>4, <2>5 DEF Inv, NoneForgotten
  <2>. QED
    BY <2>6, <2>7, <2>8, <2>9 DEF Inv
<1>6. CASE fate = "bad"
  <2>. DEFINE v == [t EXCEPT !.attempts = 0]
              u == [GoesTo(v, "decline") EXCEPT !.checkout = FALSE]
  <2>1. v \in Task /\ "decline" \in Steps /\ "decline" \in Elsewhere
    BY <1>3, StepNames DEF Task, Elsewhere
  <2>2. u \in Task
    <3>1. GoesTo(v, "decline") \in Task
      BY <2>1 DEF GoesTo, Task
    <3>. QED
      BY <3>1 DEF Task
  <2>3. /\ u.step = "decline" /\ u.after = t.after /\ u.selected = t.selected /\ u.ref = t.ref
        /\ u.pingAt = t.pingAt /\ u.since = t.since
    BY <1>3 DEF GoesTo, Task
  <2>4. Ends({u})
    BY <1>2, <1>6
  <2>. HIDE DEF u
  <2>5. Harmless(u)
    BY <1>3, <2>1, <2>2, <2>3 DEF Harmless, Fits
  <2>6. /\ Fits(t') /\ t'.ref = t.ref /\ t'.step \in Elsewhere
        /\ config' = config /\ clock' = clock /\ edits' \in 0 .. MaxEdits
        /\ watch' \in [Products -> Interests]
    BY <2>4, <2>5, EndsElsewhere
  <2>7. TypeOK'
    BY <1>1, <1>4, <2>6 DEF Inv, TypeOK, Fits
  <2>8. TaskFits' /\ Verified'
    BY <2>6 DEF TaskFits, Fits, Verified, Elsewhere, Verifying
  <2>9. NoneForgotten'
    BY <1>1, <1>4, <1>6, <2>6 DEF Inv, NoneForgotten
  <2>. QED
    BY <2>7, <2>8, <2>9 DEF Inv
<1>. QED
  BY <1>5, <1>6

LEMMA CheckoutKeeps == Inv /\ Checkout => Inv'
<1>. SUFFICES ASSUME Inv, Checkout
              PROVE  Inv'
  OBVIOUS
<1>1. /\ t.step = "checkout" /\ t.step \in Verifying /\ t.ref # 0
      /\ UNCHANGED <<hub, cart, orders>> /\ reported' = reported \cup {t.ref}
      /\ Ends({NextRound})
  BY DEF Checkout, At, Verifying, Inv, Verified, retailer
<1>2. /\ Fits(t') /\ t'.ref = t.ref /\ t'.step \in Elsewhere
      /\ config' = config /\ clock' = clock /\ edits' \in 0 .. MaxEdits
      /\ watch' \in [Products -> Interests]
  BY <1>1, NextRoundHarmless, EndsElsewhere
<1>3. t.ref \in 1 .. Len(orders)
  BY <1>1, OrderKnown
<1>4. TypeOK'
  BY <1>1, <1>2, <1>3 DEF Inv, TypeOK, Fits
<1>5. TaskFits' /\ Verified'
  BY <1>2 DEF TaskFits, Fits, Verified, Elsewhere, Verifying
<1>6. NoneForgotten'
  BY <1>1, <1>2 DEF Inv, NoneForgotten
<1>. QED
  BY <1>4, <1>5, <1>6 DEF Inv

LEMMA PlaceOrderKeeps == Inv /\ PlaceOrder => Inv'
<1>. SUFFICES ASSUME Inv, PlaceOrder
              PROVE  Inv'
  OBVIOUS
<1>. USE DEF At
<1>0. cart \subseteq Items /\ Marked \in [Products -> 0 .. clock]
      /\ \A u \in CartUnknown : Harmless(u)
  BY MarkedFits, CartUnknownHarmless DEF Inv, TypeOK
<1>n. \A s \in {"submit-order", "oos-check-cart", "remove-payment", "decline"} :
         s \in Elsewhere /\ s # "add-to-cart" /\ s \notin Verifying
  BY StepNames DEF Verifying
<1>1. CASE SubmitOrder
  BY <1>1, SubmitKeeps
<1>2. CASE CheckCart
  <2>. DEFINE gone == Cardinality(cart) <= IF config.filler THEN 1 ELSE 0
              s == IF gone THEN "remove-payment" ELSE "submit-order"
              u == [GoTo(s) EXCEPT !.items = cart]
  <2>1. t.step = "oos-check-cart" /\ Moves({u} \cup CartUnknown)
    BY <1>2 DEF CheckCart
  <2>2. s \in Elsewhere /\ s # "add-to-cart"
    BY <1>n
  <2>. HIDE DEF s
  <2>3. Harmless(u)
    BY <1>0, <2>2, SettingItems
  <2>. HIDE DEF u
  <2>4. \A x \in {u} \cup CartUnknown : Harmless(x)
    BY <1>0, <2>3
  <2>5. t.step \notin Verifying /\ t.step # "stopped"
    BY <1>n, <2>1
  <2>. QED
    BY <2>1, <2>4, <2>5, MovesElsewhere
<1>3. ASSUME bailToRestock, t.step # "stopped", t.step \in Verifying => t.ref = 0
      PROVE  Inv'
  BY <1>0, <1>3, BailIsHarmless, Unrelated DEF bailToRestock, retailer
<1>4. CASE RemovePayment
  BY <1>n, <1>3, <1>4 DEF RemovePayment
<1>5. CASE CheckOrderMissing
  BY <1>3, <1>5 DEF CheckOrderMissing
<1>6. CASE WaitToCheck
  <2>1. Carries(GoTo("check-order"))
    BY Carrying DEF Verifying
  <2>. QED
    BY <1>6, <2>1, StaysWithOrder DEF WaitToCheck, Verifying
<1>7. CASE CheckOrder
  BY <1>7, CheckKeeps
<1>8. CASE CheckOrderFails
  <2>1. t.step = "check-order" /\ t.step \in Verifying
    BY <1>8 DEF CheckOrderFails, Verifying
  <2>2. CASE t.ref # 0 /\ t.attempts + 1 >= VerifyRetries
    <3>1. VerifyRetries \in 0 .. VerifyRetries
      BY LimitAssumption
    <3>2. Moves(Confirmed([t EXCEPT !.attempts = VerifyRetries]))
      BY <1>8, <2>2 DEF CheckOrderFails
    <3>. QED
      BY <2>1, <2>2, <3>1, <3>2, ConfirmedCarry, StaysWithOrder
  <2>3. CASE ~(t.ref # 0 /\ t.attempts + 1 >= VerifyRetries)
    <3>. DEFINE n == IF t.ref # 0 THEN t.attempts + 1 ELSE t.attempts
                u == [t EXCEPT !.attempts = n]
    <3>1. t \in Task /\ t.attempts \in 0 .. VerifyRetries
      BY OrderKnown DEF Task
    <3>2. n \in 0 .. VerifyRetries
      BY <2>3, <3>1, LimitAssumption
    <3>3. Moves({u})
      BY <1>8, <2>3, <3>1 DEF CheckOrderFails, Task
    <3>. HIDE DEF n
    <3>4. u \in Task
      BY <3>1, <3>2 DEF Task
    <3>5. /\ u.step = t.step /\ u.after = t.after /\ u.selected = t.selected /\ u.ref = t.ref
          /\ u.pingAt = t.pingAt /\ u.since = t.since
      BY <3>1 DEF Task
    <3>. HIDE DEF u
    <3>6. Carries(u)
      BY <2>1, <3>4, <3>5, TaskIsFit DEF Carries, Fits
    <3>. QED
      BY <2>1, <3>3, <3>6, StaysWithOrder
  <2>. QED
    BY <2>2, <2>3
<1>9. CASE GetOrders
  <2>1. t.step = "get-orders" /\ t.step \in Verifying /\ t.ref # 0
        /\ Moves({GoTo("cancel-filler"), GoTo("checkout"), FillerRetry})
    BY <1>9 DEF GetOrders, Verifying, Inv, Verified
  <2>2. Carries(GoTo("cancel-filler")) /\ Carries(GoTo("checkout")) /\ Carries(FillerRetry)
    BY <2>1, Carrying, RetryCarries DEF Verifying
  <2>. QED
    BY <2>1, <2>2, StaysWithOrder
<1>10. CASE CancelFiller
  <2>1. t.step = "cancel-filler" /\ t.step \in Verifying /\ t.ref # 0
        /\ Moves({GoTo("checkout"), FillerRetry})
    BY <1>10 DEF CancelFiller, Verifying, Inv, Verified
  <2>2. Carries(GoTo("checkout")) /\ Carries(FillerRetry)
    BY <2>1, Carrying, RetryCarries DEF Verifying
  <2>. QED
    BY <2>1, <2>2, StaysWithOrder
<1>11. CASE Checkout
  BY <1>11, CheckoutKeeps
<1>12. CASE Decline
  <2>1. t.step = "decline" /\ Moves({NextRound})
    BY <1>12 DEF Decline
  <2>. QED
    BY <1>n, <2>1, NextRoundHarmless, MovesElsewhere
<1>. QED
  BY <1>1, <1>2, <1>4, <1>5, <1>6, <1>7, <1>8, <1>9, <1>10, <1>11, <1>12 DEF PlaceOrder

LEMMA AgainKeeps == Inv /\ Again => Inv'
<1>. SUFFICES ASSUME Inv, Again
              PROVE  Inv'
  OBVIOUS
<1>1. Moves({t}) /\ t.step # "stopped"
  BY DEF Again, SignInSteps, CartSteps
<1>2. CASE t.step \in {"get-orders", "cancel-filler"}
  <2>1. Carries(t) /\ t.step \in Verifying
    BY <1>2, TaskIsFit DEF Carries, Verifying, Inv, Verified
  <2>. QED
    BY <1>1, <2>1, StaysWithOrder
<1>3. CASE t.step \notin {"get-orders", "cancel-filler"}
  <2>1. t.step \in Elsewhere
    BY <1>3, StepNames DEF Again
  <2>. QED
    BY <1>1, <2>1, StayHarmless, MovesElsewhere DEF Elsewhere
<1>. QED
  BY <1>2, <1>3

LEMMA StopKeeps == Inv /\ Stop => Inv'
<1>. SUFFICES ASSUME Inv, Stop
              PROVE  Inv'
  OBVIOUS
<1>1. /\ t' = GoTo("stopped")
      /\ UNCHANGED <<config, watch, edits, hub, clock, cart, orders, reported>>
  BY DEF Stop, Stopped, retailer
<1>2. Harmless(t')
  BY <1>1, Going, StepNames
<1>3. Fits(t') /\ t'.ref = t.ref /\ t'.step = "stopped"
  <2>1. t'.step = "stopped"
    BY <1>1, OrderKnown DEF GoTo, GoesTo, Task
  <2>. QED
    BY <1>2, <2>1 DEF Harmless
<1>4. TypeOK'
  BY <1>1, <1>3 DEF Inv, TypeOK, Fits
<1>5. TaskFits' /\ Verified' /\ NoneForgotten'
  BY <1>1, <1>3 DEF TaskFits, Fits, Verified, Verifying, NoneForgotten
<1>. QED
  BY <1>4, <1>5 DEF Inv

\* Nothing but the hub, its clock and the cart changes.
LEMMA AroundKeeps ==
  ASSUME Inv, UNCHANGED <<config, t, watch, edits, orders, reported>>,
         clock' \in clock .. MaxClock, hub' \in [Products -> 0 .. clock'], cart' \subseteq Items
  PROVE  Inv'
<1>1. clock \in Nat /\ clock' \in 0 .. MaxClock /\ clock <= clock'
  BY BoundAssumption DEF Inv, TypeOK
<1>2. t.pingAt \in Nat /\ t.since \in Nat /\ t.pingAt <= clock /\ t.since <= clock
  <2>1. t \in Task /\ t.pingAt <= clock /\ t.since <= clock
    BY DEF Inv, TypeOK
  <2>2. t.pingAt \in 0 .. MaxClock /\ t.since \in 0 .. MaxClock
    BY <2>1 DEF Task
  <2>. QED
    BY <2>1, <2>2, BoundAssumption
<1>3. t.pingAt <= clock' /\ t.since <= clock'
  BY <1>1, <1>2
<1>4. TypeOK'
  BY <1>1, <1>3 DEF Inv, TypeOK
<1>. QED
  BY <1>4 DEF Inv, TaskFits, Verified, OrderInHand, Leftovers, NoneForgotten

LEMMA WorldKeeps == Inv /\ World => Inv'
<1>. SUFFICES ASSUME Inv, NEW p \in Products, Publish(p) \/ PublishOut(p) \/ SoldOut(p)
              PROVE  Inv'
  BY DEF World
<1>1. clock \in 0 .. MaxClock /\ MaxClock \in Nat /\ cart \subseteq Items
      /\ hub \in [Products -> 0 .. clock]
  BY BoundAssumption DEF Inv, TypeOK
<1>2. clock \in clock .. MaxClock
  BY <1>1
<1>3. CASE Publish(p)
  <2>1. PICK at \in {clock, clock + 1} \cap 1 .. MaxClock :
          /\ clock' = at /\ hub' = [hub EXCEPT ![p] = at]
          /\ UNCHANGED <<config, t, watch, edits, cart, orders, reported>>
    BY <1>3 DEF Publish, retailer
  <2>2. clock' \in clock .. MaxClock /\ 0 .. clock \subseteq 0 .. clock' /\ at \in 0 .. clock'
    BY <1>1, <2>1
  <2>3. hub' \in [Products -> 0 .. clock']
    BY <1>1, <2>1, <2>2
  <2>. QED
    BY <1>1, <2>1, <2>2, <2>3, AroundKeeps
<1>4. CASE PublishOut(p)
  <2>1. /\ hub' = [hub EXCEPT ![p] = 0]
        /\ UNCHANGED <<config, t, watch, edits, clock, cart, orders, reported>>
    BY <1>4 DEF PublishOut, retailer
  <2>2. 0 \in 0 .. clock
    BY <1>1
  <2>. QED
    BY <1>1, <1>2, <2>1, <2>2, AroundKeeps
<1>5. CASE SoldOut(p)
  BY <1>1, <1>2, <1>5, AroundKeeps DEF SoldOut
<1>. QED
  BY <1>3, <1>4, <1>5

-----------------------------------------------------------------------------
(* The theorems *)

LEMMA StartInv == Init => Inv
<1>. SUFFICES ASSUME Init
              PROVE  Inv
  OBVIOUS
<1>. DEFINE t0 == [step |-> "get-session", after |-> "", selected |-> None,
                   pingAt |-> 0, since |-> 0, carted |-> FALSE, items |-> {}, checkout |-> FALSE,
                   ref |-> 0, attempts |-> 0, payErrors |-> 0, refreshes |-> 0, retries |-> 0]
<1>1. t = t0
  BY DEF Init
<1>2. "get-session" \in Steps /\ "get-session" \notin Verifying
  BY DEF Steps, SignInSteps, Verifying
<1>3. 0 \in 0 .. MaxClock /\ 0 \in 0 .. MaxOrders /\ 0 \in 0 .. VerifyRetries
      /\ 0 \in 0 .. PaymentRetries /\ 0 \in 0 .. SessionRetries /\ 0 \in 0 .. FillerRetries
      /\ 0 \in 0 .. MaxEdits
  BY LimitAssumption, BoundAssumption
<1>4. t \in Task
  BY <1>1, <1>2, <1>3 DEF Task
<1>5. t.step = "get-session" /\ t.after = "" /\ t.ref = 0 /\ t.pingAt = 0 /\ t.since = 0
  BY <1>1
<1>6. /\ orders = <<>> /\ orders \in Seq(Order) /\ Len(orders) = 0 /\ reported = {} /\ cart = {}
      /\ hub = [p \in Products |-> 0] /\ clock = 0 /\ edits = 0
      /\ watch \in [Products -> Interests] /\ config \in Configs
  BY EmptySeq, ListAssumption DEF Init
<1>. HIDE DEF t0
<1>7. TypeOK
  <2>1. Len(orders) <= MaxOrders /\ t.ref <= Len(orders) /\ t.pingAt <= clock /\ t.since <= clock
    <3>1. Len(orders) = 0 /\ t.ref = 0 /\ t.pingAt = 0 /\ t.since = 0 /\ clock = 0
      BY <1>5, <1>6
    <3>. QED
      BY <3>1, BoundAssumption
  <2>2. hub \in [Products -> 0 .. clock]
    BY <1>6
  <2>. QED
    BY <1>3, <1>4, <1>6, <2>1, <2>2 DEF TypeOK
<1>8. TaskFits
  BY <1>5 DEF TaskFits, Afters
<1>9. Verified
  BY <1>2, <1>5 DEF Verified, Verifying
<1>10. NoneForgotten
  BY <1>6 DEF NoneForgotten
<1>. QED
  BY <1>7, <1>8, <1>9, <1>10 DEF Inv

LEMMA StepInv == Inv /\ [Next]_vars => Inv'
<1>. SUFFICES ASSUME Inv, [Next]_vars
              PROVE  Inv'
  OBVIOUS
<1>1. CASE UNCHANGED vars
  BY <1>1 DEF vars, retailer, Inv, TypeOK, TaskFits, Verified, OrderInHand, Leftovers,
              NoneForgotten
<1>. QED
  BY <1>1, AgainKeeps, StopKeeps, SignInKeeps, FillCartKeeps, PlaceOrderKeeps, WorldKeeps DEF Next

LEMMA Invariance == Spec => []Inv
BY StartInv, StepInv, PTL DEF Spec

\* The task, the hub and the retailer stay in the states the code provides for.
THEOREM TypeCorrect == Spec => []TypeOK
<1>1. Inv => TypeOK
  BY DEF Inv
<1>. QED
  BY <1>1, Invariance, PTL

\* A success that is reported names an order placed for the product of the report, which was
\* not declined and not reported before, whatever answers, edits and restocks come in
\* between (an order of leftovers beside a filler excepted).
THEOREM NamesOrder == Spec => ReportNamesOrder
<1>. DEFINE Named == At("checkout") /\ t'.step # "stopped" =>
                       /\ t.ref # 0
                       /\ \/ /\ orders[t.ref].product = t.selected /\ t.ref \notin reported
                             /\ orders[t.ref].fate \in {"open", "good"}
                          \/ config.filler /\ t.ref # Len(orders)
<1>1. Inv => Named
  <2>1. ASSUME Inv, At("checkout")
        PROVE  t.ref # 0 /\ (OrderInHand \/ Leftovers)
    BY <2>1 DEF Inv, Verified, Verifying, At
  <2>2. Inv /\ Leftovers => config.filler /\ t.ref # Len(orders)
    BY OrderKnown DEF Leftovers
  <2>. QED
    BY <2>1, <2>2 DEF OrderInHand
<1>. HIDE DEF Named
<1>2. Spec => [][Named]_vars
  BY <1>1, Invariance, PTL
<1>. QED
  BY <1>2 DEF ReportNamesOrder, Named

\* Without a filler item, a decline says the truth: every order of the product that may still
\* come has been reported as a success.
THEOREM DeclinesAreTrue ==
  ASSUME \A c \in Configs : ~c.filler
  PROVE  Spec => []DeclineIsTrue
<1>1. Inv => DeclineIsTrue
  BY DEF Inv, TypeOK, NoneForgotten, DeclineIsTrue, At, Verifying
<1>. QED
  BY <1>1, Invariance, PTL

-----------------------------------------------------------------------------
(* Abandoned products *)

\* The task never gives up a product it has selected for another one.
Keeps == t.selected # None => t'.selected # None
NeverAbandons == [][Keeps]_vars

\* Whoever clears the cart knows all that is in it; a product that is carted is selected.
CartKnown ==
  /\ At("clear-cart") => cart \subseteq t.items
  /\ t.carted => t.selected # None
  /\ t.after # "clear-cart"

\* A state of the task before the head of the loop that has to do with no clearing.
Plain(u) ==
  /\ DOMAIN u = DOMAIN t /\ u.selected = t.selected /\ (u.carted => t.carted)
  /\ u.step # "clear-cart" /\ u.after # "clear-cart"

\* Without abandoned products the head of the loop does not change the task.
LEMMA HeadKeeps ==
  ASSUME Inv, Keeps, NEW choices, Ends(choices),
         \A u \in choices : DOMAIN u = DOMAIN t /\ u.selected = t.selected
  PROVE  t' \in choices /\ config' = config
<1>1. PICK u \in choices : t' = HeadOfLoop(u, watch', hub')
  BY DEF Ends
<1>2. ASSUME u.selected # None, t' = Abandoned(u)
      PROVE  FALSE
  <2>1. t'.selected = None
    <3>1. "selected" \in DOMAIN t
      BY DEF Inv, TypeOK, Task
    <3>2. "selected" \in DOMAIN u
      BY <3>1
    <3>. QED
      BY <1>2, <3>2 DEF Abandoned
  <2>. QED
    BY <1>1, <1>2, <2>1 DEF Keeps
<1>3. t' = u
  BY <1>1, <1>2 DEF HeadOfLoop, shouldAbandonSelected, shouldPivotToPriority
<1>. QED
  BY <1>1, <1>3 DEF Ends

LEMMA PlainKeeps ==
  ASSUME Inv, CartKnown, Keeps, NEW choices, Ends(choices), \A u \in choices : Plain(u)
  PROVE  CartKnown'
<1>1. t' \in choices
  BY HeadKeeps DEF Plain
<1>. QED
  BY <1>1 DEF Plain, CartKnown, At

LEMMA PlainSteps ==
  ASSUME Inv, CartKnown
  PROVE  /\ \A s : s # "clear-cart" => Plain(GoTo(s)) /\ Plain(Solve(s))
         /\ \A s, a : s # "clear-cart" /\ a # "clear-cart" => Plain([GoTo(s) EXCEPT !.after = a])
         /\ ~At("clear-cart") => Plain(t)
         /\ Plain(Bailed) /\ Plain(Stopped)
         /\ \A u \in CartUnknown : Plain(u)
<1>1. t \in Task
  BY DEF Inv, TypeOK
<1>2. \A s : s # "clear-cart" => Plain(GoTo(s)) /\ Plain(Solve(s))
  BY <1>1 DEF Plain, GoTo, GoesTo, Solve, Task, CartKnown
<1>3. \A s, a : s # "clear-cart" /\ a # "clear-cart" => Plain([GoTo(s) EXCEPT !.after = a])
  BY <1>1 DEF Plain, GoTo, GoesTo, Task
<1>4. ~At("clear-cart") => Plain(t)
  BY DEF Plain, CartKnown, At
<1>5. Plain(Bailed)
  BY <1>1 DEF Plain, Bailed, GoTo, GoesTo, Task
<1>6. Plain(Stopped)
  BY <1>2 DEF Stopped
<1>7. Plain(GoTo("get-cart")) /\ Plain([GoTo("refresh-login") EXCEPT !.after = "get-cart"])
  BY <1>2, <1>3
<1>. QED
  BY <1>2, <1>3, <1>4, <1>5, <1>6, <1>7 DEF CartUnknown

LEMMA SignInCleans ==
  ASSUME Inv, CartKnown, Keeps, SignIn
  PROVE  CartKnown'
<1>1. \E choices : Ends(choices) /\ \A u \in choices : Plain(u)
  <2>1. CASE GetSession \/ GetLoginSession \/ GetShape \/ Login \/ LoginOTP
             \/ RequestCode \/ GetCode
    BY <2>1, PlainSteps DEF GetSession, GetLoginSession, GetShape, Login, LoginOTP, RequestCode,
       GetCode, Moves, CartKnown
  <2>2. CASE SubmitCode \/ GetAuthCodes \/ GetAuthRedirect \/ GetAddresses \/ SetAddress
    BY <2>2, PlainSteps DEF SubmitCode, GetAuthCodes, GetAuthRedirect, GetAddresses, SetAddress,
       Moves
  <2>3. CASE RefreshLogin
    <3>. DEFINE s == IF t.after = "" THEN "get-address-book" ELSE t.after
    <3>1. s # "clear-cart" /\ Ends({[GoTo(s) EXCEPT !.after = ""], GoTo("get-login-session")})
      BY <2>3 DEF RefreshLogin, Moves, CartKnown
    <3>. HIDE DEF s
    <3>2. Plain([GoTo(s) EXCEPT !.after = ""]) /\ Plain(GoTo("get-login-session"))
      BY <3>1, PlainSteps
    <3>. DEFINE choices == {[GoTo(s) EXCEPT !.after = ""], GoTo("get-login-session")}
    <3>3. Ends(choices) /\ \A u \in choices : Plain(u)
      BY <3>1, <3>2
    <3>. HIDE DEF choices
    <3>. QED
      BY <3>3
  <2>4. CASE BadSession
    <3>. DEFINE u == [t EXCEPT !.refreshes = @ + 1]
    <3>1. t \in Task
      BY DEF Inv, TypeOK
    <3>2. Plain(u) /\ Plain(GoesTo(u, "get-session"))
      BY <2>4, <3>1 DEF Plain, GoesTo, Task, BadSession, At, CartKnown
    <3>. HIDE DEF u
    <3>3. Moves(IF t.refreshes >= SessionRetries THEN {Stopped} ELSE {u, GoesTo(u, "get-session")})
      BY <2>4 DEF BadSession, u
    <3>. QED
      BY <3>2, <3>3, PlainSteps DEF Moves
  <2>. QED
    BY <2>1, <2>2, <2>3, <2>4 DEF SignIn
<1>. QED
  BY <1>1, PlainKeeps

\* The cart is known from the answer to prepare-checkout on, and each removal keeps it so.
LEMMA PrepareCleans ==
  ASSUME Inv, CartKnown, Keeps, PrepareCheckout
  PROVE  CartKnown'
<1>. DEFINE u == [GoTo("clear-cart") EXCEPT !.items = @ \cup cart]
<1>1. t \in Task
  BY DEF Inv, TypeOK
<1>2. /\ u.items = t.items \cup cart /\ u.selected = t.selected /\ u.carted = t.carted
      /\ u.after = t.after /\ DOMAIN u = DOMAIN t
  BY <1>1 DEF GoTo, GoesTo, Task
<1>. HIDE DEF u
<1>3. Ends({u}) /\ cart' = cart
  BY DEF PrepareCheckout, Moves, retailer, u
<1>4. t' = u
  BY <1>2, <1>3, HeadKeeps
<1>. QED
  BY <1>2, <1>3, <1>4 DEF CartKnown, At

LEMMA ClearCleans ==
  ASSUME Inv, CartKnown, Keeps, ClearCart
  PROVE  CartKnown' /\ (t'.step = NextAfterClear => cart' = {})
<1>1. t \in Task /\ At("clear-cart") /\ cart \subseteq t.items
  BY DEF Inv, TypeOK, ClearCart, CartKnown
<1>2. NextAfterClear # "clear-cart"
  BY DEF NextAfterClear
<1>3. CASE t.items = {} /\ UNCHANGED cart /\ Ends({GoTo(NextAfterClear)})
  <2>1. CartKnown'
    BY <1>2, <1>3, PlainSteps, PlainKeeps
  <2>. QED
    BY <1>1, <1>3, <2>1
<1>4. CASE \E item \in t.items :
             /\ cart' = cart \ {item}
             /\ Ends({t} \cup (IF item \in cart
                                 THEN {[GoTo(IF cart' = {} THEN NextAfterClear ELSE t.step)
                                          EXCEPT !.items = cart']}
                                 ELSE {}))
  <2>1. PICK item \in t.items :
             /\ cart' = cart \ {item}
             /\ Ends({t} \cup (IF item \in cart
                                 THEN {[GoTo(IF cart' = {} THEN NextAfterClear ELSE t.step)
                                          EXCEPT !.items = cart']}
                                 ELSE {}))
    BY <1>4
  <2>. DEFINE s == IF cart' = {} THEN NextAfterClear ELSE t.step
              u == [GoTo(s) EXCEPT !.items = cart']
  <2>2. /\ u.step = s /\ u.items = cart' /\ u.selected = t.selected /\ u.carted = t.carted
        /\ u.after = t.after /\ DOMAIN u = DOMAIN t
    BY <1>1 DEF GoTo, GoesTo, Task
  <2>3. Ends({t} \cup (IF item \in cart THEN {u} ELSE {}))
    BY <2>1
  <2>. HIDE DEF u
  <2>4. t' \in {t, u}
    BY <2>2, <2>3, HeadKeeps
  <2>5. CASE t' = t
    BY <1>1, <1>2, <2>1, <2>5 DEF CartKnown, At
  <2>6. CASE t' = u
    BY <1>1, <1>2, <2>2, <2>6 DEF CartKnown, At
  <2>. QED
    BY <2>4, <2>5, <2>6
<1>. QED
  BY <1>3, <1>4 DEF ClearCart

\* A product that is given up as soon as it is selected has not been carted.
LEMMA PingCleans ==
  ASSUME Inv, CartKnown, Keeps, NEW p \in Products, TakePing(p)
  PROVE  CartKnown'
<1>. DEFINE u == [Solve("add-to-cart") EXCEPT !.selected = p, !.pingAt = hub[p], !.since = hub[p]]
<1>1. t \in Task
  BY DEF Inv, TypeOK
<1>2. /\ u.selected = p /\ u.carted = t.carted /\ u.step = "get-shape" /\ u.after = "add-to-cart"
      /\ DOMAIN u = DOMAIN t
  BY <1>1 DEF Solve, GoTo, GoesTo, Task
<1>. HIDE DEF u
<1>3. PICK w, stock : t' = HeadOfLoop(u, w, stock)
  BY DEF TakePing, Moves, Ends, u
<1>4. CASE t' = u
  BY <1>2, <1>4, ItemAssumption DEF CartKnown, At
<1>5. CASE t' = Abandoned(u)
  <2>1. /\ t'.selected = None /\ t'.after = "" /\ t'.carted = u.carted
        /\ t'.step = IF u.carted THEN "clear-cart" ELSE "wait-for-restock"
    BY <1>1, <1>2, <1>5 DEF Abandoned, Task
  <2>2. ~t.carted
    BY <2>1 DEF Keeps, CartKnown
  <2>. QED
    BY <1>2, <2>1, <2>2 DEF CartKnown, At
<1>. QED
  BY <1>3, <1>4, <1>5 DEF HeadOfLoop

LEMMA FillCleans ==
  ASSUME Inv, CartKnown, Keeps, FillCart
  PROVE  CartKnown'
<1>0. t \in Task
  BY DEF Inv, TypeOK
<1>1. CASE Preload
  <2>1. \E choices : Ends(choices) /\ choices \subseteq
          {GoTo("prepare-checkout"), t, GoTo("oos-check-cart"), Bailed}
    BY <1>1 DEF Preload, AddToCart
  <2>. QED
    BY <1>1, <2>1, PlainSteps, PlainKeeps DEF Preload, At
<1>2. CASE CartFiller
  <2>1. \E choices : Ends(choices) /\ choices \subseteq
          {GoTo("wait-for-restock"), t, GoTo("oos-check-cart"), Bailed}
    BY <1>2 DEF CartFiller, AddToCart
  <2>. QED
    BY <1>2, <2>1, PlainSteps, PlainKeeps DEF CartFiller, At
<1>3. CASE CartProduct
  <2>. DEFINE try == resetCheckoutState(t)
              a == [GoesTo(try, "submit-payment") EXCEPT !.carted = TRUE, !.payErrors = 0]
              b == [GoesTo(try, "get-shape") EXCEPT !.after = "add-to-cart"]
              c == GoesTo(try, "oos-check-cart")
              d == resetCheckoutState(Bailed)
  <2>1. t.selected # None /\ t.step = "add-to-cart"
    BY <1>3, ItemAssumption DEF CartProduct, At, Inv, TaskFits
  <2>2. /\ a.selected = t.selected /\ a.step = "submit-payment" /\ a.after = t.after
        /\ DOMAIN a = DOMAIN t
        /\ Plain(try) /\ Plain(b) /\ Plain(c)
    BY <1>0, <2>1 DEF resetCheckoutState, GoesTo, Task, Plain, CartKnown
  <2>3. Plain(d)
    BY <1>0 DEF resetCheckoutState, Bailed, GoTo, GoesTo, Task, Plain
  <2>4. Ends({a}) \/ Ends({try, b}) \/ Ends({c}) \/ Ends({d})
    BY <1>3 DEF CartProduct
  <2>. HIDE DEF a, b, c, d, try
  <2>5. CASE Ends({a})
    <3>1. t' = a
      BY <2>2, <2>5, HeadKeeps
    <3>. QED
      BY <2>1, <2>2, <3>1 DEF CartKnown, At
  <2>6. CASE Ends({try, b}) \/ Ends({c}) \/ Ends({d})
    BY <2>2, <2>3, <2>6, PlainKeeps
  <2>. QED
    BY <2>4, <2>5, <2>6
<1>4. CASE GetCart
  <2>1. Plain([GoTo("submit-payment") EXCEPT !.items = cart])
    BY <1>0 DEF GoTo, GoesTo, Task, Plain, CartKnown
  <2>. QED
    BY <1>4, <2>1, PlainSteps, PlainKeeps DEF GetCart, Moves
<1>5. CASE SubmitPayment
  <2>1. PICK items \in {t.items, cart}, errors \in {t.payErrors, t.payErrors + 1} :
          LET again == IF errors < PaymentRetries
                       THEN {GoTo("submit-payment")} \cup CartUnknown
                       ELSE {GoTo("preload-atc")}
              refused == {[u EXCEPT !.payErrors = errors] : u \in again}
          IN  Moves({[u EXCEPT !.items = items] : u \in refused \cup {GoTo("submit-order")}})
    BY <1>5 DEF SubmitPayment
  <2>. DEFINE again == IF errors < PaymentRetries
                       THEN {GoTo("submit-payment")} \cup CartUnknown
                       ELSE {GoTo("preload-atc")}
              refused == {[u EXCEPT !.payErrors = errors] : u \in again}
              ends == {[u EXCEPT !.items = items] : u \in refused \cup {GoTo("submit-order")}}
  <2>2. ASSUME NEW u, Plain(u)
        PROVE  Plain([u EXCEPT !.payErrors = errors]) /\ Plain([u EXCEPT !.items = items])
    BY <1>0, <2>2 DEF Plain, Task
  <2>3. \A u \in again \cup {GoTo("submit-order")} : Plain(u)
    BY PlainSteps
  <2>4. \A u \in refused \cup {GoTo("submit-order")} : Plain(u)
    BY <2>2, <2>3
  <2>5. \A u \in ends : Plain(u)
    BY <2>2, <2>4
  <2>6. Ends(ends)
    BY <2>1 DEF Moves
  <2>. HIDE DEF ends
  <2>. QED
    BY <2>5, <2>6, PlainKeeps
<1>6. CASE WaitRefresh \/ BailFromCart
  <2>1. Plain([GoTo("refresh-login") EXCEPT !.after = "wait-for-restock"]) /\ Plain(Bailed)
    BY PlainSteps
  <2>2. \/ Ends({[GoTo("refresh-login") EXCEPT !.after = "wait-for-restock"]})
        \/ Ends({Bailed})
    BY <1>6 DEF WaitRefresh, BailFromCart, Moves
  <2>. QED
    BY <2>1, <2>2, PlainKeeps
<1>7. CASE WaitEdit
  BY <1>7 DEF WaitEdit, retailer, CartKnown, At
<1>. QED
  BY <1>1, <1>2, <1>3, <1>4, <1>5, <1>6, <1>7, PrepareCleans, ClearCleans, PingCleans DEF FillCart

LEMMA OrderCleans ==
  ASSUME Inv, CartKnown, Keeps, PlaceOrder
  PROVE  CartKnown'
<1>0. t \in Task
  BY DEF Inv, TypeOK
<1>1. CASE SubmitOrder
  <2>1. \A n : Plain([GoTo("wait-to-check") EXCEPT !.ref = n])
    BY <1>0 DEF GoTo, GoesTo, Task, Plain, CartKnown
  <2>2. CASE \E n : Ends({[GoTo("wait-to-check") EXCEPT !.ref = n]})
    BY <2>1, <2>2, PlainKeeps
  <2>3. CASE Ends({t}) \/ Ends({GoTo("decline"), GoTo("oos-check-cart")})
    <3>1. Plain(t) /\ Plain(GoTo("decline")) /\ Plain(GoTo("oos-check-cart"))
      BY <1>1, PlainSteps DEF SubmitOrder, At
    <3>. QED
      BY <2>3, <3>1, PlainKeeps
  <2>4. \/ \E n : Ends({[GoTo("wait-to-check") EXCEPT !.ref = n]})
        \/ Ends({t}) \/ Ends({GoTo("decline"), GoTo("oos-check-cart")})
    <3>1. ASSUME Ends({[GoTo("wait-to-check") EXCEPT
                          !.ref = IF IsRealOrder THEN Len(orders) + 1 ELSE @]})
          PROVE  \E n : Ends({[GoTo("wait-to-check") EXCEPT !.ref = n]})
      <4>. DEFINE n == IF IsRealOrder THEN Len(orders) + 1 ELSE GoTo("wait-to-check").ref
      <4>1. Ends({[GoTo("wait-to-check") EXCEPT !.ref = n]})
        BY <3>1
      <4>. HIDE DEF n
      <4>. QED
        BY <4>1
    <3>. QED
      BY <1>1, <3>1, Zenon DEF SubmitOrder
  <2>. QED
    BY <2>2, <2>3, <2>4
<1>2. CASE CheckCart
  <2>1. \A s : s # "clear-cart" => Plain([GoTo(s) EXCEPT !.items = cart])
    BY <1>0 DEF GoTo, GoesTo, Task, Plain, CartKnown
  <2>2. \E s : s # "clear-cart" /\ Ends({[GoTo(s) EXCEPT !.items = cart]} \cup CartUnknown)
    BY <1>2 DEF CheckCart, Moves
  <2>. QED
    BY <2>1, <2>2, PlainSteps, PlainKeeps
<1>3. CASE RemovePayment \/ CheckOrderMissing \/ WaitToCheck
  BY <1>3, PlainSteps, PlainKeeps
    DEF RemovePayment, CheckOrderMissing, bailToRestock, WaitToCheck, Moves
<1>4. \A n : t.step = "check-order" =>
        LET u == [t EXCEPT !.attempts = n]
        IN  /\ Plain(u) /\ \A v \in Confirmed(u) : Plain(v)
            /\ Plain([GoesTo(u, "decline") EXCEPT !.checkout = FALSE])
  <2>. SUFFICES ASSUME NEW n, t.step = "check-order"
                PROVE  LET u == [t EXCEPT !.attempts = n]
                       IN  /\ Plain(u) /\ \A v \in Confirmed(u) : Plain(v)
                           /\ Plain([GoesTo(u, "decline") EXCEPT !.checkout = FALSE])
    OBVIOUS
  <2>. DEFINE u == [t EXCEPT !.attempts = n]
  <2>1. Plain(u) /\ DOMAIN u = {"step", "after", "selected", "pingAt", "since", "carted", "items",
                                "checkout", "ref", "attempts", "payErrors", "refreshes", "retries"}
    BY <1>0 DEF Task, Plain, CartKnown
  <2>. HIDE DEF u
  <2>2. \A s, b : s # "clear-cart" => Plain([GoesTo(u, s) EXCEPT !.checkout = b])
    BY <2>1 DEF GoesTo, Plain
  <2>3. \A v \in Confirmed(u) :
          \E s : s # "clear-cart" /\ v = [GoesTo(u, s) EXCEPT !.checkout = TRUE]
    BY DEF Confirmed
  <2>4. Plain([GoesTo(u, "decline") EXCEPT !.checkout = FALSE])
    <3>1. "decline" # "clear-cart"
      OBVIOUS
    <3>. QED
      BY <2>2, <3>1, Zenon
  <2>5. ASSUME NEW v \in Confirmed(u) PROVE Plain(v)
    <3>1. PICK s : s # "clear-cart" /\ v = [GoesTo(u, s) EXCEPT !.checkout = TRUE]
      BY <2>3
    <3>2. Plain([GoesTo(u, s) EXCEPT !.checkout = TRUE])
      BY <2>2, <3>1, Zenon
    <3>. QED
      BY <3>1, <3>2, Zenon
  <2>. QED
    BY <2>1, <2>4, <2>5, Zenon DEF u
<1>5. CASE CheckOrder
  <2>1. \E choices : Ends(choices) /\ \E n : LET u == [t EXCEPT !.attempts = n] IN
          choices \in {Confirmed(u), {[GoesTo(u, "decline") EXCEPT !.checkout = FALSE]}}
    BY <1>5 DEF CheckOrder
  <2>. QED
    BY <1>4, <1>5, <2>1, PlainKeeps DEF CheckOrder, At
<1>6. CASE CheckOrderFails
  <2>1. \E choices : Ends(choices) /\ \E n : LET u == [t EXCEPT !.attempts = n] IN
          choices \in {Confirmed(u), {u}}
    BY <1>6 DEF CheckOrderFails, Moves
  <2>. QED
    BY <1>4, <1>6, <2>1, PlainKeeps DEF CheckOrderFails, At
<1>7. CASE GetOrders \/ CancelFiller
  <2>1. Plain(FillerRetry)
    BY <1>0 DEF FillerRetry, GoTo, GoesTo, Task, Plain, CartKnown
  <2>. QED
    BY <1>7, <2>1, PlainSteps, PlainKeeps DEF GetOrders, CancelFiller, Moves
<1>8. CASE Checkout \/ Decline
  <2>1. Plain(NextRound)
    BY <1>0 DEF NextRound, resetCheckoutState, GoTo, GoesTo, Task, Plain, CartKnown
  <2>. QED
    BY <1>8, <2>1, PlainKeeps DEF Checkout, Decline, Moves
<1>. QED
  BY <1>1, <1>2, <1>3, <1>5, <1>6, <1>7, <1>8 DEF PlaceOrder

\* Everything but a turn of the loop with a request that succeeds.
LEMMA OthersClean ==
  ASSUME Inv, CartKnown, Keeps, Again \/ Stop \/ World \/ UNCHANGED vars
  PROVE  CartKnown' /\ (At("clear-cart") => t'.step # NextAfterClear)
<1>0. t \in Task /\ NextAfterClear \notin {"clear-cart", "stopped"}
  BY DEF Inv, TypeOK, NextAfterClear
<1>1. CASE Again
  <2>1. t' \in {t} /\ cart' = cart
    BY <1>1, HeadKeeps DEF Again, Moves, retailer
  <2>. QED
    BY <1>0, <2>1 DEF CartKnown, At
<1>2. CASE Stop
  <2>1. /\ t'.step = "stopped" /\ t'.carted = t.carted /\ t'.selected = t.selected
        /\ t'.after = t.after
    BY <1>0, <1>2 DEF Stop, Stopped, GoTo, GoesTo, Task
  <2>. QED
    BY <1>0, <2>1 DEF CartKnown, At
<1>3. CASE World \/ UNCHANGED vars
  <2>1. t' = t /\ cart' \subseteq cart
    BY <1>3 DEF World, Publish, PublishOut, SoldOut, vars, retailer
  <2>. QED
    BY <1>0, <2>1 DEF CartKnown, At
<1>. QED
  BY <1>1, <1>2, <1>3

LEMMA Clean ==
  ASSUME Inv, CartKnown, Keeps, [Next]_vars
  PROVE  CartKnown' /\ (At("clear-cart") /\ t'.step = NextAfterClear => cart' = {})
<1>1. CartKnown'
  BY SignInCleans, FillCleans, OrderCleans, OthersClean DEF Next
<1>2. ASSUME At("clear-cart"), t'.step = NextAfterClear
      PROVE  cart' = {}
  <2>1. ClearCart
    BY <1>2, OthersClean DEF Next, SignIn, FillCart, PlaceOrder, At, GetSession, GetLoginSession,
       GetShape, Login, LoginOTP, RequestCode, GetCode, SubmitCode, GetAuthCodes,
       GetAuthRedirect, RefreshLogin, BadSession, GetAddresses, SetAddress, Preload,
       PrepareCheckout, CartFiller, TakePing, WaitEdit, WaitRefresh, CartProduct, BailFromCart,
       GetCart, SubmitPayment, SubmitOrder, CheckCart, RemovePayment, WaitToCheck, CheckOrder,
       CheckOrderFails, CheckOrderMissing, GetOrders, CancelFiller, Checkout, Decline
  <2>. QED
    BY <1>2, <2>1, ClearCleans
<1>. QED
  BY <1>1, <1>2

\* What clear-cart leaves behind was abandoned: a task that never gives up a product it has
\* selected has nothing in its cart when it is done with clearing it (ClearedCartIsEmpty).
THEOREM AbandonedIsLeft == Spec /\ NeverAbandons => ClearedCartIsEmpty
<1>1. Init => CartKnown
  <2>. DEFINE t0 == [step |-> "get-session", after |-> "", selected |-> None,
                     pingAt |-> 0, since |-> 0, carted |-> FALSE, items |-> {}, checkout |-> FALSE,
                     ref |-> 0, attempts |-> 0, payErrors |-> 0, refreshes |-> 0, retries |-> 0]
  <2>1. Init => t = t0
    BY DEF Init
  <2>2. t0.carted = FALSE /\ t0.after = "" /\ t0.step = "get-session"
    OBVIOUS
  <2>. QED
    BY <2>1, <2>2 DEF CartKnown, At
<1>2. Inv /\ CartKnown /\ [Next]_vars /\ [Keeps]_vars => CartKnown'
  <2>1. UNCHANGED vars => Keeps
    BY DEF vars, Keeps
  <2>. QED
    BY <2>1, Clean
<1>3. Inv /\ CartKnown /\ [Next]_vars /\ [Keeps]_vars
        => [At("clear-cart") /\ t'.step = NextAfterClear => cart' = {}]_vars
  BY Clean
<1>. QED
  BY <1>1, <1>2, <1>3, Invariance, PTL DEF Spec, NeverAbandons, ClearedCartIsEmpty
=============================================================================
