------------------------------- MODULE Checkout -------------------------------
(***************************************************************************)
(* From a basket to a placed order (ecommerce/extensions/payment, basket,  *)
(* checkout, iap and ecommerce/management).                                *)
(*                                                                         *)
(* One customer fills baskets on one site and pays for them along eight    *)
(* routes.  Each is a handler that loads a basket, may freeze it, calls a  *)
(* payment processor, places the order and tells the fulfilment worker.    *)
(* ATOMIC_REQUESTS makes most handlers one database transaction: what they *)
(* save is pending until they answer, and a save of a basket blocks every  *)
(* other transaction that saves the same row (READ COMMITTED, row locks).  *)
(* The PayPal and basket API handlers commit as they go.                   *)
(*                                                                         *)
(* A basket's order number is computed from its id, so a basket stands for *)
(* its order number as well.  Prices are data: an amount is told apart     *)
(* only by the set of products it was computed for.                        *)
(***************************************************************************)
EXTENDS Naturals, FiniteSets

CONSTANTS
  Baskets,       \* the baskets that may be created
  Products,
  FreeProducts,  \* the products with a price of zero
  Requests,      \* the requests being handled at the same time
  Charges,       \* the payments that may be asked for
  Routes,        \* the routes in use
  Faults         \* what may go wrong

AllRoutes == {"cart", "rest", "applepay", "stripe", "paypal", "store", "free",
              "api", "repair"}
AllFaults == {"crash", "lost answer", "no order", "broker", "expired key"}

ASSUME CheckoutAssumption ==
  /\ FreeProducts \subseteq Products
  /\ Routes \subseteq AllRoutes
  /\ Faults \subseteq AllFaults
  /\ {} \notin Baskets \cup Charges

VARIABLES
  status,    \* committed: the status of each basket
  lines,     \* committed: the products in each basket
  order,     \* committed: the products of the basket's order, {} for none
  recorded,  \* committed: payments with a response that says it was accepted
  intent,    \* committed: the Stripe intent each basket's attribute names
  expired,   \* at Stripe: intents whose idempotency key is forgotten
  charge,    \* at the processors: each payment's basket, products and state
  started,   \* the order numbers the fulfilment worker has been told of
  declined,  \* history: baskets merged away after a declined payment
  req        \* the requests' local state

stripe == <<intent, expired>>
db   == <<status, lines, order, recorded>>
vars == <<status, lines, order, recorded, charge, started, declined, req, stripe>>

Absent    == "Absent"     \* not created yet
Open      == "Open"
Frozen    == "Frozen"
Merged    == "Merged"
Submitted == "Submitted"
Deleted   == "Deleted"

Status == {Absent, Open, Frozen, Merged, Submitted, Deleted}

Unsaved == "unsaved"
NoOne   == {}             \* no basket, no payment

NoCharge == [basket |-> NoOne, lines |-> {}, via |-> "none", state |-> "none"]

Charge ==
  [basket : Baskets, lines : SUBSET Products, via : Routes,
   state : {"created", "taken"}] \cup {NoCharge}

Request ==
  [phase  : {"idle", "loaded", "frozen", "charged", "paid", "placed", "started"},
   route  : Routes \cup {"none"},
   txn    : BOOLEAN,                      \* inside transaction.atomic()
   basket : Baskets \cup {NoOne},
   lines  : SUBSET Products,              \* the lines held in memory
   charge : Charges \cup {NoOne},
   status : Status \cup {Unsaved},        \* pending save of the basket
   order  : SUBSET Products,              \* pending order
   recorded : SUBSET Charges]             \* pending responses

NoRequest ==
  [phase |-> "idle", route |-> "none", txn |-> FALSE, basket |-> NoOne,
   lines |-> {}, charge |-> NoOne, status |-> Unsaved, order |-> {},
   recorded |-> {}]

TypeOK ==
  /\ status \in [Baskets -> Status]
  /\ lines \in [Baskets -> SUBSET Products]
  /\ order \in [Baskets -> SUBSET Products]
  /\ recorded \subseteq Charges
  /\ charge \in [Charges -> Charge]
  /\ started \subseteq Baskets
  /\ declined \subseteq Baskets
  /\ req \in [Requests -> Request]
  /\ intent \in [Baskets -> Charges \cup {NoOne}]
  /\ expired \subseteq Charges

Init ==
  /\ status = [b \in Baskets |-> Absent]
  /\ lines = [b \in Baskets |-> {}]
  /\ order = [b \in Baskets |-> {}]
  /\ recorded = {}
  /\ charge = [t \in Charges |-> NoCharge]
  /\ started = {}
  /\ declined = {}
  /\ req = [r \in Requests |-> NoRequest]
  /\ intent = [b \in Baskets |-> NoOne]
  /\ expired = {}

-----------------------------------------------------------------------------
(* Saving rows.                                                            *)

(* The rows of request state q become the committed ones.                  *)
Commit(q) ==
  /\ status' = [b \in Baskets |->
                  IF b = q.basket /\ q.status # Unsaved THEN q.status ELSE status[b]]
  /\ order' = [b \in Baskets |->
                  IF b = q.basket /\ q.order # {} THEN q.order ELSE order[b]]
  /\ recorded' = recorded \cup q.recorded
  /\ UNCHANGED lines

(* The request's state becomes q; what q saved stays pending inside a      *)
(* transaction and is committed at once outside one.                       *)
Save(r, q) ==
  IF q.txn
  THEN /\ req' = [req EXCEPT ![r] = q]
       /\ UNCHANGED db
  ELSE /\ req' = [req EXCEPT ![r] =
                    [q EXCEPT !.status = Unsaved, !.order = {}, !.recorded = {}]]
       /\ Commit(q)

(* The handler answers: its transaction, if any, commits.                  *)
End(r, q) ==
  /\ req' = [req EXCEPT ![r] = NoRequest]
  /\ Commit(q)

(* An exception leaves the handler: its transaction is rolled back.        *)
Abort(r) ==
  /\ req' = [req EXCEPT ![r] = NoRequest]
  /\ UNCHANGED db

(* The row lock of basket b is free, or held by r itself.                  *)
Unlocked(r, b) ==
  \A s \in Requests \ {r} : req[s].basket = b => req[s].status = Unsaved

Fresh(b) == status[b] = Absent /\ \A r \in Requests : req[r].basket # b

UnusedCharge(t) == charge[t].state = "none"

(* A handler modelled as one step is a request as well.                    *)
Idle == \E r \in Requests : req[r].phase = "idle"

(* Mutant: a frozen basket is editable as well.                            *)
OpenOrFrozenBaskets == {b \in Baskets : status[b] \in {Open, Frozen}}

OpenBaskets == {b \in Baskets : status[b] = Open}

Free(ps) == ps \subseteq FreeProducts

Load(r, ph, rt, inTxn, b, t) ==
  /\ req[r].phase = "idle"
  /\ rt \in Routes
  /\ req' = [req EXCEPT ![r] =
       [NoRequest EXCEPT !.phase = ph, !.route = rt, !.txn = inTxn,
                         !.basket = b, !.lines = lines[b], !.charge = t]]
  /\ UNCHANGED <<db, charge, started, declined, stripe>>

-----------------------------------------------------------------------------
(* The cart.                                                               *)

(* Several open baskets of the customer are merged into one before a       *)
(* handler sees any of them.                                               *)
MergeOpenBaskets(b, old) ==
  /\ Idle
  /\ {b, old} \subseteq OpenBaskets /\ b # old
  /\ \A r \in Requests : Unlocked(r, b) /\ Unlocked(r, old)
  /\ lines' = [lines EXCEPT ![b] = @ \cup lines[old], ![old] = {}]
  /\ status' = [status EXCEPT ![old] = Merged]
  /\ UNCHANGED <<order, recorded, charge, started, declined, req, stripe>>

CartLoad(r, b) ==
  /\ OpenBaskets = {b} \/ (OpenBaskets = {} /\ Fresh(b))
  /\ Load(r, "loaded", "cart", TRUE, b, NoOne)

(* prepare_basket() flushes the basket it loaded, saves the whole row, and *)
(* adds the products asked for, none if the embargo check fails.           *)
CartSave(r, ps) ==
  LET b == req[r].basket IN
  /\ req[r].phase = "loaded" /\ req[r].route = "cart"
  /\ Unlocked(r, b)
  /\ status' = [status EXCEPT ![b] = Open]
  /\ lines' = [lines EXCEPT ![b] = ps]
  /\ req' = [req EXCEPT ![r] = NoRequest]
  /\ UNCHANGED <<order, recorded, charge, started, declined, stripe>>

-----------------------------------------------------------------------------
(* Loading a basket to pay for it.                                         *)

(* The payment form only accepts an open basket; Apple Pay and the free    *)
(* checkout take the basket of the request.                                *)
LoadOpen(r, rt, b) ==
  /\ OpenBaskets = {b}
  /\ lines[b] # {}
  /\ rt \in {"rest", "applepay", "free"}
  /\ rt = "free" <=> Free(lines[b])
  /\ Load(r, "loaded", rt, TRUE, b, NoOne)

(* Stripe still knows the idempotency key, made from the order number, of  *)
(* an intent of basket b.                                                  *)
HasIntent(b) ==
  \E t \in Charges \ expired : charge[t].via = "stripe" /\ charge[t].basket = b

(* The capture context was asked for: the basket's attribute names the     *)
(* intent, unless the request died before it was committed.                *)
Attribute(b, t) ==
  \/ intent' = [intent EXCEPT ![b] = t]
  \/ "crash" \in Faults /\ UNCHANGED intent

(* Mutant: the intent is created without an idempotency key.               *)
CreateIntentAlways(b, t) ==
  /\ Idle /\ "stripe" \in Routes
  /\ OpenBaskets = {b} /\ lines[b] # {}
  /\ UnusedCharge(t)
  /\ charge' = [charge EXCEPT ![t] =
       [basket |-> b, lines |-> lines[b], via |-> "stripe", state |-> "created"]]
  /\ Attribute(b, t)
  /\ UNCHANGED <<db, expired, started, declined, req>>

CreateIntent(b, t) ==
  /\ Idle /\ "stripe" \in Routes
  /\ OpenBaskets = {b} /\ lines[b] # {}
  /\ UnusedCharge(t) /\ ~HasIntent(b)
  /\ charge' = [charge EXCEPT ![t] =
       [basket |-> b, lines |-> lines[b], via |-> "stripe", state |-> "created"]]
  /\ Attribute(b, t)
  /\ UNCHANGED <<db, expired, started, declined, req>>

(* Stripe answers a known key with the intent it was first used for, if    *)
(* the amount is still the same.  If it is not, the handler asks for the   *)
(* intent that the attribute names, and changes nothing.                   *)
ReturnIntent(b, t) ==
  /\ Idle /\ "stripe" \in Routes
  /\ OpenBaskets = {b}
  /\ charge[t] = [basket |-> b, lines |-> lines[b], via |-> "stripe",
                  state |-> "created"]
  /\ t \notin expired
  /\ intent' = [intent EXCEPT ![b] = t]
  /\ UNCHANGED <<db, expired, charge, started, declined, req>>

(* Stripe forgets an idempotency key after a day.                          *)
ForgetKey(t) ==
  /\ "expired key" \in Faults
  /\ charge[t].via = "stripe"
  /\ expired' = expired \cup {t}
  /\ UNCHANGED <<db, intent, charge, started, declined, req>>

(* The submitted intent finds the basket whose attribute names it,         *)
(* whatever the basket's status.                                           *)
LoadIntent(r, t) ==
  /\ charge[t].via = "stripe"
  /\ intent[charge[t].basket] = t
  /\ status[charge[t].basket] # Deleted
  /\ lines[charge[t].basket] # {}
  /\ Load(r, "loaded", "stripe", TRUE, charge[t].basket, t)

(* POST /checkout/ takes any basket of the customer, freezes it, and asks  *)
(* PayPal for a payment; the answer names a page where it can be approved. *)
CreatePayment(b, t) ==
  /\ Idle /\ "paypal" \in Routes
  /\ status[b] \notin {Absent, Deleted}
  /\ lines[b] # {} /\ ~Free(lines[b])
  /\ \A r \in Requests : Unlocked(r, b)
  /\ UnusedCharge(t)
  /\ charge' = [charge EXCEPT ![t] =
       [basket |-> b, lines |-> lines[b], via |-> "paypal", state |-> "created"]]
  /\ status' = [status EXCEPT ![b] = Frozen]
  /\ UNCHANGED <<lines, order, recorded, started, declined, req, stripe>>

(* The customer comes back from PayPal.  The payment's id finds the basket *)
(* through its one recorded response; after a success there are two.       *)
LoadPayment(r, t) ==
  /\ charge[t].via = "paypal"
  /\ t \notin recorded
  /\ status[charge[t].basket] # Deleted
  /\ Load(r, "loaded", "paypal", FALSE, charge[t].basket, t)

(* The mobile app freezes a basket and has the customer pay the app store. *)
FreezeForStore(b) ==
  /\ Idle /\ "store" \in Routes
  /\ status[b] \notin {Absent, Deleted}
  /\ \A r \in Requests : Unlocked(r, b)
  /\ status' = [status EXCEPT ![b] = Frozen]
  /\ UNCHANGED <<lines, order, recorded, charge, started, declined, req, stripe>>

StoreTakesMoney(b, t) ==
  /\ "store" \in Routes
  /\ status[b] = Frozen
  /\ lines[b] # {} /\ ~Free(lines[b])
  /\ UnusedCharge(t)
  /\ charge' = [charge EXCEPT ![t] =
       [basket |-> b, lines |-> lines[b], via |-> "store", state |-> "taken"]]
  /\ UNCHANGED <<db, started, declined, req, stripe>>

(* The app presents the store's receipt with the basket it is for.         *)
LoadReceipt(r, t) ==
  /\ charge[t].via = "store" /\ charge[t].state = "taken"
  /\ status[charge[t].basket] # Deleted
  /\ Load(r, "loaded", "store", TRUE, charge[t].basket, t)

(* POST /baskets/ commits a new basket before it starts the checkout.      *)
ApiCreate(r, b, ps) ==
  /\ req[r].phase = "idle"
  /\ "api" \in Routes
  /\ Fresh(b) /\ ps # {}
  /\ status' = [status EXCEPT ![b] = Open]
  /\ lines' = [lines EXCEPT ![b] = ps]
  /\ req' = [req EXCEPT ![r] =
       [NoRequest EXCEPT !.phase = "loaded", !.route = "api", !.basket = b,
                         !.lines = ps]]
  /\ UNCHANGED <<order, recorded, charge, started, declined, stripe>>

(* Mutant: the basket is not checked for a successful response.            *)
LoadFrozenUnpaid(r, b, t) ==
  /\ status[b] = Frozen
  /\ order[b] = {}
  /\ charge[t].basket = b /\ charge[t].via \in {"paypal", "stripe"}
  /\ Load(r, "paid", "repair", TRUE, b, t)

(* Mutant: PayPal's "approved" does not count as a success.                *)
LoadFrozenStripe(r, b, t) ==
  /\ status[b] = Frozen
  /\ order[b] = {}
  /\ t \in recorded
  /\ charge[t].basket = b /\ charge[t].via = "stripe"
  /\ Load(r, "paid", "repair", TRUE, b, t)

(* A staff member has frozen baskets fulfilled.  Only the responses of     *)
(* PayPal and Stripe both count as successful and have the fields that are *)
(* read: CyberSource's raise a KeyError.                                   *)
LoadFrozen(r, b, t) ==
  /\ status[b] = Frozen
  /\ order[b] = {}
  /\ t \in recorded
  /\ charge[t].basket = b /\ charge[t].via \in {"paypal", "stripe"}
  /\ Load(r, "paid", "repair", TRUE, b, t)

-----------------------------------------------------------------------------
(* Freezing the basket and asking the processor.                           *)

(* freeze() saves the row as loaded, whatever the committed status is now. *)
(* The basket API reads the lines again to see whether they are free.      *)
Freeze(r) ==
  LET q  == req[r]
      ps == IF q.route = "api" THEN lines[q.basket] ELSE q.lines
  IN
  /\ q.phase = "loaded" /\ q.route \in {"rest", "free", "api"}
  /\ Unlocked(r, q.basket)
  /\ Save(r, [q EXCEPT !.status = Frozen, !.lines = ps,
                       !.phase = IF Free(ps) THEN "paid" ELSE "frozen"])
  /\ UNCHANGED <<charge, started, declined, stripe>>

(* Mutant: the payment is authorised and not captured.                     *)
Authorized(r, t) ==
  charge' = [charge EXCEPT ![t] =
    [basket |-> req[r].basket, lines |-> req[r].lines, via |-> req[r].route,
     state |-> "authorized"]]

(* The processor takes the money for the lines of r's basket.              *)
Taken(r, t) ==
  charge' = [charge EXCEPT ![t] =
    [basket |-> req[r].basket, lines |-> req[r].lines, via |-> req[r].route,
     state |-> "taken"]]

(* Mutant: the basket is thawed for the new payment.                       *)
RestDeclinedThaw(r, new) ==
  LET b == req[r].basket IN
  /\ req[r].phase = "frozen" /\ req[r].route = "rest"
  /\ Fresh(new)
  /\ status' = [status EXCEPT ![b] = Open]
  /\ declined' = declined \cup {b}
  /\ req' = [req EXCEPT ![r] = NoRequest]
  /\ UNCHANGED <<lines, order, recorded, charge, started, stripe>>

(* Declined: the lines move to a new basket, with a new order number.      *)
RestDeclined(r, new) ==
  LET b == req[r].basket IN
  /\ req[r].phase = "frozen" /\ req[r].route = "rest"
  /\ Fresh(new)
  /\ status' = [status EXCEPT ![b] = Merged, ![new] = Open]
  /\ lines' = [lines EXCEPT ![b] = {}, ![new] = lines[b]]
  /\ declined' = declined \cup {b}
  /\ req' = [req EXCEPT ![r] = NoRequest]
  /\ UNCHANGED <<order, recorded, charge, started, stripe>>

(* Accepted: the response is recorded and the basket read again.  A basket *)
(* that has an order by now ends as a redundant payment notification.      *)
RestAccepted(r, t) ==
  LET q == [req[r] EXCEPT !.recorded = {t}] IN
  /\ q.phase = "frozen" /\ q.route = "rest"
  /\ UnusedCharge(t) /\ Taken(r, t)
  /\ IF order[q.basket] = {}
     THEN Save(r, [q EXCEPT !.phase = "paid", !.charge = t, !.lines = lines[q.basket]])
     ELSE End(r, q)
  /\ UNCHANGED <<started, declined, stripe>>

(* The gateway refuses a request it has accepted within 15 minutes.  With  *)
(* the amount in the answer, and no order yet, the placement goes on.      *)
RestDuplicate(r, t) ==
  LET q == req[r] IN
  /\ q.phase = "frozen" /\ q.route = "rest"
  /\ charge[t].via = "rest" /\ charge[t].basket = q.basket
  /\ charge[t].lines = q.lines /\ charge[t].state = "taken"
  /\ \/ End(r, q)
     \/ /\ order[q.basket] = {}
        /\ Save(r, [q EXCEPT !.phase = "paid", !.charge = t,
                             !.lines = lines[q.basket]])
  /\ UNCHANGED <<charge, started, declined, stripe>>

ApplePayAccepted(r, t) ==
  LET q == req[r] IN
  /\ q.phase = "loaded" /\ q.route = "applepay"
  /\ UnusedCharge(t) /\ Taken(r, t)
  /\ Save(r, [q EXCEPT !.phase = "paid", !.charge = t, !.recorded = {t}])
  /\ UNCHANGED <<started, declined, stripe>>

(* Mutant: the intent keeps the amount it was created with.                *)
IntentConfirmedAsCreated(r) ==
  LET q == req[r] IN
  /\ q.phase = "loaded" /\ q.route = "stripe"
  /\ charge[q.charge].state = "created"
  /\ charge' = [charge EXCEPT ![q.charge].state = "taken"]
  /\ Save(r, [q EXCEPT !.phase = "paid", !.recorded = {q.charge}])
  /\ UNCHANGED <<started, declined, stripe>>

(* The intent is given the basket's present amount and confirmed; Stripe   *)
(* does not confirm it a second time.                                      *)
IntentConfirmed(r) ==
  LET q == req[r] IN
  /\ q.phase = "loaded" /\ q.route = "stripe"
  /\ charge[q.charge].state = "created" /\ Taken(r, q.charge)
  /\ Save(r, [q EXCEPT !.phase = "paid", !.recorded = {q.charge}])
  /\ UNCHANGED <<started, declined, stripe>>

(* PayPal executes a payment once, for the amount it was created with.     *)
PaymentExecuted(r) ==
  LET q == req[r] IN
  /\ q.phase = "loaded" /\ q.route = "paypal"
  /\ charge[q.charge].state = "created"
  /\ charge' = [charge EXCEPT ![q.charge].state = "taken"]
  /\ Save(r, [q EXCEPT !.phase = "charged", !.txn = TRUE, !.recorded = {q.charge}])
  /\ UNCHANGED <<started, declined, stripe>>

(* The atomic block around handle_payment() commits the response.          *)
RecordPayment(r) ==
  /\ req[r].phase = "charged"
  /\ Save(r, [req[r] EXCEPT !.phase = "paid", !.txn = FALSE])
  /\ UNCHANGED <<charge, started, declined, stripe>>

(* A receipt whose transaction is recorded already is redundant.           *)
ReceiptAccepted(r) ==
  LET q == req[r] IN
  /\ q.phase = "loaded" /\ q.route = "store"
  /\ q.charge \notin recorded
  /\ Save(r, [q EXCEPT !.phase = "paid", !.recorded = {q.charge}])
  /\ UNCHANGED <<charge, started, declined, stripe>>

(* Every other answer ends in an error page: the request was turned down   *)
(* by a check or by the processor, and what was saved before is committed. *)
Refused(r) ==
  /\ req[r].phase \in {"loaded", "frozen"}
  /\ req[r].route \in {"rest", "applepay", "stripe", "paypal", "store"}
  /\ End(r, req[r])
  /\ UNCHANGED <<charge, started, declined, stripe>>

(* The processor takes the money and its answer does not arrive.  The REST *)
(* client turns some of these into an ApiException, which is caught; the   *)
(* others roll the request back.                                           *)
LostAnswer(r, t) ==
  LET q == req[r] IN
  /\ "lost answer" \in Faults
  /\ \/ /\ q.phase = "frozen" /\ q.route = "rest"
        /\ UnusedCharge(t) /\ Taken(r, t)
        /\ End(r, q) \/ Abort(r)
     \/ /\ q.phase = "loaded" /\ q.route = "applepay"
        /\ UnusedCharge(t) /\ Taken(r, t)
        /\ End(r, q)
     \/ /\ q.phase = "loaded" /\ q.route \in {"stripe", "paypal"}
        /\ t = q.charge /\ charge[t].state = "created"
        /\ charge' = [charge EXCEPT ![t].state = "taken",
             ![t].lines = IF q.route = "stripe" THEN q.lines ELSE @]
        /\ End(r, q)
  /\ UNCHANGED <<started, declined, stripe>>

(* The basket API answers with the payment page of a processor: PayPal has *)
(* created a payment for it, the client-side processors have nothing yet.  *)
ApiAnswers(r, t) ==
  LET q == req[r] IN
  /\ q.phase = "frozen" /\ q.route = "api"
  /\ \/ /\ "paypal" \in Routes /\ UnusedCharge(t)
        /\ charge' = [charge EXCEPT ![t] =
             [basket |-> q.basket, lines |-> q.lines, via |-> "paypal",
              state |-> "created"]]
     \/ UNCHANGED charge
  /\ End(r, q)
  /\ UNCHANGED <<started, declined, stripe>>

-----------------------------------------------------------------------------
(* Placing the order.                                                      *)

(* Mutant: the basket is not submitted with the order.                     *)
PlaceUnsubmitted(r) ==
  LET q == req[r] IN
  /\ q.phase = "paid"
  /\ Unlocked(r, q.basket)
  /\ order[q.basket] = {} /\ q.lines # {}
  /\ Save(r, [q EXCEPT !.phase = "placed", !.order = q.lines])
  /\ UNCHANGED <<charge, started, declined, stripe>>

(* handle_order_placement(): the order, under the basket's number, and the *)
(* basket's last status are saved in one atomic block.                     *)
Place(r) ==
  LET q == req[r] IN
  /\ q.phase = "paid"
  /\ Unlocked(r, q.basket)
  /\ order[q.basket] = {} /\ q.lines # {}
  /\ Save(r, [q EXCEPT !.phase = "placed", !.order = q.lines, !.status = Submitted])
  /\ UNCHANGED <<charge, started, declined, stripe>>

(* Mutant: the basket is submitted although the placement failed.          *)
FailSubmitted(r) ==
  LET q == req[r] IN
  \/ q.route \in {"applepay", "store", "free"} /\ Abort(r)
  \/ /\ q.route \in {"rest", "stripe", "paypal", "repair"}
     /\ End(r, [q EXCEPT !.status = Submitted])

(* What becomes of an exception in the placement or after it: some         *)
(* handlers let it roll the request back, some catch it and answer, and    *)
(* the basket API deletes its basket.                                      *)
Fail(r) ==
  LET q == req[r] IN
  \/ q.route \in {"applepay", "store", "free"} /\ Abort(r)
  \/ q.route \in {"rest", "stripe", "paypal", "repair"} /\ End(r, q)
  \/ /\ q.route = "api"
     /\ Unlocked(r, q.basket)
     /\ status' = [status EXCEPT ![q.basket] = Deleted]
     /\ lines' = [lines EXCEPT ![q.basket] = {}]
     /\ req' = [req EXCEPT ![r] = NoRequest]
     /\ UNCHANGED <<order, recorded>>

(* The number is taken, the basket is empty, a voucher cannot be used any  *)
(* more: place_order() raises.                                             *)
PlaceFails(r) ==
  /\ req[r].phase = "paid"
  /\ \/ order[req[r].basket] # {} \/ req[r].lines = {}
     \/ "no order" \in Faults
  /\ Fail(r)
  /\ UNCHANGED <<charge, started, declined, stripe>>

(* The processor of the basket API raises: the basket is deleted.          *)
ApiFails(r) ==
  /\ req[r].phase = "frozen" /\ req[r].route = "api"
  /\ Fail(r)
  /\ UNCHANGED <<charge, started, declined, stripe>>

(* The fulfilment worker is told of the order.                             *)
Start(r) ==
  /\ req[r].phase = "placed"
  /\ started' = started \cup {req[r].basket}
  /\ req' = [req EXCEPT ![r].phase = "started"]
  /\ UNCHANGED <<db, charge, declined, stripe>>

(* The task cannot be sent, or a receiver of the signal raises.            *)
StartFails(r) ==
  /\ "broker" \in Faults
  /\ req[r].phase = "placed"
  /\ Fail(r)
  /\ UNCHANGED <<charge, started, declined, stripe>>

Finish(r) ==
  /\ req[r].phase = "started"
  /\ End(r, req[r])
  /\ UNCHANGED <<charge, started, declined, stripe>>

(* The staff's repair of a frozen basket that has an order fulfils it.     *)
RepairFulfils(b) ==
  /\ Idle /\ "repair" \in Routes
  /\ status[b] = Frozen /\ order[b] # {}
  /\ started' = started \cup {b}
  /\ UNCHANGED <<db, charge, declined, req, stripe>>

(* The process dies or the database ends the transaction: what it had not  *)
(* committed is lost, what the processors did is not.                      *)
Crash(r) ==
  /\ "crash" \in Faults
  /\ req[r].phase # "idle"
  /\ Abort(r)
  /\ UNCHANGED <<charge, started, declined, stripe>>

-----------------------------------------------------------------------------
Begin(r) ==
  \/ \E b \in Baskets :
       \/ CartLoad(r, b)
       \/ \E rt \in Routes : LoadOpen(r, rt, b)
       \/ \E ps \in SUBSET Products : ApiCreate(r, b, ps)
       \/ \E t \in Charges : LoadFrozen(r, b, t)
  \/ \E t \in Charges : LoadIntent(r, t) \/ LoadPayment(r, t) \/ LoadReceipt(r, t)

Handle(r) ==
  \/ \E ps \in SUBSET Products : CartSave(r, ps)
  \/ Freeze(r)
  \/ \E b \in Baskets : RestDeclined(r, b)
  \/ \E t \in Charges : \/ RestAccepted(r, t) \/ RestDuplicate(r, t)
                        \/ ApplePayAccepted(r, t) \/ LostAnswer(r, t)
                        \/ ApiAnswers(r, t)
  \/ IntentConfirmed(r) \/ PaymentExecuted(r) \/ RecordPayment(r)
  \/ ReceiptAccepted(r) \/ Refused(r)
  \/ Place(r) \/ PlaceFails(r) \/ ApiFails(r)
  \/ Start(r) \/ StartFails(r) \/ Finish(r)

(* One-step requests, and what the customer does at the processors.        *)
Outside ==
  \/ \E b, old \in Baskets : MergeOpenBaskets(b, old)
  \/ \E b \in Baskets, t \in Charges :
       \/ CreateIntent(b, t) \/ ReturnIntent(b, t)
       \/ CreatePayment(b, t) \/ StoreTakesMoney(b, t)
  \/ \E b \in Baskets : FreezeForStore(b) \/ RepairFulfils(b)
  \/ \E t \in Charges : ForgetKey(t)

Next ==
  \/ Outside
  \/ \E r \in Requests : Begin(r) \/ Handle(r) \/ Crash(r)

Spec == Init /\ [][Next]_vars

-----------------------------------------------------------------------------
(* Every handler comes to its end, and crashes stop at last.  The staff    *)
(* repairs a frozen basket with a recorded payment again and again, and    *)
(* the placement is not refused every single time.                         *)
Repairs(b) == \E r \in Requests, t \in Charges : LoadFrozen(r, b, t)

RepairPlaces(b) ==
  \E r \in Requests :
    req[r].route = "repair" /\ req[r].basket = b /\ Place(r)

Fairness ==
  /\ \A r \in Requests : WF_vars(Handle(r))
  /\ \A b \in Baskets : SF_vars(Repairs(b)) /\ SF_vars(RepairPlaces(b))
  /\ <>[][\A r \in Requests : ~Crash(r)]_vars

FairSpec == Spec /\ Fairness

-----------------------------------------------------------------------------
(* Properties that hold whatever the requests' interleaving.               *)

Paid == {b \in Baskets :
           \E t \in Charges : charge[t].basket = b /\ charge[t].state = "taken"}

P == INSTANCE Purchase WITH paid <- Paid, sold <- order

(* However the routes interleave, crash and retry, what the customer gets  *)
(* is a sale: one order per number, its products fixed, and never before a *)
(* processor took money for that number or for products that cost nothing. *)
Sells == P!Spec

(* A basket is Submitted only if its order exists: the two are saved in    *)
(* one atomic block (checkout/mixins.py handle_order_placement).           *)
SubmittedHasOrder == \A b \in Baskets : status[b] = Submitted => order[b] # {}

(* Stripe takes the money for a basket a second time only if it had        *)
(* forgotten the idempotency key of one of the intents, however often the  *)
(* customer asks for the form and submits it, whatever was lost, rolled    *)
(* back or left out of the basket's attribute in between.                  *)
StripeChargesOnce ==
  \A t, u \in Charges \ expired :
    /\ charge[t].via = "stripe" /\ charge[t].state = "taken"
    /\ charge[u].via = "stripe" /\ charge[u].state = "taken"
    /\ charge[t].basket = charge[u].basket
    => t = u

-----------------------------------------------------------------------------
(* Properties that need the requests to come one after another.            *)

(* A basket whose order exists is never offered to the customer again, and *)
(* its lines do not turn up in another basket.                             *)
OrderedStaysClosed ==
  \A b \in Baskets : order[b] # {} => status[b] \notin {Open, Merged}

(* A customer gets the products that one accepted payment was computed     *)
(* for, although the basket is read again after the payment and the order  *)
(* is made from what is read.                                              *)
OrderMatchesCharge ==
  \A b \in Baskets : ~Free(order[b]) =>
    \E t \in Charges : /\ charge[t].basket = b /\ charge[t].state = "taken"
                       /\ charge[t].lines = order[b]

(* The order number of a declined payment is not charged afterwards.       *)
DeclinedNotCharged ==
  [][\A t \in Charges :
       charge[t].state # "taken" /\ charge'[t].state = "taken"
         => charge'[t].basket \notin declined]_vars

(* Liveness.  A PayPal payment whose success is recorded leads to an order *)
(* in the end, whatever kept the customer's own request from placing it.   *)
RecordedIsOrdered ==
  \A b \in Baskets :
    (\E t \in recorded : charge[t].via = "paypal" /\ charge[t].basket = b)
      ~> order[b] # {}

-----------------------------------------------------------------------------
(* What the repository says of the code, and the code does not do.         *)

(* "Always commit transactions before sending tasks depending on state     *)
(* from the current transaction!" (checkout/mixins.py): the order a worker *)
(* is told of is there.                                                    *)
StartedHasOrder == \A b \in started : order[b] # {}

(* "Make sure basket is Frozen which means payment was done"               *)
(* (management/utils.py): the repair finds every basket with a recorded    *)
(* Stripe payment, whose card it knows how to read, and orders it.         *)
RecordedStripeIsOrdered ==
  \A b \in Baskets :
    (\E t \in recorded : charge[t].via = "stripe" /\ charge[t].basket = b)
      ~> order[b] # {}

===============================================================================
