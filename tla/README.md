# A TLA+ model of the E-Commerce service

The repository is edX's E-Commerce service: a Django/Oscar application that sells
course enrolments. It charges customers through payment processors, places
orders, asks the LMS and other services to deliver what was bought, and takes
both steps back when staff refund an order. Every one of these operations is a
sequence of database writes with calls to other systems in between, made by web
requests, workers and management commands that know nothing of each other. This
directory models those sequences, checks them with TLC on small instances, and
proves the properties that matter most with TLAPS.

Paths below are relative to `src/ecommerce/extensions/` unless they begin with
`src/`.

## 1. Inventory

| Component | State it keeps | Operations | What makes it correct |
|---|---|---|---|
| **Order fulfilment** (`fulfillment/api.py`, `fulfillment/modules.py`, `order/processing.py`, `api/v2/views/orders.py`) | status of the order and of each line, delivery records (vouchers, entitlement UUIDs), a note with fulfilment details, the shipping event | fulfil at checkout, fulfil by API (worker or staff), override of statuses by command | Complete means delivered and recorded; statuses follow the pipelines; a failed order can be retried until it is Complete |
| **Refunds** (`refund/models.py`, `refund/api.py`, `api/v2/views/refunds.py`, `order/management/commands/create_refund_for_orders.py`) | refunds, refund lines, the payment source's refunded amount, payment events, an offer's usage | create by API, by command, by store notification; approve, approve payment only, deny | money is given back once and only for what the status says; a Complete line is revoked; the books match the processor |
| **Checkout and order placement** (`checkout/mixins.py`, `checkout/views.py`, `order/utils.py`, `basket/*.py`, `api/v2/views/baskets.py`, `api/v2/views/checkout.py`) | baskets Open, Frozen, Merged or Submitted; their lines; orders | fill, merge, freeze, place, place free, create by API | one order per number, for the products paid for; Submitted only with an order; an ordered basket is closed |
| **Payment views and processors** (`payment/views/*.py`, `payment/processors/*.py`) | processor responses; charges and credits at the processor | authorise and capture, confirm an intent, execute a payment, decline, duplicate, `issue_credit` | an answer is read for what it is; a repeated or late one places no second order |
| **In-app purchases** (`iap/`) | responses with the store's transaction | fill, freeze, execute, refund notification | a receipt is used once |
| **Repair of frozen baskets** (`src/ecommerce/management/`) | none of its own | `FulfillFrozenBaskets`, `refund_basket_transactions` | a paid Frozen basket gets its order, once |
| **Vouchers and code assignments** (`voucher/`, `offer/models.py`, `offer/utils.py`, `api/serializers.py`, `api/v2/views/enterprise.py`, `api/v2/views/assignmentemail.py`, `src/ecommerce/enterprise/conditions.py`) | voucher applications, the offers' limit and count, offer assignments, nudge e-mails | assign, remind, revoke, redeem, replace after a refund, change the limit, report and bounce of e-mails | a code is redeemed as its usage allows and promised no more often than it can be redeemed; whoever holds an assignment can redeem it; a redeemed or revoked assignment stays so |
| **Offer conditions** (`offer/applicator.py`, `src/ecommerce/enterprise/conditions.py`, `src/ecommerce/programs/conditions.py`) | offers' counters | apply a discount | price predicates over catalogues of other services |
| **Catalogue, users, sites, dashboards, analytics** | configuration, products, users, events | CRUD, searches, mail | no protocol of several steps |

### How the parts interact

* Checkout ends in `handle_successful_order`, which fulfils the order in the
  checkout request or leaves it to a worker. The worker, staff and the
  dashboard use `PUT /api/v2/orders/<number>/fulfill/`. All reach
  `EventHandler.handle_shipping_event`, then `fulfill_order`, then one module
  per product type, then the LMS, the entitlement service or GetSmarter.
* A basket is filled by the cart, the app or the basket API, and paid for
  along one of the processors' routes. Every route ends in
  `handle_order_placement`, which places the order under a number computed from
  the basket's id, submits the basket, updates the assignments of the code in
  it and starts fulfilment. What goes wrong before leaves a Frozen basket for
  the staff's repair.
* A refund is created from the lines of a fulfilled order. Approving it calls
  the processor's `issue_credit`, then each line's `revoke_line`, whose module
  is the one that fulfilled it. An entitlement is revoked by the UUID that
  fulfilment recorded on the line.
* Nothing but the database is shared. Isolation is MySQL's READ COMMITTED with
  Django's autocommit: a request handler is a transaction only where
  `ATOMIC_REQUESTS` (`src/ecommerce/settings/base.py:72`) is left on or
  `transaction.atomic()` says so: the PayPal, mobile execution, basket, order and
  refund views opt out and set their own blocks. A row is locked only from its
  first write to the end of its transaction, save the vouchers, which Oscar locks
  while it places an order.

### What is hard here

* *Concurrency.* Handlers read a status, call another system for seconds, and
  write a status computed from what they read. `StatusMixin.set_status` and
  Oscar's `set_status` consult the object in memory, never the row.
* *Partial failure.* One line of several fails, or its module raises, between
  lines that succeeded.
* *Crash and rollback.* The process dies, or an exception rolls the transaction
  back, after an outside call took effect.
* *Lost answers.* A call takes effect and its answer never arrives; the retry
  repeats it.
* *Stale rows.* Django saves every column of a row as it was loaded; a basket,
  an assignment or an offer's count is overwritten with what it used to be.
* *Boundaries.* Refunds of nothing, lines no module supports, charges already
  given back in full, codes without a limit or at it.

`PROJECT.json` lists every such hazard at its line, with the property that
would catch it.

## 2. The modules

| Module | What it is |
|---|---|
| `Fulfillment` | fulfilment of one order: state, one action per step of an attempt, properties |
| `MCFulfillment` | product types of small orders, symmetry |
| `FulfillmentProofs` | type correctness, what Complete and shipped mean, and the order and its lines when attempts come one after another |
| `Refund` | the refunds of one order |
| `MCRefund` | product types and prices of small orders, symmetry |
| `RefundProofs` | type correctness, and that a refund's status never runs ahead of the money |
| `RefundRevocationProofs` | what a Complete refund and a store's notification leave behind, for any interleaving |
| `RefundSerialProofs` | one credit per refund, one refund per line, final statuses, the books and the enterprise offer, when requests come one after another |
| `Purchase` | what selling a basket promises: the abstract specification of checkout |
| `Checkout` | one customer's baskets along eight routes to an order, and the repair; instantiates `Purchase` |
| `MCCheckout` | symmetry |
| `CheckoutProofs` | type correctness, that `Checkout` implements `Purchase`, and two safety invariants |
| `CheckoutSerialProofs` | what the order and the charge say of each other when requests come one after another |
| `Codes` | the codes of one enterprise coupon |
| `MCCodes` | symmetry |
| `SumTheorems` | sums over finite sets, as the proofs need them: lemmas no one module owns |
| `CodesProofs` | type correctness; what no interleaving of redemptions can break; and assignments, their holders and nudge e-mails when requests come one after another |

The modules share no state. `Checkout` ends where `Fulfillment` begins (the
fulfilment worker is told of an order), `Fulfillment` where `Refund` begins (a
line to revoke); `Codes` refines what `Checkout` abstracts as "a voucher cannot
be used any more".

### Fulfillment

`order`, `line`, `rows`, `note` and `shipped` are committed rows; `delivered`
is what the outside services granted; `req[r]` is a request's memory: the order
and the lines it loaded (`order`, `line`), the lines not handled yet (`todo`),
and what its transaction has written and not committed (`wrote`, `rows`,
`noteGone`). `Save` leaves a write pending inside a transaction and commits it
at once outside. A write waits for the row lock of another transaction
(`Unlocked`).

| Action | Code |
|---|---|
| `BeginAtPlacement` | `handle_successful_order` fulfils the order it just placed, outside any transaction, through the object it still holds |
| `BeginByApi`, `RefusedByApi` | `OrderViewSet.fulfill`: the status check, then `validate_shipping_event`, which Oscar refuses when a line was shipped before |
| `Granted` | the outside service grants a line, or the code module has created the vouchers; nothing is saved yet |
| `RecordDelivery` | the write of the record: `OrderLineVouchers`, the entitlement's UUID |
| `MarkComplete` | `set_status(Complete)`, a later write; the code module may still raise while it e-mails |
| `DeleteNote` | the executive education module's last write |
| `Failed` | a module's failure on a line; a call that timed out or broke off may have reached the service |
| `FailureNotAllowed` | the new status is not in the line's pipeline: `InvalidLineStatus`, caught by `fulfill_order` |
| `ModuleRaises` | any other exception a module lets through |
| `Tally`, `Finish` | the `finally` block reads the lines again; `order.set_status`; `create_shipping_event` for the lines that were Complete when loaded; commit |
| `Crash` | the process or the transaction ends |
| `MarkOrdersStatusComplete` | the command of the same name |

Tally and Finish are two steps because another request may commit between the
`SELECT` of the lines and the `UPDATE` of the order. A delivery is up to four,
as the attempt of the checkout views runs outside a transaction: each write is
visible at once, and the process may die between the grant, the record, the
status and the deletion of the note.

### Refund

`status`, `covers`, `rline`, `booked`, `source` and `freed` are committed
rows: the refunds, the lines each total is made of, refund lines, `Refunded`
payment events, `amount_refunded`, and how often the enterprise offer got its
usage back. `ledger` and `credited` are the processor's books, `access` the
LMS's. `lost[f]` counts the credits that were granted while the request that
asked for them failed, rolled back or died before the status was saved.
`Course` says which course each line is of: the API is asked to refund a course
and finds its seat and its enrolment code.

| Action | Code |
|---|---|
| `BeginCreate`, `BeginCommand`, `BeginStoreRefund` | the three creators select lines that have no refund: the API the seat and code of a course (`ByCourse`) or an entitlement (`ByEntitlement`), the store the lines of a course, both in a transaction; the command any lines, outside one |
| `InsertRefund`, `InsertLine`, `EndCreate` | `Refund.create_with_lines`, row by row |
| `ApproveAtOnce` | a refund of nothing, and a store refund, are approved by their creator |
| `BeginApprove` | `RefundProcessView`: `approve` or `approve_payment_only`; the refund and the payment source are read here |
| `Credited`, `NothingToCredit`, `CreditFailed`, `CreditRaises` | what `issue_credit` of each processor may do |
| `Book`, `BookCutShort` | `source.refund()`, the payment event, `set_status`, the enterprise offer; the death of the command between them |
| `CompleteWithoutRevoking`, `NothingToPay` | the payment-only ends of `approve` |
| `StartRevocation`, `Revoked`, `RevocationFailed`, `RevocationNotImplemented`, `SkipRevocation`, `NoModule` | `revoke_fulfillment_for_refund`, line by line, on lines loaded once |
| `FinishRevocation` | `_revoke_lines` sets the status; a store refund that is not Complete rolls back |
| `BeginDeny`, `Deny` | `deny` and the lines' `deny` |
| `Crash` | the process or the transaction ends |

The processor is a member of `Processors`, chosen once: `gateway` (CyberSource,
PayPal) grants whatever it is asked; `stripe` refuses to exceed the charge and
answers "already refunded" once it is exhausted, which the code takes for
success; `store` (App Store, Play Store) has given the money back before the
service hears of it; `none` is a free order.

### Checkout and Purchase

`status`, `lines`, `order` and `recorded` are committed rows: the baskets, the
products in them, the products of the order under the basket's number, and the
responses that say a payment was accepted. `intent` is the Stripe intent that
each basket's attribute names, also committed. `charge` is what the processors
know, and `expired` the Stripe intents whose idempotency key Stripe has
forgotten. `started` is what the fulfilment worker was told. `req[r]` is a request:
the basket as it was loaded (`lines`), and the saves that wait for its
transaction (`status`, `order`, `recorded`). A pending save of a basket holds
its row lock (`Unlocked`).

| Action | Code |
|---|---|
| `MergeOpenBaskets`, `CartLoad`, `CartSave` | `Basket.get_basket` and the middleware; `prepare_basket` saves the basket it loaded, whatever it has become |
| `LoadOpen`, `LoadIntent`, `LoadPayment`, `LoadReceipt`, `LoadFrozen` | how each route finds its basket: the payment form takes an open one, an intent finds the basket whose attribute names it, a payment id the one of its response, whatever their status, the repair a frozen one with a response it can read |
| `CreateIntent`, `ReturnIntent`, `ForgetKey` | the capture context: Stripe creates an intent, or knows the idempotency key and answers with the one it has, and the basket's attribute is set to it; after a day Stripe forgets the key |
| `CreatePayment`, `FreezeForStore`, `StoreTakesMoney`, `ApiCreate`, `ApiAnswers`, `ApiFails` | `POST /checkout/`, the app store, `POST /baskets/`, which deletes its basket when the processor raises |
| `Freeze` | `basket.freeze()` of the REST, free and API routes |
| `RestAccepted`, `RestDeclined`, `RestDuplicate`, `ApplePayAccepted`, `IntentConfirmed`, `PaymentExecuted`, `ReceiptAccepted`, `Refused`, `LostAnswer` | the processors' answers, and what each view makes of them |
| `RecordPayment` | the end of PayPal's atomic block |
| `Place`, `PlaceFails`, `Start`, `StartFails`, `Finish` | `handle_order_placement`, `handle_successful_order`, `handle_post_order` and the exceptions out of them (`Fail`) |
| `RepairFulfils` | `FulfillFrozenBaskets` on a basket that has an order |
| `Crash` | the process or the transaction ends |

`Purchase` has two variables, the order numbers that were `paid` for and the
products `sold` under each, and two actions: `Pay` for a number, and `Sell` a
number that has not been sold, if it was paid for or the products are free.
`Checkout!Sells` is `Purchase!Spec` with `paid` the baskets that have a charge
in state taken and `sold` the committed orders. Processors may take money and
nothing be sold; the reverse, a second order under a number, or an order that
changes may never be.

### Codes

A coupon has one usage type (`usage`); `limit` is `max_global_applications` of
its codes' offers, 0 for None. `rows` are the `OfferAssignment`s in the order
of their keys, `apps` the voucher applications, `uses` each offer's
`num_applications`, `nudge` the nudge e-mails, `mail` the assignment e-mails
whose delivery is not reported yet. A request (`req[r]`) decides from what it
reads and keeps the rows it will save, create or unsubscribe until its
transaction commits.

| Action | Code |
|---|---|
| `Assign` | `CouponCodeAssignmentSerializer.validate` chooses codes (`Fillable`, `Fits`), `create` makes the rows and sends the e-mails |
| `ReplaceCode` | `RefundedOrderCreateVoucherSerializer` |
| `Revoke`, `Remind` | the bulk serializers; every row is saved as it was read |
| `Resize` | the coupon's update, with `update_assignments_for_multi_use_per_customer` (`TopUp`) |
| `Commit` | the end of those requests |
| `Delivered`, `DeliveredTooEarly` | the worker's report of an assignment e-mail, before or after the assignment is committed |
| `Bounce`, `BounceRow` | the command that asks for bounced e-mails: read once, written row by row |
| `Apply` | the code's offer is applied to a basket: `Available`, `Redeemable` |
| `Place` | `place_order` locks the voucher and asks `is_available_to_user` again |
| `RecordRedemption`, `CloseOrder`, `OrderCutShort` | `handle_successful_order` updates the assignments, and the exceptions that keep the order and lose that update |
| `Abandon` | the request rolls back |

`noise` is a history variable: it says that an order was cut short (`cut`), the
limit changed (`resized`), or one request gave a learner a once-per-customer
code twice (`twice`), since then some guarantees do not hold (see below).

## 3. What the runs check

| Run | Instance | Shows |
|---|---|---|
| `fulfill_serial` | seat, enrolment code and executive education; 1 request | `CompleteMeansDelivered`, `OrderMatchesLines`, `ShippedMeansDelivered`, `LinesFollowPipeline`, `TypeOK` over any sequence of attempts, failures and crashes |
| `fulfill_concurrent` | enrolment code and entitlement; 2 requests | `CompleteMeansDelivered` and `CompleteMeansRecorded` when two attempts interleave, and die between two writes |
| `fulfill_live` | 1 entitlement, 1 request, `FairSpec` | `EventuallyFulfilled` |
| `refund_serial` | seat, entitlement, an unsupported product of price 0 and an enrolment code, each of its own course; 2 refunds, 1 request; gateway and free orders; crashes and lost answers | `CreditedOnce`, `UnsettledMeansUncredited`, `BooksMatchLedger`, `OneLiveRefundPerLine`, `OfferFreedOnce`, `CompleteCoversItsLines`, `FinalStatusesStay`, `TypeOK` |
| `refund_concurrent` | seat and a free enrolment code; 2 refunds, 2 requests; gateway, Stripe and store; crashes and lost answers | `SettledMeansCredited`, `CompleteMeansRevoked`, `StoreRefundAllOrNothing` |
| `refund_live` | 1 seat, 2 refunds, 1 request, Stripe, `FairSpec` | `EventuallySettled` |
| `checkout_serial` | 2 baskets, a paid and a free product, 2 payments, 1 request, every route but the repair, every fault | `OrderedStaysClosed`, `OrderMatchesCharge`, `StripeChargesOnce`, `DeclinedNotCharged`, `TypeOK` |
| `checkout_concurrent` | 2 baskets, 1 product, 2 payments, 2 requests, cart, REST, Stripe, PayPal, basket API and repair, every fault but a forgotten key | `Sells` (the refinement), `SubmittedHasOrder`, `StripeChargesOnce` |
| `checkout_live` | 2 baskets, 2 products, cart, PayPal, app store, basket API and repair, 1 request, `FairSpec` | `RecordedIsOrdered`, and `OrderMatchesCharge` with the repair |
| `codes_serial` | 2 codes, 2 learners, every usage, no limit or 2, 1 request | `NeverOversold`, `AssignedCanRedeem`, `OneHolder`, `NudgedHoldsCode`, `FinalRowsStay`, `TypeOK` |
| `codes_concurrent` | 1 code, 2 learners, 3 usages, limit 2, 2 requests | `UsageRespected`, `RedeemedForAnOrder` |
| `refund_lostcredit` | a seat and an enrolment code of one course, refunded by the API | a violation of `CreditShowsInStatus`: `revoke_line` of codes, coupons and executive education raises `NotImplementedError` through `approve()` after the processor has paid. The rollback leaves the refund Open, and the next approval pays again. |

### Where the code and its promises part

`refund_lostcredit` is one such place. The others found while modelling have no
run of their own. Those with a named property are stated in the modules and
refuted by TLC when the property is put into the given configuration.

| Property and configuration | What happens |
|---|---|
| `Fulfillment!RetryNotRefused`, `fulfill_serial` | A retry that finds one line Complete records a shipping event although the order fails again. Every later retry is then refused, although `src/docs/manage_orders.rst` tells staff to retry. |
| `Fulfillment!OneVoucherBatchPerLine`, `fulfill_serial` | A retry hands every line to its module again; the code module creates a second batch of vouchers. |
| `Refund!ApprovableIsApproved`, `refund_live` with two lines | After a partial revocation a retry sets the line that is already Complete once more; `InvalidStatus` is raised and the refund never completes. |
| `Refund!RefundStaysFinal`, `refund_concurrent` | An approval that loaded an Open refund overwrites a denial committed while it waited for the processor. |
| `Checkout!StartedHasOrder`, `checkout_serial` | The fulfilment task is sent inside the request's transaction, against the comment above it (`checkout/mixins.py:229`); a crash or error afterwards rolls the order back. |
| `Checkout!RecordedStripeIsOrdered`, `checkout_live` with the route "stripe" | "Make sure basket is Frozen which means payment was done" (`src/ecommerce/management/utils.py:94`): Stripe's route never freezes its basket, so the repair turns it down. |

Without a property:

* *Fulfilment.* An exception in one module leaves the lines after it Open in an
  order marked Fulfillment Error; `fulfill_order`'s docstring says each line is
  marked. Of two concurrent attempts the one that failed can move the order from
  Complete to Fulfillment Error, which the order pipeline does not allow.
* *Refunds.* Two concurrent creations can each refund the same line, as the
  check in `create_with_lines` and its inserts are not serialised. `post_refund`
  is documented as following the revocation and is also sent by
  `approve_payment_only`, which revokes nothing.
* *Checkout.* Concurrent requests break the three serial properties:
  `prepare_basket` empties and reopens a basket that is being paid for, a frozen
  or submitted one included; a redundant notification's page says no payment was
  collected although it was; a second PayPal payment of one basket is executed
  and charged. Stripe forgets an idempotency key after about a day: when the
  answer to a payment was lost and the basket is still open, the capture context
  then creates a second intent, writes it over the first in the basket's
  attribute, and the customer can pay again. `StripeChargesOnce` excludes no
  more than this. Even serially, a Stripe payment whose placement failed leaves the
  basket open: its products can be changed, `POST /checkout/` freezes it, and
  the repair orders the new products on the old payment; this is why no run has
  both Stripe and the repair under `OrderMatchesCharge`. Apple Pay's responses
  are rolled back with the failed placement. `BasketCreateView` deletes a basket
  whose order was placed before the exception.
* *Codes.* A lower limit makes the slots of a code negative, which counts as
  free: learners without an assignment may redeem it. An assignment that lists a
  learner twice makes two rows, as neither the serializer nor the view removes
  the second entry; of a once-per-customer code the learner redeems one, and the
  other row stays open, takes a slot and cannot be redeemed. A higher limit tops
  up the
  rows of the learner who had the code first, revoked or not. A code for one
  learner without a limit raises `TypeError` after its order. A learner whose
  code was revoked and assigned again is never nudged again, since the
  unsubscribed row stays. A bulk revocation unsubscribes every listed learner
  from every listed code, pairs that failed validation included. A report that
  overtakes the commit of its assignment is dropped and the row stays pending.
  Reminders, revocations and bounces overwrite rows redeemed meanwhile.
  `num_applications` is saved from the instance loaded with the basket.

That is why `OrderMatchesLines`, `OneLiveRefundPerLine`, `FinalStatusesStay`,
the books, and the properties of `checkout_serial` and `codes_serial` are
checked for requests that come one after another, and the others for any
interleaving.

### Bounds, and why they suffice

* *Requests.* Two: each conflict in the code is between one reader and one
  writer of a row. *Lines.* Two or three: one before, at and after a failure;
  module order is fixed by product type, so more lines of a type add
  repetitions, not new orders. *Refunds.* Two, as a denied refund is what makes
  a second one of the same line possible.
* `MaxCredits = 2` caps the credits for one refund: one is right, two is the
  mistake. At the cap the processor only refuses. `Free` keeps creations to the
  keys in `Refunds`.
* *Baskets and payments.* Two: a merge and a decline need a second basket, a
  duplicate or second payment a second charge. A paid and a free product give an
  order whose charge does not cover it. The concurrent run has one product, as
  its properties do not compare products, and leaves out Apple Pay, the free
  checkout and the app store, which take the same steps as the REST route once
  they have a basket, and the forgotten keys; `checkout_serial` has them
  all. Two payments show one forgotten key; for any number, and any number of
  requests, `StripeChargesOnce` is proved.
* *Codes.* Two codes let an assignment spill from one to the next and a
  replacement add one; `Limits = {0, 2}` with `OFFER_MAX_USES_DEFAULT = 1` is no
  limit, and one reached by two learners. `MaxRows` and `MaxOrders` are 2, as
  a slot is contested by two; they cap the creation of assignments and orders
  in the guards of `Begin`, `Commit`, `RecordRedemption`, `CloseOrder` and
  `Apply`. The concurrent run leaves out multi-use coupons, of whose
  redemptions its properties say nothing.
* `rows` (of `Fulfillment`) counts 0, 1 or several records. No other counter is capped: the rest
  are bounded by these.
* `CHECK_DEADLOCK FALSE` everywhere: an order that is Complete, with its
  refunds settled, has nothing left to do, nor has a customer whose baskets are
  ordered, nor a coupon at its bounds.
* Symmetry is used for requests, refund keys, baskets, payments and learners, which the modules never
  compare or order, and only in runs without liveness.

### Fairness

`Fulfillment!Fairness`: the worker's and the staff's retries (`BeginByApi`) are
taken up, and a running request takes its next step, as the web server and
Celery guarantee. Strong fairness of `Granted` says that an outside service
that is asked again and again answers at last, and `<>[][~Crash]` that crashes
stop; without either no retry could help. Nothing is assumed of failures,
which may come first any number of times. `Refund!Fairness` is the same for
staff who approve a refund until it is settled, the processor and the LMS.
`Checkout!Fairness` says that a request comes to its end, that crashes stop, that
staff repair a frozen basket again and again (`Repairs`, through the management
page made for it), and that the placement is not refused every time. The
action properties and invariants need no fairness. The live runs use one line:
with several, `ApprovableIsApproved` and `RetryNotRefused` show that retrying
does not help.

## 4. What is proved

The theorems hold for every set of lines, refunds and requests, every product
type and price, and every combination of faults; they assume no more than the
ASSUMEs of the modules, which say what the constants are.

* `FulfillmentProofs!TypeCorrect`, `RefundProofs!TypeCorrect`:
  `Spec => []TypeOK`. In `Refund` the type invariant is not inductive: a
  request past insertion must have a refund (`Known`), or the rows it writes
  could be those of no refund.
* `FulfillmentProofs!OrderDelivered`: `Spec => []CompleteMeansDelivered`, and
  `ShippedDelivered`: `Spec => []ShippedMeansDelivered`. A request carries
  claims in memory that become rows later, so the invariant `DeliveryInv`
  extends the property to them: a line that a request has loaded or written as
  Complete, is about to mark, or will ship, is delivered, and a request whose verdict
  is Complete has seen every line delivered. It is inductive because nothing
  takes a delivery back and each write is justified by the request's own memory,
  whatever others commit in between; this is the argument why lost updates
  never make a status run ahead.
* `RefundProofs!SettledCredited`: `Spec => []SettledMeansCredited`. `CreditInv`
  extends the property to requests in progress: one past its credit has
  its refund backed by the processor's ledger. `BackedStays` says that no step
  takes backing away (credits only grow, and a Stripe charge given back in
  full stays so), and each action is shown to establish or to keep it.
* `FulfillmentProofs!CompleteRecorded`: `Spec => []CompleteMeansRecorded`. The
  record of a line a request is past recording, or has written as Complete, is
  committed or will be with it (`RecordInv`); records are only added
  (`RecordsGrow`), so that what was committed outside a transaction stays, and
  what a transaction holds is committed or lost together. The override command
  is the only other way to Complete, and the property excludes it.
* `RefundRevocationProofs!CompleteRevoked`: `Spec => []CompleteMeansRevoked`.
  `RevocationInv` says three things of a request. A Complete line it has written
  lost its access or is of a refund of nothing (`Earned`). The lines it believes
  its refund covers are the committed ones (`Own`), or else a refund of nothing
  in memory could complete the lines of one that is not. And no other request
  works on a refund it has not committed (`Alone`), which keeps the second true.
* `RefundRevocationProofs!StoreAllOrNothing`: `Spec => StoreRefundAllOrNothing`.
  A store's notification stays inside its transaction, its credit cannot fail,
  and it returns only after a Complete verdict (`StoreInv`).

* `CheckoutProofs!TypeCorrect`, `SubmittedOrdered`, `StripeOnce` and
  `Implements` (`Spec => Sells`). One inductive invariant (`Inv`) carries them:
  no two requests hold pending saves of one basket (the row lock), a pending
  order comes with a pending Submitted, for a basket without an order and with
  lines that are free or a charge taken for it, a request past payment holds
  such lines, and only taken charges are recorded. The refinement then needs
  one fact of each action: it commits at most one order, of a number without
  one, and takes at most one charge. `StripeOnce` adds that of a basket's intents
  Stripe knows the key of one at most (`OneIntent`), as a second is only created
  when it knows none, and a key that is forgotten stays so (`KeysExpire`).
* `CodesProofs!UsageKept`: `Spec => []UsageRespected`. The invariant says that
  while a request holds a voucher's lock the code is available to its learner
  (`LockInv`), which no other order can undo, as it would need the lock.
* `CodesProofs!TypesAreKept`: `Spec => []TypeOK`, for a finite set of codes, as
  an update of the coupon lists them. Rows come from `FlattenSeq`, whose
  recursive function is shown to exist for one list of lists, by the least
  length at which it could fail to (`FlattensExist`); the same device gives the
  sums of `SumTheorems`, in place of an induction.
* `CodesProofs!RedeemedRowsHaveOrders`: `Spec => []RedeemedForAnOrder`. Of a code
  and a learner, the redeemed rows and the orders placed outside a transaction
  whose row is not saved yet (`Owing`) are together at most the orders there are
  (`RedeemInv`). Each request saves one redeemed row at most and each order pays
  for one, so that stale saves of other requests cannot break it: none of
  them writes REDEEMED where it was not.

The properties of requests that come one after another are false of
overlapping ones, and their theorems assume `OneAtATime`: there is one request,
as in the serial runs, which may start any number of times. They hold for every
number of lines and refunds, and after any sequence of failures, crashes and
retries.

* `FulfillmentProofs!SerialOrderMatches` (`[]OrderMatchesLines`) and
  `SerialLinesFollow` (`LinesFollowPipeline`). `SerialInv` says that a request's
  memory is what it will commit (`Sees`), that it moves a line at most once
  and along the pipeline (`Moves`), and that its verdict is of the lines it is
  about to commit (`Judges`).
* `RefundSerialProofs!SerialCreditedOnce` (`[]CreditedOnce`) and
  `SerialUnsettledUncredited` (`[]UnsettledMeansUncredited`). `LedgerInv`
  accounts for every credit: it shows in the status, is held by the request that
  got it, or was lost. The phase of a request says which (`Tells`).
* `RefundSerialProofs!SerialOneLiveRefund` (`[]OneLiveRefundPerLine`) and
  `SerialFinalStays` (`FinalStatusesStay`). `LineInv` says that what a request is
  about to commit touches no closed refund or line and no line another
  refund has (`Committable`), and that the lines it loaded are still the lines in
  the database (`Steady`). The second is what overlapping requests break.
* `RefundSerialProofs!SerialCompleteCovers` (`[]CompleteCoversItsLines`) and
  `SerialOfferFreedOnce` (`[]OfferFreedOnce`). `WholeInv` adds to `LineInv` that
  while no revocation failed the lines a request has gone through are Complete
  (`DoneSoFar`), and that whoever gives the offer back is the first to, with a
  paid refund of the whole order (`FreesFirst`): with `OneLiveRefundPerLine`
  there is no second one.
* `RefundSerialProofs!SerialBooksMatch` (`[]BooksMatchLedger`), for a finite set of
  refunds. `BookInv`: of each refund, the processor's credits are those booked,
  those lost and the one the running request still holds (`Balanced`), refunds
  of nothing aside, whose bookings no processor matches (`ForNothing`), and the
  source is the sum of what was booked (`BookSum`), as the running request
  read it. A booking changes the sum by one summand
  (`SumTheorems!SumChange`).
* `CheckoutSerialProofs!SerialOrderedClosed` (`[]OrderedStaysClosed`),
  `SerialDeclinedSpared` (`DeclinedNotCharged`) and `SerialOrderMatches`
  (`[]OrderMatchesCharge`). `ClosedInv`: a request's copy of its basket is the
  basket in the database, a payment that is only asked for on a frozen basket
  has a closed basket with those products or none, and declined baskets are
  empty. `MatchInv`: a request past payment holds products some taken charge was
  computed for. The last theorem assumes that Stripe and the repair are not both among the
  routes: with both the property is false even of serial requests (section 3),
  as Stripe leaves its basket open.
* `CodesProofs!SerialFinalRowsStay` (`FinalRowsStay`). `FinalInv`: only open rows
  are about to be saved. Reports of e-mails come at any time, and touch only
  pending rows.
* `CodesProofs!SerialNudgedHoldsCode` (`[]NudgedHoldsCode`). `NudgeInv`: what a
  request is about to commit leaves an open row for every pair it goes on nudging
  (`Keeps`) and creates one for every pair it begins to nudge (`Brings`). The
  second needs the place of each learner's rows in the flattened list (`Lie`).
* `CodesProofs!SerialOneHolder` (`[]OneHolder`), for finite sets of codes and
  learners. That open rows of a code have one learner is not inductive: an
  update of the coupon to the limit it has would top up the rows of a former
  learner. `HolderInv` adds that whoever has rows of a code, revoked ones
  included, has as many as the limit (`FullSets`), so that there is nothing to
  top up.
* `CodesProofs!SerialNeverOversold` (`[]NeverOversold`) and
  `SerialAssignedCanRedeem` (`[]AssignedCanRedeem`), for finite sets of codes and
  learners, in histories without `noise`. Neither is inductive: for the second,
  the open rows of a code must
  not stand in each other's way. `FairInv` says so of every code (`Fair`): orders
  and open rows together stay within its limit; once per customer, a learner has
  one open row, and none with an order; and of a code for one learner the open
  rows are those of the learner who has orders. It says the same of the rows a
  request is about to save, counted with the order it places in its transaction
  (`FairCommit`), unless it lists a learner twice (`Doubled`). Between placing an
  order and saving its row there may be one
  too many, which the row about to be redeemed makes up for (`Taking`). The
  steps that assign rows need `HolderInv`, and those that close them `FinalInv`.

Only model-checked: liveness, which is out of the prover's reach. Every other
property a passing run checks is stated by a theorem.

## 5. What is simplified or left out

* Money is `Cost[S]` of a set of lines; quantities, currencies and taxes are
  not distinguished.
* Inside a transaction the writes of an approval after the credit (`Book`) are
  one step, as nobody sees them before the commit. `BooksMatchLedger` leaves out
  refunds of nothing: the command that dies after the event of such a refund
  books it again, an amount of zero.
* `MarkOrdersStatusComplete` is one step and waits for row locks; the command
  writes the order after its lines.
* The enrolment, entitlement and executive education calls are what they
  answer: granted, refused, broken off (the request may have arrived), or an
  answer the module cannot read.
* `update_orderline_with_enterprise_discount_metadata` saves a line of an order
  with an enterprise discount before the LMS is called, with the status it was
  loaded with; that write is left out. So are the locks an insert takes on the
  row it refers to; without them there are more interleavings.
* E-mails, analytics, HubSpot and audit logs are written after the fact and
  read by nothing here.
* *Checkout.* Prices are the set of products they were computed for. Several
  open baskets are merged in a step of its own that other handlers wait for.
  `FreezeForStore` and `RepairFulfils` call nobody between their reads and their
  writes and are one step. `CreateIntent`, `ReturnIntent` and `CreatePayment`
  do call the processor, and are one step as well: other requests do not
  come in between, and the request may still die after the call
  (`Attribute`); a payment PayPal created for a request that died is found by
  nobody. The check for products already bought, the SDN check and the form's
  validation are the ways to `Refused`. The reversal of a payment pending
  review is part of `RestDeclined`. The app presents a receipt with the basket
  it was for.
* *Codes.* Which customer and catalogue a learner belongs to and an offer's
  discount limits are assumed to allow the redemption. Lists of learners have
  one or two entries, the same learner possibly twice; a revocation names at least one learner who holds the code. The
  order in which codes are used up is left open. Outside a transaction the
  creation of rows, the redeemed row and the unsubscription are one step.
  Reports of e-mails that share a send id arrive together. Coupon deletion, the
  visibility flag and the command that sends nudge e-mails are left out.
* Not modelled: `refund_basket_transactions`, which credits the charges of the
  baskets its caller lists and changes no basket or order; the catalogue,
  users, dashboards, offer conditions and analytics, for the reasons in
  `PROJECT.json`.

## 6. Plan

Done, in this order: `Fulfillment` and `Refund`, where other systems are called
in the middle of a transaction; `Checkout` and `Purchase`, where the money comes
in; `Codes`, where rows are promised and redeemed. What is left:

1. `Lifecycle`: checkout, fulfilment and refunds of one order together,
   refining an abstract order that is sold, delivered, then at most once paid
   back.
2. An abstract specification of a code, with `Codes` for requests one at a time
   shown to implement it, from `FairInv`; liveness of the e-mail reports.
