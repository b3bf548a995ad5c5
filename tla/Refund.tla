-------------------------------- MODULE Refund --------------------------------
(***************************************************************************)
(* Refunds of one order (ecommerce/extensions/refund).                     *)
(*                                                                         *)
(* A refund is created for some lines of the order, by the customer through*)
(* the refund API, by the create_refund_for_orders command, or by the app  *)
(* store's notification.  Staff approve or deny it.  Approving pays the    *)
(* money back through the payment processor, then revokes the lines one by *)
(* one at the LMS.  Both outside calls happen inside the database          *)
(* transaction that will record them, and nothing locks the refund while   *)
(* they are made.                                                          *)
(*                                                                         *)
(* API requests and store notifications run in one transaction (READ       *)
(* COMMITTED, Django's default); the command saves each row as it goes.    *)
(* A transaction that writes a row keeps its lock to the end.              *)
(***************************************************************************)
EXTENDS Naturals, FiniteSetsExt

CONSTANTS
  Lines,       \* the order's lines
  Refunds,     \* primary keys a refund may get
  Requests,    \* requests and commands that may run at the same time
  Kind,        \* the product type of each line
  Course,      \* the course of each line's product
  Cost,        \* what a set of lines costs in an order that is paid for
  Processors,  \* who may have taken the money
  HasOffer,    \* an enterprise offer discounted the order
  Creators,    \* who creates refunds
  Faults,      \* which faults happen
  MaxCredits   \* bound: credits the processor grants for one refund

Kinds == {"seat", "coupon", "code", "entitlement", "donation", "execed", "other"}

ASSUME OrderAssumption ==
  /\ Kind \in [Lines -> Kinds]
  /\ DOMAIN Course = Lines
  /\ Cost \in [SUBSET Lines -> Nat]
  /\ Cost[{}] = 0
  /\ Cost[Lines] > 0
  /\ HasOffer \in BOOLEAN

(* "gateway" is CyberSource or PayPal; "store" is an in-app purchase; with  *)
(* "none" the order was free and has no payment source.                    *)
ASSUME SettingAssumption ==
  /\ Processors \subseteq {"gateway", "stripe", "store", "none"}
  /\ Creators \subseteq {"api", "command", "store"}
  /\ Faults \subseteq {"crash", "lost answer"}
  /\ MaxCredits \in Nat

-----------------------------------------------------------------------------
(* Statuses and pipelines.                                                 *)

Open               == "Open"
Denied             == "Denied"
PaymentRefundError == "Payment Refund Error"
PaymentRefunded    == "Payment Refunded"
RevocationError    == "Revocation Error"
Complete           == "Complete"
Absent             == "no row"
Unwritten          == "unwritten"
NoRefund           == "no refund"

ASSUME RefundAssumption == NoRefund \notin Refunds

RefundStatus == {Open, Denied, PaymentRefundError, PaymentRefunded,
                 RevocationError, Complete}
LineStatus   == {Open, Denied, RevocationError, Complete}

RefundPipeline(s) ==
  CASE s = Open               -> {Denied, PaymentRefundError, PaymentRefunded}
    [] s = PaymentRefundError -> {PaymentRefundError, PaymentRefunded}
    [] s = PaymentRefunded    -> {RevocationError, Complete}
    [] s = RevocationError    -> {RevocationError, Complete}
    [] OTHER                  -> {}

LinePipeline(s) ==
  CASE s = Open            -> {Denied, RevocationError, Complete}
    [] s = RevocationError -> {RevocationError, Complete}
    [] OTHER               -> {}

(* Mutant: a setting that names a status outside the pipeline.             *)
PendingLineStatus == "Pending"

InitialLineStatus == Open

VARIABLES
  processor,  \* committed: the processor of the order's payment source
  status,     \* committed: each refund's status
  covers,     \* committed: the lines whose price makes up its total credit
  rline,      \* committed: per refund, its line's status for each order line
  booked,     \* committed: per refund, "Refunded" payment events
  source,     \* committed: amount_refunded of the order's payment source
  freed,      \* committed: times the enterprise offer's usage was taken back
  ledger,     \* at the processor: credits granted per refund
  credited,   \* at the processor: money given back in all
  access,     \* at the LMS: the customer still has the line's product
  paidOnly,   \* history: refunds completed by approve_payment_only
  rejected,   \* history: an approval ended in InvalidStatus
  lost,       \* history: credits granted whose request failed, rolled back
              \*   or died before the status was saved
  req         \* the requests' local state

db      == <<processor, status, covers, rline, booked, source, freed>>
outside == <<ledger, credited, access>>
history == <<paidOnly, rejected, lost>>
vars    == <<db, outside, history, req>>

Request ==
  [phase   : {"idle", "insert", "credit", "book", "settled", "revoke", "deny"},
   txn     : BOOLEAN,                   \* inside transaction.atomic()
   store   : BOOLEAN,                   \* the app store's notification
   payOnly : BOOLEAN,                   \* approve_payment_only
   refund  : Refunds \cup {NoRefund},
   status  : RefundStatus,              \* of the loaded refund
   covers  : SUBSET Lines,
   line    : [Lines -> LineStatus \cup {Absent}],     \* loaded refund lines
   todo    : SUBSET Lines,              \* lines still to insert or revoke
   ok      : BOOLEAN,                   \* every revocation succeeded so far
   source  : Nat,                       \* amount_refunded when it was read
   paid    : BOOLEAN,                   \* issue_credit() returned
   \* what a rollback undoes or forgets:
   granted : BOOLEAN,                   \* a credit the processor just granted
   new     : BOOLEAN,
   saved   : BOOLEAN,
   books   : BOOLEAN,
   frees   : BOOLEAN,
   wrote   : [Lines -> LineStatus \cup {Unwritten}]]

NoRequest ==
  [phase |-> "idle", txn |-> FALSE, store |-> FALSE, payOnly |-> FALSE,
   refund |-> NoRefund, status |-> Open, covers |-> {},
   line |-> [l \in Lines |-> Absent], todo |-> {}, ok |-> TRUE, source |-> 0,
   paid |-> FALSE, granted |-> FALSE, new |-> FALSE, saved |-> FALSE,
   books |-> FALSE, frees |-> FALSE, wrote |-> [l \in Lines |-> Unwritten]]

TypeOK ==
  /\ processor \in Processors
  /\ status \in [Refunds -> RefundStatus \cup {Absent}]
  /\ covers \in [Refunds -> SUBSET Lines]
  /\ rline \in [Refunds -> [Lines -> LineStatus \cup {Absent}]]
  /\ booked \in [Refunds -> Nat]
  /\ source \in Nat
  /\ freed \in Nat
  /\ ledger \in [Refunds -> 0..MaxCredits]
  /\ credited \in Nat
  /\ access \in [Lines -> BOOLEAN]
  /\ paidOnly \in [Refunds -> BOOLEAN]
  /\ rejected \in BOOLEAN
  /\ lost \in [Refunds -> Nat]
  /\ req \in [Requests -> Request]

Init ==
  /\ processor \in Processors
  /\ status = [f \in Refunds |-> Absent]
  /\ covers = [f \in Refunds |-> {}]
  /\ rline = [f \in Refunds |-> [l \in Lines |-> Absent]]
  /\ booked = [f \in Refunds |-> 0]
  /\ source = 0
  /\ freed = 0
  /\ ledger = [f \in Refunds |-> 0]
  /\ credited = 0
  /\ access = [l \in Lines |-> TRUE]
  /\ paidOnly = [f \in Refunds |-> FALSE]
  /\ rejected = FALSE
  /\ lost = [f \in Refunds |-> 0]
  /\ req = [r \in Requests |-> NoRequest]

-----------------------------------------------------------------------------
(* Saving rows.                                                            *)

Worth(lines) == IF processor = "none" THEN 0 ELSE Cost[lines]
Total        == Worth(Lines)
HasSource    == processor # "none"

Overlay(wrote, base) ==
  [l \in Lines |-> IF wrote[l] = Unwritten THEN base[l] ELSE wrote[l]]

Commit(q) ==
  /\ UNCHANGED processor
  /\ status' = IF q.saved THEN [status EXCEPT ![q.refund] = q.status] ELSE status
  /\ covers' = IF q.new THEN [covers EXCEPT ![q.refund] = q.covers] ELSE covers
  /\ rline' = [rline EXCEPT ![q.refund] = Overlay(q.wrote, @)]
  /\ booked' = [booked EXCEPT ![q.refund] = IF q.books THEN @ + 1 ELSE @]
  /\ source' = IF q.books THEN q.source + Worth(q.covers) ELSE source
  /\ freed' = IF q.frees THEN freed + 1 ELSE freed

Flushed(q) ==
  [q EXCEPT !.new = FALSE, !.saved = FALSE, !.books = FALSE, !.frees = FALSE,
            !.granted = FALSE, !.wrote = [l \in Lines |-> Unwritten]]

(* The request's state becomes q.  What it wrote stays pending inside a    *)
(* transaction and is committed at once outside one.                       *)
Save(r, q) ==
  IF q.txn THEN req' = [req EXCEPT ![r] = q] /\ UNCHANGED db
           ELSE req' = [req EXCEPT ![r] = Flushed(q)] /\ Commit(q)

(* The request returns: its transaction commits.                           *)
End(r, q) == req' = [req EXCEPT ![r] = NoRequest] /\ Commit(q)

Forgotten(f) == lost' = [lost EXCEPT ![f] = @ + 1]

(* An exception leaves the handler: its transaction rolls back.            *)
Abort(r) ==
  /\ req' = [req EXCEPT ![r] = NoRequest]
  /\ IF req[r].granted THEN Forgotten(req[r].refund) ELSE UNCHANGED lost
  /\ UNCHANGED db

(* Row locks: the rows another transaction has written and not committed.  *)
RefundUnlocked(r) ==
  \A s \in Requests \ {r} : ~(req[s].refund = req[r].refund /\ req[s].saved)
LineUnlocked(r, l) ==
  \A s \in Requests \ {r} :
    ~(req[s].refund = req[r].refund /\ req[s].wrote[l] # Unwritten)
BooksUnlocked(r) ==
  \A s \in Requests \ {r} : ~req[s].books /\ ~req[s].frees

(* The lines of the request's refund, as its transaction sees them.        *)
LinesSeen(q) == Overlay(q.wrote, rline[q.refund])
Present(q)   == {l \in Lines : LinesSeen(q)[l] # Absent}

-----------------------------------------------------------------------------
(* Creating a refund.                                                      *)

(* Mutant: a refund whose revocation failed counts as no refund.           *)
UnrefundedByStatus ==
  {l \in Lines : \A f \in Refunds :
     rline[f][l] \in {Absent, Denied, RevocationError}}

(* Lines with no refund but denied ones.                                   *)
Unrefunded ==
  {l \in Lines : \A f \in Refunds : rline[f][l] \in {Absent, Denied}}

(* The API's own query is stricter: lines no refund was ever created for.  *)
Untouched == {l \in Lines : \A f \in Refunds : rline[f][l] = Absent}

Free(f) ==
  /\ status[f] = Absent
  /\ \A s \in Requests : req[s].refund # f

(* Bound: a creation starts only while a key is left for it.               *)
Select(r, lines, inTxn, byStore) ==
  /\ req[r].phase = "idle"
  /\ \E f \in Refunds : Free(f)
  /\ lines # {}
  /\ req' = [req EXCEPT ![r] =
       [NoRequest EXCEPT !.phase = "insert", !.txn = inTxn, !.store = byStore,
                         !.covers = lines, !.todo = lines]]
  /\ UNCHANGED <<db, outside, history>>

(* Only seats and enrolment codes have a course_key to be found by.        *)
OfCourse(c) == {l \in Lines : Kind[l] \in {"seat", "code"} /\ Course[l] = c}

ByCourse      == {OfCourse(Course[l]) : l \in Lines}
ByEntitlement == {{l} : l \in {m \in Lines : Kind[m] = "entitlement"}}

(* POST /api/v2/refunds/ names a course, or the UUID of an entitlement.    *)
BeginCreate(r, course) ==
  /\ "api" \in Creators
  /\ course \in ByCourse \cup ByEntitlement
  /\ Select(r, course \cap Untouched, TRUE, FALSE)

(* create_refund_for_orders: the whole order, outside any transaction.     *)
BeginCommand(r) ==
  /\ "command" \in Creators
  /\ Select(r, Unrefunded, FALSE, FALSE)

(* The store has given the money back and tells so: create and approve,    *)
(* for the course of the basket's first line.                              *)
BeginStoreRefund(r, course) ==
  /\ "store" \in Creators
  /\ processor = "store"
  /\ credited = Total
  /\ course \in ByCourse
  /\ Select(r, course \cap Untouched, TRUE, TRUE)

(* The buyer gets the money back from the app store.                       *)
StoreGivesMoneyBack ==
  /\ processor = "store"
  /\ credited # Total
  /\ credited' = Total
  /\ UNCHANGED <<db, ledger, access, history, req>>

InsertRefund(r) ==
  /\ req[r].phase = "insert"
  /\ req[r].refund = NoRefund
  /\ \E f \in Refunds :
       /\ Free(f)
       /\ \E q \in {[req[r] EXCEPT !.refund = f, !.new = TRUE, !.saved = TRUE]} :
            Save(r, q)
  /\ UNCHANGED <<outside, history>>

InsertLine(r, l) ==
  /\ req[r].phase = "insert"
  /\ req[r].refund # NoRefund
  /\ l \in req[r].todo
  /\ \E q \in {[req[r] EXCEPT !.wrote[l] = InitialLineStatus,
                              !.todo = @ \ {l}]} :
       Save(r, q)
  /\ UNCHANGED <<outside, history>>

Inserted(r) ==
  /\ req[r].phase = "insert"
  /\ req[r].refund # NoRefund
  /\ req[r].todo = {}

ApprovedAtOnce(q) == Worth(q.covers) = 0 \/ q.store

EndCreate(r) ==
  /\ Inserted(r)
  /\ ~ApprovedAtOnce(req[r])
  /\ End(r, req[r])
  /\ UNCHANGED <<outside, history>>

ApproveAtOnce(r) ==
  /\ Inserted(r)
  /\ ApprovedAtOnce(req[r])
  /\ req' = [req EXCEPT ![r].phase = "credit", ![r].source = source]
  /\ UNCHANGED <<db, outside, history>>

-----------------------------------------------------------------------------
(* PUT /api/v2/refunds/<id>/process/, approving: the credit.               *)

(* Mutant: an approval after Revocation Error credits once more.           *)
BeginApproveCreditsAgain(r, f, payOnly) ==
  /\ req[r].phase = "idle"
  /\ status[f] \in RefundStatus \ {Complete, Denied}
  /\ req' = [req EXCEPT ![r] =
       [NoRequest EXCEPT
          !.phase = IF status[f] = PaymentRefunded THEN "settled" ELSE "credit",
          !.txn = TRUE, !.payOnly = payOnly, !.refund = f, !.status = status[f],
          !.covers = covers[f], !.source = source]]
  /\ UNCHANGED <<db, outside, history>>

(* approve(): a Complete or Denied refund is left alone.  The payment      *)
(* source is read before the processor is called.                          *)
BeginApprove(r, f, payOnly) ==
  /\ req[r].phase = "idle"
  /\ status[f] \in RefundStatus \ {Complete, Denied}
  /\ req' = [req EXCEPT ![r] =
       [NoRequest EXCEPT
          !.phase = IF status[f] \in {Open, PaymentRefundError}
                    THEN "credit" ELSE "settled",
          !.txn = TRUE, !.payOnly = payOnly, !.refund = f, !.status = status[f],
          !.covers = covers[f], !.source = source]]
  /\ UNCHANGED <<db, outside, history>>

Amount(r) == Worth(req[r].covers)

Crediting(r) == req[r].phase = "credit" /\ HasSource

Grants(f, amount) ==
  /\ ledger[f] < MaxCredits
  /\ ledger' = [ledger EXCEPT ![f] = @ + 1]
  /\ credited' = credited + amount

(* Stripe keeps to what was charged; the others grant what is asked.       *)
WithinCharge(r) ==
  processor = "stripe" => Amount(r) > 0 /\ credited + Amount(r) <= Total

Paid(r, granted) ==
  req' = [req EXCEPT ![r].phase = "book", ![r].paid = TRUE, ![r].granted = granted]

(* Mutant: Stripe's "already refunded" is an error like any other.         *)
CreditedByCallOnly(r) ==
  /\ Crediting(r)
  /\ WithinCharge(r)
  /\ Grants(req[r].refund, Amount(r))
  /\ Paid(r, TRUE)
  /\ UNCHANGED <<db, access, history>>

(* issue_credit() returns: the processor gave the money back, Stripe had   *)
(* done so before, or the store needs no call at all.                      *)
Credited(r) ==
  /\ Crediting(r)
  /\ \/ /\ processor # "store"
        /\ WithinCharge(r)
        /\ Grants(req[r].refund, Amount(r))
        /\ Paid(r, TRUE)
     \/ /\ processor = "stripe"
        /\ credited = Total
        /\ booked[req[r].refund] < MaxCredits
        /\ UNCHANGED <<ledger, credited>>
        /\ Paid(r, FALSE)
     \/ /\ processor = "store"
        /\ UNCHANGED <<ledger, credited>>
        /\ Paid(r, FALSE)
  /\ UNCHANGED <<db, access, history>>

(* A free order has no payment source, and nothing to credit.              *)
NothingToCredit(r) ==
  /\ req[r].phase = "credit"
  /\ ~HasSource
  /\ req' = [req EXCEPT ![r].phase = "book"]
  /\ UNCHANGED <<db, outside, history>>

(* Mutant: the payment error is swallowed.                                 *)
CreditFailedUnnoticed(r) ==
  /\ Crediting(r)
  /\ processor # "store"
  /\ Paid(r, FALSE)
  /\ UNCHANGED <<db, outside, history>>

(* GatewayError: refused, unreachable, or granted and the answer lost.     *)
CreditFailed(r) ==
  /\ Crediting(r)
  /\ processor # "store"
  /\ RefundUnlocked(r)
  /\ \/ UNCHANGED <<ledger, credited, lost>>
     \/ /\ "lost answer" \in Faults
        /\ WithinCharge(r)
        /\ Grants(req[r].refund, Amount(r))
        /\ Forgotten(req[r].refund)
  /\ \E q \in {[req[r] EXCEPT !.status = PaymentRefundError, !.saved = TRUE]} :
       End(r, q)
  /\ UNCHANGED <<access, paidOnly, rejected>>

(* Stripe's InvalidRequestError is raised again and is no PaymentError.    *)
CreditRaises(r) ==
  /\ Crediting(r)
  /\ processor = "stripe"
  /\ ~WithinCharge(r)
  /\ credited = Total => Amount(r) = 0
  /\ Abort(r)
  /\ UNCHANGED <<outside, paidOnly, rejected>>

(* Mutant: the offer is credited for every refund, partial or not.         *)
FreesOfferAlways(q) == HasOffer

(* A refund of part of the order takes nothing back.                       *)
FreesOffer(q) == HasOffer /\ Present(q) = Lines

(* Mutant: the source and the payment event are not written.               *)
BookUnrecorded(r) ==
  /\ req[r].phase = "book"
  /\ RefundUnlocked(r) /\ BooksUnlocked(r)
  /\ \E q \in {[req[r] EXCEPT
                  !.phase = "settled", !.status = PaymentRefunded,
                  !.saved = TRUE, !.frees = FreesOffer(req[r])]} :
       Save(r, q)
  /\ UNCHANGED <<outside, history>>

(* source.refund(), the payment event, set_status, and the enterprise offer.*)
Book(r) ==
  /\ req[r].phase = "book"
  /\ RefundUnlocked(r) /\ BooksUnlocked(r)
  /\ \E q \in {[req[r] EXCEPT
                  !.phase = "settled", !.status = PaymentRefunded,
                  !.saved = TRUE, !.books = req[r].paid,
                  !.frees = FreesOffer(req[r])]} :
       Save(r, q)
  /\ UNCHANGED <<outside, history>>

(* create_refund_for_orders approves a refund of nothing outside any       *)
(* transaction: the process may die after the payment event, or after the  *)
(* status and before the offer.                                            *)
BookCutShort(r) ==
  /\ "crash" \in Faults
  /\ req[r].phase = "book"
  /\ ~req[r].txn
  /\ RefundUnlocked(r) /\ BooksUnlocked(r)
  /\ \/ /\ \E q \in {[req[r] EXCEPT !.books = req[r].paid]} : End(r, q)
        /\ IF req[r].granted THEN Forgotten(req[r].refund) ELSE UNCHANGED lost
     \/ /\ \E q \in {[req[r] EXCEPT !.status = PaymentRefunded, !.saved = TRUE,
                                   !.books = req[r].paid]} : End(r, q)
        /\ UNCHANGED lost
  /\ UNCHANGED <<outside, paidOnly, rejected>>

-----------------------------------------------------------------------------
(* Approving: the revocation.                                              *)

LineMayMove(from, to) == to \in LinePipeline(from)

(* approve_payment_only of a refund that has its credit.                   *)
CompleteWithoutRevoking(r) ==
  /\ req[r].phase = "settled"
  /\ req[r].payOnly
  /\ req[r].status = PaymentRefunded
  /\ RefundUnlocked(r)
  /\ \A l \in Present(req[r]) : LineUnlocked(r, l)
  /\ IF \A l \in Present(req[r]) : LineMayMove(LinesSeen(req[r])[l], Complete)
     THEN /\ \E q \in {[req[r] EXCEPT
                          !.status = Complete, !.saved = TRUE,
                          !.wrote = [l \in Lines |-> IF l \in Present(req[r])
                                                     THEN Complete ELSE Unwritten]]} :
               End(r, q)
          /\ paidOnly' = [paidOnly EXCEPT ![req[r].refund] = TRUE]
          /\ UNCHANGED <<rejected, lost>>
     ELSE Abort(r) /\ rejected' = TRUE /\ UNCHANGED paidOnly
  /\ UNCHANGED outside

(* approve_payment_only has nothing to do in Revocation Error.             *)
NothingToPay(r) ==
  /\ req[r].phase = "settled"
  /\ req[r].payOnly
  /\ req[r].status = RevocationError
  /\ End(r, req[r])
  /\ UNCHANGED <<outside, history>>

(* self.lines.all(): the lines are loaded once, before any is revoked.     *)
StartRevocation(r) ==
  /\ req[r].phase = "settled"
  /\ ~req[r].payOnly
  /\ req' = [req EXCEPT ![r].phase = "revoke",
                        ![r].line = LinesSeen(req[r]),
                        ![r].todo = Present(req[r])]
  /\ UNCHANGED <<db, outside, history>>

Turn(r, l) == req[r].phase = "revoke" /\ l \in req[r].todo

(* refund_line.set_status on the line as it was loaded.                    *)
SetLine(r, l, s) ==
  IF LineMayMove(req[r].line[l], s)
  THEN /\ LineUnlocked(r, l)
       /\ \E q \in {[req[r] EXCEPT !.wrote[l] = s, !.todo = @ \ {l},
                                   !.ok = IF s = Complete THEN @ ELSE FALSE]} :
            Save(r, q)
       /\ UNCHANGED <<rejected, lost>>
  ELSE Abort(r) /\ rejected' = TRUE

FreeRefund(r) == Amount(r) = 0

(* A refund of $0 completes its lines without calling the LMS.             *)
SkipRevocation(r, l) ==
  /\ Turn(r, l)
  /\ FreeRefund(r)
  /\ SetLine(r, l, Complete)
  /\ UNCHANGED <<outside, paidOnly>>

(* The LMS ended the enrolment or the entitlement, or the customer's       *)
(* enrolment is in another mode and does not come from this line.          *)
Revoked(r, l) ==
  /\ Turn(r, l)
  /\ ~FreeRefund(r)
  /\ Kind[l] \in {"seat", "entitlement", "donation"}
  /\ access' = [access EXCEPT ![l] = FALSE]
  /\ SetLine(r, l, Complete)
  /\ UNCHANGED <<ledger, credited, paidOnly>>

(* Mutant: whatever the LMS answers is taken for a success.                *)
RevocationFailedUnnoticed(r, l) ==
  /\ Turn(r, l)
  /\ ~FreeRefund(r)
  /\ Kind[l] \in {"seat", "entitlement"}
  /\ SetLine(r, l, Complete)
  /\ UNCHANGED <<outside, paidOnly>>

(* The LMS refused, was unreachable, or revoked and the answer was lost.   *)
RevocationFailed(r, l) ==
  /\ Turn(r, l)
  /\ ~FreeRefund(r)
  /\ Kind[l] \in {"seat", "entitlement"}
  /\ \/ UNCHANGED access
     \/ /\ "lost answer" \in Faults
        /\ access' = [access EXCEPT ![l] = FALSE]
  /\ SetLine(r, l, RevocationError)
  /\ UNCHANGED <<ledger, credited, paidOnly>>

(* Coupons, enrolment codes and executive education: NotImplementedError.  *)
RevocationNotImplemented(r, l) ==
  /\ Turn(r, l)
  /\ ~FreeRefund(r)
  /\ Kind[l] \in {"coupon", "code", "execed"}
  /\ Abort(r)
  /\ UNCHANGED <<outside, paidOnly, rejected>>

(* No module supports the line: it is passed over.                         *)
NoModule(r, l) ==
  /\ Turn(r, l)
  /\ ~FreeRefund(r)
  /\ Kind[l] = "other"
  /\ req' = [req EXCEPT ![r].todo = @ \ {l}]
  /\ UNCHANGED <<db, outside, history>>

(* Mutant: the lines' results are not looked at.                           *)
VerdictAlwaysComplete(q) == Complete

Verdict(q) == IF q.ok THEN Complete ELSE RevocationError

(* Mutant: a store refund is committed whatever became of it.              *)
FinishAnyway(r) ==
  /\ req[r].phase = "revoke"
  /\ req[r].todo = {}
  /\ RefundUnlocked(r)
  /\ \E q \in {[req[r] EXCEPT !.status = Verdict(req[r]), !.saved = TRUE]} : End(r, q)
  /\ UNCHANGED <<outside, history>>

(* A store refund that is not Complete is rolled back, to be sent again.   *)
FinishRevocation(r) ==
  /\ req[r].phase = "revoke"
  /\ req[r].todo = {}
  /\ RefundUnlocked(r)
  /\ IF req[r].store /\ ~req[r].ok
     THEN Abort(r)
     ELSE /\ \E q \in {[req[r] EXCEPT !.status = Verdict(req[r]), !.saved = TRUE]} :
               End(r, q)
          /\ UNCHANGED lost
  /\ UNCHANGED <<outside, paidOnly, rejected>>

-----------------------------------------------------------------------------
(* Denying, and the process dying.                                         *)

(* Mutant: can_deny is not consulted.                                      *)
BeginDenyUnchecked(r, f) ==
  /\ req[r].phase = "idle"
  /\ status[f] \notin {Absent, Denied}
  /\ req' = [req EXCEPT ![r] =
       [NoRequest EXCEPT !.phase = "deny", !.txn = TRUE, !.refund = f,
                         !.covers = covers[f]]]
  /\ UNCHANGED <<db, outside, history>>

(* deny(): only a refund in its initial status.                            *)
BeginDeny(r, f) ==
  /\ req[r].phase = "idle"
  /\ status[f] = Open
  /\ req' = [req EXCEPT ![r] =
       [NoRequest EXCEPT !.phase = "deny", !.txn = TRUE, !.refund = f,
                         !.covers = covers[f]]]
  /\ UNCHANGED <<db, outside, history>>

(* The lines are read after the refund's status is written; one that       *)
(* cannot be denied is logged and left.                                    *)
Deny(r) ==
  /\ req[r].phase = "deny"
  /\ RefundUnlocked(r)
  /\ \A l \in Lines : LineUnlocked(r, l)
  /\ \E q \in {[req[r] EXCEPT
                  !.status = Denied, !.saved = TRUE,
                  !.wrote = [l \in Lines |->
                    IF l \in Present(req[r])
                       /\ LineMayMove(LinesSeen(req[r])[l], Denied)
                    THEN Denied ELSE Unwritten]]} :
       End(r, q)
  /\ UNCHANGED <<outside, history>>

Crash(r) ==
  /\ "crash" \in Faults
  /\ req[r].phase # "idle"
  /\ Abort(r)
  /\ UNCHANGED <<outside, paidOnly, rejected>>

Step(r) ==
  \/ BeginCommand(r)
  \/ \E course \in SUBSET Lines : BeginCreate(r, course) \/ BeginStoreRefund(r, course)
  \/ InsertRefund(r) \/ EndCreate(r) \/ ApproveAtOnce(r)
  \/ \E f \in Refunds :
       \/ \E payOnly \in BOOLEAN : BeginApprove(r, f, payOnly)
       \/ BeginDeny(r, f)
  \/ Credited(r) \/ NothingToCredit(r) \/ CreditFailed(r) \/ CreditRaises(r)
  \/ Book(r) \/ BookCutShort(r) \/ CompleteWithoutRevoking(r) \/ NothingToPay(r)
  \/ StartRevocation(r)
  \/ \E l \in Lines :
       \/ InsertLine(r, l)
       \/ SkipRevocation(r, l) \/ Revoked(r, l) \/ RevocationFailed(r, l)
       \/ RevocationNotImplemented(r, l) \/ NoModule(r, l)
  \/ FinishRevocation(r) \/ Deny(r) \/ Crash(r)

Next == StoreGivesMoneyBack \/ \E r \in Requests : Step(r)

Spec == Init /\ [][Next]_vars

-----------------------------------------------------------------------------
(* Staff approve a refund again until it is settled, the processor and the *)
(* LMS do not refuse for ever, and crashes stop at last.                   *)
Fairness ==
  /\ \A r \in Requests :
       /\ WF_vars(InsertRefund(r) \/ EndCreate(r) \/ ApproveAtOnce(r))
       /\ WF_vars(\E l \in Lines : InsertLine(r, l))
       /\ \A f \in Refunds : SF_vars(BeginApprove(r, f, FALSE))
       /\ SF_vars(Credited(r))
       /\ WF_vars(Book(r))
       /\ WF_vars(CompleteWithoutRevoking(r) \/ NothingToPay(r))
       /\ WF_vars(StartRevocation(r))
       /\ SF_vars(\E l \in Lines : Revoked(r, l))
       /\ WF_vars(FinishRevocation(r))
       /\ WF_vars(Deny(r))
  /\ <>[][\A r \in Requests : ~Crash(r)]_vars

FairSpec == Spec /\ Fairness

-----------------------------------------------------------------------------
(* Properties that hold whatever the interleaving, the crashes and the lost*)
(* answers.                                                                *)

Settled(f) == status[f] \in {PaymentRefunded, RevocationError, Complete}

GivenBack(f) == ledger[f] > 0 \/ (processor = "stripe" /\ credited = Total)

(* A refund past its credit really has been credited at the processor, or  *)
(* (Stripe) the whole charge was given back through other credits: the     *)
(* status never runs ahead of the money.                                   *)
SettledMeansCredited ==
  \A f \in Refunds :
    Settled(f) /\ HasSource /\ processor # "store" => GivenBack(f)

(* A Complete refund line has lost the customer's access, unless the       *)
(* refund was of nothing or staff asked for the payment only.              *)
CompleteMeansRevoked ==
  \A f \in Refunds, l \in Lines :
    rline[f][l] = Complete /\ ~paidOnly[f] /\ Worth(covers[f]) > 0 =>
      ~access[l]

(* An app store's notification commits a Complete refund or nothing: what  *)
(* is half done is rolled back, and the store will send it again.          *)
StoreRefundAllOrNothing ==
  [][\A r \in Requests : req[r].store /\ req'[r] # req[r] =>
       \A f \in Refunds : status'[f] # status[f] => status'[f] = Complete]_<<req, status>>

-----------------------------------------------------------------------------
(* Properties of approvals that come one after another.                    *)

Idle == \A r \in Requests : req[r].phase = "idle"

(* A refund is credited once, however often its approval is retried after  *)
(* a processor error or a failed revocation; a second credit takes a first *)
(* one whose answer was lost or whose transaction rolled back.             *)
CreditedOnce == \A f \in Refunds : ledger[f] <= 1 + lost[f]

(* A refund that is denied, still Open or in Payment Refund Error gave no  *)
(* money back but what was lost that way.                                  *)
UnsettledMeansUncredited ==
  Idle => \A f \in Refunds : ~Settled(f) => ledger[f] = lost[f]

(* Between requests the payment events are the credits the processor       *)
(* granted and nobody forgot, credits of nothing aside, and the payment    *)
(* source is their sum.                                                    *)
BooksMatchLedger ==
  Idle => /\ processor = "gateway" =>
               \A f \in Refunds :
                 Worth(covers[f]) > 0 => booked[f] = ledger[f] - lost[f]
          /\ source = MapThenSumSet(LAMBDA f : booked[f] * Worth(covers[f]), Refunds)

(* No order line is in two refunds that may both be paid.                  *)
OneLiveRefundPerLine ==
  \A l \in Lines, f, g \in Refunds :
    rline[f][l] \notin {Absent, Denied} /\ rline[g][l] \notin {Absent, Denied}
      => f = g

(* The enterprise offer gets its usage back at most once for the order.    *)
OfferFreedOnce == freed <= 1

(* A Complete refund has completed every line it has that some module      *)
(* could revoke.                                                           *)
CompleteCoversItsLines ==
  \A f \in Refunds : status[f] = Complete =>
    \A l \in Lines : Kind[l] # "other" => rline[f][l] \in {Absent, Complete}

(* Complete and Denied are final, for a refund and for its lines.          *)
FinalStatusesStay ==
  [][\A f \in Refunds :
       /\ status[f] # Absent /\ RefundPipeline(status[f]) = {} =>
            status'[f] = status[f]
       /\ \A l \in Lines :
            rline[f][l] # Absent /\ LinePipeline(rline[f][l]) = {} =>
              rline'[f][l] = rline[f][l]]_<<status, rline>>

(* Liveness.  With Stripe, a refund is Complete or Denied in the end,      *)
(* whatever answers were lost and whichever attempts crashed.              *)
EventuallySettled ==
  \A f \in Refunds : status[f] = Open ~> status[f] \in {Complete, Denied}

-----------------------------------------------------------------------------
(* What the repository says of the code, and the code does not do.         *)

(* RefundProcessView: "In the event of an error, the view will still return*)
(* a serialized Refund (to reflect any changed statuses)".  An approval    *)
(* that paid the customer leaves the refund in a status that says so.      *)
CreditShowsInStatus ==
  Idle => \A f \in Refunds : ledger[f] > 0 => status[f] # Open

(* can_approve: "Returns a boolean indicating if this Refund can be        *)
(* approved."  No approval it admits is turned down by the status pipeline.*)
ApprovableIsApproved == ~rejected

(* available_statuses: "Returns all possible statuses that this object can *)
(* move to."  For a Complete or Denied refund there are none.              *)
RefundStaysFinal ==
  [][\A f \in Refunds :
       status[f] # Absent /\ RefundPipeline(status[f]) = {} =>
         status'[f] = status[f]]_status

=============================================================================
