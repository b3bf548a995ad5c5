----------------------------- MODULE Fulfillment -----------------------------
(***************************************************************************)
(* Fulfilment of one placed order (ecommerce/extensions/fulfillment).      *)
(*                                                                         *)
(* Several requests may try to fulfil the same order: the checkout request *)
(* that placed it, the asynchronous worker, a staff member retrying from   *)
(* the dashboard.  Each loads the order and its lines into memory, hands   *)
(* the lines to the fulfilment modules one product type after another,     *)
(* calls the LMS (or another outside service) for each line, saves the     *)
(* line statuses, and finally sets the order status.  Nothing locks the    *)
(* order while this happens.                                               *)
(*                                                                         *)
(* Requests of the orders API run inside one database transaction; the     *)
(* attempt made by the checkout views saves each row as it goes.  The      *)
(* isolation level is Django's default on MySQL, READ COMMITTED.  A        *)
(* transaction that writes a line keeps its row lock to the end.           *)
(***************************************************************************)
EXTENDS Naturals

CONSTANTS
  Lines,      \* the order's lines
  Requests,   \* the requests that may be fulfilling it at the same time
  Kind        \* the product type of each line

(* The product types, in the order their modules are tried; "other" is a   *)
(* type no configured module supports.                                     *)
ModuleRank == [seat |-> 1, coupon |-> 2, code |-> 3, entitlement |-> 4,
               donation |-> 5, execed |-> 6, other |-> 7]

Kinds == DOMAIN ModuleRank

ASSUME KindAssumption == Kind \in [Lines -> Kinds]

(* The lines whose module saves a record of what was delivered.            *)
Recordable == {l \in Lines : Kind[l] \in {"code", "entitlement"}}

-----------------------------------------------------------------------------
(* Statuses and pipelines.                                                 *)

Open             == "Open"
Complete         == "Complete"
FulfillmentError == "Fulfillment Error"

OrderStatus == {Open, Complete, FulfillmentError}

ConfigurationError == "Fulfillment Configuration Error"
NetworkError       == "Fulfillment Network Error"
TimeoutError       == "Fulfillment Timeout Error"
ServerError        == "Fulfillment Server Error"

LineErrors == {ConfigurationError, NetworkError, TimeoutError, ServerError}
LineStatus == {Open, Complete} \cup LineErrors

LinePipeline(s) ==
  IF s = Open THEN {Complete} \cup LineErrors
  ELSE IF s \in LineErrors THEN {Complete} ELSE {}

(* set_status accepts a status of the pipeline and, without doing anything, *)
(* the current one; every other raises.                                     *)
LineMayMove(from, to) == to = from \/ to \in LinePipeline(from)

Unwritten == "unwritten"

VARIABLES
  order,      \* committed: the order's status
  line,       \* committed: the status of each line
  rows,       \* committed: per line, delivery records created for it
              \*   (OrderLineVouchers of a code, "course_entitlement"
              \*   attributes of an entitlement): 0, 1 or 2 for "several"
  note,       \* committed: the Fulfillment Details note still exists
  shipped,    \* committed: the lines with a shipping event
  placing,    \* the checkout request has not made its own attempt yet
  delivered,  \* the outside service has granted the line's product
  forced,     \* history: mark_orders_status_complete touched the order
  refused,    \* history: an attempt ended in InvalidShippingEvent
  req         \* the requests' local state

db   == <<order, line, rows, note, shipped>>
vars == <<order, line, rows, note, shipped, placing, delivered, forced, refused,
          req>>

Request ==
  [phase     : {"idle", "modules", "tallied"},
   txn       : BOOLEAN,                     \* inside transaction.atomic()
   order     : OrderStatus,                 \* status of the loaded order
   line      : [Lines -> LineStatus],       \* status of the loaded lines
   todo      : SUBSET Lines,                \* lines not handled yet
   granted   : SUBSET Lines,                \* the line just granted, its
                                            \*   status not saved yet
   unrecorded : SUBSET Lines,               \* ... nor its record
   noteDue   : BOOLEAN,                     \* the note is about to be deleted
   wrote     : [Lines -> LineStatus \cup {Unwritten}],  \* not yet committed
   rows      : SUBSET Lines,                \* records not yet committed
   noteGone  : BOOLEAN,                     \* deletion not yet committed
   details   : BOOLEAN,                     \* the note was there when read
   shippable : SUBSET Lines,                \* Complete when it was loaded
   verdict   : OrderStatus]                 \* order_status computed

NoRequest ==
  [phase |-> "idle", txn |-> FALSE, order |-> Open,
   line |-> [l \in Lines |-> Open], todo |-> {},
   granted |-> {}, unrecorded |-> {}, noteDue |-> FALSE,
   wrote |-> [l \in Lines |-> Unwritten], rows |-> {}, noteGone |-> FALSE,
   details |-> FALSE, shippable |-> {}, verdict |-> Open]

TypeOK ==
  /\ order \in OrderStatus
  /\ line \in [Lines -> LineStatus]
  /\ rows \in [Lines -> 0..2]
  /\ note \in BOOLEAN
  /\ shipped \subseteq Lines
  /\ placing \in BOOLEAN
  /\ delivered \in [Lines -> BOOLEAN]
  /\ forced \in BOOLEAN
  /\ refused \in BOOLEAN
  /\ req \in [Requests -> Request]

Init ==
  /\ order = Open
  /\ line = [l \in Lines |-> Open]
  /\ rows = [l \in Lines |-> 0]
  /\ note = (\E l \in Lines : Kind[l] = "execed")
  /\ shipped = {}
  /\ placing = TRUE
  /\ delivered = [l \in Lines |-> FALSE]
  /\ forced = FALSE
  /\ refused = FALSE
  /\ req = [r \in Requests |-> NoRequest]

-----------------------------------------------------------------------------
(* Saving rows.                                                            *)

Overlay(wrote, base) ==
  [l \in Lines |-> IF wrote[l] = Unwritten THEN base[l] ELSE wrote[l]]

AddRows(new, base) ==
  [l \in Lines |-> IF l \in new /\ base[l] < 2 THEN base[l] + 1 ELSE base[l]]

Flushed(q) ==
  [q EXCEPT !.wrote = [l \in Lines |-> Unwritten],
            !.rows = {}, !.noteGone = FALSE]

(* The request's state becomes q.  What it saved stays pending inside a    *)
(* transaction and is committed at once outside one.                       *)
Save(r, q) ==
  IF q.txn
  THEN /\ req' = [req EXCEPT ![r] = q]
       /\ UNCHANGED <<line, rows, note>>
  ELSE /\ req' = [req EXCEPT ![r] = Flushed(q)]
       /\ line' = Overlay(q.wrote, line)
       /\ rows' = AddRows(q.rows, rows)
       /\ note' = (note /\ ~q.noteGone)

(* Row lock: another transaction's uncommitted write to l blocks this one. *)
Unlocked(r, l) == \A s \in Requests \ {r} : req[s].wrote[l] = Unwritten

(* The fulfilment details, read before the first executive education line. *)
Details(q, l) ==
  IF /\ l \notin q.granted
     /\ \A m \in Lines \ {l} : Kind[m] = "execed" => m \in q.todo
  THEN note ELSE q.details

(* Model.save() on a loaded line whose status changes to s.                *)
WithStatus(q, l, s) ==
  [q EXCEPT !.line[l] = s,
            !.wrote[l] = IF s = q.line[l] THEN @ ELSE s,
            !.todo = @ \ {l},
            !.granted = @ \ {l},
            !.details = Details(q, l)]

-----------------------------------------------------------------------------
(* The start of an attempt.                                                *)

(* Mutant: an order in Fulfillment Error is not taken up again.            *)
FulfillableOnce == order = Open

Fulfillable == order \in {Open, FulfillmentError}

(* Oscar refuses to ship a quantity that has been shipped before, and it   *)
(* looks at every line of the order.                                       *)
ShippingEventPermitted == shipped = {}

(* Mutant: the shipping event covers lines whatever their status.          *)
LoadAllShippable(r, inTxn, status) ==
  req' = [req EXCEPT ![r] =
            [NoRequest EXCEPT
               !.phase = "modules", !.txn = inTxn,
               !.order = status, !.line = line, !.todo = Lines,
               !.shippable = Lines]]

Load(r, inTxn, status) ==
  req' = [req EXCEPT ![r] =
            [NoRequest EXCEPT
               !.phase = "modules", !.txn = inTxn,
               !.order = status, !.line = line, !.todo = Lines,
               !.shippable = {l \in Lines : line[l] = Complete}]]

(* The checkout request fulfils the order it has just placed, through the  *)
(* object it still holds: an Open order, whatever happened to the row.     *)
BeginAtPlacement(r) ==
  /\ req[r].phase = "idle"
  /\ placing
  /\ ShippingEventPermitted
  /\ placing' = FALSE
  /\ Load(r, FALSE, Open)
  /\ UNCHANGED <<db, delivered, forced, refused>>

(* PUT /api/v2/orders/<number>/fulfill/: the worker's or a staff retry.    *)
BeginByApi(r) ==
  /\ req[r].phase = "idle"
  /\ Fulfillable
  /\ ShippingEventPermitted
  /\ Load(r, TRUE, order)
  /\ UNCHANGED <<db, placing, delivered, forced, refused>>

(* The same call, stopped by InvalidShippingEvent before any module runs.  *)
RefusedByApi(r) ==
  /\ req[r].phase = "idle"
  /\ Fulfillable
  /\ ~ShippingEventPermitted
  /\ refused' = TRUE
  /\ UNCHANGED <<db, placing, delivered, forced, req>>

-----------------------------------------------------------------------------
(* The modules.  Each takes the lines of its product type.                 *)

Turn(r, l) ==
  /\ req[r].phase = "modules"
  /\ l \in req[r].todo
  /\ \A m \in req[r].todo : ModuleRank[Kind[l]] <= ModuleRank[Kind[m]]
  /\ req[r].granted = {}
  /\ ~req[r].noteDue

LastOfItsKind(q, l) == \A m \in q.todo \ {l} : Kind[m] # Kind[l]

(* An exception no module catches: fulfill_order logs it, and the lines    *)
(* still to be handled are left as they are.                               *)
Aborted(q) == [q EXCEPT !.todo = {}, !.granted = {}]

(* The outside service granted the product.  Nothing is saved yet.         *)
Granted(r, l) ==
  /\ Turn(r, l)
  /\ Kind[l] # "other"
  /\ Kind[l] = "execed" => Details(req[r], l)
  /\ delivered' = [delivered EXCEPT ![l] = TRUE]
  /\ req' = [req EXCEPT ![r].granted = {l},
                        ![r].unrecorded = {l} \cap Recordable,
                        ![r].details = Details(req[r], l)]
  /\ UNCHANGED <<db, placing, forced, refused>>

(* The record that ties the line to what was delivered: OrderLineVouchers, *)
(* or the UUID of the entitlement.                                         *)
RecordDelivery(r, l) ==
  /\ req[r].phase = "modules"
  /\ l \in req[r].unrecorded
  /\ Save(r, [req[r] EXCEPT !.rows = @ \cup {l}, !.unrecorded = @ \ {l}])
  /\ UNCHANGED <<order, shipped, placing, delivered, forced, refused>>

(* Mutant: the status is saved first, the record after it.                 *)
MayMarkFirst(q, l) == TRUE

MayMark(q, l) == l \notin q.unrecorded

(* The line is Complete.  After its last line the executive education      *)
(* module deletes the note, if all of them are Complete.                   *)
Marked(q, l) ==
  LET c == WithStatus(q, l, Complete)
  IN [c EXCEPT
        !.noteDue = /\ Kind[l] = "execed"
                    /\ LastOfItsKind(q, l)
                    /\ \A m \in Lines :
                         Kind[m] = "execed" => c.line[m] = Complete]

(* set_status(Complete), a write of its own.  The enrolment code module    *)
(* e-mails the buyer after its last line, which may raise.                 *)
MarkComplete(r, l) ==
  /\ req[r].phase = "modules"
  /\ l \in req[r].granted
  /\ MayMark(req[r], l)
  /\ req[r].line[l] = Complete \/ Unlocked(r, l)
  /\ \/ Save(r, Marked(req[r], l))
     \/ /\ Kind[l] = "code"
        /\ LastOfItsKind(req[r], l)
        /\ Save(r, Aborted(Marked(req[r], l)))
  /\ UNCHANGED <<order, shipped, placing, delivered, forced, refused>>

DeleteNote(r) ==
  /\ req[r].phase = "modules"
  /\ req[r].noteDue
  /\ Save(r, [req[r] EXCEPT !.noteGone = TRUE, !.noteDue = FALSE])
  /\ UNCHANGED <<order, shipped, placing, delivered, forced, refused>>

(* What a module can set on a line it could not deliver.                   *)
Failures(k) ==
  CASE k = "seat"        -> LineErrors
    [] k = "entitlement" -> {ConfigurationError, NetworkError, ServerError}
    [] k = "execed"      -> {ServerError}
    [] k = "other"       -> {ConfigurationError}
    [] OTHER             -> {}

(* A failed call may have taken effect, unless it was never made or the    *)
(* enrolment API answered that it refused.                                 *)
MayHaveReached(q, l, s) ==
  \/ s \in {NetworkError, TimeoutError}
  \/ s = ServerError /\ \/ Kind[l] = "entitlement"
                        \/ Kind[l] = "execed" /\ Details(q, l)

CallFailed(r, l, s) ==
  /\ Turn(r, l)
  /\ s \in Failures(Kind[l])
  /\ \E reached \in BOOLEAN :
       /\ reached => MayHaveReached(req[r], l, s)
       /\ delivered' = [delivered EXCEPT ![l] = @ \/ reached]

(* Mutant: the answer's status code is not looked at.                      *)
FailedUnnoticed(r, l, s) ==
  /\ CallFailed(r, l, s)
  /\ LineMayMove(req[r].line[l], s)
  /\ req[r].line[l] = s \/ Unlocked(r, l)
  /\ Save(r, WithStatus(req[r], l, Complete))
  /\ UNCHANGED <<order, shipped, placing, forced, refused>>

(* Mutant: the status is assigned without asking the pipeline.             *)
FailedUnchecked(r, l, s) ==
  /\ CallFailed(r, l, s)
  /\ req[r].line[l] = s \/ Unlocked(r, l)
  /\ Save(r, WithStatus(req[r], l, s))
  /\ UNCHANGED <<order, shipped, placing, forced, refused>>

(* The failure is recorded on the line.                                    *)
Failed(r, l, s) ==
  /\ CallFailed(r, l, s)
  /\ LineMayMove(req[r].line[l], s)
  /\ req[r].line[l] = s \/ Unlocked(r, l)
  /\ Save(r, WithStatus(req[r], l, s))
  /\ UNCHANGED <<order, shipped, placing, forced, refused>>

(* The line is Complete, or in a different error: the pipeline does not    *)
(* allow the new status and set_status raises InvalidLineStatus.           *)
FailureNotAllowed(r, l, s) ==
  /\ CallFailed(r, l, s)
  /\ ~LineMayMove(req[r].line[l], s)
  /\ Save(r, Aborted(req[r]))
  /\ UNCHANGED <<order, shipped, placing, forced, refused>>

(* Anything else a module lets through: an enterprise API error before the *)
(* enrolment call, a broken response after it, missing products or offers. *)
ModuleRaises(r, l) ==
  /\ Turn(r, l)
  /\ Kind[l] \in {"seat", "code", "execed"}
  /\ Kind[l] = "execed" => Details(req[r], l)
  /\ \/ Kind[l] = "seat" /\ delivered' = [delivered EXCEPT ![l] = TRUE]
     \/ UNCHANGED delivered
  /\ Save(r, Aborted(req[r]))
  /\ UNCHANGED <<order, shipped, placing, forced, refused>>

-----------------------------------------------------------------------------
(* The end of an attempt.                                                  *)

(* The modules are through, or an exception ended them.                    *)
ModulesDone(r) ==
  /\ req[r].phase = "modules"
  /\ req[r].todo = {}
  /\ req[r].granted = {}
  /\ ~req[r].noteDue

(* Mutant: only lines marked with an error count against the order.        *)
TallyErrors(r) ==
  /\ ModulesDone(r)
  /\ req' = [req EXCEPT
       ![r].phase = "tallied",
       ![r].verdict =
         IF \E l \in Lines : Overlay(req[r].wrote, line)[l] \in LineErrors
         THEN FulfillmentError ELSE Complete]
  /\ UNCHANGED <<db, placing, delivered, forced, refused>>

(* Mutant: only the lines this attempt saved are looked at.                *)
TallyOwnLines(r) ==
  /\ ModulesDone(r)
  /\ req' = [req EXCEPT
       ![r].phase = "tallied",
       ![r].verdict =
         IF \A l \in Lines : req[r].wrote[l] \in {Unwritten, Complete}
         THEN Complete ELSE FulfillmentError]
  /\ UNCHANGED <<db, placing, delivered, forced, refused>>

(* Mutant: the order takes over the status of a line that failed.          *)
TallyLineStatus(r) ==
  /\ ModulesDone(r)
  /\ \E l \in Lines :
       LET seen == Overlay(req[r].wrote, line)
       IN /\ seen[l] = Complete => \A m \in Lines : seen[m] = Complete
          /\ req' = [req EXCEPT ![r].phase = "tallied", ![r].verdict = seen[l]]
  /\ UNCHANGED <<db, placing, delivered, forced, refused>>

(* lines.all() in the finally block reads the lines again.                 *)
Tally(r) ==
  /\ ModulesDone(r)
  /\ req' = [req EXCEPT
       ![r].phase = "tallied",
       ![r].verdict =
         IF \A l \in Lines : Overlay(req[r].wrote, line)[l] = Complete
         THEN Complete ELSE FulfillmentError]
  /\ UNCHANGED <<db, placing, delivered, forced, refused>>

(* order.set_status, the shipping event, and the commit.  The event covers *)
(* the lines that were Complete when the handler loaded them.  Outside a   *)
(* transaction the process may die between the two.                        *)
Finish(r) ==
  /\ req[r].phase = "tallied"
  /\ order' = IF req[r].verdict = req[r].order THEN order ELSE req[r].verdict
  /\ line' = Overlay(req[r].wrote, line)
  /\ rows' = AddRows(req[r].rows, rows)
  /\ note' = (note /\ ~req[r].noteGone)
  /\ \/ shipped' = shipped \cup req[r].shippable
     \/ ~req[r].txn /\ UNCHANGED shipped
  /\ req' = [req EXCEPT ![r] = NoRequest]
  /\ UNCHANGED <<placing, delivered, forced, refused>>

(* The process dies or the database ends the transaction (a deadlock): the *)
(* uncommitted writes are lost, what the outside services did is not.      *)
Crash(r) ==
  /\ req[r].phase # "idle"
  /\ req' = [req EXCEPT ![r] = NoRequest]
  /\ UNCHANGED <<db, placing, delivered, forced, refused>>

(* The management command for orders stuck in Fulfillment Error.           *)
MarkOrdersStatusComplete ==
  /\ order = FulfillmentError
  /\ \A r \in Requests, l \in Lines : req[r].wrote[l] = Unwritten
  /\ line' = [l \in Lines |-> Complete]
  /\ order' = Complete
  /\ forced' = TRUE
  /\ UNCHANGED <<rows, note, shipped, placing, delivered, refused, req>>

Step(r) ==
  \/ BeginAtPlacement(r) \/ BeginByApi(r) \/ RefusedByApi(r)
  \/ \E l \in Lines : \/ Granted(r, l) \/ RecordDelivery(r, l) \/ MarkComplete(r, l)
                      \/ ModuleRaises(r, l)
  \/ DeleteNote(r)
  \/ \E l \in Lines, s \in LineErrors : Failed(r, l, s) \/ FailureNotAllowed(r, l, s)
  \/ Tally(r) \/ Finish(r) \/ Crash(r)

Next == MarkOrdersStatusComplete \/ \E r \in Requests : Step(r)

Spec == Init /\ [][Next]_vars

-----------------------------------------------------------------------------
(* The worker and the staff retry as long as the order is not Complete,    *)
(* the outside services do not fail for ever, and crashes stop at last.    *)
Fairness ==
  /\ \A r \in Requests :
       /\ WF_vars(BeginByApi(r))
       /\ WF_vars(\E l \in Lines : RecordDelivery(r, l) \/ MarkComplete(r, l))
       /\ WF_vars(DeleteNote(r))
       /\ WF_vars(Tally(r))
       /\ WF_vars(Finish(r))
       /\ SF_vars(\E l \in Lines : Granted(r, l))
  /\ <>[][\A r \in Requests : ~Crash(r)]_vars

FairSpec == Spec /\ Fairness

-----------------------------------------------------------------------------
(* Properties that hold whatever the requests' interleaving.               *)

(* The customer has received every line of a Complete order, however many  *)
(* requests fulfilled it at once and whichever of them crashed.  The order *)
(* command that overrides the statuses is the one exception.               *)
CompleteMeansDelivered ==
  ~forced => /\ order = Complete => \A l \in Lines : delivered[l]
             /\ \A l \in Lines : line[l] = Complete => delivered[l]

(* A Complete code or entitlement line has the record its refund or its    *)
(* CSV download will look up, although the record and the status are two   *)
(* writes and a crash or another attempt may come between them.            *)
CompleteMeansRecorded ==
  ~forced => \A l \in Recordable : line[l] = Complete => rows[l] > 0

(* A shipping event is only ever recorded for a delivered line.            *)
ShippedMeansDelivered == ~forced => \A l \in shipped : delivered[l]

(* Properties that need the attempts to come one after another.            *)

(* An order is Complete only while all its lines are.                      *)
OrderMatchesLines ==
  ~forced /\ order = Complete => \A l \in Lines : line[l] = Complete

(* Committed line statuses follow the pipeline of settings/_oscar.py: an   *)
(* error is only ever left for Complete, and Complete never.              *)
LinesFollowPipeline ==
  [][~forced => \A l \in Lines :
       line'[l] # line[l] => line'[l] \in LinePipeline(line[l])]_line

(* Liveness.  A one-line order is fulfilled in the end, whatever errors,   *)
(* crashes and lost answers the earlier attempts met.                      *)
EventuallyFulfilled == <>(order = Complete)

-----------------------------------------------------------------------------
(* What the repository says of the code, and the code does not do.         *)

(* "You can also manually retry fulfillment of a failed order": the call   *)
(* is not turned down because of what an earlier attempt recorded.         *)
RetryNotRefused == ~refused

(* "For each line creates number of vouchers equal to that line's          *)
(* quantity": one batch, however often the order is retried.               *)
OneVoucherBatchPerLine == \A l \in Lines : Kind[l] = "code" => rows[l] <= 1

=============================================================================
