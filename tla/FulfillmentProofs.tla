-------------------------- MODULE FulfillmentProofs --------------------------
(***************************************************************************)
(* What holds of Fulfillment for every set of lines, every assignment of   *)
(* product types and any number of concurrent requests.                    *)
(***************************************************************************)
EXTENDS Fulfillment, TLAPS

(* The helpers on requests and rows keep their types.                      *)
LEMMA NoRequestType == NoRequest \in Request
  BY DEF NoRequest, Request, OrderStatus, LineStatus, Open

LEMMA OverlayType ==
  ASSUME NEW w \in [Lines -> LineStatus \cup {Unwritten}],
         NEW b \in [Lines -> LineStatus]
  PROVE  Overlay(w, b) \in [Lines -> LineStatus]
  BY DEF Overlay

LEMMA AddRowsType ==
  ASSUME NEW new \in SUBSET Lines, NEW b \in [Lines -> 0..2]
  PROVE  AddRows(new, b) \in [Lines -> 0..2]
  BY DEF AddRows

LEMMA FlushedType ==
  ASSUME NEW q \in Request
  PROVE  Flushed(q) \in Request
  BY DEF Flushed, Request

LEMMA WithStatusType ==
  ASSUME TypeOK, NEW q \in Request, NEW l \in Lines, NEW s \in LineStatus
  PROVE  WithStatus(q, l, s) \in Request
  <1>1. Details(q, l) \in BOOLEAN
    BY DEF Details, TypeOK, Request
  <1>. QED
    BY <1>1 DEF WithStatus, Request

LEMMA MarkedType ==
  ASSUME TypeOK, NEW q \in Request, NEW l \in Lines
  PROVE  Marked(q, l) \in Request
  <1>1. Complete \in LineStatus
    BY DEF LineStatus
  <1>2. WithStatus(q, l, Complete) \in Request
    BY <1>1, WithStatusType
  <1>. QED
    BY <1>2 DEF Marked, Request

LEMMA AbortedType ==
  ASSUME NEW q \in Request
  PROVE  Aborted(q) \in Request
  BY DEF Aborted, Request

(* Saving keeps the types of everything it writes.                         *)
LEMMA SaveType ==
  ASSUME TypeOK, NEW r \in Requests, NEW q \in Request, Save(r, q)
  PROVE  /\ line' \in [Lines -> LineStatus]
         /\ rows' \in [Lines -> 0..2]
         /\ note' \in BOOLEAN
         /\ req' \in [Requests -> Request]
  <1>1. CASE q.txn
    BY <1>1 DEF Save, TypeOK
  <1>2. CASE ~q.txn
    <2>1. q.wrote \in [Lines -> LineStatus \cup {Unwritten}] /\ q.rows \in SUBSET Lines
      BY DEF Request
    <2>2. Flushed(q) \in Request
      BY FlushedType
    <2>3. Overlay(q.wrote, line) \in [Lines -> LineStatus]
      BY <2>1, OverlayType DEF TypeOK
    <2>4. AddRows(q.rows, rows) \in [Lines -> 0..2]
      BY <2>1, AddRowsType DEF TypeOK
    <2>. QED
      BY <1>2, <2>2, <2>3, <2>4 DEF Save, TypeOK
  <1>. QED
    BY <1>1, <1>2

(* Every variable keeps its type, however the requests interleave.         *)
THEOREM TypeCorrect == Spec => []TypeOK
  <1>1. Init => TypeOK
    <2>. SUFFICES ASSUME Init PROVE TypeOK
      OBVIOUS
    <2>1. note \in BOOLEAN
      BY Zenon DEF Init
    <2>2. /\ order \in OrderStatus
          /\ line \in [Lines -> LineStatus]
          /\ rows \in [Lines -> 0..2]
          /\ delivered \in [Lines -> BOOLEAN]
      <3>. Open \in OrderStatus /\ Open \in LineStatus
        BY DEF OrderStatus, LineStatus
      <3>. QED
        BY DEF Init
    <2>3. /\ shipped \subseteq Lines /\ placing \in BOOLEAN
          /\ forced \in BOOLEAN /\ refused \in BOOLEAN
          /\ req \in [Requests -> Request]
      BY NoRequestType DEF Init
    <2>. QED
      BY <2>1, <2>2, <2>3 DEF TypeOK
  <1>2. TypeOK /\ [Next]_vars => TypeOK'
    <2>. SUFFICES ASSUME TypeOK, [Next]_vars PROVE TypeOK'
      OBVIOUS
    <2>. USE DEF db
    <2>1. CASE MarkOrdersStatusComplete
      BY <2>1 DEF MarkOrdersStatusComplete, TypeOK, OrderStatus, LineStatus
    <2>2. ASSUME NEW r \in Requests, Step(r) PROVE TypeOK'
      <3>0. req[r] \in Request
        BY DEF TypeOK
      <3>1. ASSUME NEW inTxn \in BOOLEAN, NEW s \in OrderStatus,
                   Load(r, inTxn, s)
            PROVE  req' \in [Requests -> Request]
        BY <3>1, NoRequestType DEF Load, Request, TypeOK
      <3>2. CASE BeginAtPlacement(r)
        <4>1. Load(r, FALSE, Open) /\ Open \in OrderStatus
          BY <3>2 DEF BeginAtPlacement, OrderStatus
        <4>. QED
          BY <3>1, <3>2, <4>1 DEF BeginAtPlacement, TypeOK
      <3>3. CASE BeginByApi(r)
        <4>1. Load(r, TRUE, order) /\ order \in OrderStatus
          BY <3>3 DEF BeginByApi, TypeOK
        <4>. QED
          BY <3>1, <3>3, <4>1 DEF BeginByApi, TypeOK
      <3>4. CASE RefusedByApi(r)
        BY <3>4 DEF RefusedByApi, TypeOK
      <3>5. ASSUME NEW l \in Lines, Granted(r, l) PROVE TypeOK'
        <4>1. Details(req[r], l) \in BOOLEAN
          BY <3>0 DEF Details, TypeOK, Request
        <4>2. req' \in [Requests -> Request]
          BY <3>0, <3>5, <4>1 DEF Granted, TypeOK, Request
        <4>. QED
          BY <3>5, <4>2 DEF Granted, TypeOK
      <3>5a. ASSUME NEW l \in Lines, RecordDelivery(r, l) PROVE TypeOK'
        <4>1. [req[r] EXCEPT !.rows = @ \cup {l}, !.unrecorded = @ \ {l}] \in Request
          BY <3>0 DEF Request
        <4>. QED
          BY <3>5a, <4>1, SaveType DEF RecordDelivery, TypeOK
      <3>5b. ASSUME NEW l \in Lines, MarkComplete(r, l) PROVE TypeOK'
        <4>1. PICK q \in Request : Save(r, q)
          BY <3>0, <3>5b, MarkedType, AbortedType DEF MarkComplete
        <4>. QED
          BY <3>5b, <4>1, SaveType DEF MarkComplete, TypeOK
      <3>5c. CASE DeleteNote(r)
        <4>1. [req[r] EXCEPT !.noteGone = TRUE, !.noteDue = FALSE] \in Request
          BY <3>0 DEF Request
        <4>. QED
          BY <3>5c, <4>1, SaveType DEF DeleteNote, TypeOK
      <3>6. ASSUME NEW l \in Lines, ModuleRaises(r, l) PROVE TypeOK'
        <4>1. PICK q \in Request : Save(r, q)
          BY <3>0, <3>6, AbortedType DEF ModuleRaises
        <4>. QED
          BY <3>6, <4>1, SaveType DEF ModuleRaises, TypeOK
      <3>7. ASSUME NEW l \in Lines, NEW s \in LineErrors, CallFailed(r, l, s)
            PROVE  delivered' \in [Lines -> BOOLEAN]
        BY <3>7 DEF CallFailed, TypeOK
      <3>8. ASSUME NEW l \in Lines, NEW s \in LineErrors, Failed(r, l, s)
            PROVE  TypeOK'
        <4>1. s \in LineStatus
          BY DEF LineStatus
        <4>2. WithStatus(req[r], l, s) \in Request
          BY <3>0, <4>1, WithStatusType
        <4>. QED
          BY <3>7, <3>8, <4>2, SaveType DEF Failed, TypeOK
      <3>9. ASSUME NEW l \in Lines, NEW s \in LineErrors,
                   FailureNotAllowed(r, l, s)
            PROVE  TypeOK'
        <4>1. Aborted(req[r]) \in Request
          BY <3>0, AbortedType
        <4>. QED
          BY <3>7, <3>9, <4>1, SaveType DEF FailureNotAllowed, TypeOK
      <3>10. CASE Tally(r)
        BY <3>0, <3>10 DEF Tally, TypeOK, Request, OrderStatus
      <3>11. CASE Finish(r)
        <4>1. /\ req[r].wrote \in [Lines -> LineStatus \cup {Unwritten}]
              /\ req[r].rows \in SUBSET Lines
              /\ req[r].shippable \in SUBSET Lines
              /\ req[r].verdict \in OrderStatus
          BY <3>0 DEF Request
        <4>2. line' \in [Lines -> LineStatus]
          BY <3>11, <4>1, OverlayType DEF Finish, TypeOK
        <4>3. rows' \in [Lines -> 0..2]
          BY <3>11, <4>1, AddRowsType DEF Finish, TypeOK
        <4>. QED
          BY <3>11, <4>1, <4>2, <4>3, NoRequestType DEF Finish, TypeOK
      <3>12. CASE Crash(r)
        BY <3>12, NoRequestType DEF Crash, TypeOK
      <3>. QED
        BY <2>2, <3>2, <3>3, <3>4, <3>5, <3>5a, <3>5b, <3>5c, <3>6, <3>8, <3>9,
           <3>10, <3>11, <3>12
           DEF Step
    <2>3. CASE UNCHANGED vars
      BY <2>3 DEF vars, TypeOK
    <2>. QED
      BY <2>1, <2>2, <2>3 DEF Next
  <1>. QED
    BY <1>1, <1>2, PTL DEF Spec

-----------------------------------------------------------------------------
(* Why a Complete order is a delivered one.  A request's memory, its       *)
(* uncommitted writes, what it is about to mark and its verdict may each   *)
(* be out of date, but none is of a line that was never delivered.         *)
Backed(s) == \A l \in Lines : s[l] = Complete => delivered[l]

RequestBacked(q) ==
  /\ Backed(q.line)
  /\ Backed(q.wrote)
  /\ \A l \in q.shippable \cup q.granted : delivered[l]
  /\ q.verdict = Complete => \A l \in Lines : delivered[l]

DeliveryInv ==
  ~forced => /\ order = Complete => \A l \in Lines : delivered[l]
             /\ Backed(line)
             /\ \A l \in shipped : delivered[l]
             /\ \A r \in Requests : RequestBacked(req[r])

(* Deliveries are never withdrawn, so what was backed stays backed.        *)
DeliveredGrows ==
  /\ delivered' \in [Lines -> BOOLEAN]
  /\ \A l \in Lines : delivered[l] => delivered'[l]

LEMMA BackedGrows ==
  ASSUME DeliveredGrows, NEW q \in Request, RequestBacked(q)
  PROVE  RequestBacked(q)'
  BY DEF DeliveredGrows, RequestBacked, Backed, Request

(* Saving a backed request state keeps the committed lines backed.         *)
LEMMA SaveBacked ==
  ASSUME TypeOK, DeliveryInv, ~forced, DeliveredGrows,
         NEW r \in Requests, NEW q \in Request, Save(r, q),
         RequestBacked(q)'
  PROVE  /\ Backed(line)'
         /\ \A s \in Requests : RequestBacked(req[s])'
  <1>1. \A s \in Requests : req[s] \in Request /\ RequestBacked(req[s])
    BY DEF TypeOK, DeliveryInv
  <1>2. Backed(line)'
    <2>1. CASE q.txn
      BY <2>1 DEF Save, DeliveryInv, Backed, DeliveredGrows
    <2>2. CASE ~q.txn
      BY <2>2 DEF Save, Overlay, DeliveryInv, RequestBacked, Backed, DeliveredGrows
    <2>. QED
      BY <2>1, <2>2
  <1>3. ASSUME NEW s \in Requests, s # r PROVE RequestBacked(req[s])'
    <2>1. req'[s] = req[s]
      BY <1>3 DEF Save, TypeOK
    <2>. QED
      BY <1>1, <2>1 DEF DeliveredGrows, RequestBacked, Backed, Request
  <1>4. RequestBacked(req[r])'
    <2>1. CASE q.txn
      BY <2>1 DEF Save, TypeOK, RequestBacked, Backed
    <2>2. CASE ~q.txn
      <3>1. req'[r] = Flushed(q)
        BY <2>2 DEF Save, TypeOK
      <3>2. /\ Flushed(q).line = q.line
            /\ Flushed(q).wrote = [l \in Lines |-> Unwritten]
            /\ Flushed(q).shippable = q.shippable
            /\ Flushed(q).granted = q.granted
            /\ Flushed(q).verdict = q.verdict
        BY DEF Flushed, Request
      <3>. QED
        BY <3>1, <3>2 DEF RequestBacked, Backed, Unwritten, Complete
    <2>. QED
      BY <2>1, <2>2
  <1>. QED
    BY <1>2, <1>3, <1>4

(* A request gains a Complete line only as that line is delivered.         *)
LEMMA WithStatusBacked ==
  ASSUME NEW q \in Request, RequestBacked(q), NEW l \in Lines,
         NEW s \in LineStatus, s = Complete => delivered'[l], DeliveredGrows,
         NEW p, p = WithStatus(q, l, s)
  PROVE  RequestBacked(p)'
  <1>1. /\ p.line = [q.line EXCEPT ![l] = s]
        /\ p.wrote = [q.wrote EXCEPT ![l] = IF s = q.line[l] THEN @ ELSE s]
        /\ p.shippable = q.shippable
        /\ p.granted \subseteq q.granted
        /\ p.verdict = q.verdict
    BY DEF WithStatus, Request
  <1>2. /\ q.line \in [Lines -> LineStatus]
        /\ q.wrote \in [Lines -> LineStatus \cup {Unwritten}]
        /\ q.shippable \subseteq Lines /\ q.granted \subseteq Lines
    BY DEF Request
  <1>. QED
    BY <1>1, <1>2 DEF RequestBacked, Backed, DeliveredGrows

(* Two request states that agree on what they claim are backed together.   *)
LEMMA SameClaims ==
  ASSUME NEW p, NEW q, p.line = q.line, p.wrote = q.wrote,
         p.shippable = q.shippable, p.verdict = q.verdict,
         p.granted \subseteq q.granted,
         RequestBacked(q)'
  PROVE  RequestBacked(p)'
  BY DEF RequestBacked, Backed

LEMMA MarkedBacked ==
  ASSUME TypeOK, NEW q \in Request, RequestBacked(q), NEW l \in Lines,
         delivered'[l], DeliveredGrows,
         NEW p \in {Marked(q, l), Aborted(Marked(q, l))}
  PROVE  RequestBacked(p)'
  <1>1. PICK c \in Request : c = WithStatus(q, l, Complete)
    BY WithStatusType DEF LineStatus
  <1>2. RequestBacked(c)'
    BY <1>1, WithStatusBacked DEF LineStatus
  <1>3. /\ Marked(q, l).line = c.line
        /\ Marked(q, l).wrote = c.wrote
        /\ Marked(q, l).shippable = c.shippable
        /\ Marked(q, l).verdict = c.verdict
        /\ Marked(q, l).granted = c.granted
    BY <1>1 DEF Marked, Request
  <1>4. /\ p.line = c.line /\ p.wrote = c.wrote
        /\ p.shippable = c.shippable /\ p.verdict = c.verdict
        /\ p.granted \subseteq c.granted
    <2>1. CASE p = Marked(q, l)
      BY <1>3, <2>1
    <2>2. CASE p = Aborted(Marked(q, l))
      <3>1. Marked(q, l) \in Request
        BY MarkedType
      <3>2. /\ p.line = Marked(q, l).line /\ p.wrote = Marked(q, l).wrote
            /\ p.shippable = Marked(q, l).shippable
            /\ p.verdict = Marked(q, l).verdict
            /\ p.granted = {}
        BY <2>2, <3>1 DEF Aborted, Request
      <3>. QED
        BY <1>3, <3>2
    <2>. QED
      BY <2>1, <2>2
  <1>. QED
    BY <1>2, <1>4, SameClaims

LEMMA AbortedBacked ==
  ASSUME NEW q \in Request, RequestBacked(q), DeliveredGrows
  PROVE  RequestBacked(Aborted(q))'
  <1>1. /\ Aborted(q).line = q.line
        /\ Aborted(q).wrote = q.wrote
        /\ Aborted(q).shippable = q.shippable
        /\ Aborted(q).verdict = q.verdict
        /\ Aborted(q).granted \subseteq q.granted
    BY DEF Aborted, Request
  <1>. QED
    BY <1>1, BackedGrows, SameClaims

LEMMA NoRequestBacked ==
  /\ RequestBacked(NoRequest)
  /\ RequestBacked(NoRequest)'
  BY DEF NoRequest, RequestBacked, Backed, Open, Complete, Unwritten

(* DeliveryInv is kept by every step of every request.                     *)
LEMMA StepKeepsDelivery ==
  ASSUME TypeOK, DeliveryInv, ~forced, NEW r \in Requests, Step(r)
  PROVE  DeliveryInv'
  <1>. USE DEF db
  <1>0. /\ req[r] \in Request /\ RequestBacked(req[r])
        /\ Backed(line)
        /\ order = Complete => \A l \in Lines : delivered[l]
        /\ \A l \in shipped : delivered[l]
        /\ shipped \subseteq Lines
        /\ delivered \in [Lines -> BOOLEAN]
        /\ \A q \in Requests : req[q] \in Request /\ RequestBacked(req[q])
    BY DEF TypeOK, DeliveryInv
  (* A step that only saves: deliveries may grow, q becomes r's state.     *)
  <1>1. ASSUME NEW q \in Request, DeliveredGrows, Save(r, q), RequestBacked(q)',
               UNCHANGED <<order, shipped>>
        PROVE  DeliveryInv'
    BY <1>0, <1>1, SaveBacked DEF DeliveryInv, DeliveredGrows
  (* A step that only replaces r's state.                                  *)
  <1>2. ASSUME NEW q \in Request, req' = [req EXCEPT ![r] = q],
               UNCHANGED <<order, line, shipped, delivered>>, RequestBacked(q)
        PROVE  DeliveryInv'
    BY <1>0, <1>2 DEF DeliveryInv, RequestBacked, Backed, TypeOK
  <1>3. ASSUME NEW inTxn \in BOOLEAN, NEW s \in {Open, order},
               Load(r, inTxn, s), UNCHANGED <<order, line, shipped, delivered>>
        PROVE  DeliveryInv'
    <2>. DEFINE q == [NoRequest EXCEPT
                        !.phase = "modules", !.txn = inTxn,
                        !.order = s, !.line = line, !.todo = Lines,
                        !.shippable = {l \in Lines : line[l] = Complete}]
    <2>1. s \in OrderStatus /\ line \in [Lines -> LineStatus]
      BY DEF TypeOK, OrderStatus
    <2>2. /\ q \in Request
          /\ q.line = line /\ q.wrote = NoRequest.wrote
          /\ q.shippable = {l \in Lines : line[l] = Complete}
          /\ q.verdict = NoRequest.verdict /\ q.granted = {}
      BY <2>1, NoRequestType DEF Request, NoRequest
    <2>3. RequestBacked(q)
      BY <1>0, <2>2, NoRequestBacked DEF RequestBacked, Backed
    <2>. QED
      BY <1>2, <1>3, <2>2, <2>3 DEF Load
  <1>4. CASE BeginAtPlacement(r)
    BY <1>3, <1>4 DEF BeginAtPlacement
  <1>5. CASE BeginByApi(r)
    BY <1>3, <1>5 DEF BeginByApi
  <1>6. CASE RefusedByApi(r)
    BY <1>6 DEF RefusedByApi, DeliveryInv, RequestBacked, Backed
  <1>g. ASSUME UNCHANGED delivered PROVE DeliveredGrows
    BY <1>0, <1>g DEF DeliveredGrows
  <1>7. ASSUME NEW l \in Lines, Granted(r, l) PROVE DeliveryInv'
    <2>1. DeliveredGrows /\ delivered'[l]
      BY <1>0, <1>7 DEF Granted, DeliveredGrows
    <2>2. /\ req'[r].line = req[r].line /\ req'[r].wrote = req[r].wrote
          /\ req'[r].shippable = req[r].shippable
          /\ req'[r].verdict = req[r].verdict
          /\ req'[r].granted = {l}
      BY <1>0, <1>7 DEF Granted, TypeOK, Request
    <2>3. \A s \in Requests \ {r} : req'[s] = req[s]
      BY <1>7 DEF Granted, TypeOK
    <2>4. /\ req[r].line \in [Lines -> LineStatus]
          /\ req[r].shippable \subseteq Lines
      BY <1>0 DEF Request
    <2>5. RequestBacked(req[r])'
      BY <1>0, <2>1, <2>2, <2>4 DEF RequestBacked, Backed, DeliveredGrows
    <2>6. ASSUME NEW s \in Requests, s # r PROVE RequestBacked(req[s])'
      <3>1. req'[s] = req[s] /\ req[s] \in Request /\ RequestBacked(req[s])
        BY <1>0, <2>3, <2>6
      <3>. QED
        BY <2>1, <3>1 DEF RequestBacked, Backed, DeliveredGrows, Request
    <2>7. UNCHANGED <<order, line, shipped>>
      BY <1>7 DEF Granted
    <2>. QED
      BY <1>0, <2>1, <2>5, <2>6, <2>7 DEF DeliveryInv, Backed, DeliveredGrows
  <1>7a. ASSUME NEW l \in Lines, RecordDelivery(r, l) PROVE DeliveryInv'
    <2>. DEFINE p == [req[r] EXCEPT !.rows = @ \cup {l}, !.unrecorded = @ \ {l}]
    <2>1. DeliveredGrows
      BY <1>g, <1>7a DEF RecordDelivery
    <2>2. /\ p \in Request /\ p.line = req[r].line /\ p.wrote = req[r].wrote
          /\ p.shippable = req[r].shippable /\ p.verdict = req[r].verdict
          /\ p.granted = req[r].granted
      BY <1>0 DEF Request
    <2>3. Save(r, p)
      BY <1>7a DEF RecordDelivery
    <2>. HIDE DEF p
    <2>4. PICK q : q = p
      OBVIOUS
    <2>5. RequestBacked(q)'
      BY <1>0, <2>1, <2>2, <2>4, BackedGrows, SameClaims
    <2>. QED
      BY <1>1, <1>7a, <2>1, <2>2, <2>3, <2>4, <2>5 DEF RecordDelivery
  <1>7b. ASSUME NEW l \in Lines, MarkComplete(r, l) PROVE DeliveryInv'
    <2>1. DeliveredGrows /\ delivered'[l]
      BY <1>0, <1>g, <1>7b DEF MarkComplete, RequestBacked
    <2>2. PICK q \in {Marked(req[r], l), Aborted(Marked(req[r], l))} :
            Save(r, q)
      BY <1>7b DEF MarkComplete
    <2>3. q \in Request /\ RequestBacked(q)'
      BY <1>0, <2>1, MarkedBacked, MarkedType, AbortedType
    <2>. QED
      BY <1>1, <1>7b, <2>1, <2>2, <2>3 DEF MarkComplete
  <1>7c. CASE DeleteNote(r)
    <2>1. DeliveredGrows
      BY <1>g, <1>7c DEF DeleteNote
    <2>2. PICK q \in {[req[r] EXCEPT !.noteGone = TRUE, !.noteDue = FALSE]} :
            Save(r, q)
      BY <1>7c DEF DeleteNote
    <2>3. /\ q \in Request /\ q.line = req[r].line /\ q.wrote = req[r].wrote
          /\ q.shippable = req[r].shippable /\ q.verdict = req[r].verdict
          /\ q.granted = req[r].granted
      BY <1>0 DEF Request
    <2>4. RequestBacked(q)'
      BY <1>0, <2>1, <2>3, BackedGrows, SameClaims
    <2>. QED
      BY <1>1, <1>7c, <2>1, <2>2, <2>3, <2>4 DEF DeleteNote
  <1>8. ASSUME NEW l \in Lines, ModuleRaises(r, l) PROVE DeliveryInv'
    <2>1. DeliveredGrows
      BY <1>0, <1>8 DEF ModuleRaises, DeliveredGrows
    <2>2. PICK q \in {Aborted(req[r])} : Save(r, q)
      BY <1>8 DEF ModuleRaises
    <2>3. q \in Request /\ RequestBacked(q)'
      BY <1>0, <2>1, AbortedBacked, AbortedType
    <2>. QED
      BY <1>1, <1>8, <2>1, <2>2, <2>3 DEF ModuleRaises
  <1>9. ASSUME NEW l \in Lines, NEW s \in LineErrors, CallFailed(r, l, s)
        PROVE  DeliveredGrows
    BY <1>0, <1>9 DEF CallFailed, DeliveredGrows
  <1>10. ASSUME NEW l \in Lines, NEW s \in LineErrors, Failed(r, l, s)
         PROVE  DeliveryInv'
    <2>1. DeliveredGrows
      BY <1>9, <1>10 DEF Failed
    <2>2. s \in LineStatus /\ s # Complete
      BY DEF LineStatus, LineErrors, Complete, ConfigurationError, NetworkError,
             TimeoutError, ServerError
    <2>3. PICK q \in {WithStatus(req[r], l, s)} : Save(r, q)
      BY <1>10 DEF Failed
    <2>4. q \in Request /\ RequestBacked(q)'
      BY <1>0, <2>1, <2>2, WithStatusType, WithStatusBacked
    <2>. QED
      BY <1>1, <1>10, <2>1, <2>3, <2>4 DEF Failed
  <1>11. ASSUME NEW l \in Lines, NEW s \in LineErrors, FailureNotAllowed(r, l, s)
         PROVE  DeliveryInv'
    <2>1. DeliveredGrows
      BY <1>9, <1>11 DEF FailureNotAllowed
    <2>2. PICK q \in {Aborted(req[r])} : Save(r, q)
      BY <1>11 DEF FailureNotAllowed
    <2>3. q \in Request /\ RequestBacked(q)'
      BY <1>0, <2>1, AbortedBacked, AbortedType
    <2>. QED
      BY <1>1, <1>11, <2>1, <2>2, <2>3 DEF FailureNotAllowed
  <1>12. CASE Tally(r)
    <2>. DEFINE v == IF \A l \in Lines : Overlay(req[r].wrote, line)[l] = Complete
                     THEN Complete ELSE FulfillmentError
                q == [req[r] EXCEPT !.phase = "tallied", !.verdict = v]
    <2>1. v = Complete => \A l \in Lines : delivered[l]
      BY <1>0 DEF Overlay, RequestBacked, Backed, Complete, FulfillmentError
    <2>2. v \in OrderStatus
      BY DEF OrderStatus
    <2>3. /\ q \in Request
          /\ q.line = req[r].line /\ q.wrote = req[r].wrote
          /\ q.shippable = req[r].shippable /\ q.verdict = v
          /\ q.granted = req[r].granted
      BY <1>0, <2>2 DEF Request
    <2>4. RequestBacked(q)
      BY <1>0, <2>1, <2>3 DEF RequestBacked, Backed
    <2>5. req' = [req EXCEPT ![r] = q]
      BY <1>0, <1>12 DEF Tally, TypeOK, Request
    <2>. QED
      BY <1>2, <1>12, <2>3, <2>4, <2>5 DEF Tally
  <1>13. CASE Finish(r)
    <2>1. order' = Complete => \A l \in Lines : delivered[l]
      BY <1>0, <1>13 DEF Finish, RequestBacked
    <2>2. \A l \in Lines : line'[l] = Complete => delivered[l]
      BY <1>0, <1>13 DEF Finish, Overlay, RequestBacked, Backed
    <2>3. \A l \in shipped' : delivered[l]
      BY <1>0, <1>13 DEF Finish, RequestBacked
    <2>4. \A s \in Requests : RequestBacked(req'[s])
      BY <1>0, <1>13, NoRequestBacked DEF Finish, TypeOK
    <2>5. UNCHANGED delivered
      BY <1>13 DEF Finish
    <2>. QED
      BY <2>1, <2>2, <2>3, <2>4, <2>5 DEF DeliveryInv, RequestBacked, Backed
  <1>14. CASE Crash(r)
    BY <1>2, <1>14, NoRequestType, NoRequestBacked DEF Crash
  <1>. QED
    BY <1>4, <1>5, <1>6, <1>7, <1>7a, <1>7b, <1>7c, <1>8, <1>10, <1>11, <1>12,
       <1>13, <1>14 DEF Step

(* The invariant that relates every copy of the statuses to deliveries.    *)
THEOREM DeliveryInvariant == Spec => []DeliveryInv
  <1>1. Init => DeliveryInv
    <2>. SUFFICES ASSUME Init PROVE DeliveryInv
      OBVIOUS
    <2>. USE DEF Open, Complete
    <2>1. order # Complete /\ shipped = {} /\ Backed(line)
      BY DEF Init, Backed
    <2>2. \A r \in Requests : RequestBacked(req[r])
      BY NoRequestBacked DEF Init
    <2>. QED
      BY <2>1, <2>2 DEF DeliveryInv
  <1>2. TypeOK /\ DeliveryInv /\ [Next]_vars => DeliveryInv'
    <2>. SUFFICES ASSUME TypeOK, DeliveryInv, [Next]_vars PROVE DeliveryInv'
      OBVIOUS
    <2>1. CASE MarkOrdersStatusComplete
      BY <2>1 DEF MarkOrdersStatusComplete, DeliveryInv
    <2>2. ASSUME NEW r \in Requests, Step(r) PROVE DeliveryInv'
      <3>1. CASE ~forced
        BY <2>2, <3>1, StepKeepsDelivery
      <3>2. CASE forced
        <4>1. forced' = forced
          BY <2>2 DEF Step, BeginAtPlacement, BeginByApi, RefusedByApi, Granted,
         RecordDelivery, MarkComplete, DeleteNote,
               ModuleRaises, Failed, FailureNotAllowed, Tally, Finish, Crash
        <4>. QED
          BY <3>2, <4>1 DEF DeliveryInv
      <3>. QED
        BY <3>1, <3>2
    <2>3. CASE UNCHANGED vars
      BY <2>3 DEF vars, DeliveryInv, RequestBacked, Backed
    <2>. QED
      BY <2>1, <2>2, <2>3 DEF Next
  <1>. QED
    BY <1>1, <1>2, TypeCorrect, PTL DEF Spec

(* A Complete order was delivered: no race, crash or lost answer makes the *)
(* service tell a customer that an undelivered purchase is complete.       *)
THEOREM OrderDelivered == Spec => []CompleteMeansDelivered
  <1>1. DeliveryInv => CompleteMeansDelivered
    BY DEF DeliveryInv, CompleteMeansDelivered, Backed
  <1>. QED
    BY <1>1, DeliveryInvariant, PTL

(* Shipping events, computed from statuses read before the attempt, never  *)
(* name an undelivered line.                                               *)
THEOREM ShippedDelivered == Spec => []ShippedMeansDelivered
  <1>1. DeliveryInv => ShippedMeansDelivered
    BY DEF DeliveryInv, ShippedMeansDelivered
  <1>. QED
    BY <1>1, DeliveryInvariant, PTL

-----------------------------------------------------------------------------
(* Why a Complete code or entitlement line has its record.  The status and *)
(* the record are two writes of the request that delivered the line: what  *)
(* matters is that the record is written first, and that no commit, in a   *)
(* transaction or outside one, shows the status without it.                *)

(* The record is committed, or will be together with what q wrote.         *)
HasRecord(q, l) == l \in q.rows \/ rows[l] > 0

WritesRecorded(q) ==
  \A l \in Recordable :
    /\ q.wrote[l] = Complete => HasRecord(q, l)
    /\ l \in q.granted \ q.unrecorded => HasRecord(q, l)

RecordInv ==
  ~forced => /\ \A l \in Recordable : line[l] = Complete => rows[l] > 0
             /\ \A r \in Requests : WritesRecorded(req[r])

(* Records are only ever added.                                            *)
RecordsGrow == \A l \in Recordable : rows[l] > 0 => rows'[l] > 0

LEMMA NoRequestRecorded == WritesRecorded(NoRequest) /\ WritesRecorded(NoRequest)'
  BY DEF NoRequest, WritesRecorded, Recordable, Unwritten, Complete

LEMMA RecordedGrows ==
  ASSUME RecordsGrow, NEW q, WritesRecorded(q)
  PROVE  WritesRecorded(q)'
  BY DEF RecordsGrow, WritesRecorded, HasRecord, Recordable

LEMMA AddRowsGrow ==
  ASSUME TypeOK, NEW new \in SUBSET Lines, NEW l \in Recordable
  PROVE  /\ rows[l] > 0 => AddRows(new, rows)[l] > 0
         /\ l \in new => AddRows(new, rows)[l] > 0
  <1>1. l \in Lines /\ rows[l] \in 0..2
    BY DEF Recordable, TypeOK
  <1>. QED
    BY <1>1 DEF AddRows

(* A commit of recorded writes leaves only recorded lines Complete.        *)
LEMMA CommitRecorded ==
  ASSUME TypeOK, NEW q \in Request, WritesRecorded(q),
         \A l \in Recordable : line[l] = Complete => rows[l] > 0,
         NEW l \in Recordable, Overlay(q.wrote, line)[l] = Complete
  PROVE  AddRows(q.rows, rows)[l] > 0
  <1>1. l \in Lines /\ q.rows \in SUBSET Lines
    BY DEF Recordable, Request
  <1>2. HasRecord(q, l)
    BY <1>1 DEF Overlay, WritesRecorded, HasRecord
  <1>. QED
    BY <1>1, <1>2, AddRowsGrow DEF HasRecord

LEMMA SaveRecorded ==
  ASSUME TypeOK, RecordInv, ~forced, ~forced', NEW r \in Requests,
         NEW q \in Request, Save(r, q), WritesRecorded(q)
  PROVE  RecordInv'
  <1>1. /\ \A l \in Recordable : line[l] = Complete => rows[l] > 0
        /\ \A s \in Requests : WritesRecorded(req[s])
    BY DEF RecordInv
  <1>2. CASE q.txn
    <2>1. /\ UNCHANGED <<line, rows>>
          /\ \A s \in Requests : req'[s] = IF s = r THEN q ELSE req[s]
      BY <1>2 DEF Save, TypeOK
    <2>2. \A s \in Requests : WritesRecorded(req'[s])
      BY <1>1, <2>1
    <2>. QED
      BY <1>1, <2>1, <2>2 DEF RecordInv, WritesRecorded, HasRecord
  <1>3. CASE ~q.txn
    <2>1. /\ line' = Overlay(q.wrote, line)
          /\ rows' = AddRows(q.rows, rows)
          /\ \A s \in Requests : req'[s] = IF s = r THEN Flushed(q) ELSE req[s]
      BY <1>3 DEF Save, TypeOK
    <2>2. q.rows \in SUBSET Lines
      BY DEF Request
    <2>3. RecordsGrow
      BY <2>1, <2>2, AddRowsGrow DEF RecordsGrow
    <2>4. WritesRecorded(Flushed(q))'
      <3>1. /\ \A l \in Lines : Flushed(q).wrote[l] = Unwritten
            /\ Flushed(q).granted = q.granted
            /\ Flushed(q).unrecorded = q.unrecorded
        BY DEF Flushed, Request
      <3>2. \A l \in Recordable : HasRecord(q, l) => rows'[l] > 0
        BY <2>1, <2>2, AddRowsGrow DEF HasRecord
      <3>. QED
        BY <3>1, <3>2 DEF WritesRecorded, HasRecord, Recordable, Unwritten, Complete
    <2>5. \A s \in Requests : WritesRecorded(req[s])'
      BY <1>1, <2>1, <2>3, <2>4, RecordedGrows
    <2>6. \A l \in Recordable : line'[l] = Complete => rows'[l] > 0
      BY <1>1, <2>1, CommitRecorded
    <2>. QED
      BY <2>5, <2>6 DEF RecordInv
  <1>. QED
    BY <1>2, <1>3

(* Only a recorded line is marked Complete.                                *)
LEMMA WithStatusRecorded ==
  ASSUME NEW q \in Request, WritesRecorded(q), NEW l \in Lines,
         NEW s \in LineStatus,
         s = Complete /\ l \in Recordable => HasRecord(q, l)
  PROVE  WritesRecorded(WithStatus(q, l, s))
  <1>. DEFINE c == WithStatus(q, l, s)
  <1>1. /\ c.wrote = [q.wrote EXCEPT ![l] = IF s = q.line[l] THEN @ ELSE s]
        /\ c.rows = q.rows /\ c.unrecorded = q.unrecorded
        /\ c.granted = q.granted \ {l}
    BY DEF WithStatus, Request
  <1>2. q.wrote \in [Lines -> LineStatus \cup {Unwritten}]
    BY DEF Request
  <1>3. \A m \in Recordable : m \in Lines
    BY DEF Recordable
  <1>4. \A m \in Recordable : HasRecord(c, m) <=> HasRecord(q, m)
    BY <1>1 DEF HasRecord
  <1>5. \A m \in Recordable : c.wrote[m] = Complete =>
          q.wrote[m] = Complete \/ (m = l /\ s = Complete)
    BY <1>1, <1>2, <1>3
  <1>. QED
    BY <1>1, <1>4, <1>5 DEF WritesRecorded

LEMMA MarkedRecorded ==
  ASSUME TypeOK, NEW q \in Request, WritesRecorded(q), NEW l \in Lines,
         l \in q.granted, MayMark(q, l),
         NEW p \in {Marked(q, l), Aborted(Marked(q, l))}
  PROVE  WritesRecorded(p)
  <1>1. PICK c \in Request : c = WithStatus(q, l, Complete)
    BY WithStatusType DEF LineStatus
  <1>2. l \in Recordable => HasRecord(q, l)
    BY DEF MayMark, WritesRecorded
  <1>3. WritesRecorded(c)
    BY <1>1, <1>2, WithStatusRecorded DEF LineStatus
  <1>4. /\ Marked(q, l).wrote = c.wrote /\ Marked(q, l).rows = c.rows
        /\ Marked(q, l).granted = c.granted
        /\ Marked(q, l).unrecorded = c.unrecorded
    BY <1>1 DEF Marked, Request
  <1>5. /\ p.wrote = c.wrote /\ p.rows = c.rows
        /\ p.granted \subseteq c.granted /\ p.unrecorded = c.unrecorded
    BY <1>4, MarkedType DEF Aborted, Request
  <1>. QED
    BY <1>3, <1>5 DEF WritesRecorded, HasRecord

LEMMA StepKeepsRecords ==
  ASSUME TypeOK, RecordInv, ~forced, NEW r \in Requests, Step(r)
  PROVE  RecordInv'
  <1>. USE DEF db
  <1>0. /\ req[r] \in Request /\ WritesRecorded(req[r])
        /\ \A l \in Recordable : line[l] = Complete => rows[l] > 0
        /\ \A s \in Requests : WritesRecorded(req[s])
    BY DEF TypeOK, RecordInv
  (* A step that only replaces r's state.                                  *)
  <1>1. ASSUME NEW q, req' = [req EXCEPT ![r] = q], WritesRecorded(q),
               UNCHANGED <<line, rows>>
        PROVE  RecordInv'
    <2>1. \A s \in Requests : req'[s] = IF s = r THEN q ELSE req[s]
      BY <1>1 DEF TypeOK
    <2>2. \A s \in Requests : WritesRecorded(req'[s])
      BY <1>0, <1>1, <2>1
    <2>. QED
      BY <1>0, <1>1, <2>2 DEF RecordInv, WritesRecorded, HasRecord
  <1>2. ASSUME NEW inTxn \in BOOLEAN, NEW s \in OrderStatus,
               Load(r, inTxn, s), UNCHANGED <<line, rows>>
        PROVE  RecordInv'
    <2>. DEFINE q == [NoRequest EXCEPT
                        !.phase = "modules", !.txn = inTxn,
                        !.order = s, !.line = line, !.todo = Lines,
                        !.shippable = {l \in Lines : line[l] = Complete}]
    <2>1. /\ q.wrote = NoRequest.wrote /\ q.rows = NoRequest.rows
          /\ q.granted = NoRequest.granted
      BY DEF NoRequest
    <2>2. WritesRecorded(q)
      BY <2>1 DEF WritesRecorded, NoRequest, Unwritten, Complete, Recordable
    <2>. QED
      BY <1>1, <1>2, <2>2 DEF Load
  <1>3. CASE BeginAtPlacement(r)
    BY <1>2, <1>3 DEF BeginAtPlacement, OrderStatus
  <1>4. CASE BeginByApi(r)
    BY <1>2, <1>4 DEF BeginByApi, TypeOK
  <1>5. CASE RefusedByApi(r)
    BY <1>5 DEF RefusedByApi, RecordInv, WritesRecorded, HasRecord
  <1>6. WritesRecorded(Aborted(req[r]))
    BY <1>0 DEF Aborted, WritesRecorded, HasRecord, Request
  <1>7. ASSUME NEW l \in Lines, Granted(r, l) PROVE RecordInv'
    <2>. DEFINE q == [req[r] EXCEPT !.granted = {l},
                                   !.unrecorded = {l} \cap Recordable,
                                   !.details = Details(req[r], l)]
    <2>1. /\ q.wrote = req[r].wrote /\ q.rows = req[r].rows
          /\ q.granted = {l} /\ q.unrecorded = {l} \cap Recordable
      BY <1>0 DEF Request
    <2>2. req' = [req EXCEPT ![r] = q]
      BY <1>0, <1>7 DEF Granted, TypeOK, Request
    <2>3. WritesRecorded(q)
      BY <1>0, <2>1 DEF WritesRecorded, HasRecord
    <2>. QED
      BY <1>1, <1>7, <2>2, <2>3 DEF Granted
  <1>7a. ASSUME NEW l \in Lines, RecordDelivery(r, l) PROVE RecordInv'
    <2>. DEFINE q == [req[r] EXCEPT !.rows = @ \cup {l}, !.unrecorded = @ \ {l}]
    <2>1. /\ q \in Request /\ q.wrote = req[r].wrote
          /\ q.rows = req[r].rows \cup {l}
          /\ q.granted = req[r].granted
          /\ q.unrecorded = req[r].unrecorded \ {l}
      BY <1>0 DEF Request
    <2>2. WritesRecorded(q)
      BY <1>0, <2>1 DEF WritesRecorded, HasRecord
    <2>. QED
      BY <1>7a, <2>1, <2>2, SaveRecorded DEF RecordDelivery
  <1>7b. ASSUME NEW l \in Lines, MarkComplete(r, l) PROVE RecordInv'
    <2>1. PICK q \in {Marked(req[r], l), Aborted(Marked(req[r], l))} :
            Save(r, q)
      BY <1>7b DEF MarkComplete
    <2>2. q \in Request /\ WritesRecorded(q)
      BY <1>0, <1>7b, MarkedRecorded, MarkedType, AbortedType DEF MarkComplete
    <2>. QED
      BY <1>7b, <2>1, <2>2, SaveRecorded DEF MarkComplete
  <1>7c. CASE DeleteNote(r)
    <2>. DEFINE q == [req[r] EXCEPT !.noteGone = TRUE, !.noteDue = FALSE]
    <2>1. /\ q \in Request /\ q.wrote = req[r].wrote /\ q.rows = req[r].rows
          /\ q.granted = req[r].granted /\ q.unrecorded = req[r].unrecorded
      BY <1>0 DEF Request
    <2>2. WritesRecorded(q)
      BY <1>0, <2>1 DEF WritesRecorded, HasRecord
    <2>. QED
      BY <1>7c, <2>1, <2>2, SaveRecorded DEF DeleteNote
  <1>8. ASSUME NEW l \in Lines, ModuleRaises(r, l) PROVE RecordInv'
    BY <1>0, <1>6, <1>8, AbortedType, SaveRecorded DEF ModuleRaises
  <1>9. ASSUME NEW l \in Lines, NEW s \in LineErrors, Failed(r, l, s)
        PROVE  RecordInv'
    <2>1. s \in LineStatus /\ s # Complete
      BY DEF LineStatus, LineErrors, Complete, ConfigurationError, NetworkError,
             TimeoutError, ServerError
    <2>2. /\ WithStatus(req[r], l, s) \in Request
          /\ WritesRecorded(WithStatus(req[r], l, s))
      BY <1>0, <2>1, WithStatusType, WithStatusRecorded
    <2>. QED
      BY <1>9, <2>2, SaveRecorded DEF Failed
  <1>10. ASSUME NEW l \in Lines, NEW s \in LineErrors, FailureNotAllowed(r, l, s)
         PROVE  RecordInv'
    BY <1>0, <1>6, <1>10, AbortedType, SaveRecorded DEF FailureNotAllowed
  <1>11. CASE Tally(r)
    <2>1. \A s \in Requests : /\ req'[s].wrote = req[s].wrote
                              /\ req'[s].rows = req[s].rows
                              /\ req'[s].granted = req[s].granted
                              /\ req'[s].unrecorded = req[s].unrecorded
      BY <1>0, <1>11 DEF Tally, TypeOK, Request
    <2>2. UNCHANGED <<line, rows>>
      BY <1>11 DEF Tally
    <2>. QED
      BY <1>0, <2>1, <2>2 DEF RecordInv, WritesRecorded, HasRecord
  <1>12. CASE Finish(r)
    <2>1. /\ line' = Overlay(req[r].wrote, line)
          /\ rows' = AddRows(req[r].rows, rows)
          /\ \A s \in Requests : req'[s] = IF s = r THEN NoRequest ELSE req[s]
      BY <1>12 DEF Finish, TypeOK
    <2>2. \A l \in Recordable : line'[l] = Complete => rows'[l] > 0
      BY <1>0, <2>1, CommitRecorded
    <2>3. RecordsGrow
      BY <1>0, <2>1, AddRowsGrow DEF RecordsGrow, Request
    <2>4. \A s \in Requests : WritesRecorded(req[s])'
      BY <1>0, <2>1, <2>3, NoRequestRecorded, RecordedGrows
    <2>. QED
      BY <2>2, <2>4 DEF RecordInv
  <1>13. CASE Crash(r)
    BY <1>1, <1>13, NoRequestRecorded DEF Crash
  <1>. QED
    BY <1>3, <1>4, <1>5, <1>7, <1>7a, <1>7b, <1>7c, <1>8, <1>9, <1>10, <1>11,
       <1>12, <1>13 DEF Step

LEMMA OverrideIsFinal ==
  ASSUME NEW r \in Requests, Step(r)
  PROVE  UNCHANGED forced
  BY DEF Step, BeginAtPlacement, BeginByApi, RefusedByApi, Granted,
         RecordDelivery, MarkComplete, DeleteNote,
         ModuleRaises, Failed, FailureNotAllowed, Tally, Finish, Crash

(* No interleaving, crash or rollback leaves a code or entitlement line    *)
(* Complete without the voucher or UUID its refund looks up.               *)
THEOREM CompleteRecorded == Spec => []CompleteMeansRecorded
  <1>1. Init => RecordInv
    <2>. SUFFICES ASSUME Init PROVE RecordInv
      OBVIOUS
    <2>1. \A l \in Recordable : line[l] # Complete
      BY DEF Init, Recordable, Open, Complete
    <2>2. \A r \in Requests : WritesRecorded(req[r])
      BY NoRequestRecorded DEF Init
    <2>. QED
      BY <2>1, <2>2 DEF RecordInv
  <1>2. TypeOK /\ RecordInv /\ [Next]_vars => RecordInv'
    <2>. SUFFICES ASSUME TypeOK, RecordInv, [Next]_vars PROVE RecordInv'
      OBVIOUS
    <2>1. CASE MarkOrdersStatusComplete
      BY <2>1 DEF MarkOrdersStatusComplete, RecordInv
    <2>2. ASSUME NEW r \in Requests, Step(r) PROVE RecordInv'
      <3>1. CASE ~forced
        BY <2>2, <3>1, StepKeepsRecords
      <3>2. CASE forced
        BY <2>2, <3>2, OverrideIsFinal DEF RecordInv
      <3>. QED
        BY <3>1, <3>2
    <2>3. CASE UNCHANGED vars
      BY <2>3 DEF vars, RecordInv, WritesRecorded, HasRecord
    <2>. QED
      BY <2>1, <2>2, <2>3 DEF Next
  <1>3. RecordInv => CompleteMeansRecorded
    BY DEF RecordInv, CompleteMeansRecorded, Recordable
  <1>. QED
    BY <1>1, <1>2, <1>3, TypeCorrect, PTL DEF Spec

-----------------------------------------------------------------------------
(* What holds when attempts come one after another, whatever the lines and *)
(* however many attempts fail, crash or are retried.                       *)

(* Attempts of the one request there is never overlap.                     *)
OneAtATime == \A r, s \in Requests : r = s

(* What a request reads is what it would commit, and it moves each line by *)
(* one step of the pipeline at most.                                       *)
Sees(q) == \A l \in Lines : q.line[l] = Overlay(q.wrote, line)[l]

Moves(q) ==
  \A l \in Lines :
    /\ q.wrote[l] # Unwritten => q.wrote[l] \in LinePipeline(line[l]) /\ l \notin q.todo
    /\ l \in q.granted => l \in q.todo

Judges(q) ==
  q.phase = "tallied" /\ q.verdict = Complete =>
    \A l \in Lines : Overlay(q.wrote, line)[l] = Complete

Alone(q) == Moves(q) /\ (q.phase # "idle" => Sees(q) /\ Judges(q))

SerialInv ==
  ~forced => /\ order = Complete => \A l \in Lines : line[l] = Complete
             /\ \A r \in Requests : Alone(req[r])

(* The property LinesFollowPipeline, without its box.                      *)
LinesFollow ==
  ~forced => \A l \in Lines :
    line'[l] # line[l] => line'[l] \in LinePipeline(line[l])

LEMMA StatusesDistinct ==
  /\ Open # Complete /\ Complete \notin LineErrors /\ Open \notin LineErrors
  /\ Unwritten \notin LineStatus
  BY DEF Open, Complete, LineErrors, LineStatus, Unwritten, ConfigurationError,
         NetworkError, TimeoutError, ServerError

(* Nothing leaves Complete.                                                *)
LEMMA CompleteIsLast == LinePipeline(Complete) = {}
  BY StatusesDistinct DEF LinePipeline

LEMMA NoRequestAlone == Alone(NoRequest)
  BY DEF NoRequest, Alone, Moves

(* Committing what a request wrote follows the pipeline and keeps Complete *)
(* lines.                                                                  *)
LEMMA CommitFollows ==
  ASSUME TypeOK, NEW q \in Request, Moves(q), NEW l \in Lines
  PROVE  /\ Overlay(q.wrote, line)[l] # line[l] =>
              Overlay(q.wrote, line)[l] \in LinePipeline(line[l])
         /\ line[l] = Complete => Overlay(q.wrote, line)[l] = Complete
  BY CompleteIsLast DEF Moves, Overlay

LEMMA SaveSerial ==
  ASSUME OneAtATime, TypeOK, SerialInv, ~forced, forced' = forced, order' = order,
         NEW r \in Requests, NEW q \in Request, Save(r, q), Moves(q), Sees(q),
         q.phase = "modules"
  PROVE  SerialInv' /\ LinesFollow
  <1>1. \A s \in Requests : s = r
    BY DEF OneAtATime
  <1>2. order = Complete => \A l \in Lines : line[l] = Complete
    BY DEF SerialInv
  <1>3. CASE q.txn
    <2>1. UNCHANGED line /\ req'[r] = q
      BY <1>3 DEF Save, TypeOK
    <2>2. Alone(q)'
      BY <2>1 DEF Alone, Moves, Sees, Judges, Overlay
    <2>3. \A s \in Requests : Alone(req[s])'
      BY <1>1, <2>1, <2>2
    <2>. QED
      BY <1>2, <2>1, <2>3 DEF SerialInv, LinesFollow
  <1>4. CASE ~q.txn
    <2>1. line' = Overlay(q.wrote, line) /\ req'[r] = Flushed(q)
      BY <1>4 DEF Save, TypeOK
    <2>2. /\ \A l \in Lines : Flushed(q).wrote[l] = Unwritten
          /\ Flushed(q).line = q.line /\ Flushed(q).phase = "modules"
          /\ Flushed(q).todo = q.todo /\ Flushed(q).granted = q.granted
      BY DEF Flushed, Request
    <2>3. Alone(Flushed(q))'
      BY <2>1, <2>2 DEF Alone, Moves, Sees, Judges, Overlay
    <2>4. \A s \in Requests : Alone(req[s])'
      BY <1>1, <2>1, <2>3
    <2>. QED
      BY <1>2, <2>1, <2>4, CommitFollows DEF SerialInv, LinesFollow
  <1>. QED
    BY <1>3, <1>4

(* A module sets the status of a line it has not handled before.           *)
LEMMA WithStatusAlone ==
  ASSUME TypeOK, NEW q \in Request, Moves(q), Sees(q), NEW l \in Lines, l \in q.todo,
         NEW s \in LineStatus, LineMayMove(q.line[l], s)
  PROVE  Moves(WithStatus(q, l, s)) /\ Sees(WithStatus(q, l, s))
  <1>. DEFINE c == WithStatus(q, l, s)
  <1>1. /\ c.line = [q.line EXCEPT ![l] = s]
        /\ c.wrote = [q.wrote EXCEPT ![l] = IF s = q.line[l] THEN @ ELSE s]
        /\ c.todo = q.todo \ {l} /\ c.granted = q.granted \ {l}
    BY DEF WithStatus, Request
  <1>2. /\ q.line \in [Lines -> LineStatus]
        /\ q.wrote \in [Lines -> LineStatus \cup {Unwritten}]
    BY DEF Request
  <1>3. q.wrote[l] = Unwritten /\ q.line[l] = line[l]
    BY DEF Moves, Sees, Overlay
  <1>. HIDE DEF c
  <1>4. \A m \in Lines \ {l} : c.line[m] = q.line[m] /\ c.wrote[m] = q.wrote[m]
    BY <1>1, <1>2
  <1>5. c.line[l] = s /\ c.wrote[l] = IF s = line[l] THEN Unwritten ELSE s
    BY <1>1, <1>2, <1>3
  <1>6. s # line[l] => s \in LinePipeline(line[l])
    BY <1>3 DEF LineMayMove
  <1>7. ASSUME NEW m \in Lines, c.wrote[m] # Unwritten
        PROVE  c.wrote[m] \in LinePipeline(line[m]) /\ m \notin c.todo
    BY <1>1, <1>4, <1>5, <1>6, <1>7 DEF Moves
  <1>8. ASSUME NEW m \in Lines PROVE c.line[m] = Overlay(c.wrote, line)[m]
    <2>1. CASE m = l
      BY <1>5, <2>1, StatusesDistinct DEF Overlay
    <2>2. CASE m # l
      BY <1>4, <2>2 DEF Sees, Overlay
    <2>. QED
      BY <2>1, <2>2
  <1>9. \A m \in Lines : m \in c.granted => m \in c.todo
    BY <1>1 DEF Moves
  <1>. QED
    BY <1>7, <1>8, <1>9 DEF c, Moves, Sees

LEMMA MarkedAlone ==
  ASSUME TypeOK, NEW q \in Request, Moves(q), Sees(q), NEW l \in Lines, l \in q.todo,
         NEW p \in {Marked(q, l), Aborted(Marked(q, l))}
  PROVE  Moves(p) /\ Sees(p) /\ p.phase = q.phase
  <1>1. PICK c \in Request : c = WithStatus(q, l, Complete)
    BY WithStatusType DEF LineStatus
  <1>2. Complete \in LineStatus /\ LineMayMove(q.line[l], Complete)
    BY DEF LineMayMove, LinePipeline, LineStatus, Request
  <1>3. Moves(c) /\ Sees(c) /\ c.phase = q.phase
    <2>1. Moves(c) /\ Sees(c)
      BY <1>1, <1>2, WithStatusAlone
    <2>2. WithStatus(q, l, Complete).phase = q.phase
      BY DEF WithStatus, Request
    <2>. QED
      BY <1>1, <2>1, <2>2
  <1>4. /\ Marked(q, l).line = c.line /\ Marked(q, l).wrote = c.wrote
        /\ Marked(q, l).todo = c.todo /\ Marked(q, l).phase = c.phase
        /\ Marked(q, l).granted = c.granted
    BY <1>1 DEF Marked, Request
  <1>5. /\ p.line = c.line /\ p.wrote = c.wrote /\ p.phase = c.phase
        /\ \/ p.todo = c.todo /\ p.granted = c.granted
           \/ p.todo = {} /\ p.granted = {}
    BY <1>4, MarkedType DEF Aborted, Request
  <1>. QED
    BY <1>3, <1>5 DEF Moves, Sees

LEMMA AbortedAlone ==
  ASSUME NEW q \in Request, Moves(q), Sees(q)
  PROVE  Moves(Aborted(q)) /\ Sees(Aborted(q)) /\ Aborted(q).phase = q.phase
  BY DEF Aborted, Moves, Sees, Request

LEMMA StepKeepsSerial ==
  ASSUME OneAtATime, TypeOK, SerialInv, ~forced, NEW r \in Requests, Step(r)
  PROVE  SerialInv' /\ LinesFollow
  <1>. USE DEF db
  <1>f. forced' = forced
    BY OverrideIsFinal
  <1>0. /\ req[r] \in Request /\ Alone(req[r])
        /\ order = Complete => \A l \in Lines : line[l] = Complete
        /\ \A s \in Requests : s = r
        /\ line \in [Lines -> LineStatus]
    BY DEF TypeOK, SerialInv, OneAtATime
  (* A step that only replaces r's state.                                  *)
  <1>1. ASSUME NEW q, req' = [req EXCEPT ![r] = q], UNCHANGED <<order, line>>, Alone(q)
        PROVE  SerialInv' /\ LinesFollow
    <2>1. req'[r] = q
      BY <1>1 DEF TypeOK
    <2>2. Alone(q)'
      BY <1>1 DEF Alone, Moves, Sees, Judges, Overlay
    <2>3. \A s \in Requests : Alone(req[s])'
      BY <1>0, <2>1, <2>2
    <2>. QED
      BY <1>0, <1>1, <2>3 DEF SerialInv, LinesFollow
  <1>2. ASSUME NEW inTxn \in BOOLEAN, NEW s \in OrderStatus,
               Load(r, inTxn, s), UNCHANGED <<order, line>>
        PROVE  SerialInv' /\ LinesFollow
    <2>. DEFINE q == [NoRequest EXCEPT
                        !.phase = "modules", !.txn = inTxn,
                        !.order = s, !.line = line, !.todo = Lines,
                        !.shippable = {l \in Lines : line[l] = Complete}]
    <2>1. /\ q.phase = "modules" /\ q.line = line /\ q.granted = {}
          /\ \A l \in Lines : q.wrote[l] = Unwritten
      BY DEF NoRequest
    <2>2. Alone(q)
      BY <2>1 DEF Alone, Moves, Sees, Judges, Overlay
    <2>. QED
      BY <1>1, <1>2, <2>2 DEF Load
  <1>3. CASE BeginAtPlacement(r)
    BY <1>2, <1>3 DEF BeginAtPlacement, OrderStatus
  <1>4. CASE BeginByApi(r)
    BY <1>2, <1>4 DEF BeginByApi, TypeOK
  <1>5. CASE RefusedByApi(r)
    BY <1>0, <1>1, <1>5 DEF RefusedByApi, TypeOK
  <1>6. ASSUME NEW l \in Lines, Turn(r, l)
        PROVE  /\ req[r].phase = "modules" /\ l \in req[r].todo
               /\ Moves(req[r]) /\ Sees(req[r])
    BY <1>0, <1>6 DEF Turn, Alone
  <1>7. ASSUME NEW l \in Lines, Granted(r, l) PROVE SerialInv' /\ LinesFollow
    <2>. DEFINE q == [req[r] EXCEPT !.granted = {l},
                                   !.unrecorded = {l} \cap Recordable,
                                   !.details = Details(req[r], l)]
    <2>1. /\ q.wrote = req[r].wrote /\ q.line = req[r].line
          /\ q.granted = {l} /\ q.todo = req[r].todo /\ q.phase = req[r].phase
      BY <1>0 DEF Request
    <2>2. req' = [req EXCEPT ![r] = q]
      BY <1>0, <1>7 DEF Granted, TypeOK, Request
    <2>3. Alone(q)
      BY <1>6, <1>7, <2>1 DEF Granted, Alone, Moves, Sees, Judges
    <2>. QED
      BY <1>1, <1>7, <2>2, <2>3 DEF Granted
  <1>7a. ASSUME NEW q \in Request, Save(r, q), req[r].phase = "modules",
                q.line = req[r].line, q.wrote = req[r].wrote,
                q.todo = req[r].todo, q.granted = req[r].granted,
                q.phase = req[r].phase, order' = order
         PROVE  SerialInv' /\ LinesFollow
    <2>1. Moves(q) /\ Sees(q)
      BY <1>0, <1>7a DEF Alone, Moves, Sees
    <2>. QED
      BY <1>f, <1>7a, <2>1, SaveSerial
  <1>7b. ASSUME NEW l \in Lines, RecordDelivery(r, l) PROVE SerialInv' /\ LinesFollow
    <2>. DEFINE q == [req[r] EXCEPT !.rows = @ \cup {l}, !.unrecorded = @ \ {l}]
    <2>1. /\ q \in Request /\ q.wrote = req[r].wrote /\ q.line = req[r].line
          /\ q.granted = req[r].granted /\ q.todo = req[r].todo
          /\ q.phase = req[r].phase
      BY <1>0 DEF Request
    <2>. QED
      BY <1>7a, <1>7b, <2>1 DEF RecordDelivery
  <1>7c. CASE DeleteNote(r)
    <2>. DEFINE q == [req[r] EXCEPT !.noteGone = TRUE, !.noteDue = FALSE]
    <2>1. /\ q \in Request /\ q.wrote = req[r].wrote /\ q.line = req[r].line
          /\ q.granted = req[r].granted /\ q.todo = req[r].todo
          /\ q.phase = req[r].phase
      BY <1>0 DEF Request
    <2>. QED
      BY <1>7a, <1>7c, <2>1 DEF DeleteNote
  <1>7d. ASSUME NEW l \in Lines, MarkComplete(r, l) PROVE SerialInv' /\ LinesFollow
    <2>1. PICK q \in {Marked(req[r], l), Aborted(Marked(req[r], l))} :
            Save(r, q)
      BY <1>7d DEF MarkComplete
    <2>2. l \in req[r].todo /\ Moves(req[r]) /\ Sees(req[r])
      BY <1>0, <1>7d DEF MarkComplete, Alone, Moves
    <2>3. q \in Request /\ Moves(q) /\ Sees(q) /\ q.phase = "modules"
      BY <1>0, <1>7d, <2>2, MarkedType, MarkedAlone, AbortedType DEF MarkComplete
    <2>. QED
      BY <1>f, <1>7d, <2>1, <2>3, SaveSerial DEF MarkComplete
  <1>8. ASSUME NEW l \in Lines, Turn(r, l), Save(r, Aborted(req[r])), order' = order
        PROVE  SerialInv' /\ LinesFollow
    <2>1. /\ Aborted(req[r]) \in Request /\ Aborted(req[r]).phase = "modules"
          /\ Moves(Aborted(req[r])) /\ Sees(Aborted(req[r]))
      BY <1>0, <1>6, <1>8, AbortedType, AbortedAlone
    <2>. QED
      BY <1>f, <1>8, <2>1, SaveSerial
  <1>9. ASSUME NEW l \in Lines, ModuleRaises(r, l) PROVE SerialInv' /\ LinesFollow
    BY <1>8, <1>9 DEF ModuleRaises
  <1>10. ASSUME NEW l \in Lines, NEW s \in LineErrors, FailureNotAllowed(r, l, s)
         PROVE  SerialInv' /\ LinesFollow
    BY <1>8, <1>10 DEF FailureNotAllowed, CallFailed
  <1>11. ASSUME NEW l \in Lines, NEW s \in LineErrors, Failed(r, l, s)
         PROVE  SerialInv' /\ LinesFollow
    <2>1. Turn(r, l) /\ s \in LineStatus
      BY <1>11 DEF Failed, CallFailed, LineStatus
    <2>2. PICK q \in Request : q = WithStatus(req[r], l, s)
      BY <1>0, <2>1, WithStatusType
    <2>3. Moves(q) /\ Sees(q)
      BY <1>0, <1>6, <1>11, <2>1, <2>2, WithStatusAlone DEF Failed
    <2>4. WithStatus(req[r], l, s).phase = req[r].phase
      BY <1>0 DEF WithStatus, Request
    <2>. QED
      BY <1>f, <1>6, <1>11, <2>1, <2>2, <2>3, <2>4, SaveSerial DEF Failed
  <1>12. CASE Tally(r)
    <2>. DEFINE v == IF \A l \in Lines : Overlay(req[r].wrote, line)[l] = Complete
                     THEN Complete ELSE FulfillmentError
                q == [req[r] EXCEPT !.phase = "tallied", !.verdict = v]
    <2>1. /\ q.phase = "tallied" /\ q.verdict = v /\ q.line = req[r].line
          /\ q.wrote = req[r].wrote /\ q.todo = req[r].todo
          /\ q.granted = req[r].granted
      BY <1>0 DEF Request
    <2>2. req' = [req EXCEPT ![r] = q]
      BY <1>0, <1>12 DEF Tally, TypeOK, Request
    <2>3. v = Complete => \A l \in Lines : Overlay(req[r].wrote, line)[l] = Complete
      BY DEF Complete, FulfillmentError
    <2>4. Alone(q)
      BY <1>0, <1>12, <2>1, <2>3 DEF Tally, ModulesDone, Alone, Moves, Sees, Judges
    <2>. QED
      BY <1>1, <1>12, <2>2, <2>4 DEF Tally
  <1>13. CASE Finish(r)
    <2>1. line' = Overlay(req[r].wrote, line) /\ req'[r] = NoRequest
      BY <1>13 DEF Finish, TypeOK
    <2>2. order' = Complete => \A l \in Lines : line'[l] = Complete
      <3>1. CASE order' = order
        BY <1>0, <2>1, <3>1, CommitFollows DEF Alone
      <3>2. CASE order' # order
        BY <1>0, <1>13, <2>1, <3>2 DEF Finish, Alone, Judges
      <3>. QED
        BY <3>1, <3>2
    <2>3. Alone(NoRequest)'
      BY DEF NoRequest, Alone, Moves
    <2>4. \A s \in Requests : Alone(req[s])'
      BY <1>0, <2>1, <2>3
    <2>. QED
      BY <1>0, <2>1, <2>2, <2>4, CommitFollows DEF SerialInv, LinesFollow, Alone
  <1>14. CASE Crash(r)
    BY <1>1, <1>14, NoRequestAlone DEF Crash
  <1>. QED
    BY <1>3, <1>4, <1>5, <1>7, <1>7b, <1>7c, <1>7d, <1>9, <1>10, <1>11, <1>12,
       <1>13, <1>14 DEF Step

LEMMA SerialInductive ==
  ASSUME OneAtATime
  PROVE  /\ Init => SerialInv
         /\ TypeOK /\ SerialInv /\ [Next]_vars => SerialInv' /\ [LinesFollow]_line
  <1>1. ASSUME Init PROVE SerialInv
    BY <1>1, NoRequestAlone, StatusesDistinct DEF Init, SerialInv
  <1>2. ASSUME TypeOK, SerialInv, [Next]_vars PROVE SerialInv' /\ [LinesFollow]_line
    <2>1. CASE MarkOrdersStatusComplete
      <3>1. forced' /\ line' = [l \in Lines |-> Complete]
        BY <2>1 DEF MarkOrdersStatusComplete
      <3>2. \A l \in Lines : line[l] # Complete => Complete \in LinePipeline(line[l])
        BY <1>2 DEF TypeOK, LineStatus, LinePipeline
      <3>. QED
        BY <3>1, <3>2 DEF SerialInv, LinesFollow
    <2>2. ASSUME NEW r \in Requests, Step(r) PROVE SerialInv' /\ [LinesFollow]_line
      <3>1. CASE ~forced
        BY <1>2, <2>2, <3>1, StepKeepsSerial
      <3>2. CASE forced
        BY <2>2, <3>2, OverrideIsFinal DEF SerialInv, LinesFollow
      <3>. QED
        BY <3>1, <3>2
    <2>3. CASE UNCHANGED vars
      BY <1>2, <2>3 DEF vars, SerialInv, Alone, Moves, Sees, Judges, Overlay
    <2>. QED
      BY <1>2, <2>1, <2>2, <2>3 DEF Next
  <1>. QED
    BY <1>1, <1>2

(* An order called Complete has only Complete lines, for any number of     *)
(* attempts that follow each other.                                        *)
THEOREM SerialOrderMatches ==
  ASSUME OneAtATime
  PROVE  Spec => []OrderMatchesLines
  <1>1. SerialInv => OrderMatchesLines
    BY DEF SerialInv, OrderMatchesLines
  <1>. QED
    BY <1>1, SerialInductive, TypeCorrect, PTL DEF Spec

(* Line statuses move along the pipeline of the settings and no other way. *)
THEOREM SerialLinesFollow ==
  ASSUME OneAtATime
  PROVE  Spec => LinesFollowPipeline
  <1>1. [LinesFollow]_line =>
          [~forced => \A l \in Lines :
             line'[l] # line[l] => line'[l] \in LinePipeline(line[l])]_line
    BY DEF LinesFollow
  <1>. QED
    BY <1>1, SerialInductive, TypeCorrect, PTL DEF Spec, LinesFollowPipeline

=============================================================================
