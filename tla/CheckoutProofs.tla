---------------------------- MODULE CheckoutProofs ----------------------------
(***************************************************************************)
(* What holds of Checkout for every set of baskets, products, payments and *)
(* concurrent requests, whatever routes and faults there are.              *)
(***************************************************************************)
EXTENDS Checkout, TLAPS

LEMMA NoRequestType == NoRequest \in Request
  BY DEF NoRequest, Request, NoOne, Unsaved

LEMMA ChargeType ==
  ASSUME TypeOK, NEW t \in Charges
  PROVE  \/ charge[t] = NoCharge /\ charge[t].state = "none" /\ charge[t].lines = {}
         \/ /\ charge[t].basket \in Baskets /\ charge[t].lines \in SUBSET Products
            /\ charge[t].via \in Routes /\ charge[t].state \in {"created", "taken"}
  BY DEF TypeOK, Charge, NoCharge

LEMMA NoOneIsNothing == NoOne \notin Baskets /\ NoOne \notin Charges
  BY CheckoutAssumption DEF NoOne

LEMMA StatusTypes ==
  /\ {Absent, Open, Frozen, Merged, Submitted, Deleted} \subseteq Status
  /\ Unsaved \notin Status
  /\ Frozen # Submitted
  BY DEF Status, Absent, Open, Frozen, Merged, Submitted, Deleted, Unsaved

(* Saving keeps the types of what it writes.                               *)
LEMMA CommitType ==
  ASSUME TypeOK, NEW q \in Request, Commit(q)
  PROVE  /\ status' \in [Baskets -> Status]
         /\ lines' \in [Baskets -> SUBSET Products]
         /\ order' \in [Baskets -> SUBSET Products]
         /\ recorded' \subseteq Charges
  <1>1. q.status # Unsaved => q.status \in Status
    BY DEF Request
  <1>2. q.order \in SUBSET Products /\ q.recorded \in SUBSET Charges
    BY DEF Request
  <1>. QED
    BY <1>1, <1>2 DEF Commit, TypeOK

LEMMA SaveType ==
  ASSUME TypeOK, NEW r \in Requests, NEW q \in Request, Save(r, q)
  PROVE  /\ status' \in [Baskets -> Status]
         /\ lines' \in [Baskets -> SUBSET Products]
         /\ order' \in [Baskets -> SUBSET Products]
         /\ recorded' \subseteq Charges
         /\ req' \in [Requests -> Request]
  <1>1. CASE q.txn
    BY <1>1 DEF Save, TypeOK, db
  <1>2. CASE ~q.txn
    <2>1. [q EXCEPT !.status = Unsaved, !.order = {}, !.recorded = {}] \in Request
      BY DEF Request
    <2>. QED
      BY <1>2, <2>1, CommitType DEF Save, TypeOK
  <1>. QED
    BY <1>1, <1>2

LEMMA EndType ==
  ASSUME TypeOK, NEW r \in Requests, NEW q \in Request, End(r, q) \/ Abort(r)
  PROVE  /\ status' \in [Baskets -> Status]
         /\ lines' \in [Baskets -> SUBSET Products]
         /\ order' \in [Baskets -> SUBSET Products]
         /\ recorded' \subseteq Charges
         /\ req' \in [Requests -> Request]
  BY CommitType, NoRequestType DEF End, Abort, TypeOK, db

(* A handler has a basket, and the payment it was called for.              *)
Held(r) ==
  /\ req[r].phase # "idle" => req[r].basket \in Baskets /\ req[r].route \in Routes
  /\ req[r].phase = "loaded" /\ req[r].route \in {"stripe", "paypal", "store"}
       => req[r].charge \in Charges

LEMMA TakenType ==
  ASSUME TypeOK, NEW r \in Requests, NEW t \in Charges, Taken(r, t),
         Held(r), req[r].phase # "idle"
  PROVE  charge' \in [Charges -> Charge]
  BY DEF Taken, TypeOK, Charge, Request, Held

LEMMA FailType ==
  ASSUME TypeOK, NEW r \in Requests, Fail(r)
  PROVE  /\ status' \in [Baskets -> Status]
         /\ lines' \in [Baskets -> SUBSET Products]
         /\ order' \in [Baskets -> SUBSET Products]
         /\ recorded' \subseteq Charges
         /\ req' \in [Requests -> Request]
  <1>1. req[r] \in Request
    BY DEF TypeOK
  <1>2. CASE Abort(r) \/ End(r, req[r])
    BY <1>1, <1>2, EndType
  <1>3. CASE /\ status' = [status EXCEPT ![req[r].basket] = Deleted]
             /\ lines' = [lines EXCEPT ![req[r].basket] = {}]
             /\ req' = [req EXCEPT ![r] = NoRequest]
             /\ UNCHANGED <<order, recorded>>
    BY <1>3, NoRequestType, StatusTypes DEF TypeOK
  <1>. QED
    BY <1>2, <1>3 DEF Fail

LEMMA LoadType ==
  ASSUME TypeOK, NEW r \in Requests, NEW rt, NEW b \in Baskets,
         NEW t \in Charges \cup {NoOne}, NEW inTxn \in BOOLEAN,
         NEW ph \in {"loaded", "paid"}, Load(r, ph, rt, inTxn, b, t)
  PROVE  TypeOK'
  <1>1. [NoRequest EXCEPT !.phase = ph, !.route = rt, !.txn = inTxn,
           !.basket = b, !.lines = lines[b], !.charge = t] \in Request
    BY NoRequestType DEF Load, Request, TypeOK
  <1>. QED
    BY <1>1 DEF Load, TypeOK, db, stripe

(* The lines a request holds may be replaced by committed ones.            *)
LEMMA HandleType ==
  ASSUME TypeOK, NEW r \in Requests, Handle(r), Held(r), req[r].phase # "idle"
  PROVE  TypeOK'
  <1>0. /\ req[r] \in Request
        /\ req[r].basket \in Baskets /\ req[r].route \in Routes
        /\ lines[req[r].basket] \in SUBSET Products
    BY DEF TypeOK, Held
  <1>. USE StatusTypes DEF stripe
  <1>1. ASSUME NEW ps \in SUBSET Products, CartSave(r, ps) PROVE TypeOK'
    BY <1>1, NoRequestType DEF CartSave, TypeOK
  <1>2. CASE Freeze(r)
    <2>1. PICK q \in Request : Save(r, q)
      BY <1>0, <1>2 DEF Freeze, Request
    <2>. QED
      BY <1>2, <2>1, SaveType DEF Freeze, TypeOK
  <1>3. ASSUME NEW b \in Baskets, RestDeclined(r, b) PROVE TypeOK'
    BY <1>0, <1>3, NoRequestType DEF RestDeclined, TypeOK
  <1>4. ASSUME NEW t \in Charges, RestAccepted(r, t) PROVE TypeOK'
    <2>1. [req[r] EXCEPT !.recorded = {t}] \in Request
      BY <1>0 DEF Request
    <2>2. [[req[r] EXCEPT !.recorded = {t}] EXCEPT
             !.phase = "paid", !.charge = t, !.lines = lines[req[r].basket]] \in Request
      BY <1>0 DEF Request
    <2>3. PICK q \in Request : Save(r, q) \/ End(r, q)
      BY <1>4, <2>1, <2>2 DEF RestAccepted, Request
    <2>. QED
      BY <1>4, <2>3, SaveType, EndType, TakenType DEF RestAccepted, TypeOK
  <1>5. ASSUME NEW t \in Charges, RestDuplicate(r, t) PROVE TypeOK'
    <2>1. [req[r] EXCEPT !.phase = "paid", !.charge = t,
                         !.lines = lines[req[r].basket]] \in Request
      BY <1>0 DEF Request
    <2>2. PICK q \in Request : Save(r, q) \/ End(r, q)
      BY <1>0, <1>5, <2>1 DEF RestDuplicate
    <2>. QED
      BY <1>5, <2>2, SaveType, EndType DEF RestDuplicate, TypeOK
  <1>6. ASSUME NEW t \in Charges, ApplePayAccepted(r, t) PROVE TypeOK'
    <2>1. PICK q \in Request : Save(r, q)
      BY <1>0, <1>6 DEF ApplePayAccepted, Request
    <2>. QED
      BY <1>6, <2>1, SaveType, TakenType DEF ApplePayAccepted, TypeOK
  <1>7. ASSUME NEW t \in Charges, LostAnswer(r, t) PROVE TypeOK'
    <2>1. End(r, req[r]) \/ Abort(r)
      BY <1>7 DEF LostAnswer
    <2>2. charge' \in [Charges -> Charge]
      <3>1. CASE Taken(r, t)
        BY <3>1, TakenType
      <3>2. CASE
               /\ charge[t].state = "created"
               /\ charge' = [charge EXCEPT ![t].state = "taken",
                    ![t].lines = IF req[r].route = "stripe" THEN req[r].lines ELSE @]
        <4>. DEFINE ps == IF req[r].route = "stripe" THEN req[r].lines
                          ELSE charge[t].lines
        <4>1. /\ req[r].lines \in SUBSET Products /\ charge[t].lines \in SUBSET Products
              /\ charge[t] \in Charge /\ charge[t] # NoCharge
          BY <1>0, <3>2, ChargeType DEF TypeOK, Request, NoCharge
        <4>2. charge' = [charge EXCEPT ![t] =
                           [charge[t] EXCEPT !.state = "taken", !.lines = ps]]
          BY <3>2 DEF TypeOK
        <4>3. [charge[t] EXCEPT !.state = "taken", !.lines = ps] \in Charge
          <5>. ps \in SUBSET Products
            BY <4>1
          <5>. HIDE DEF ps
          <5>. QED
            BY <4>1 DEF Charge
        <4>. QED
          BY <4>2, <4>3 DEF TypeOK
      <3>. QED
        BY <1>7, <3>1, <3>2 DEF LostAnswer
    <2>. QED
      BY <1>0, <1>7, <2>1, <2>2, EndType DEF LostAnswer, TypeOK
  <1>8. ASSUME NEW t \in Charges, ApiAnswers(r, t) PROVE TypeOK'
    <2>1. charge' \in [Charges -> Charge]
      <3>1. CASE UNCHANGED charge
        BY <3>1 DEF TypeOK
      <3>2. CASE /\ "paypal" \in Routes
                 /\ charge' = [charge EXCEPT ![t] =
                      [basket |-> req[r].basket, lines |-> req[r].lines,
                       via |-> "paypal", state |-> "created"]]
        BY <1>0, <3>2 DEF TypeOK, Charge, Request
      <3>. QED
        BY <1>8, <3>1, <3>2 DEF ApiAnswers
    <2>. QED
      BY <1>0, <1>8, <2>1, EndType DEF ApiAnswers, TypeOK
  <1>9. CASE IntentConfirmed(r)
    <2>1. PICK q \in Request : Save(r, q)
      BY <1>0, <1>9 DEF IntentConfirmed, Request, Held
    <2>2. charge' \in [Charges -> Charge]
      BY <1>0, <1>9 DEF IntentConfirmed, Taken, TypeOK, Charge, Request
    <2>. QED
      BY <1>9, <2>1, <2>2, SaveType DEF IntentConfirmed, TypeOK
  <1>10. CASE PaymentExecuted(r)
    <2>1. PICK q \in Request : Save(r, q)
      BY <1>0, <1>10 DEF PaymentExecuted, Request, Held
    <2>2. charge' \in [Charges -> Charge]
      <3>1. charge[req[r].charge] \in Charge
        BY <1>0, <1>10 DEF PaymentExecuted, TypeOK, Held
      <3>2. [charge[req[r].charge] EXCEPT !.state = "taken"] \in Charge
        BY <1>10, <3>1 DEF Charge, NoCharge, PaymentExecuted
      <3>3. charge' = [charge EXCEPT ![req[r].charge] =
                         [charge[req[r].charge] EXCEPT !.state = "taken"]]
        BY <1>10 DEF PaymentExecuted
      <3>. QED
        BY <3>2, <3>3 DEF TypeOK
    <2>. QED
      BY <1>10, <2>1, <2>2, SaveType DEF PaymentExecuted, TypeOK
  <1>11. CASE RecordPayment(r) \/ ReceiptAccepted(r) \/ Place(r)
    <2>1. [req[r] EXCEPT !.phase = "paid", !.txn = FALSE] \in Request
      BY <1>0 DEF Request
    <2>2. ReceiptAccepted(r) =>
            [req[r] EXCEPT !.phase = "paid", !.recorded = {req[r].charge}] \in Request
      BY <1>0 DEF Request, ReceiptAccepted, Held
    <2>3. [req[r] EXCEPT !.phase = "placed", !.order = req[r].lines,
                         !.status = Submitted] \in Request
      BY <1>0 DEF Request
    <2>4. PICK q \in Request : Save(r, q)
      BY <1>11, <2>1, <2>2, <2>3 DEF RecordPayment, ReceiptAccepted, Place
    <2>. QED
      BY <1>11, <2>4, SaveType DEF RecordPayment, ReceiptAccepted, Place, TypeOK
  <1>12. CASE Refused(r) \/ Finish(r)
    BY <1>0, <1>12, EndType DEF Refused, Finish, TypeOK
  <1>13. CASE PlaceFails(r) \/ ApiFails(r) \/ StartFails(r)
    BY <1>13, FailType DEF PlaceFails, ApiFails, StartFails, TypeOK
  <1>14. CASE Start(r)
    BY <1>0, <1>14 DEF Start, TypeOK, Request, db
  <1>. QED
    BY <1>1, <1>2, <1>3, <1>4, <1>5, <1>6, <1>7, <1>8, <1>9, <1>10, <1>11,
       <1>12, <1>13, <1>14 DEF Handle

LEMMA BeginType ==
  ASSUME TypeOK, NEW r \in Requests, Begin(r)
  PROVE  TypeOK' /\ Held(r)'
  <1>. USE DEF stripe
  <1>0. r \in DOMAIN req
    BY DEF TypeOK
  <1>1. ASSUME NEW b \in Baskets, CartLoad(r, b) PROVE TypeOK' /\ Held(r)'
    BY <1>0, <1>1, LoadType DEF CartLoad, Load, Held, NoRequest
  <1>2. ASSUME NEW b \in Baskets, NEW rt \in Routes, LoadOpen(r, rt, b)
        PROVE  TypeOK' /\ Held(r)'
    BY <1>0, <1>2, LoadType DEF LoadOpen, Load, Held, NoRequest
  <1>3. ASSUME NEW b \in Baskets, NEW ps \in SUBSET Products, ApiCreate(r, b, ps)
        PROVE  TypeOK' /\ Held(r)'
    <2>1. [NoRequest EXCEPT !.phase = "loaded", !.route = "api", !.basket = b,
                            !.lines = ps] \in Request
      BY <1>3, NoRequestType DEF ApiCreate, Request
    <2>. QED
      BY <1>0, <1>3, <2>1, StatusTypes DEF ApiCreate, TypeOK, Held, NoRequest
  <1>4. ASSUME NEW b \in Baskets, NEW t \in Charges, LoadFrozen(r, b, t)
        PROVE  TypeOK' /\ Held(r)'
    BY <1>0, <1>4, LoadType DEF LoadFrozen, Load, Held, NoRequest
  <1>5. ASSUME NEW t \in Charges,
               LoadIntent(r, t) \/ LoadPayment(r, t) \/ LoadReceipt(r, t)
        PROVE  TypeOK' /\ Held(r)'
    <2>1. PICK rt \in {"stripe", "paypal", "store"}, inTxn \in BOOLEAN :
            /\ Load(r, "loaded", rt, inTxn, charge[t].basket, t)
            /\ charge[t].via = rt
      BY <1>5 DEF LoadIntent, LoadPayment, LoadReceipt
    <2>2. charge[t].basket \in Baskets
      BY <2>1, ChargeType DEF NoCharge
    <2>. QED
      BY <1>0, <2>1, <2>2, LoadType DEF Load, Held, NoRequest
  <1>. QED
    BY <1>1, <1>2, <1>3, <1>4, <1>5 DEF Begin


-----------------------------------------------------------------------------
(* The inductive invariant.  A request whose order is pending holds the    *)
(* lock of a basket without an order, and it got there with lines that are *)
(* free or a basket that is paid; what it was called for is the payment of *)
(* its basket; and only payments taken are recorded as accepted.           *)

TakenCharges == {t \in Charges : charge[t].state = "taken"}

Sound(q) ==
  /\ q.phase # "idle" => q.basket \in Baskets /\ q.route \in Routes
  /\ q.phase = "loaded" /\ q.route \in {"stripe", "paypal", "store"}
       => q.charge \in Charges
  /\ q.charge # NoOne =>
       /\ charge[q.charge].basket = q.basket
       /\ charge[q.charge].state # "none"
       /\ q.route = "stripe" => charge[q.charge].via = "stripe"
       /\ q.route = "store" => charge[q.charge].state = "taken"
  /\ q.status # Unsaved => q.phase # "idle"
  /\ q.order # {} <=> q.status = Submitted
  /\ q.order # {} =>
       /\ q.phase \in {"placed", "started"}
       /\ order[q.basket] = {}
       /\ Free(q.order) \/ q.basket \in Paid
  /\ q.phase \in {"charged", "paid"} => Free(q.lines) \/ q.basket \in Paid
  /\ q.recorded \subseteq TakenCharges

Locks ==
  \A r, s \in Requests :
    r # s /\ req[r].status # Unsaved /\ req[s].status # Unsaved
      => req[r].basket # req[s].basket

Inv ==
  /\ TypeOK
  /\ \A r \in Requests : Sound(req[r])
  /\ Locks
  /\ recorded \subseteq TakenCharges

(* A payment is created once, taken once, and stays with its basket.       *)
ChargesGrow ==
  \A t \in Charges :
    \/ charge'[t] = charge[t]
    \/ charge[t].state = "none"
    \/ /\ charge[t].state = "created" /\ charge'[t].state = "taken"
       /\ charge'[t].basket = charge[t].basket
       /\ charge'[t].via = charge[t].via

LEMMA SoundHeld ==
  ASSUME NEW r \in Requests, Sound(req[r])
  PROVE  Held(r)
  BY DEF Sound, Held

LEMMA PaidGrows ==
  ASSUME ChargesGrow
  PROVE  Paid \subseteq Paid' /\ TakenCharges \subseteq TakenCharges'
  <1>1. ASSUME NEW t \in Charges, charge[t].state = "taken"
        PROVE  charge'[t].state = "taken" /\ charge'[t].basket = charge[t].basket
    BY <1>1 DEF ChargesGrow
  <1>. QED
    BY <1>1 DEF Paid, TakenCharges

LEMMA SoundStays ==
  ASSUME ChargesGrow, NEW q \in Request, Sound(q),
         q.order # {} => order'[q.basket] = order[q.basket]
  PROVE  Sound(q)'
  <1>1. Paid \subseteq Paid' /\ TakenCharges \subseteq TakenCharges'
    BY PaidGrows
  <1>2. q.charge # NoOne =>
          /\ charge'[q.charge].basket = charge[q.charge].basket
          /\ charge'[q.charge].state # "none"
          /\ q.route = "stripe" => charge'[q.charge].via = charge[q.charge].via
          /\ q.route = "store" => charge'[q.charge].state = "taken"
    <2>1. q.charge # NoOne => q.charge \in Charges
      BY DEF Request
    <2>. QED
      BY <2>1 DEF ChargesGrow, Sound
  <1>. QED
    BY <1>1, <1>2 DEF Sound

(* What a step of request r has to show.                                   *)
LEMMA StepKeepsInv ==
  ASSUME Inv, TypeOK', ChargesGrow, NEW r \in Requests, NEW q \in Request,
         req' = [req EXCEPT ![r] = q], Sound(q)',
         recorded' \subseteq recorded \cup TakenCharges',
         \A b \in Baskets : order'[b] # order[b] => Unlocked(r, b),
         q.status # Unsaved => Unlocked(r, q.basket)
  PROVE  Inv'
  <1>1. req'[r] = q /\ \A s \in Requests \ {r} : req'[s] = req[s]
    BY DEF Inv, TypeOK
  <1>2. ASSUME NEW s \in Requests PROVE Sound(req[s])'
    <2>1. CASE s = r
      BY <1>1, <2>1 DEF Sound, Paid, TakenCharges
    <2>2. CASE s # r
      <3>1. PICK p \in Request : p = req[s]
        BY DEF Inv, TypeOK
      <3>2. Sound(p)
        BY <3>1 DEF Inv
      <3>3. p.order # {} => order'[p.basket] = order[p.basket]
        BY <2>2, <3>1, <3>2 DEF Sound, Unlocked, Unsaved, Submitted
      <3>4. Sound(p)'
        BY <3>2, <3>3, SoundStays
      <3>5. p = req'[s]
        BY <1>1, <2>2, <3>1
      <3>. QED
        BY <3>4, <3>5 DEF Sound, Paid, TakenCharges
    <2>. QED
      BY <2>1, <2>2
  <1>3. Locks'
    BY <1>1 DEF Inv, Locks, Unlocked
  <1>4. recorded' \subseteq TakenCharges'
    BY PaidGrows DEF Inv
  <1>. QED
    BY <1>2, <1>3, <1>4 DEF Inv

LEMMA NoRequestSound == Sound(NoRequest) /\ Sound(NoRequest)'
  BY DEF Sound, NoRequest, NoOne, Unsaved, Submitted

LEMMA OwnLock ==
  ASSUME Inv, NEW r \in Requests, req[r].status # Unsaved
  PROVE  Unlocked(r, req[r].basket)
  BY DEF Inv, Locks, Unlocked

(* Steps that end a request, and steps that save no order.                 *)
LEMMA EndKeepsInv ==
  ASSUME Inv, TypeOK', ChargesGrow, NEW r \in Requests, NEW q \in Request,
         End(r, q), q.basket = req[r].basket, q.status = req[r].status,
         q.order = req[r].order, q.recorded \subseteq TakenCharges'
  PROVE  Inv'
  <1>1. Sound(req[r])
    BY DEF Inv
  <1>2. \A b \in Baskets : order'[b] # order[b] => Unlocked(r, b)
    BY <1>1, OwnLock DEF End, Commit, Sound, Submitted, Unsaved, Inv, TypeOK
  <1>. QED
    BY <1>2, StepKeepsInv, NoRequestSound, NoRequestType
       DEF End, Commit, NoRequest

LEMMA AbortKeepsInv ==
  ASSUME Inv, TypeOK', ChargesGrow, NEW r \in Requests,
         req' = [req EXCEPT ![r] = NoRequest], UNCHANGED <<order, recorded>>
  PROVE  Inv'
  BY StepKeepsInv, NoRequestSound, NoRequestType DEF NoRequest

LEMMA SaveKeepsInv ==
  ASSUME Inv, TypeOK', ChargesGrow, NEW r \in Requests, NEW q \in Request,
         Save(r, q), Sound(q)', q.order = {},
         q.status # Unsaved => Unlocked(r, q.basket)
  PROVE  Inv'
  <1>1. CASE q.txn
    BY <1>1, StepKeepsInv DEF Save, db
  <1>2. CASE ~q.txn
    <2>1. PICK p \in Request :
            p = [q EXCEPT !.status = Unsaved, !.order = {}, !.recorded = {}]
      BY DEF Request
    <2>2. Sound(p)'
      BY <2>1 DEF Sound, Unsaved, Submitted, Request
    <2>3. req' = [req EXCEPT ![r] = p] /\ p.status = Unsaved
      BY <1>2, <2>1 DEF Save, Request
    <2>4. recorded' \subseteq recorded \cup TakenCharges'
      BY <1>2 DEF Save, Commit, Sound
    <2>5. order' = order
      BY <1>2 DEF Save, Commit, Inv, TypeOK
    <2>. QED
      BY <2>2, <2>3, <2>4, <2>5, StepKeepsInv
  <1>. QED
    BY <1>1, <1>2

(* Whatever a handler does, payments only grow.                            *)
LEMMA TakenGrows ==
  ASSUME NEW r \in Requests, NEW t \in Charges, Taken(r, t), TypeOK,
         req[r].basket \in Baskets,
         \/ charge[t].state = "none"
         \/ /\ charge[t].state = "created" /\ charge[t].basket = req[r].basket
            /\ charge[t].via = req[r].route
  PROVE  ChargesGrow /\ t \in TakenCharges' /\ req[r].basket \in Paid'
  <1>1. /\ charge'[t].basket = req[r].basket /\ charge'[t].via = req[r].route
        /\ charge'[t].state = "taken"
        /\ \A u \in Charges \ {t} : charge'[u] = charge[u]
    BY DEF Taken, TypeOK
  <1>2. ChargesGrow
    BY <1>1 DEF ChargesGrow
  <1>3. req[r].basket \in Baskets
    OBVIOUS
  <1>. QED
    BY <1>1, <1>2, <1>3 DEF TakenCharges, Paid

LEMMA SameGrows == ASSUME UNCHANGED charge PROVE ChargesGrow
  BY DEF ChargesGrow

(* The fields of a request that has not placed its order yet.              *)
LEMMA Unplaced ==
  ASSUME Inv, NEW r \in Requests, req[r].phase \notin {"placed", "started"}
  PROVE  /\ req[r].order = {}
         /\ req[r].status # Submitted
         /\ req[r].recorded \subseteq TakenCharges
         /\ req[r] \in Request
         /\ Sound(req[r])
  BY DEF Inv, Sound, TypeOK

LEMMA FreezeKeepsInv ==
  ASSUME Inv, TypeOK', NEW r \in Requests, Freeze(r)
  PROVE  Inv'
  <1>. DEFINE ps == IF req[r].route = "api" THEN lines[req[r].basket]
                    ELSE req[r].lines
  <1>0. /\ req[r].order = {} /\ req[r] \in Request /\ Sound(req[r])
        /\ req[r].phase = "loaded" /\ req[r].route \in {"rest", "free", "api"}
        /\ ps \in SUBSET Products
    BY Unplaced DEF Freeze, Inv, TypeOK, Request, Sound
  <1>. HIDE DEF ps
  <1>1. PICK q \in Request :
          q = [req[r] EXCEPT !.status = Frozen, !.lines = ps,
                             !.phase = IF Free(ps) THEN "paid" ELSE "frozen"]
    BY <1>0, StatusTypes DEF Request
  <1>2. ChargesGrow /\ UNCHANGED charge
    BY SameGrows DEF Freeze
  <1>3. /\ q.phase = "paid" => Free(q.lines)
        /\ q.phase \in {"paid", "frozen"} /\ q.status = Frozen
        /\ q.order = {} /\ q.charge = req[r].charge /\ q.route = req[r].route
        /\ q.basket = req[r].basket /\ q.recorded = req[r].recorded
    BY <1>0, <1>1 DEF Request
  <1>4. Sound(q)
    BY <1>0, <1>3, StatusTypes DEF Sound
  <1>5. Sound(q)'
    BY <1>2, <1>3, <1>4, SoundStays
  <1>6. Save(r, q) /\ Unlocked(r, q.basket)
    BY <1>1, <1>3 DEF Freeze, ps
  <1>. QED
    BY <1>2, <1>3, <1>5, <1>6, SaveKeepsInv

(* A handler's payment has been accepted.                                  *)
LEMMA PaidSound ==
  ASSUME Inv, TypeOK', ChargesGrow, NEW r \in Requests, NEW q \in Request,
         req[r].phase \in {"loaded", "frozen", "charged"},
         q.basket = req[r].basket, q.route = req[r].route,
         q.status = req[r].status, q.order = {},
         q.phase \in {"charged", "paid"},
         req[r].basket \in Paid', q.recorded \subseteq TakenCharges',
         q.charge = req[r].charge \/ /\ q.charge \in Charges
                                     /\ charge'[q.charge].basket = q.basket
                                     /\ charge'[q.charge].state = "taken"
                                     /\ q.route \notin {"stripe", "store"}
  PROVE  Sound(q)' /\ (q.status # Unsaved => Unlocked(r, q.basket))
  <1>1. Sound(req[r]) /\ req[r] \in Request /\ req[r].order = {}
        /\ req[r].status # Submitted
    BY Unplaced
  <1>2. PICK p \in Request : p = req[r]
    BY <1>1
  <1>3. Sound(p)'
    BY <1>1, <1>2, SoundStays
  <1>4. q.status # Unsaved => Unlocked(r, q.basket)
    BY OwnLock
  <1>. QED
    BY <1>1, <1>2, <1>3, <1>4 DEF Sound

LEMMA RestAcceptedKeepsInv ==
  ASSUME Inv, TypeOK', NEW r \in Requests, NEW t \in Charges, RestAccepted(r, t)
  PROVE  Inv'
  <1>0. /\ req[r].order = {} /\ req[r] \in Request /\ req[r].phase = "frozen"
        /\ req[r].route = "rest" /\ lines[req[r].basket] \in SUBSET Products
        /\ req[r].basket \in Baskets
    BY Unplaced DEF RestAccepted, Inv, TypeOK, Sound
  <1>1. PICK p \in Request : p = [req[r] EXCEPT !.recorded = {t}]
    BY <1>0 DEF Request
  <1>2. PICK q \in Request :
          q = [p EXCEPT !.phase = "paid", !.charge = t, !.lines = lines[p.basket]]
    BY <1>0, <1>1 DEF Request
  <1>3. /\ p.basket = req[r].basket /\ p.status = req[r].status /\ p.order = {}
        /\ p.recorded = {t}
        /\ q.basket = req[r].basket /\ q.status = req[r].status /\ q.order = {}
        /\ q.recorded = {t} /\ q.charge = t /\ q.phase = "paid"
        /\ q.route = "rest"
    BY <1>0, <1>1, <1>2 DEF Request
  <1>4. ChargesGrow /\ t \in TakenCharges' /\ req[r].basket \in Paid'
    BY <1>0, TakenGrows DEF RestAccepted, UnusedCharge, Inv
  <1>5. charge'[t].basket = q.basket /\ charge'[t].state = "taken"
    BY <1>3 DEF RestAccepted, Taken, Inv, TypeOK
  <1>6. CASE Save(r, q)
    BY <1>0, <1>3, <1>4, <1>5, <1>6, PaidSound, SaveKeepsInv
  <1>7. CASE End(r, p)
    BY <1>0, <1>3, <1>4, <1>7, EndKeepsInv
  <1>. QED
    BY <1>1, <1>2, <1>6, <1>7 DEF RestAccepted

LEMMA RestDuplicateKeepsInv ==
  ASSUME Inv, TypeOK', NEW r \in Requests, NEW t \in Charges, RestDuplicate(r, t)
  PROVE  Inv'
  <1>0. /\ req[r].order = {} /\ req[r] \in Request /\ req[r].phase = "frozen"
        /\ req[r].route = "rest" /\ lines[req[r].basket] \in SUBSET Products
        /\ req[r].basket \in Baskets
        /\ req[r].recorded \subseteq TakenCharges
    BY Unplaced DEF RestDuplicate, Inv, TypeOK, Sound
  <1>1. ChargesGrow /\ UNCHANGED charge
    BY SameGrows DEF RestDuplicate
  <1>2. /\ charge'[t].basket = req[r].basket /\ charge'[t].state = "taken"
        /\ req[r].basket \in Paid' /\ req[r].recorded \subseteq TakenCharges'
    <2>1. charge[t].basket = req[r].basket /\ charge[t].state = "taken"
      BY DEF RestDuplicate
    <2>. QED
      BY <1>0, <1>1, <2>1 DEF Paid, TakenCharges
  <1>3. PICK q \in Request :
          q = [req[r] EXCEPT !.phase = "paid", !.charge = t,
                             !.lines = lines[req[r].basket]]
    BY <1>0 DEF Request
  <1>4. /\ q.basket = req[r].basket /\ q.status = req[r].status /\ q.order = {}
        /\ q.recorded = req[r].recorded /\ q.charge = t /\ q.phase = "paid"
        /\ q.route = "rest"
    BY <1>0, <1>3 DEF Request
  <1>5. CASE Save(r, q)
    BY <1>0, <1>1, <1>2, <1>4, <1>5, PaidSound, SaveKeepsInv
  <1>6. CASE End(r, req[r])
    BY <1>0, <1>1, <1>2, <1>6, EndKeepsInv
  <1>. QED
    BY <1>3, <1>5, <1>6 DEF RestDuplicate

LEMMA ApplePayAcceptedKeepsInv ==
  ASSUME Inv, TypeOK', NEW r \in Requests, NEW t \in Charges,
         ApplePayAccepted(r, t)
  PROVE  Inv'
  <1>0. /\ req[r].order = {} /\ req[r] \in Request /\ req[r].phase = "loaded"
        /\ req[r].route = "applepay" /\ req[r].basket \in Baskets
    BY Unplaced DEF ApplePayAccepted, Sound
  <1>1. PICK q \in Request :
          q = [req[r] EXCEPT !.phase = "paid", !.charge = t, !.recorded = {t}]
    BY <1>0 DEF Request
  <1>2. /\ q.basket = req[r].basket /\ q.status = req[r].status /\ q.order = {}
        /\ q.recorded = {t} /\ q.charge = t /\ q.phase = "paid"
        /\ q.route = "applepay"
    BY <1>0, <1>1 DEF Request
  <1>3. ChargesGrow /\ t \in TakenCharges' /\ req[r].basket \in Paid'
    BY <1>0, TakenGrows DEF ApplePayAccepted, UnusedCharge, Inv
  <1>4. charge'[t].basket = q.basket /\ charge'[t].state = "taken"
    BY <1>2 DEF ApplePayAccepted, Taken, Inv, TypeOK
  <1>5. Save(r, q)
    BY <1>1 DEF ApplePayAccepted
  <1>. QED
    BY <1>0, <1>2, <1>3, <1>4, <1>5, PaidSound, SaveKeepsInv

LEMMA IntentConfirmedKeepsInv ==
  ASSUME Inv, TypeOK', NEW r \in Requests, IntentConfirmed(r)
  PROVE  Inv'
  <1>0. /\ req[r].order = {} /\ req[r] \in Request /\ req[r].phase = "loaded"
        /\ req[r].route = "stripe" /\ req[r].charge \in Charges /\ Sound(req[r])
        /\ req[r].basket \in Baskets
    BY Unplaced DEF IntentConfirmed, Sound
  <1>1. PICK q \in Request :
          q = [req[r] EXCEPT !.phase = "paid", !.recorded = {req[r].charge}]
    BY <1>0 DEF Request
  <1>2. /\ q.basket = req[r].basket /\ q.status = req[r].status /\ q.order = {}
        /\ q.recorded = {req[r].charge} /\ q.charge = req[r].charge
        /\ q.phase = "paid" /\ q.route = req[r].route
    BY <1>0, <1>1 DEF Request
  <1>3. charge[req[r].charge].basket = req[r].basket
        /\ charge[req[r].charge].via = req[r].route
    BY <1>0, NoOneIsNothing DEF Sound
  <1>4. /\ ChargesGrow /\ req[r].charge \in TakenCharges'
        /\ req[r].basket \in Paid'
    BY <1>0, <1>3, TakenGrows DEF IntentConfirmed, Inv
  <1>5. Save(r, q)
    BY <1>1 DEF IntentConfirmed
  <1>. QED
    BY <1>0, <1>2, <1>4, <1>5, PaidSound, SaveKeepsInv

LEMMA PaymentExecutedKeepsInv ==
  ASSUME Inv, TypeOK', NEW r \in Requests, PaymentExecuted(r)
  PROVE  Inv'
  <1>0. /\ req[r].order = {} /\ req[r] \in Request /\ req[r].phase = "loaded"
        /\ req[r].route = "paypal" /\ req[r].charge \in Charges /\ Sound(req[r])
        /\ req[r].basket \in Baskets
    BY Unplaced DEF PaymentExecuted, Sound
  <1>1. PICK q \in Request :
          q = [req[r] EXCEPT !.phase = "charged", !.txn = TRUE,
                             !.recorded = {req[r].charge}]
    BY <1>0 DEF Request
  <1>2. /\ q.basket = req[r].basket /\ q.status = req[r].status /\ q.order = {}
        /\ q.recorded = {req[r].charge} /\ q.charge = req[r].charge
        /\ q.phase = "charged" /\ q.route = req[r].route
    BY <1>0, <1>1 DEF Request
  <1>3. charge[req[r].charge].basket = req[r].basket
    BY <1>0, NoOneIsNothing DEF Sound
  <1>4. /\ ChargesGrow /\ req[r].charge \in TakenCharges'
        /\ req[r].basket \in Paid'
    <2>1. /\ charge[req[r].charge].state = "created"
          /\ charge'[req[r].charge] = [charge[req[r].charge] EXCEPT !.state = "taken"]
          /\ \A u \in Charges \ {req[r].charge} : charge'[u] = charge[u]
      BY <1>0 DEF PaymentExecuted, Inv, TypeOK
    <2>2. charge[req[r].charge] \in Charge \ {NoCharge}
      BY <1>0, <2>1 DEF Inv, TypeOK, NoCharge
    <2>3. /\ charge'[req[r].charge].state = "taken"
          /\ charge'[req[r].charge].basket = charge[req[r].charge].basket
          /\ charge'[req[r].charge].via = charge[req[r].charge].via
      BY <2>1, <2>2 DEF Charge
    <2>. QED
      BY <1>0, <1>3, <2>1, <2>3 DEF ChargesGrow, TakenCharges, Paid
  <1>5. Save(r, q)
    BY <1>1 DEF PaymentExecuted
  <1>. QED
    BY <1>0, <1>2, <1>4, <1>5, PaidSound, SaveKeepsInv

LEMMA ReceiptAcceptedKeepsInv ==
  ASSUME Inv, TypeOK', NEW r \in Requests, ReceiptAccepted(r)
  PROVE  Inv'
  <1>0. /\ req[r].order = {} /\ req[r] \in Request /\ req[r].phase = "loaded"
        /\ req[r].route = "store" /\ req[r].charge \in Charges /\ Sound(req[r])
        /\ req[r].basket \in Baskets
    BY Unplaced DEF ReceiptAccepted, Sound
  <1>1. PICK q \in Request :
          q = [req[r] EXCEPT !.phase = "paid", !.recorded = {req[r].charge}]
    BY <1>0 DEF Request
  <1>2. /\ q.basket = req[r].basket /\ q.status = req[r].status /\ q.order = {}
        /\ q.recorded = {req[r].charge} /\ q.charge = req[r].charge
        /\ q.phase = "paid" /\ q.route = req[r].route
    BY <1>0, <1>1 DEF Request
  <1>3. ChargesGrow /\ UNCHANGED charge
    BY SameGrows DEF ReceiptAccepted
  <1>4. req[r].charge \in TakenCharges' /\ req[r].basket \in Paid'
    BY <1>0, <1>3, NoOneIsNothing DEF Sound, TakenCharges, Paid
  <1>5. Save(r, q)
    BY <1>1 DEF ReceiptAccepted
  <1>. QED
    BY <1>0, <1>2, <1>3, <1>4, <1>5, PaidSound, SaveKeepsInv

LEMMA RecordPaymentKeepsInv ==
  ASSUME Inv, TypeOK', NEW r \in Requests, RecordPayment(r)
  PROVE  Inv'
  <1>0. /\ req[r].order = {} /\ req[r] \in Request /\ req[r].phase = "charged"
        /\ req[r].status # Submitted /\ Sound(req[r])
    BY Unplaced DEF RecordPayment
  <1>1. PICK q \in Request : q = [req[r] EXCEPT !.phase = "paid", !.txn = FALSE]
    BY <1>0 DEF Request
  <1>2. ChargesGrow /\ UNCHANGED charge
    BY SameGrows DEF RecordPayment
  <1>3. /\ q.basket = req[r].basket /\ q.status = req[r].status /\ q.order = {}
        /\ q.recorded = req[r].recorded /\ q.charge = req[r].charge
        /\ q.phase = "paid" /\ q.route = req[r].route /\ q.lines = req[r].lines
    BY <1>0, <1>1 DEF Request
  <1>4. Sound(q)
    BY <1>0, <1>3 DEF Sound
  <1>5. Sound(q)'
    BY <1>2, <1>3, <1>4, SoundStays
  <1>6. Save(r, q)
    BY <1>1 DEF RecordPayment
  <1>. QED
    BY <1>2, <1>3, <1>5, <1>6, OwnLock, SaveKeepsInv

(* The order is placed by a request that holds the lock of its basket.     *)
LEMMA PlaceKeepsInv ==
  ASSUME Inv, TypeOK', NEW r \in Requests, Place(r)
  PROVE  Inv'
  <1>0. /\ req[r].order = {} /\ req[r] \in Request /\ req[r].phase = "paid"
        /\ Sound(req[r]) /\ req[r].basket \in Baskets
        /\ order[req[r].basket] = {} /\ req[r].lines # {}
        /\ Unlocked(r, req[r].basket)
    BY Unplaced DEF Place, Sound
  <1>1. PICK q \in Request :
          q = [req[r] EXCEPT !.phase = "placed", !.order = req[r].lines,
                             !.status = Submitted]
    BY <1>0, StatusTypes DEF Request
  <1>2. ChargesGrow /\ UNCHANGED charge
    BY SameGrows DEF Place
  <1>3. /\ q.basket = req[r].basket /\ q.status = Submitted
        /\ q.order = req[r].lines /\ q.lines = req[r].lines
        /\ q.recorded = req[r].recorded /\ q.charge = req[r].charge
        /\ q.phase = "placed" /\ q.route = req[r].route /\ q.txn = req[r].txn
    BY <1>0, <1>1 DEF Request
  <1>4. Sound(q)
    BY <1>0, <1>3 DEF Sound
  <1>5. Save(r, q)
    BY <1>1 DEF Place
  <1>6. CASE q.txn
    <2>1. req' = [req EXCEPT ![r] = q] /\ UNCHANGED db
      BY <1>5, <1>6 DEF Save
    <2>2. Sound(q)'
      BY <1>2, <1>4, <2>1, SoundStays DEF db
    <2>. QED
      BY <1>0, <1>2, <1>3, <2>1, <2>2, StepKeepsInv DEF db
  <1>7. CASE ~q.txn
    <2>1. PICK p \in Request :
            p = [q EXCEPT !.status = Unsaved, !.order = {}, !.recorded = {}]
      BY DEF Request
    <2>2. /\ p.basket = q.basket /\ p.status = Unsaved /\ p.order = {}
          /\ p.recorded = {} /\ p.charge = q.charge /\ p.phase = "placed"
          /\ p.route = q.route
      BY <1>3, <2>1 DEF Request
    <2>3. Sound(p)
      BY <1>3, <1>4, <2>2 DEF Sound, Unsaved, Submitted
    <2>4. Sound(p)'
      BY <1>2, <2>2, <2>3, SoundStays
    <2>5. req' = [req EXCEPT ![r] = p] /\ Commit(q)
      BY <1>5, <1>7, <2>1 DEF Save
    <2>6. /\ recorded' \subseteq recorded \cup TakenCharges'
          /\ \A b \in Baskets : order'[b] # order[b] => b = req[r].basket
      BY <1>2, <1>3, <1>4, <2>5, PaidGrows DEF Commit, Sound, Inv, TypeOK
    <2>. QED
      BY <1>0, <1>2, <2>2, <2>4, <2>5, <2>6, StepKeepsInv
  <1>. QED
    BY <1>6, <1>7

LEMMA StartKeepsInv ==
  ASSUME Inv, TypeOK', NEW r \in Requests, Start(r)
  PROVE  Inv'
  <1>0. req[r] \in Request /\ Sound(req[r]) /\ req[r].phase = "placed"
    BY DEF Start, Inv, TypeOK
  <1>1. PICK q \in Request : q = [req[r] EXCEPT !.phase = "started"]
    BY <1>0 DEF Request
  <1>2. ChargesGrow /\ UNCHANGED charge /\ UNCHANGED db
    BY SameGrows DEF Start
  <1>3. /\ q.basket = req[r].basket /\ q.status = req[r].status
        /\ q.order = req[r].order /\ q.lines = req[r].lines
        /\ q.recorded = req[r].recorded /\ q.charge = req[r].charge
        /\ q.phase = "started" /\ q.route = req[r].route
    BY <1>0, <1>1 DEF Request
  <1>4. Sound(q)
    BY <1>0, <1>3 DEF Sound
  <1>5. Sound(q)'
    BY <1>2, <1>4, SoundStays DEF db
  <1>6. req' = [req EXCEPT ![r] = q]
    BY <1>1 DEF Start
  <1>. QED
    BY <1>2, <1>3, <1>5, <1>6, OwnLock, StepKeepsInv DEF db

(* A request that just answers.                                            *)
LEMMA AnswerKeepsInv ==
  ASSUME Inv, TypeOK', ChargesGrow, NEW r \in Requests, End(r, req[r])
  PROVE  Inv'
  <1>1. req[r] \in Request /\ req[r].recorded \subseteq TakenCharges'
    BY PaidGrows DEF Inv, TypeOK, Sound
  <1>. QED
    BY <1>1, EndKeepsInv

LEMMA FailKeepsInv ==
  ASSUME Inv, TypeOK', NEW r \in Requests, Fail(r), UNCHANGED charge
  PROVE  Inv'
  <1>1. ChargesGrow
    BY SameGrows
  <1>2. CASE End(r, req[r])
    BY <1>1, <1>2, AnswerKeepsInv
  <1>3. CASE req' = [req EXCEPT ![r] = NoRequest] /\ UNCHANGED <<order, recorded>>
    BY <1>1, <1>3, AbortKeepsInv
  <1>. QED
    BY <1>2, <1>3 DEF Fail, Abort, db

LEMMA LostAnswerKeepsInv ==
  ASSUME Inv, TypeOK', NEW r \in Requests, NEW t \in Charges, LostAnswer(r, t)
  PROVE  Inv'
  <1>1. Sound(req[r])
    BY DEF Inv
  <1>2. ChargesGrow
    <2>1. CASE UnusedCharge(t) /\ Taken(r, t) /\ req[r].phase # "idle"
      BY <1>1, <2>1, TakenGrows DEF UnusedCharge, Sound, Inv
    <2>2. CASE /\ charge[t].state = "created"
               /\ charge' = [charge EXCEPT ![t].state = "taken",
                    ![t].lines = IF req[r].route = "stripe" THEN req[r].lines ELSE @]
      <3>. DEFINE ps == IF req[r].route = "stripe" THEN req[r].lines
                        ELSE charge[t].lines
      <3>1. charge[t] \in Charge \ {NoCharge}
        BY <2>2 DEF Inv, TypeOK, NoCharge
      <3>2. /\ charge'[t] = [charge[t] EXCEPT !.state = "taken", !.lines = ps]
            /\ \A u \in Charges \ {t} : charge'[u] = charge[u]
        BY <2>2 DEF Inv, TypeOK
      <3>. HIDE DEF ps
      <3>3. /\ charge'[t].state = "taken"
            /\ charge'[t].basket = charge[t].basket
            /\ charge'[t].via = charge[t].via
        BY <3>1, <3>2 DEF Charge
      <3>. QED
        BY <2>2, <3>2, <3>3 DEF ChargesGrow
    <2>. QED
      BY <2>1, <2>2 DEF LostAnswer
  <1>3. End(r, req[r]) \/ Abort(r)
    BY DEF LostAnswer
  <1>. QED
    BY <1>2, <1>3, AnswerKeepsInv, AbortKeepsInv DEF Abort, db

LEMMA ApiAnswersKeepsInv ==
  ASSUME Inv, TypeOK', NEW r \in Requests, NEW t \in Charges, ApiAnswers(r, t)
  PROVE  Inv'
  <1>1. ChargesGrow
    BY DEF ApiAnswers, UnusedCharge, ChargesGrow, Inv, TypeOK
  <1>. QED
    BY <1>1, AnswerKeepsInv DEF ApiAnswers

LEMMA HandleKeepsInv ==
  ASSUME Inv, TypeOK', NEW r \in Requests, Handle(r)
  PROVE  Inv'
  <1>1. ASSUME NEW ps \in SUBSET Products, CartSave(r, ps) PROVE Inv'
    BY <1>1, SameGrows, AbortKeepsInv DEF CartSave
  <1>2. ASSUME NEW b \in Baskets, RestDeclined(r, b) PROVE Inv'
    BY <1>2, SameGrows, AbortKeepsInv DEF RestDeclined
  <1>3. CASE Refused(r) \/ Finish(r)
    BY <1>3, SameGrows, AnswerKeepsInv DEF Refused, Finish
  <1>4. CASE PlaceFails(r) \/ ApiFails(r) \/ StartFails(r)
    BY <1>4, FailKeepsInv DEF PlaceFails, ApiFails, StartFails
  <1>. QED
    BY <1>1, <1>2, <1>3, <1>4, FreezeKeepsInv, RestAcceptedKeepsInv,
       RestDuplicateKeepsInv, ApplePayAcceptedKeepsInv, LostAnswerKeepsInv,
       ApiAnswersKeepsInv, IntentConfirmedKeepsInv, PaymentExecutedKeepsInv,
       RecordPaymentKeepsInv, ReceiptAcceptedKeepsInv, PlaceKeepsInv,
       StartKeepsInv DEF Handle

LEMMA LoadKeepsInv ==
  ASSUME Inv, TypeOK', NEW r \in Requests, NEW rt, NEW b \in Baskets,
         NEW t \in Charges \cup {NoOne}, NEW inTxn \in BOOLEAN,
         NEW ph \in {"loaded", "paid"}, Load(r, ph, rt, inTxn, b, t),
         rt \in {"stripe", "paypal", "store"} => t \in Charges,
         t # NoOne => /\ charge[t].basket = b /\ charge[t].state # "none"
                      /\ rt = "stripe" => charge[t].via = "stripe"
                      /\ rt = "store" => charge[t].state = "taken",
         ph = "paid" => b \in Paid
  PROVE  Inv'
  <1>1. PICK q \in Request :
          q = [NoRequest EXCEPT !.phase = ph, !.route = rt, !.txn = inTxn,
                 !.basket = b, !.lines = lines[b], !.charge = t]
    BY NoRequestType DEF Load, Request, Inv, TypeOK
  <1>2. ChargesGrow /\ UNCHANGED db /\ req' = [req EXCEPT ![r] = q]
    BY <1>1, SameGrows DEF Load
  <1>3. /\ q.phase = ph /\ q.route = rt /\ q.basket = b /\ q.charge = t
        /\ q.status = Unsaved /\ q.order = {} /\ q.recorded = {} /\ rt \in Routes
    BY <1>1 DEF NoRequest, Load
  <1>4. Sound(q)
    BY <1>3 DEF Sound, Unsaved, Submitted
  <1>5. Sound(q)'
    BY <1>2, <1>3, <1>4, SoundStays
  <1>. QED
    BY <1>2, <1>3, <1>5, StepKeepsInv DEF db

LEMMA BeginKeepsInv ==
  ASSUME Inv, TypeOK', NEW r \in Requests, Begin(r)
  PROVE  Inv'
  <1>1. ASSUME NEW b \in Baskets, CartLoad(r, b) PROVE Inv'
    BY <1>1, LoadKeepsInv DEF CartLoad
  <1>2. ASSUME NEW b \in Baskets, NEW rt \in Routes, LoadOpen(r, rt, b)
        PROVE  Inv'
    BY <1>2, LoadKeepsInv DEF LoadOpen
  <1>3. ASSUME NEW b \in Baskets, NEW ps \in SUBSET Products, ApiCreate(r, b, ps)
        PROVE  Inv'
    <2>1. PICK q \in Request :
            q = [NoRequest EXCEPT !.phase = "loaded", !.route = "api",
                                  !.basket = b, !.lines = ps]
      BY <1>3, NoRequestType DEF ApiCreate, Request
    <2>2. ChargesGrow /\ req' = [req EXCEPT ![r] = q]
      BY <1>3, <2>1, SameGrows DEF ApiCreate
    <2>3. /\ q.phase = "loaded" /\ q.route = "api" /\ q.basket = b
          /\ q.charge = NoOne /\ q.status = Unsaved /\ q.order = {}
          /\ q.recorded = {} /\ "api" \in Routes
      BY <1>3, <2>1 DEF NoRequest, ApiCreate
    <2>4. Sound(q)
      BY <2>3 DEF Sound, Unsaved, Submitted
    <2>5. Sound(q)'
      BY <2>2, <2>3, <2>4, SoundStays
    <2>. QED
      BY <1>3, <2>2, <2>3, <2>5, StepKeepsInv DEF ApiCreate
  <1>4. ASSUME NEW b \in Baskets, NEW t \in Charges, LoadFrozen(r, b, t)
        PROVE  Inv'
    <2>1. /\ charge[t].basket = b /\ charge[t].state = "taken" /\ b \in Paid
      BY <1>4 DEF LoadFrozen, Inv, TakenCharges, Paid
    <2>. QED
      BY <1>4, <2>1, LoadKeepsInv DEF LoadFrozen
  <1>5. ASSUME NEW t \in Charges,
               LoadIntent(r, t) \/ LoadPayment(r, t) \/ LoadReceipt(r, t)
        PROVE  Inv'
    <2>1. PICK rt \in {"stripe", "paypal", "store"}, inTxn \in BOOLEAN :
            /\ Load(r, "loaded", rt, inTxn, charge[t].basket, t)
            /\ charge[t].via = rt
            /\ rt = "store" => charge[t].state = "taken"
      BY <1>5 DEF LoadIntent, LoadPayment, LoadReceipt
    <2>2. charge[t].basket \in Baskets /\ charge[t].state # "none"
      BY <2>1, ChargeType DEF NoCharge, Inv
    <2>. QED
      BY <2>1, <2>2, LoadKeepsInv
  <1>. QED
    BY <1>1, <1>2, <1>3, <1>4, <1>5 DEF Begin

LEMMA OutsideType ==
  ASSUME TypeOK, Outside
  PROVE  TypeOK'
  <1>. USE StatusTypes DEF stripe
  <1>1. ASSUME NEW b \in Baskets, NEW old \in Baskets, MergeOpenBaskets(b, old)
        PROVE  TypeOK'
    BY <1>1 DEF MergeOpenBaskets, TypeOK
  <1>2. ASSUME NEW b \in Baskets, NEW t \in Charges,
               \/ CreateIntent(b, t) \/ ReturnIntent(b, t)
               \/ CreatePayment(b, t) \/ StoreTakesMoney(b, t)
        PROVE  TypeOK'
    BY <1>2 DEF CreateIntent, Attribute, ReturnIntent, CreatePayment,
           StoreTakesMoney, TypeOK, Charge, db
  <1>3. ASSUME NEW b \in Baskets, FreezeForStore(b) \/ RepairFulfils(b)
        PROVE  TypeOK'
    BY <1>3 DEF FreezeForStore, RepairFulfils, TypeOK, db
  <1>4. ASSUME NEW t \in Charges, ForgetKey(t) PROVE TypeOK'
    BY <1>4 DEF ForgetKey, TypeOK, db
  <1>. QED
    BY <1>1, <1>2, <1>3, <1>4 DEF Outside

LEMMA OutsideKeepsInv ==
  ASSUME Inv, TypeOK', Outside
  PROVE  Inv'
  <1>1. UNCHANGED <<order, recorded, req>>
    BY DEF Outside, MergeOpenBaskets, CreateIntent, ReturnIntent,
           ForgetKey, CreatePayment, StoreTakesMoney, FreezeForStore, RepairFulfils, db
  <1>2. ChargesGrow
    BY DEF Outside, MergeOpenBaskets, CreateIntent, ReturnIntent,
           ForgetKey, CreatePayment, StoreTakesMoney, FreezeForStore, RepairFulfils, UnusedCharge,
           ChargesGrow, Inv, TypeOK
  <1>3. ASSUME NEW s \in Requests PROVE Sound(req[s])'
    <2>1. PICK p \in Request : p = req[s]
      BY DEF Inv, TypeOK
    <2>2. Sound(p)'
      BY <1>1, <1>2, <2>1, SoundStays DEF Inv
    <2>. QED
      BY <1>1, <2>1, <2>2 DEF Sound, Paid, TakenCharges
  <1>4. Locks' /\ recorded' \subseteq TakenCharges'
    BY <1>1, <1>2, PaidGrows DEF Inv, Locks
  <1>. QED
    BY <1>3, <1>4 DEF Inv

LEMMA NextKeepsInv ==
  ASSUME Inv, [Next]_vars
  PROVE  Inv'
  <1>1. CASE Outside
    BY <1>1, OutsideType, OutsideKeepsInv DEF Inv
  <1>2. ASSUME NEW r \in Requests, Begin(r) PROVE Inv'
    BY <1>2, BeginType, BeginKeepsInv DEF Inv
  <1>3. ASSUME NEW r \in Requests, Handle(r) PROVE Inv'
    <2>1. Held(r)
      BY SoundHeld DEF Inv
    <2>2. req[r].phase # "idle"
      BY <1>3 DEF Handle, CartSave, Freeze, RestDeclined, RestAccepted,
           RestDuplicate, ApplePayAccepted, LostAnswer, ApiAnswers,
           IntentConfirmed, PaymentExecuted, RecordPayment, ReceiptAccepted,
           Refused, Place, PlaceFails, ApiFails, Start, StartFails, Finish, Inv, TypeOK,
           Request
    <2>. QED
      BY <1>3, <2>1, <2>2, HandleType, HandleKeepsInv DEF Inv
  <1>4. ASSUME NEW r \in Requests, Crash(r) PROVE Inv'
    <2>1. TypeOK'
      BY <1>4, NoRequestType DEF Crash, Abort, Inv, TypeOK, db, stripe
    <2>. QED
      BY <1>4, <2>1, SameGrows, AbortKeepsInv DEF Crash, Abort, db
  <1>5. CASE UNCHANGED vars
    <2>1. TypeOK'
      BY <1>5 DEF Inv, TypeOK, vars, stripe
    <2>2. ASSUME NEW s \in Requests PROVE Sound(req[s])'
      BY <1>5 DEF Inv, Sound, Paid, TakenCharges, vars
    <2>. QED
      BY <1>5, <2>1, <2>2 DEF Inv, Locks, TakenCharges, vars
  <1>. QED
    BY <1>1, <1>2, <1>3, <1>4, <1>5 DEF Next

LEMMA InitInv == ASSUME Init PROVE Inv
  <1>1. TypeOK
    BY NoRequestType, StatusTypes DEF Init, TypeOK, Charge
  <1>2. \A r \in Requests : Sound(req[r])
    BY NoRequestSound DEF Init
  <1>. QED
    BY <1>1, <1>2 DEF Init, Inv, Locks, NoRequest

(* Along every behaviour, a pending order is held under the lock of its    *)
(* basket, which has no order yet and is paid or costs nothing, and what   *)
(* is recorded as accepted was taken (Inv).                                *)
THEOREM Invariant == Spec => []Inv
  <1>1. Init => Inv
    BY InitInv
  <1>2. Inv /\ [Next]_vars => Inv'
    BY NextKeepsInv
  <1>. QED
    BY <1>1, <1>2, PTL DEF Spec

(* The variables keep their types: a handler never works on a basket that  *)
(* does not exist, or on a payment it was not called for.                  *)
THEOREM TypeCorrect == Spec => []TypeOK
  <1>1. Inv => TypeOK
    BY DEF Inv
  <1>. QED
    BY <1>1, Invariant, PTL

-----------------------------------------------------------------------------
(* What one step does to the orders and to the payments.                   *)

(* One order is placed, by a commit of its pending rows.                   *)
Sale ==
  \E q \in Request :
    /\ Commit(q) /\ q.basket \in Baskets
    /\ q.order # {} /\ order[q.basket] = {}
    /\ Free(q.order) \/ q.basket \in Paid
    /\ UNCHANGED charge

NoSale ==
  /\ UNCHANGED order
  /\ \A b \in Baskets : status'[b] = Submitted => status[b] = Submitted

(* One payment is created or taken; a Stripe payment of a basket is        *)
(* created when Stripe knows the key of no other.                          *)
OneCharge(t) ==
  /\ charge[t].state # "taken"
  /\ \A u \in Charges \ {t} : charge'[u] = charge[u]
  /\ charge'[t].via = "stripe" =>
       \/ charge[t].via = "stripe" /\ charge'[t].basket = charge[t].basket
       \/ ~HasIntent(charge'[t].basket)

LEMMA PlainCommit ==
  ASSUME TypeOK, NEW q \in Request, Commit(q), q.order = {}, q.status # Submitted
  PROVE  NoSale
  BY DEF Commit, TypeOK, NoSale

LEMMA PlainSave ==
  ASSUME TypeOK, NEW r \in Requests, NEW q \in Request, Save(r, q),
         q.order = {}, q.status # Submitted
  PROVE  NoSale
  BY PlainCommit DEF Save, db, NoSale

LEMMA EndStep ==
  ASSUME Inv, NEW r \in Requests, End(r, req[r]), UNCHANGED charge
  PROVE  Sale \/ NoSale
  <1>1. req[r] \in Request /\ Sound(req[r]) /\ Commit(req[r])
    BY DEF Inv, TypeOK, End
  <1>2. CASE req[r].order = {}
    BY <1>1, <1>2, PlainCommit DEF Inv, Sound
  <1>3. CASE req[r].order # {}
    BY <1>1, <1>3 DEF Sale, Sound
  <1>. QED
    BY <1>2, <1>3

LEMMA FailStep ==
  ASSUME Inv, NEW r \in Requests, Fail(r), UNCHANGED charge
  PROVE  Sale \/ NoSale
  BY EndStep DEF Fail, Abort, db, NoSale, Inv, TypeOK, Submitted, Deleted

LEMMA PlaceStep ==
  ASSUME Inv, NEW r \in Requests, Place(r)
  PROVE  Sale \/ NoSale
  <1>0. /\ req[r] \in Request /\ req[r].phase = "paid" /\ Sound(req[r])
        /\ req[r].basket \in Baskets /\ order[req[r].basket] = {}
        /\ req[r].lines # {}
    BY Unplaced DEF Place, Sound
  <1>1. PICK q \in Request :
          q = [req[r] EXCEPT !.phase = "placed", !.order = req[r].lines,
                             !.status = Submitted]
    BY <1>0, StatusTypes DEF Request
  <1>2. q.order = req[r].lines /\ q.basket = req[r].basket
    BY <1>0, <1>1 DEF Request
  <1>3. Save(r, q) /\ UNCHANGED charge
    BY <1>1 DEF Place
  <1>4. Free(q.order) \/ q.basket \in Paid
    BY <1>0, <1>2 DEF Sound
  <1>. QED
    BY <1>0, <1>2, <1>3, <1>4 DEF Save, db, Sale, NoSale

LEMMA SaveStep ==
  ASSUME Inv, NEW r \in Requests, NEW q \in Request, Save(r, q) \/ End(r, q),
         req[r].phase \in {"loaded", "frozen", "charged"},
         q.order = req[r].order, q.status \in {req[r].status, Frozen}
  PROVE  NoSale
  <1>1. q.order = {} /\ q.status # Submitted
    BY Unplaced, StatusTypes
  <1>. QED
    BY <1>1, PlainSave, PlainCommit DEF End, Inv

(* The steps that save nothing but responses and statuses.                 *)
LEMMA PlainStep ==
  ASSUME Inv, NEW r \in Requests,
         \/ Freeze(r) \/ IntentConfirmed(r) \/ PaymentExecuted(r)
         \/ RecordPayment(r) \/ ReceiptAccepted(r) \/ Refused(r)
         \/ \E t \in Charges : \/ RestAccepted(r, t) \/ RestDuplicate(r, t)
                               \/ ApplePayAccepted(r, t) \/ LostAnswer(r, t)
                               \/ ApiAnswers(r, t)
  PROVE  NoSale
  <1>0. /\ req[r] \in Request /\ Sound(req[r])
        /\ \A b \in Baskets : lines[b] \in SUBSET Products
    BY DEF Inv, TypeOK
  <1>1. CASE Freeze(r)
    <2>. DEFINE ps == IF req[r].route = "api" THEN lines[req[r].basket]
                      ELSE req[r].lines
    <2>1. ps \in SUBSET Products /\ req[r].phase = "loaded"
      BY <1>0, <1>1 DEF Freeze, Request, Sound
    <2>2. Save(r, [req[r] EXCEPT !.status = Frozen, !.lines = ps,
                     !.phase = IF Free(ps) THEN "paid" ELSE "frozen"])
      BY <1>1 DEF Freeze
    <2>. HIDE DEF ps
    <2>3. PICK q \in Request :
            q = [req[r] EXCEPT !.status = Frozen, !.lines = ps,
                   !.phase = IF Free(ps) THEN "paid" ELSE "frozen"]
      BY <1>0, <2>1, StatusTypes DEF Request
    <2>4. q.order = req[r].order /\ q.status = Frozen
      BY <1>0, <2>3 DEF Request
    <2>. QED
      BY <2>1, <2>2, <2>3, <2>4, SaveStep
  <1>2. CASE IntentConfirmed(r) \/ ReceiptAccepted(r)
    <2>1. req[r].charge \in Charges /\ req[r].phase = "loaded"
      BY <1>0, <1>2 DEF IntentConfirmed, ReceiptAccepted, Sound
    <2>2. PICK q \in Request :
            q = [req[r] EXCEPT !.phase = "paid", !.recorded = {req[r].charge}]
      BY <1>0, <2>1 DEF Request
    <2>3. Save(r, q) /\ q.order = req[r].order /\ q.status = req[r].status
      BY <1>0, <1>2, <2>2 DEF Request, IntentConfirmed, ReceiptAccepted
    <2>. QED
      BY <2>1, <2>3, SaveStep
  <1>3. CASE PaymentExecuted(r)
    <2>1. req[r].charge \in Charges /\ req[r].phase = "loaded"
      BY <1>0, <1>3 DEF PaymentExecuted, Sound
    <2>2. PICK q \in Request :
            q = [req[r] EXCEPT !.phase = "charged", !.txn = TRUE,
                               !.recorded = {req[r].charge}]
      BY <1>0, <2>1 DEF Request
    <2>3. Save(r, q) /\ q.order = req[r].order /\ q.status = req[r].status
      BY <1>0, <1>3, <2>2 DEF Request, PaymentExecuted
    <2>. QED
      BY <2>1, <2>3, SaveStep
  <1>4. CASE RecordPayment(r)
    <2>1. PICK q \in Request : q = [req[r] EXCEPT !.phase = "paid", !.txn = FALSE]
      BY <1>0 DEF Request
    <2>2. Save(r, q) /\ q.order = req[r].order /\ q.status = req[r].status
      BY <1>0, <1>4, <2>1 DEF Request, RecordPayment
    <2>. QED
      BY <1>4, <2>2, SaveStep DEF RecordPayment
  <1>5. CASE \/ Refused(r)
             \/ \E t \in Charges : LostAnswer(r, t) \/ ApiAnswers(r, t)
    <2>1. End(r, req[r]) \/ Abort(r)
      BY <1>5 DEF Refused, LostAnswer, ApiAnswers
    <2>2. req[r].phase \in {"loaded", "frozen"}
      BY <1>5 DEF Refused, LostAnswer, ApiAnswers
    <2>. QED
      BY <1>0, <2>1, <2>2, SaveStep DEF Abort, db, NoSale
  <1>6. ASSUME NEW t \in Charges, ApplePayAccepted(r, t) PROVE NoSale
    <2>1. PICK q \in Request :
            q = [req[r] EXCEPT !.phase = "paid", !.charge = t, !.recorded = {t}]
      BY <1>0 DEF Request
    <2>2. Save(r, q) /\ q.order = req[r].order /\ q.status = req[r].status
      BY <1>0, <1>6, <2>1 DEF Request, ApplePayAccepted
    <2>. QED
      BY <1>6, <2>2, SaveStep DEF ApplePayAccepted
  <1>7. ASSUME NEW t \in Charges, RestAccepted(r, t) \/ RestDuplicate(r, t)
        PROVE  NoSale
    <2>1. req[r].phase = "frozen"
      BY <1>0, <1>7 DEF RestAccepted, RestDuplicate, Request
    <2>0. lines[req[r].basket] \in SUBSET Products
      BY <1>0, <2>1 DEF Sound
    <2>2. PICK p \in Request : p = [req[r] EXCEPT !.recorded = {t}]
      BY <1>0 DEF Request
    <2>3. PICK q \in Request :
            q = [p EXCEPT !.phase = "paid", !.charge = t, !.lines = lines[p.basket]]
      BY <1>0, <2>0, <2>2 DEF Request
    <2>4. PICK d \in Request :
            d = [req[r] EXCEPT !.phase = "paid", !.charge = t,
                               !.lines = lines[req[r].basket]]
      BY <1>0, <2>0 DEF Request
    <2>5. /\ p.order = req[r].order /\ p.status = req[r].status
          /\ q.order = req[r].order /\ q.status = req[r].status
          /\ d.order = req[r].order /\ d.status = req[r].status
      BY <1>0, <2>2, <2>3, <2>4 DEF Request
    <2>6. Save(r, q) \/ End(r, p) \/ End(r, req[r]) \/ Save(r, d)
      BY <1>7, <2>2, <2>3, <2>4 DEF RestAccepted, RestDuplicate
    <2>. QED
      BY <1>0, <2>1, <2>5, <2>6, SaveStep
  <1>. QED
    BY <1>1, <1>2, <1>3, <1>4, <1>5, <1>6, <1>7

LEMMA OrderStep ==
  ASSUME Inv, [Next]_vars
  PROVE  Sale \/ NoSale
  <1>. USE DEF Open, Frozen, Merged, Submitted, Deleted
  <1>1. CASE Outside
    BY <1>1 DEF Outside, MergeOpenBaskets, CreateIntent, ReturnIntent,
           ForgetKey, CreatePayment, StoreTakesMoney, FreezeForStore, RepairFulfils, NoSale, Inv, TypeOK, db
  <1>2. ASSUME NEW r \in Requests, Begin(r) PROVE NoSale
    BY <1>2 DEF Begin, CartLoad, LoadOpen, ApiCreate, LoadFrozen, LoadIntent,
           LoadPayment, LoadReceipt, Load, NoSale, Inv, TypeOK, db
  <1>3. ASSUME NEW r \in Requests, Handle(r) PROVE Sale \/ NoSale
    <2>1. ASSUME NEW ps \in SUBSET Products, CartSave(r, ps) PROVE NoSale
      BY <2>1 DEF CartSave, NoSale, Inv, TypeOK
    <2>2. ASSUME NEW b \in Baskets, RestDeclined(r, b) PROVE NoSale
      BY <2>2 DEF RestDeclined, NoSale, Inv, TypeOK
    <2>3. CASE PlaceFails(r) \/ ApiFails(r) \/ StartFails(r)
      BY <2>3, FailStep DEF PlaceFails, ApiFails, StartFails
    <2>4. CASE Start(r)
      BY <2>4 DEF Start, NoSale, db
    <2>5. CASE Finish(r)
      BY <2>5, EndStep DEF Finish
    <2>. QED
      BY <1>3, <2>1, <2>2, <2>3, <2>4, <2>5, PlaceStep, PlainStep DEF Handle
  <1>4. ASSUME NEW r \in Requests, Crash(r) PROVE NoSale
    BY <1>4 DEF Crash, Abort, NoSale, db
  <1>5. CASE UNCHANGED vars
    BY <1>5 DEF vars, NoSale
  <1>. QED
    BY <1>1, <1>2, <1>3, <1>4, <1>5 DEF Next

LEMMA TakenStep ==
  ASSUME Inv, NEW r \in Requests, NEW t \in Charges, Taken(r, t),
         \/ charge[t].state = "none" /\ req[r].route # "stripe"
         \/ /\ charge[t].state = "created" /\ charge[t].basket = req[r].basket
            /\ req[r].route = "stripe" => charge[t].via = "stripe"
  PROVE  OneCharge(t)
  <1>1. /\ charge'[t].basket = req[r].basket /\ charge'[t].via = req[r].route
        /\ \A u \in Charges \ {t} : charge'[u] = charge[u]
    BY DEF Taken, Inv, TypeOK
  <1>. QED
    BY <1>1 DEF OneCharge

LEMMA NewStep ==
  ASSUME Inv, NEW t \in Charges, UnusedCharge(t), NEW b \in Baskets, NEW ps,
         NEW rt \in {"paypal", "store", "stripe"}, NEW st,
         charge' = [charge EXCEPT ![t] =
                      [basket |-> b, lines |-> ps, via |-> rt, state |-> st]],
         rt = "stripe" => ~HasIntent(b)
  PROVE  OneCharge(t)
  <1>1. /\ charge'[t].basket = b /\ charge'[t].via = rt
        /\ \A u \in Charges \ {t} : charge'[u] = charge[u]
    BY DEF Inv, TypeOK
  <1>. QED
    BY <1>1 DEF OneCharge, UnusedCharge

LEMMA ExecutedStep ==
  ASSUME Inv, NEW t \in Charges, charge[t].state = "created", NEW ps,
         \/ charge' = [charge EXCEPT ![t].state = "taken"]
         \/ charge' = [charge EXCEPT ![t].state = "taken", ![t].lines = ps]
  PROVE  OneCharge(t)
  <1>1. charge[t] \in Charge \ {NoCharge}
    BY DEF Inv, TypeOK, NoCharge
  <1>2. /\ \/ charge'[t] = [charge[t] EXCEPT !.state = "taken"]
           \/ charge'[t] = [charge[t] EXCEPT !.state = "taken", !.lines = ps]
        /\ \A u \in Charges \ {t} : charge'[u] = charge[u]
    BY DEF Inv, TypeOK
  <1>3. charge'[t].basket = charge[t].basket /\ charge'[t].via = charge[t].via
    BY <1>1, <1>2 DEF Charge
  <1>. QED
    BY <1>2, <1>3 DEF OneCharge

LEMMA ChargeStep ==
  ASSUME Inv, [Next]_vars
  PROVE  UNCHANGED charge \/ \E t \in Charges : OneCharge(t)
  <1>1. CASE Outside
    <2>1. ASSUME NEW b \in Baskets, NEW t \in Charges,
                 \/ CreateIntent(b, t) \/ CreatePayment(b, t)
                 \/ StoreTakesMoney(b, t)
          PROVE  OneCharge(t)
      BY <2>1, NewStep DEF CreateIntent, CreatePayment, StoreTakesMoney
    <2>. QED
      BY <1>1, <2>1 DEF Outside, MergeOpenBaskets, ReturnIntent, ForgetKey,
         FreezeForStore, RepairFulfils
  <1>2. ASSUME NEW r \in Requests, Begin(r) PROVE UNCHANGED charge
    BY <1>2 DEF Begin, CartLoad, LoadOpen, ApiCreate, LoadFrozen, LoadIntent,
           LoadPayment, LoadReceipt, Load
  <1>3. ASSUME NEW r \in Requests, Handle(r)
        PROVE  UNCHANGED charge \/ \E t \in Charges : OneCharge(t)
    <2>0. /\ req[r] \in Request /\ Sound(req[r])
      BY DEF Inv, TypeOK
    <2>1. ASSUME NEW t \in Charges, RestAccepted(r, t) \/ ApplePayAccepted(r, t)
          PROVE  OneCharge(t)
      <3>1. req[r].route # "stripe" /\ UnusedCharge(t) /\ Taken(r, t)
        BY <2>0, <2>1 DEF RestAccepted, ApplePayAccepted, Request
      <3>. QED
        BY <3>1, TakenStep DEF UnusedCharge
    <2>2. CASE IntentConfirmed(r)
      <3>1. /\ req[r].charge \in Charges /\ charge[req[r].charge].via = "stripe"
            /\ charge[req[r].charge].basket = req[r].basket
        BY <2>0, <2>2, NoOneIsNothing DEF IntentConfirmed, Sound
      <3>. QED
        BY <2>2, <3>1, TakenStep DEF IntentConfirmed
    <2>3. CASE PaymentExecuted(r)
      <3>1. req[r].charge \in Charges
        BY <2>0, <2>3 DEF PaymentExecuted, Sound
      <3>. QED
        BY <2>3, <3>1, ExecutedStep DEF PaymentExecuted
    <2>4. ASSUME NEW t \in Charges, LostAnswer(r, t) PROVE OneCharge(t)
      <3>1. CASE UnusedCharge(t) /\ Taken(r, t) /\ req[r].route # "stripe"
        BY <3>1, TakenStep DEF UnusedCharge
      <3>2. CASE /\ charge[t].state = "created"
                 /\ charge' = [charge EXCEPT ![t].state = "taken",
                      ![t].lines = IF req[r].route = "stripe" THEN req[r].lines ELSE @]
        <4>1. PICK ps : charge' = [charge EXCEPT ![t].state = "taken",
                                                 ![t].lines = ps]
          BY <3>2 DEF Inv, TypeOK
        <4>. QED
          BY <3>2, <4>1, ExecutedStep
      <3>. QED
        BY <2>4, <3>1, <3>2 DEF LostAnswer
    <2>5. ASSUME NEW t \in Charges, ApiAnswers(r, t)
          PROVE  UNCHANGED charge \/ OneCharge(t)
      <3>1. req[r].basket \in Baskets
        BY <2>0, <2>5 DEF ApiAnswers, Sound
      <3>. QED
        BY <2>5, <3>1, NewStep DEF ApiAnswers
    <2>. QED
      BY <1>3, <2>1, <2>2, <2>3, <2>4, <2>5 DEF Handle, CartSave, Freeze,
         RestDeclined, RestDuplicate, RecordPayment, ReceiptAccepted, Refused,
         Place, PlaceFails, ApiFails, Start, StartFails, Finish
  <1>4. ASSUME NEW r \in Requests, Crash(r) PROVE UNCHANGED charge
    BY <1>4 DEF Crash
  <1>. QED
    BY <1>1, <1>2, <1>3, <1>4 DEF Next, vars

-----------------------------------------------------------------------------
(* A basket is Submitted only together with its order.                     *)

LEMMA SaleSubmits ==
  ASSUME TypeOK, SubmittedHasOrder, Sale \/ NoSale
  PROVE  SubmittedHasOrder'
  BY DEF Sale, NoSale, Commit, TypeOK, SubmittedHasOrder

(* However the routes interleave, crash and are retried, a basket is       *)
(* Submitted only if its order exists (handle_order_placement saves both   *)
(* in one atomic block).                                                   *)
THEOREM SubmittedOrdered == Spec => []SubmittedHasOrder
  <1>1. Init => SubmittedHasOrder
    BY DEF Init, SubmittedHasOrder, Absent, Submitted
  <1>2. Inv /\ SubmittedHasOrder /\ [Next]_vars => SubmittedHasOrder'
    BY OrderStep, SaleSubmits DEF Inv
  <1>. QED
    BY <1>1, <1>2, Invariant, PTL DEF Spec

-----------------------------------------------------------------------------
(* Stripe charges once.                                                    *)

OneIntent ==
  \A t, u \in Charges \ expired :
    /\ charge[t].via = "stripe" /\ charge[u].via = "stripe"
    /\ charge[t].basket = charge[u].basket
    => t = u

LEMMA KeysExpire ==
  ASSUME [Next]_vars
  PROVE  expired \subseteq expired'
  <1>. USE DEF stripe
  <1>1. CASE Outside
    BY <1>1 DEF Outside, MergeOpenBaskets, CreateIntent, ReturnIntent, ForgetKey,
       CreatePayment, StoreTakesMoney, FreezeForStore, RepairFulfils
  <1>2. ASSUME NEW r \in Requests, Begin(r) PROVE UNCHANGED expired
    BY <1>2 DEF Begin, CartLoad, LoadOpen, ApiCreate, LoadFrozen, LoadIntent,
       LoadPayment, LoadReceipt, Load
  <1>3. ASSUME NEW r \in Requests, Handle(r) PROVE UNCHANGED expired
    BY <1>3 DEF Handle, CartSave, Freeze, RestDeclined, RestAccepted,
       RestDuplicate, ApplePayAccepted, LostAnswer, ApiAnswers,
       IntentConfirmed, PaymentExecuted, RecordPayment, ReceiptAccepted,
       Refused, Place, PlaceFails, ApiFails, Start, StartFails, Finish
  <1>4. ASSUME NEW r \in Requests, Crash(r) PROVE UNCHANGED expired
    BY <1>4 DEF Crash
  <1>. QED
    BY <1>1, <1>2, <1>3, <1>4 DEF Next, vars

LEMMA OneChargeOneIntent ==
  ASSUME OneIntent, expired \subseteq expired',
         UNCHANGED charge \/ \E t \in Charges : OneCharge(t)
  PROVE  OneIntent'
  <1>1. CASE UNCHANGED charge
    BY <1>1 DEF OneIntent
  <1>2. ASSUME NEW t \in Charges, OneCharge(t) PROVE OneIntent'
    <2>1. ASSUME NEW u \in Charges \ expired', NEW v \in Charges \ expired',
                 charge'[u].via = "stripe", charge'[v].via = "stripe",
                 charge'[u].basket = charge'[v].basket, u # t
          PROVE  u = v
      <3>1. charge'[u] = charge[u] /\ u \notin expired /\ v \notin expired
        BY <1>2, <2>1 DEF OneCharge
      <3>2. CASE v # t
        BY <1>2, <2>1, <3>1, <3>2 DEF OneCharge, OneIntent
      <3>3. CASE v = t
        BY <1>2, <2>1, <3>1, <3>3 DEF OneCharge, OneIntent, HasIntent
      <3>. QED
        BY <3>2, <3>3
    <2>. QED
      BY <2>1 DEF OneIntent
  <1>. QED
    BY <1>1, <1>2

(* As long as Stripe knows the idempotency keys of a basket's intents, it  *)
(* takes the money for the basket once, however often the customer submits *)
(* the form and whatever is lost or rolled back: the key is made from the  *)
(* order number (processors/stripe.py).                                    *)
THEOREM StripeOnce == Spec => []StripeChargesOnce
  <1>1. Init => OneIntent
    BY DEF Init, OneIntent, NoCharge
  <1>2. Inv /\ OneIntent /\ [Next]_vars => OneIntent'
    BY ChargeStep, KeysExpire, OneChargeOneIntent
  <1>3. OneIntent => StripeChargesOnce
    BY DEF OneIntent, StripeChargesOnce
  <1>. QED
    BY <1>1, <1>2, <1>3, Invariant, PTL DEF Spec

-----------------------------------------------------------------------------
(* The routes implement the sale.                                          *)

LEMMA SaleSells ==
  ASSUME Inv, Sale
  PROVE  \E b \in Baskets, ps \in SUBSET Products : P!Sell(b, ps)
  <1>1. PICK q \in Request :
          /\ Commit(q) /\ q.basket \in Baskets
          /\ q.order # {} /\ order[q.basket] = {}
          /\ Free(q.order) \/ q.basket \in Paid
          /\ UNCHANGED charge
    BY DEF Sale
  <1>2. order' = [order EXCEPT ![q.basket] = q.order]
    BY <1>1 DEF Commit, Inv, TypeOK
  <1>3. UNCHANGED Paid
    BY <1>1 DEF Paid
  <1>4. q.order \in SUBSET Products
    BY DEF Request
  <1>5. P!Sell(q.basket, q.order)
    BY <1>1, <1>2, <1>3 DEF P!Sell, Free
  <1>. QED
    BY <1>1, <1>4, <1>5

LEMMA ChargePays ==
  ASSUME Inv, NEW t \in Charges, OneCharge(t), UNCHANGED order
  PROVE  UNCHANGED <<Paid, order>> \/ \E b \in Baskets : P!Pay(b)
  <1>1. \A u \in Charges \ {t} : charge'[u] = charge[u]
    BY DEF OneCharge
  <1>2. CASE charge'[t].state = "taken" /\ charge'[t].basket \in Baskets
    <2>1. Paid' = Paid \cup {charge'[t].basket}
      BY <1>1, <1>2 DEF Paid, OneCharge
    <2>. QED
      BY <1>2, <2>1 DEF P!Pay
  <1>3. CASE ~(charge'[t].state = "taken" /\ charge'[t].basket \in Baskets)
    BY <1>1, <1>3 DEF Paid, OneCharge
  <1>. QED
    BY <1>2, <1>3

LEMMA StepSells ==
  ASSUME Inv, [Next]_vars
  PROVE  [P!Next]_<<Paid, order>>
  <1>1. CASE Sale
    BY <1>1, SaleSells DEF P!Next
  <1>2. CASE NoSale /\ UNCHANGED charge
    BY <1>2 DEF NoSale, Paid
  <1>3. ASSUME NEW t \in Charges, OneCharge(t), NoSale
        PROVE  [P!Next]_<<Paid, order>>
    BY <1>3, ChargePays DEF NoSale, P!Next
  <1>. QED
    BY <1>1, <1>2, <1>3, OrderStep, ChargeStep

(* However the eight routes interleave, crash and are retried, what they   *)
(* do to the payments and the orders is the sale of module Purchase: an    *)
(* order number is used once, for products that never change, and not      *)
(* before its payment (checkout/mixins.py, management/utils.py).           *)
THEOREM Implements == Spec => Sells
  <1>1. Init => P!Init
    BY DEF Init, P!Init, Paid, NoCharge
  <1>2. Inv /\ [Next]_vars => [P!Next]_<<Paid, order>>
    BY StepSells
  <1>. QED
    BY <1>1, <1>2, Invariant, PTL DEF Spec, Sells, P!Spec
===============================================================================
