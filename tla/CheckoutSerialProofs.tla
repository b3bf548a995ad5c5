------------------------- MODULE CheckoutSerialProofs -------------------------
(***************************************************************************)
(* What holds of Checkout when the requests come one after another, along  *)
(* every route and whatever fails in them.                                 *)
(***************************************************************************)
EXTENDS CheckoutProofs

(* Runs of the one request there is never overlap.                         *)
OneAtATime == \A r, s \in Requests : r = s

(* A basket the customer may still fill.                                   *)
Fillable == {Absent, Open}

(* A payment that is asked for only once its basket is frozen.             *)
AskedFrozen(t) == charge[t].via \in {"paypal", "store"}

(* What a request knows of its basket.                                     *)
Stays(q) ==
  /\ q.status \in {Unsaved, Frozen, Submitted}
  /\ q.phase # "idle" /\ q.route # "repair" => q.basket \notin declined
  /\ q.phase \in {"loaded", "frozen"} =>
       /\ q.txn <=> q.route \notin {"api", "paypal"}
       /\ q.route \in {"cart", "rest"} => status[q.basket] \in Fillable
       /\ q.lines = lines[q.basket]
  /\ q.phase = "frozen" /\ q.route = "api" => status[q.basket] \notin Fillable
  /\ q.phase = "loaded" /\ q.route \in {"paypal", "store"} =>
       charge[q.charge].via = q.route

ClosedInv ==
  /\ OrderedStaysClosed
  /\ \A b \in Baskets : status[b] = Absent => order[b] = {}
  /\ \A b \in declined : status[b] \notin Fillable /\ lines[b] = {}
  /\ \A t \in Charges : AskedFrozen(t) =>
       /\ charge[t].basket \notin declined
       /\ status[charge[t].basket] \notin Fillable
       /\ lines[charge[t].basket] \in {{}, charge[t].lines}
  /\ \A r \in Requests : Stays(req[r])

LEMMA StatusesDistinct ==
  /\ {Frozen, Merged, Submitted, Deleted} \cap Fillable = {}
  /\ Unsaved \notin {Absent, Open, Frozen, Merged, Submitted, Deleted}
  /\ Open # Absent /\ Submitted # Frozen
  /\ Frozen # Absent /\ Submitted # Absent /\ Frozen # Unsaved
  /\ {Frozen, Submitted, Deleted, Absent} \cap {Open, Merged} = {}
  BY DEF Fillable, Absent, Open, Frozen, Merged, Submitted, Deleted, Unsaved

LEMMA NoRequestStays == Stays(NoRequest) /\ Stays(NoRequest)'
  BY DEF Stays, NoRequest

LEMMA Alone ==
  ASSUME OneAtATime, TypeOK, NEW r \in Requests, NEW p, req' = [req EXCEPT ![r] = p]
  PROVE  \A s \in Requests : s = r /\ req'[s] = p
  BY DEF OneAtATime, TypeOK

LEMMA AllStay ==
  ASSUME OneAtATime, TypeOK, NEW r \in Requests, NEW p,
         req' = [req EXCEPT ![r] = p], Stays(p)'
  PROVE  \A s \in Requests : Stays(req[s])'
  <1>1. \A s \in Requests : req'[s] = p
    BY Alone
  <1>2. ASSUME NEW s \in Requests PROVE Stays(req[s])'
    <2>1. req'[s] = p
      BY <1>1
    <2>. QED
      BY <2>1 DEF Stays
  <1>. QED
    BY <1>2

(* A payment asked for on a frozen basket is an old one, or a new one for  *)
(* the lines a frozen basket has.                                          *)
KeepsAsked ==
  \A t \in Charges : AskedFrozen(t)' =>
    \/ /\ AskedFrozen(t) /\ charge'[t].basket = charge[t].basket
       /\ charge'[t].lines = charge[t].lines
    \/ /\ charge'[t].basket \in Baskets \ declined
       /\ status[charge'[t].basket] \notin Fillable
       /\ charge'[t].lines = lines[charge'[t].basket]

(* No declined basket is charged by the step.                              *)
SparesDeclined ==
  \A t \in Charges :
    charge[t].state # "taken" /\ charge'[t].state = "taken"
      => charge'[t].basket \notin declined

(* A commit never puts a basket back into the customer's hands.            *)
LEMMA CommitKeepsClosed ==
  ASSUME OneAtATime, TypeOK, ClosedInv, NEW r \in Requests, NEW q \in Request,
         Commit(q), q.basket \in Baskets, q.status \in {Unsaved, Frozen, Submitted},
         q.order # {} => q.status = Submitted,
         KeepsAsked, UNCHANGED declined,
         NEW p, req' = [req EXCEPT ![r] = p], Stays(p)'
  PROVE  ClosedInv'
  <1>1. /\ \A b \in Baskets :
             \/ status'[b] = status[b] /\ order'[b] = order[b]
             \/ status'[b] \in {Frozen, Submitted}
        /\ UNCHANGED lines
    BY StatusesDistinct DEF Commit
  <1>2. \A b \in Baskets : status[b] \notin Fillable => status'[b] \notin Fillable
    BY <1>1, StatusesDistinct
  <1>3. OrderedStaysClosed'
    BY <1>1, StatusesDistinct DEF ClosedInv, OrderedStaysClosed
  <1>4. \A b \in Baskets : status'[b] = Absent => order'[b] = {}
    <2>1. \A b \in Baskets : status[b] = Absent => order[b] = {}
      BY DEF ClosedInv
    <2>2. Frozen # Absent /\ Submitted # Absent
      BY StatusesDistinct
    <2>. QED
      BY <1>1, <2>1, <2>2
  <1>5. \A b \in declined' : status'[b] \notin Fillable /\ lines'[b] = {}
    BY <1>1, <1>2 DEF ClosedInv, TypeOK
  <1>6. ASSUME NEW t \in Charges, AskedFrozen(t)'
        PROVE  /\ charge'[t].basket \notin declined'
               /\ status'[charge'[t].basket] \notin Fillable
               /\ lines'[charge'[t].basket] \in {{}, charge'[t].lines}
    <2>1. charge'[t].basket \in Baskets \/ AskedFrozen(t)
      BY <1>6 DEF KeepsAsked
    <2>2. AskedFrozen(t) => charge[t].basket \in Baskets
      BY ChargeType DEF AskedFrozen, NoCharge
    <2>. QED
      BY <1>1, <1>2, <1>6, <2>1, <2>2 DEF KeepsAsked, ClosedInv
  <1>7. \A s \in Requests : Stays(req[s])'
    BY AllStay
  <1>. QED
    BY <1>3, <1>4, <1>5, <1>6, <1>7 DEF ClosedInv

LEMMA MoveKeepsClosed ==
  ASSUME OneAtATime, TypeOK, ClosedInv, NEW r \in Requests,
         UNCHANGED <<status, lines, order, declined>>, KeepsAsked,
         NEW p, req' = [req EXCEPT ![r] = p], Stays(p)'
  PROVE  ClosedInv'
  <1>1. OrderedStaysClosed'
    BY DEF ClosedInv, OrderedStaysClosed
  <1>2. \A t \in Charges : AskedFrozen(t)' =>
          /\ charge'[t].basket \notin declined'
          /\ status'[charge'[t].basket] \notin Fillable
          /\ lines'[charge'[t].basket] \in {{}, charge'[t].lines}
    BY DEF KeepsAsked, ClosedInv
  <1>3. \A s \in Requests : Stays(req[s])'
    BY AllStay
  <1>. QED
    BY <1>1, <1>2, <1>3 DEF ClosedInv

LEMMA AbortKeepsClosed ==
  ASSUME OneAtATime, TypeOK, ClosedInv, NEW r \in Requests, Abort(r),
         UNCHANGED declined, KeepsAsked
  PROVE  ClosedInv'
  BY NoRequestStays, MoveKeepsClosed DEF Abort, db

LEMMA EndKeepsClosed ==
  ASSUME OneAtATime, TypeOK, ClosedInv, NEW r \in Requests, NEW q \in Request,
         End(r, q), q.basket \in Baskets, q.status \in {Unsaved, Frozen, Submitted},
         q.order # {} => q.status = Submitted,
         UNCHANGED declined, KeepsAsked
  PROVE  ClosedInv'
  BY NoRequestStays, CommitKeepsClosed DEF End

LEMMA SaveKeepsClosed ==
  ASSUME OneAtATime, TypeOK, ClosedInv, NEW r \in Requests, NEW q \in Request,
         Save(r, q), q.basket \in Baskets, q.status \in {Unsaved, Frozen, Submitted},
         q.order # {} => q.status = Submitted,
         UNCHANGED declined, KeepsAsked,
         q.route # "repair" => q.basket \notin declined, q.phase # "loaded",
         q.phase = "frozen" =>
           /\ q.txn <=> q.route \notin {"api", "paypal"}
           /\ q.route \in {"cart", "rest"} => status[q.basket] \in Fillable
           /\ q.lines = lines[q.basket]
           /\ q.route = "api" => q.status = Frozen
  PROVE  ClosedInv'
  <1>1. CASE q.txn
    <2>1. Stays(q)'
      BY <1>1 DEF Save, Stays, db
    <2>. QED
      BY <1>1, <2>1, MoveKeepsClosed DEF Save, db
  <1>2. CASE ~q.txn
    <2>1. PICK p \in Request :
            p = [q EXCEPT !.status = Unsaved, !.order = {}, !.recorded = {}]
      BY DEF Request
    <2>2. /\ p.status = Unsaved /\ p.phase = q.phase /\ p.route = q.route
          /\ p.basket = q.basket /\ p.txn = q.txn /\ p.lines = q.lines
      BY <2>1 DEF Request
    <2>3. UNCHANGED lines /\ (q.status = Frozen => status'[q.basket] = Frozen)
      BY <1>2, StatusesDistinct DEF Save, Commit
    <2>4. Stays(p)'
      BY <1>2, <2>2, <2>3, StatusesDistinct DEF Stays
    <2>. QED
      BY <1>2, <2>1, <2>4, CommitKeepsClosed DEF Save
  <1>. QED
    BY <1>1, <1>2

-----------------------------------------------------------------------------
(* The payments a handler takes are for its own basket.                    *)

LEMMA SameCharges ==
  ASSUME UNCHANGED charge
  PROVE  KeepsAsked /\ SparesDeclined
  BY DEF KeepsAsked, SparesDeclined, AskedFrozen

LEMMA TakenSpares ==
  ASSUME TypeOK, NEW r \in Requests, NEW t \in Charges, Taken(r, t),
         req[r].route \notin {"paypal", "store"}, req[r].basket \notin declined
  PROVE  KeepsAsked /\ SparesDeclined
  <1>1. /\ charge'[t].basket = req[r].basket /\ charge'[t].via = req[r].route
        /\ \A u \in Charges \ {t} : charge'[u] = charge[u]
    BY DEF Taken, TypeOK
  <1>. QED
    BY <1>1 DEF KeepsAsked, SparesDeclined, AskedFrozen

LEMMA ExecutedSpares ==
  ASSUME TypeOK, NEW t \in Charges, charge[t].state = "created",
         charge[t].basket \notin declined, NEW ps,
         \/ charge' = [charge EXCEPT ![t].state = "taken"]
         \/ /\ charge' = [charge EXCEPT ![t].state = "taken", ![t].lines = ps]
            /\ charge[t].via = "stripe" \/ ps = charge[t].lines
  PROVE  KeepsAsked /\ SparesDeclined
  <1>1. charge[t] \in Charge \ {NoCharge}
    BY DEF TypeOK, NoCharge
  <1>2. /\ \/ charge'[t] = [charge[t] EXCEPT !.state = "taken"]
           \/ /\ charge'[t] = [charge[t] EXCEPT !.state = "taken", !.lines = ps]
              /\ charge[t].via = "stripe" \/ ps = charge[t].lines
        /\ \A u \in Charges \ {t} : charge'[u] = charge[u]
    BY DEF TypeOK
  <1>3. /\ charge'[t].basket = charge[t].basket /\ charge'[t].via = charge[t].via
        /\ charge[t].via = "stripe" \/ charge'[t].lines = charge[t].lines
    BY <1>1, <1>2 DEF Charge
  <1>. QED
    BY <1>2, <1>3 DEF KeepsAsked, SparesDeclined, AskedFrozen

LEMMA HandleSpares ==
  ASSUME Inv, NEW r \in Requests, Handle(r), Stays(req[r])
  PROVE  KeepsAsked /\ SparesDeclined
  <1>0. req[r] \in Request /\ Sound(req[r]) /\ TypeOK
    BY DEF Inv, TypeOK
  <1>1. ASSUME NEW t \in Charges,
               RestAccepted(r, t) \/ ApplePayAccepted(r, t)
        PROVE  KeepsAsked /\ SparesDeclined
    <2>1. /\ Taken(r, t) /\ req[r].route \in {"rest", "applepay"}
          /\ req[r].phase # "idle"
      BY <1>0, <1>1 DEF RestAccepted, ApplePayAccepted, Request
    <2>. QED
      BY <1>0, <2>1, TakenSpares DEF Stays
  <1>2. CASE IntentConfirmed(r)
    <2>1. req[r].charge \in Charges
      BY <1>0, <1>2 DEF IntentConfirmed, Sound
    <2>. QED
      BY <1>0, <1>2, <2>1, TakenSpares DEF IntentConfirmed, Stays
  <1>3. CASE PaymentExecuted(r)
    <2>1. /\ req[r].charge \in Charges
          /\ charge[req[r].charge].basket = req[r].basket
      BY <1>0, <1>3, NoOneIsNothing DEF PaymentExecuted, Sound
    <2>. QED
      BY <1>0, <1>3, <2>1, ExecutedSpares DEF PaymentExecuted, Stays
  <1>4. ASSUME NEW t \in Charges, LostAnswer(r, t) PROVE KeepsAsked /\ SparesDeclined
    <2>1. CASE Taken(r, t) /\ req[r].route \in {"rest", "applepay"}
               /\ req[r].phase # "idle"
      BY <1>0, <2>1, TakenSpares DEF Stays
    <2>2. CASE
             /\ req[r].phase = "loaded" /\ req[r].route \in {"stripe", "paypal"}
             /\ t = req[r].charge /\ charge[t].state = "created"
             /\ charge' = [charge EXCEPT ![t].state = "taken",
                  ![t].lines = IF req[r].route = "stripe" THEN req[r].lines ELSE @]
      <3>1. /\ charge[t].basket = req[r].basket
            /\ req[r].route = "stripe" => charge[t].via = "stripe"
        BY <1>0, <2>2, NoOneIsNothing DEF Sound
      <3>2. charge[t].basket \notin declined
        BY <2>2, <3>1 DEF Stays
      <3>3. PICK ps :
              /\ ps = IF req[r].route = "stripe" THEN req[r].lines
                      ELSE charge[t].lines
              /\ charge' = [charge EXCEPT ![t].state = "taken", ![t].lines = ps]
        BY <2>2 DEF Inv, TypeOK
      <3>4. charge[t].via = "stripe" \/ ps = charge[t].lines
        BY <3>1, <3>3
      <3>5. t \in Charges /\ charge[t].state = "created"
        BY <2>2
      <3>. QED
        BY <1>0, <3>2, <3>3, <3>4, <3>5, ExecutedSpares
    <2>. QED
      BY <1>0, <1>4, <2>1, <2>2 DEF LostAnswer, Request
  <1>5. ASSUME NEW t \in Charges, ApiAnswers(r, t) PROVE KeepsAsked /\ SparesDeclined
    <2>1. CASE UNCHANGED charge
      BY <2>1, SameCharges
    <2>2. CASE charge' = [charge EXCEPT ![t] =
                 [basket |-> req[r].basket, lines |-> req[r].lines, via |-> "paypal",
                  state |-> "created"]]
      <3>1. /\ charge'[t].basket = req[r].basket /\ charge'[t].lines = req[r].lines
            /\ charge'[t].state = "created"
            /\ \A u \in Charges \ {t} : charge'[u] = charge[u]
        BY <1>0, <2>2 DEF TypeOK
      <3>2. /\ req[r].basket \in Baskets \ declined
            /\ status[req[r].basket] \notin Fillable
            /\ req[r].lines = lines[req[r].basket]
        BY <1>0, <1>5 DEF ApiAnswers, Sound, Stays
      <3>. QED
        BY <3>1, <3>2 DEF KeepsAsked, SparesDeclined, AskedFrozen
    <2>. QED
      BY <1>5, <2>1, <2>2 DEF ApiAnswers
  <1>. QED
    BY <1>1, <1>2, <1>3, <1>4, <1>5, SameCharges
    DEF Handle, CartSave, Freeze, RestDeclined, RestDuplicate, RecordPayment,
        ReceiptAccepted, Refused, Place, PlaceFails, ApiFails, Start, StartFails,
        Finish

-----------------------------------------------------------------------------
(* Every step of a handler keeps the invariant.                            *)

(* What is known of a request that is being handled.                       *)
LEMMA Known ==
  ASSUME Inv, ClosedInv, NEW r \in Requests
  PROVE  /\ TypeOK /\ req[r] \in Request /\ Sound(req[r]) /\ Stays(req[r])
         /\ req[r].status \in {Unsaved, Frozen, Submitted}
         /\ req[r].order # {} => req[r].status = Submitted
         /\ req[r].phase # "idle" => req[r].basket \in Baskets
         /\ req[r].phase \notin {"placed", "started"} => req[r].order = {}
  BY DEF Inv, ClosedInv, TypeOK, Stays, Sound

(* The handler goes on to a phase in which it no longer relies on its      *)
(* basket's row.                                                           *)
LEMMA GoOnKeepsClosed ==
  ASSUME OneAtATime, Inv, ClosedInv, NEW r \in Requests, NEW q \in Request,
         Save(r, q), req[r].phase # "idle",
         q.basket = req[r].basket, q.route = req[r].route,
         q.phase \notin {"idle", "loaded", "frozen"},
         q.status \in {req[r].status, Submitted},
         q.order # {} => q.status = Submitted,
         UNCHANGED declined, KeepsAsked
  PROVE  ClosedInv'
  <1>1. /\ q.status \in {Unsaved, Frozen, Submitted} /\ q.basket \in Baskets
        /\ q.route # "repair" => q.basket \notin declined
    BY Known DEF Stays
  <1>. QED
    BY <1>1, Known, SaveKeepsClosed

LEMMA AnswerKeepsClosed ==
  ASSUME OneAtATime, Inv, ClosedInv, NEW r \in Requests, End(r, req[r]),
         req[r].phase # "idle", UNCHANGED declined, KeepsAsked
  PROVE  ClosedInv'
  BY Known, EndKeepsClosed

LEMMA FreezeKeepsClosed ==
  ASSUME OneAtATime, Inv, ClosedInv, NEW r \in Requests, Freeze(r), KeepsAsked
  PROVE  ClosedInv'
  <1>. DEFINE ps == IF req[r].route = "api" THEN lines[req[r].basket]
                    ELSE req[r].lines
  <1>0. /\ req[r].phase = "loaded" /\ req[r].route \in {"rest", "free", "api"}
        /\ req[r].basket \in Baskets /\ req[r].order = {}
        /\ req[r].basket \notin declined
        /\ ps \in SUBSET Products /\ ps = lines[req[r].basket]
        /\ req[r].txn <=> req[r].route # "api"
        /\ req[r].route = "rest" => status[req[r].basket] \in Fillable
    BY Known DEF Freeze, TypeOK, Stays
  <1>1. Save(r, [req[r] EXCEPT !.status = Frozen, !.lines = ps,
                               !.phase = IF Free(ps) THEN "paid" ELSE "frozen"])
    BY DEF Freeze
  <1>. HIDE DEF ps
  <1>2. req[r] \in Request
    BY Known
  <1>3. PICK q \in Request :
          q = [req[r] EXCEPT !.status = Frozen, !.lines = ps,
                             !.phase = IF Free(ps) THEN "paid" ELSE "frozen"]
    BY <1>0, <1>2, StatusTypes DEF Request
  <1>4. /\ q.phase \in {"paid", "frozen"} /\ q.status = Frozen
        /\ q.order = {} /\ q.route = req[r].route /\ q.lines = ps
        /\ q.basket = req[r].basket /\ (q.txn <=> req[r].txn)
    BY <1>0, <1>2, <1>3 DEF Request
  <1>5. /\ q.txn <=> q.route \notin {"api", "paypal"}
        /\ q.route \in {"cart", "rest"} => status[q.basket] \in Fillable
        /\ q.lines = lines[q.basket]
    BY <1>0, <1>4
  <1>6. Save(r, q) /\ UNCHANGED declined
    BY <1>1, <1>3 DEF Freeze
  <1>. QED
    BY <1>0, <1>4, <1>5, <1>6, Known, SaveKeepsClosed

LEMMA RestAcceptedKeepsClosed ==
  ASSUME OneAtATime, Inv, ClosedInv, NEW r \in Requests, NEW t \in Charges,
         RestAccepted(r, t) \/ RestDuplicate(r, t), KeepsAsked
  PROVE  ClosedInv'
  <1>0. /\ req[r] \in Request /\ req[r].phase = "frozen"
        /\ req[r].basket \in Baskets /\ req[r].order = {}
        /\ lines[req[r].basket] \in SUBSET Products
    BY Known DEF RestAccepted, RestDuplicate, TypeOK
  <1>1. PICK p \in Request : p = [req[r] EXCEPT !.recorded = {t}]
    BY <1>0 DEF Request
  <1>2. PICK q \in Request :
          q = [p EXCEPT !.phase = "paid", !.charge = t, !.lines = lines[p.basket]]
    BY <1>0, <1>1 DEF Request
  <1>3. PICK d \in Request :
          d = [req[r] EXCEPT !.phase = "paid", !.charge = t,
                             !.lines = lines[req[r].basket]]
    BY <1>0 DEF Request
  <1>4. /\ p.basket = req[r].basket /\ p.status = req[r].status /\ p.order = {}
        /\ q.basket = req[r].basket /\ q.status = req[r].status /\ q.order = {}
        /\ d.basket = req[r].basket /\ d.status = req[r].status /\ d.order = {}
        /\ q.route = req[r].route /\ d.route = req[r].route
        /\ q.phase = "paid" /\ d.phase = "paid"
    BY <1>0, <1>1, <1>2, <1>3 DEF Request
  <1>5. /\ Save(r, q) \/ End(r, p) \/ End(r, req[r]) \/ Save(r, d)
        /\ UNCHANGED declined
    BY <1>1, <1>2, <1>3 DEF RestAccepted, RestDuplicate
  <1>6. CASE Save(r, q)
    BY <1>0, <1>4, <1>5, <1>6, GoOnKeepsClosed
  <1>7. CASE Save(r, d)
    BY <1>0, <1>4, <1>5, <1>7, GoOnKeepsClosed
  <1>8. CASE End(r, p)
    BY <1>0, <1>4, <1>5, <1>8, Known, EndKeepsClosed
  <1>9. CASE End(r, req[r])
    BY <1>0, <1>5, <1>9, AnswerKeepsClosed
  <1>. QED
    BY <1>5, <1>6, <1>7, <1>8, <1>9

LEMMA PaidKeepsClosed ==
  ASSUME OneAtATime, Inv, ClosedInv, NEW r \in Requests, KeepsAsked,
         \/ \E t \in Charges : ApplePayAccepted(r, t)
         \/ IntentConfirmed(r) \/ PaymentExecuted(r) \/ RecordPayment(r)
         \/ ReceiptAccepted(r) \/ Place(r)
  PROVE  ClosedInv'
  <1>0. req[r] \in Request /\ Sound(req[r])
    BY Known
  <1>1. req[r].phase \in {"loaded", "charged", "paid"} /\ UNCHANGED declined
        /\ req[r].order = {}
    BY Known DEF ApplePayAccepted, IntentConfirmed, PaymentExecuted,
          RecordPayment, ReceiptAccepted, Place
  <1>2. ASSUME NEW t \in Charges, ApplePayAccepted(r, t) PROVE ClosedInv'
    <2>1. PICK q \in Request :
            q = [req[r] EXCEPT !.phase = "paid", !.charge = t, !.recorded = {t}]
      BY <1>0 DEF Request
    <2>2. /\ q.phase = "paid" /\ q.order = {} /\ q.status = req[r].status
          /\ q.basket = req[r].basket /\ q.route = req[r].route
      BY <1>0, <1>1, <2>1 DEF Request
    <2>3. Save(r, q)
      BY <1>2, <2>1 DEF ApplePayAccepted
    <2>. QED
      BY <1>1, <2>2, <2>3, GoOnKeepsClosed
  <1>3. CASE IntentConfirmed(r) \/ ReceiptAccepted(r)
    <2>1. req[r].charge \in Charges
      BY <1>0, <1>3 DEF IntentConfirmed, ReceiptAccepted, Sound
    <2>2. PICK q \in Request :
            q = [req[r] EXCEPT !.phase = "paid", !.recorded = {req[r].charge}]
      BY <1>0, <2>1 DEF Request
    <2>3. /\ q.phase = "paid" /\ q.order = {} /\ q.status = req[r].status
          /\ q.basket = req[r].basket /\ q.route = req[r].route
      BY <1>0, <1>1, <2>2 DEF Request
    <2>4. Save(r, q)
      BY <1>3, <2>2 DEF IntentConfirmed, ReceiptAccepted
    <2>. QED
      BY <1>1, <2>3, <2>4, GoOnKeepsClosed
  <1>4. CASE PaymentExecuted(r)
    <2>1. req[r].charge \in Charges
      BY <1>0, <1>4 DEF PaymentExecuted, Sound
    <2>2. PICK q \in Request :
            q = [req[r] EXCEPT !.phase = "charged", !.txn = TRUE,
                               !.recorded = {req[r].charge}]
      BY <1>0, <2>1 DEF Request
    <2>3. /\ q.phase = "charged" /\ q.order = {} /\ q.status = req[r].status
          /\ q.basket = req[r].basket /\ q.route = req[r].route
      BY <1>0, <1>1, <2>2 DEF Request
    <2>4. Save(r, q)
      BY <1>4, <2>2 DEF PaymentExecuted
    <2>. QED
      BY <1>1, <2>3, <2>4, GoOnKeepsClosed
  <1>5. CASE RecordPayment(r)
    <2>1. PICK q \in Request : q = [req[r] EXCEPT !.phase = "paid", !.txn = FALSE]
      BY <1>0 DEF Request
    <2>2. /\ q.phase = "paid" /\ q.order = {} /\ q.status = req[r].status
          /\ q.basket = req[r].basket /\ q.route = req[r].route
      BY <1>0, <1>1, <2>1 DEF Request
    <2>3. Save(r, q)
      BY <1>5, <2>1 DEF RecordPayment
    <2>. QED
      BY <1>1, <2>2, <2>3, GoOnKeepsClosed
  <1>6. CASE Place(r)
    <2>1. PICK q \in Request :
            q = [req[r] EXCEPT !.phase = "placed", !.order = req[r].lines,
                               !.status = Submitted]
      BY <1>0, StatusTypes DEF Request
    <2>2. /\ q.phase = "placed" /\ q.status = Submitted
          /\ q.basket = req[r].basket /\ q.route = req[r].route
      BY <1>0, <2>1 DEF Request
    <2>3. Save(r, q)
      BY <1>6, <2>1 DEF Place
    <2>. QED
      BY <1>1, <2>2, <2>3, GoOnKeepsClosed
  <1>. QED
    BY <1>2, <1>3, <1>4, <1>5, <1>6

(* What a step may do to the rows of basket b: the customer fills it, or   *)
(* it is closed with the lines it has or with none.                        *)
Filled(b) ==
  /\ status[b] \in Fillable /\ status'[b] = Open /\ b \notin declined'

Closed(b) ==
  /\ \/ status'[b] \in {status[b], Frozen, Deleted}
     \/ status[b] \in Fillable /\ status'[b] = Merged /\ lines'[b] = {}
  /\ lines'[b] \in {lines[b], {}}
  /\ b \in declined' =>
       \/ b \in declined
       \/ status[b] \in Fillable /\ status'[b] = Merged /\ lines'[b] = {}

LEMMA RowsKeepClosed ==
  ASSUME TypeOK, TypeOK', ClosedInv, UNCHANGED order,
         \A b \in Baskets : Filled(b) \/ Closed(b),
         \A t \in Charges : AskedFrozen(t)' =>
           \/ /\ AskedFrozen(t) /\ charge'[t].basket = charge[t].basket
              /\ charge'[t].lines = charge[t].lines
           \/ /\ charge'[t].basket \in Baskets \ declined'
              /\ status'[charge'[t].basket] \notin Fillable
              /\ charge'[t].lines = lines'[charge'[t].basket],
         \A s \in Requests : Stays(req[s])'
  PROVE  ClosedInv'
  <1>0. \A b \in Baskets : status[b] \in Fillable =>
          /\ order[b] = {} /\ b \notin declined
          /\ \A t \in Charges : AskedFrozen(t) => charge[t].basket # b
    BY StatusesDistinct DEF ClosedInv, OrderedStaysClosed, Fillable
  <1>1. OrderedStaysClosed'
    BY <1>0, StatusesDistinct DEF Filled, Closed, ClosedInv, OrderedStaysClosed
  <1>2. \A b \in Baskets : status'[b] = Absent => order'[b] = {}
    BY <1>0, StatusesDistinct DEF Filled, Closed, ClosedInv, Fillable
  <1>3. \A b \in declined' : status'[b] \notin Fillable /\ lines'[b] = {}
    BY <1>0, StatusesDistinct DEF Filled, Closed, ClosedInv, TypeOK
  <1>4. ASSUME NEW t \in Charges, AskedFrozen(t)'
        PROVE  /\ charge'[t].basket \notin declined'
               /\ status'[charge'[t].basket] \notin Fillable
               /\ lines'[charge'[t].basket] \in {{}, charge'[t].lines}
    <2>1. CASE /\ AskedFrozen(t) /\ charge'[t].basket = charge[t].basket
               /\ charge'[t].lines = charge[t].lines
      <3>1. charge[t].basket \in Baskets
        BY <2>1, ChargeType DEF AskedFrozen, NoCharge
      <3>2. /\ status[charge[t].basket] \notin Fillable
            /\ charge[t].basket \notin declined
            /\ lines[charge[t].basket] \in {{}, charge[t].lines}
        BY <2>1 DEF ClosedInv
      <3>3. Closed(charge[t].basket)
        BY <3>1, <3>2 DEF Filled
      <3>4. status'[charge[t].basket] \notin Fillable
        BY <3>2, <3>3, StatusesDistinct DEF Closed
      <3>5. charge[t].basket \notin declined'
        BY <3>2, <3>3, StatusesDistinct DEF Closed
      <3>. QED
        BY <2>1, <3>2, <3>3, <3>4, <3>5 DEF Closed
    <2>. QED
      BY <1>4, <2>1
  <1>. QED
    BY <1>1, <1>2, <1>3, <1>4 DEF ClosedInv

LEMMA CartSaveKeepsClosed ==
  ASSUME OneAtATime, Inv, ClosedInv, NEW r \in Requests, NEW ps \in SUBSET Products,
         CartSave(r, ps), TypeOK'
  PROVE  ClosedInv'
  <1>1. /\ TypeOK /\ req[r].phase = "loaded" /\ req[r].basket \in Baskets
        /\ status[req[r].basket] \in Fillable /\ req[r].basket \notin declined
        /\ \A s \in Requests : Stays(req[s])'
    BY Known, NoRequestStays, AllStay DEF CartSave, Stays
  <1>2. \A b \in Baskets : Filled(b) \/ Closed(b)
    BY <1>1 DEF CartSave, Filled, Closed, TypeOK
  <1>. QED
    BY <1>1, <1>2, RowsKeepClosed DEF CartSave, AskedFrozen

LEMMA RestDeclinedKeepsClosed ==
  ASSUME OneAtATime, Inv, ClosedInv, NEW r \in Requests, NEW new \in Baskets,
         RestDeclined(r, new), TypeOK'
  PROVE  ClosedInv'
  <1>1. /\ TypeOK /\ req[r].basket \in Baskets /\ new # req[r].basket
        /\ status[req[r].basket] \in Fillable /\ status[new] = Absent
        /\ \A s \in Requests : Stays(req[s])'
    BY Known, NoRequestStays, AllStay DEF RestDeclined, Stays, Fresh
  <1>2. new \notin declined'
    BY <1>1 DEF ClosedInv, RestDeclined, Fillable
  <1>3. \A b \in Baskets : Filled(b) \/ Closed(b)
    BY <1>1, <1>2 DEF RestDeclined, Filled, Closed, TypeOK, Fillable
  <1>. QED
    BY <1>1, <1>3, RowsKeepClosed DEF RestDeclined, AskedFrozen

LEMMA FailKeepsClosed ==
  ASSUME OneAtATime, Inv, ClosedInv, NEW r \in Requests, Fail(r), TypeOK',
         req[r].phase # "idle", UNCHANGED <<charge, declined>>
  PROVE  ClosedInv'
  <1>0. TypeOK /\ KeepsAsked /\ req[r].basket \in Baskets
    BY Known, SameCharges
  <1>1. CASE Abort(r)
    BY <1>0, <1>1, AbortKeepsClosed
  <1>2. CASE End(r, req[r])
    BY <1>0, <1>2, AnswerKeepsClosed
  <1>3. CASE /\ status' = [status EXCEPT ![req[r].basket] = Deleted]
             /\ lines' = [lines EXCEPT ![req[r].basket] = {}]
             /\ req' = [req EXCEPT ![r] = NoRequest]
             /\ UNCHANGED <<order, recorded>>
    <2>1. \A s \in Requests : Stays(req[s])'
      BY <1>0, <1>3, NoRequestStays, AllStay
    <2>2. \A b \in Baskets : Filled(b) \/ Closed(b)
      BY <1>0, <1>3 DEF Closed, TypeOK
    <2>. QED
      BY <1>0, <1>3, <2>1, <2>2, RowsKeepClosed DEF AskedFrozen
  <1>. QED
    BY <1>1, <1>2, <1>3 DEF Fail

LEMMA StartKeepsClosed ==
  ASSUME OneAtATime, Inv, ClosedInv, NEW r \in Requests, Start(r)
  PROVE  ClosedInv'
  <1>1. /\ TypeOK /\ req[r] \in Request /\ Stays(req[r]) /\ KeepsAsked
        /\ req[r].phase = "placed" /\ UNCHANGED <<db, charge, declined>>
    BY Known, SameCharges DEF Start
  <1>2. PICK p \in Request : p = [req[r] EXCEPT !.phase = "started"]
    BY <1>1 DEF Request
  <1>3. /\ p.phase = "started" /\ p.route = req[r].route
        /\ p.basket = req[r].basket /\ p.status = req[r].status
    BY <1>1, <1>2 DEF Request
  <1>4. Stays(p)'
    BY <1>1, <1>3 DEF Stays
  <1>5. req' = [req EXCEPT ![r] = p]
    BY <1>2 DEF Start
  <1>. QED
    BY <1>1, <1>4, <1>5, MoveKeepsClosed DEF db

LEMMA HandleKeepsClosed ==
  ASSUME OneAtATime, Inv, ClosedInv, NEW r \in Requests, Handle(r), TypeOK'
  PROVE  ClosedInv' /\ SparesDeclined
  <1>0. /\ req[r] \in Request /\ TypeOK /\ KeepsAsked /\ SparesDeclined
    BY Known, HandleSpares
  <1>1. ASSUME NEW t \in Charges, LostAnswer(r, t) \/ ApiAnswers(r, t)
        PROVE  ClosedInv'
    <2>1. /\ End(r, req[r]) \/ Abort(r)
          /\ req[r].phase # "idle" /\ UNCHANGED declined
      BY <1>0, <1>1 DEF LostAnswer, ApiAnswers, Request
    <2>. QED
      BY <1>0, <2>1, AnswerKeepsClosed, AbortKeepsClosed
  <1>2. CASE Refused(r) \/ Finish(r)
    <2>1. /\ End(r, req[r]) /\ req[r].phase # "idle" /\ UNCHANGED declined
      BY <1>0, <1>2 DEF Refused, Finish, Request
    <2>. QED
      BY <1>0, <2>1, AnswerKeepsClosed
  <1>3. CASE PlaceFails(r) \/ ApiFails(r) \/ StartFails(r)
    <2>1. Fail(r) /\ req[r].phase # "idle" /\ UNCHANGED <<charge, declined>>
      BY <1>3 DEF PlaceFails, ApiFails, StartFails
    <2>. QED
      BY <1>0, <2>1, FailKeepsClosed
  <1>. QED
    BY <1>0, <1>1, <1>2, <1>3, CartSaveKeepsClosed, FreezeKeepsClosed,
       RestDeclinedKeepsClosed, RestAcceptedKeepsClosed, PaidKeepsClosed,
       StartKeepsClosed DEF Handle

LEMMA LoadKeepsClosed ==
  ASSUME OneAtATime, Inv, ClosedInv, NEW r \in Requests, NEW rt \in AllRoutes,
         NEW b \in Baskets, NEW t, NEW inTxn \in BOOLEAN,
         NEW ph \in {"loaded", "paid"}, Load(r, ph, rt, inTxn, b, t),
         rt # "repair" => b \notin declined,
         ph = "loaded" =>
           /\ inTxn <=> rt \notin {"api", "paypal"}
           /\ rt \in {"cart", "rest"} => status[b] \in Fillable
           /\ rt \in {"paypal", "store"} => charge[t].via = rt
  PROVE  ClosedInv'
  <1>1. PICK p :
          p = [NoRequest EXCEPT !.phase = ph, !.route = rt, !.txn = inTxn,
                 !.basket = b, !.lines = lines[b], !.charge = t]
    OBVIOUS
  <1>2. /\ p.phase = ph /\ p.route = rt /\ (p.txn <=> inTxn) /\ p.basket = b
        /\ p.lines = lines[b] /\ p.charge = t /\ p.status = Unsaved
    BY <1>1 DEF NoRequest
  <1>3. /\ req' = [req EXCEPT ![r] = p] /\ UNCHANGED <<db, charge, declined>>
    BY <1>1 DEF Load
  <1>4. Stays(p)'
    BY <1>2, <1>3 DEF Stays, db
  <1>. QED
    BY <1>3, <1>4, Known, SameCharges, MoveKeepsClosed DEF db

LEMMA BeginKeepsClosed ==
  ASSUME OneAtATime, Inv, ClosedInv, NEW r \in Requests, Begin(r), TypeOK'
  PROVE  ClosedInv' /\ SparesDeclined
  <1>. USE DEF AllRoutes, OpenBaskets
  <1>0. /\ TypeOK /\ \A b \in declined : status[b] \notin Fillable /\ lines[b] = {}
        /\ \A t \in Charges : AskedFrozen(t) => charge[t].basket \notin declined
    BY DEF Inv, ClosedInv
  <1>1. ASSUME NEW b \in Baskets, CartLoad(r, b) PROVE ClosedInv'
    <2>1. status[b] \in Fillable
      BY <1>1 DEF CartLoad, Fresh, Fillable
    <2>. QED
      BY <1>0, <1>1, <2>1, LoadKeepsClosed DEF CartLoad
  <1>2. ASSUME NEW b \in Baskets, NEW rt \in Routes, LoadOpen(r, rt, b)
        PROVE  ClosedInv'
    <2>1. status[b] \in Fillable /\ b \notin declined
      BY <1>0, <1>2 DEF LoadOpen, Fillable
    <2>2. /\ Load(r, "loaded", rt, TRUE, b, NoOne)
          /\ rt \in {"rest", "applepay", "free"}
      BY <1>2 DEF LoadOpen
    <2>. QED
      BY <2>1, <2>2, LoadKeepsClosed
  <1>3. ASSUME NEW b \in Baskets, NEW t \in Charges, LoadFrozen(r, b, t)
        PROVE  ClosedInv'
    BY <1>3, LoadKeepsClosed DEF LoadFrozen
  <1>4. ASSUME NEW t \in Charges,
               LoadIntent(r, t) \/ LoadPayment(r, t) \/ LoadReceipt(r, t)
        PROVE  ClosedInv'
    <2>0. charge[t].via \in {"stripe", "paypal", "store"}
      BY <1>4 DEF LoadIntent, LoadPayment, LoadReceipt
    <2>1. charge[t].basket \in Baskets
      BY <1>0, <2>0, ChargeType DEF NoCharge
    <2>2. charge[t].basket \notin declined
      BY <1>0, <1>4 DEF LoadIntent, LoadPayment, LoadReceipt, AskedFrozen
    <2>. QED
      BY <1>4, <2>1, <2>2, LoadKeepsClosed DEF LoadIntent, LoadPayment, LoadReceipt
  <1>5. ASSUME NEW b \in Baskets, NEW ps \in SUBSET Products, ApiCreate(r, b, ps)
        PROVE  ClosedInv'
    <2>1. PICK p : p = [NoRequest EXCEPT !.phase = "loaded", !.route = "api",
                                         !.basket = b, !.lines = ps]
      OBVIOUS
    <2>2. /\ p.phase = "loaded" /\ p.route = "api" /\ p.basket = b
          /\ p.lines = ps /\ p.status = Unsaved /\ ~p.txn
      BY <2>1 DEF NoRequest
    <2>3. /\ req' = [req EXCEPT ![r] = p]
          /\ status' = [status EXCEPT ![b] = Open]
          /\ lines' = [lines EXCEPT ![b] = ps]
          /\ UNCHANGED <<order, charge, declined>>
          /\ status[b] \in Fillable
      BY <1>5, <2>1 DEF ApiCreate, Fresh, Fillable
    <2>4. b \notin declined /\ lines'[b] = ps
      BY <1>0, <2>3 DEF TypeOK
    <2>5. Stays(p)'
      BY <2>2, <2>3, <2>4 DEF Stays
    <2>6. \A s \in Requests : Stays(req[s])'
      BY <1>0, <2>3, <2>5, AllStay
    <2>7. \A c \in Baskets : Filled(c) \/ Closed(c)
      BY <1>0, <2>3, <2>4 DEF Filled, Closed, TypeOK
    <2>. QED
      BY <1>0, <2>3, <2>6, <2>7, RowsKeepClosed DEF AskedFrozen
  <1>6. SparesDeclined
    BY SameCharges DEF Begin, CartLoad, LoadOpen, ApiCreate, LoadFrozen, LoadIntent,
       LoadPayment, LoadReceipt, Load
  <1>. QED
    BY <1>1, <1>2, <1>3, <1>4, <1>5, <1>6 DEF Begin

LEMMA IdleStays ==
  ASSUME OneAtATime, Inv, ClosedInv, Idle, UNCHANGED req
  PROVE  \A s \in Requests : Stays(req[s])'
  <1>1. \A s \in Requests : req[s].phase = "idle" /\ Stays(req[s])
    BY DEF Idle, OneAtATime, ClosedInv
  <1>2. ASSUME NEW s \in Requests PROVE Stays(req[s])'
    <2>1. req'[s] = req[s] /\ req[s].phase = "idle" /\ Stays(req[s])
      BY <1>1
    <2>. QED
      BY <2>1 DEF Stays
  <1>. QED
    BY <1>2

LEMMA SameKeepsClosed ==
  ASSUME TypeOK, TypeOK', ClosedInv, UNCHANGED <<db, charge, declined, req>>
  PROVE  ClosedInv' /\ SparesDeclined
  <1>1. /\ UNCHANGED <<order, charge, declined>>
        /\ UNCHANGED <<status, lines, req>>
    BY DEF db
  <1>2. \A s \in Requests : Stays(req[s])'
    BY <1>1 DEF ClosedInv, Stays
  <1>3. \A b \in Baskets : Closed(b)
    BY <1>1 DEF Closed
  <1>. QED
    BY <1>1, <1>2, <1>3, RowsKeepClosed, SameCharges DEF AskedFrozen

LEMMA OutsideKeepsClosed ==
  ASSUME OneAtATime, Inv, ClosedInv, Outside, TypeOK'
  PROVE  ClosedInv' /\ SparesDeclined
  <1>0. /\ TypeOK /\ \A b \in declined : status[b] \notin Fillable /\ lines[b] = {}
        /\ declined \subseteq Baskets
    BY DEF Inv, ClosedInv, TypeOK
  <1>1. ASSUME NEW b \in Baskets, NEW old \in Baskets, MergeOpenBaskets(b, old)
        PROVE  ClosedInv' /\ SparesDeclined
    <2>1. \A s \in Requests : Stays(req[s])'
      BY <1>1, IdleStays DEF MergeOpenBaskets
    <2>2. \A c \in Baskets : Filled(c) \/ Closed(c)
      BY <1>0, <1>1 DEF MergeOpenBaskets, OpenBaskets, Filled, Closed, TypeOK,
         Fillable
    <2>. QED
      BY <1>0, <1>1, <2>1, <2>2, RowsKeepClosed, SameCharges
      DEF MergeOpenBaskets, AskedFrozen
  <1>2. ASSUME NEW b \in Baskets, FreezeForStore(b) \/ RepairFulfils(b)
        PROVE  ClosedInv' /\ SparesDeclined
    <2>1. \A s \in Requests : Stays(req[s])'
      BY <1>2, IdleStays DEF FreezeForStore, RepairFulfils
    <2>2. \A c \in Baskets : Filled(c) \/ Closed(c)
      BY <1>0, <1>2 DEF FreezeForStore, RepairFulfils, Closed, TypeOK, db
    <2>3. UNCHANGED <<order, charge, declined>>
      BY <1>2 DEF FreezeForStore, RepairFulfils, db
    <2>. QED
      BY <1>0, <2>1, <2>2, <2>3, RowsKeepClosed, SameCharges DEF AskedFrozen
  <1>3. ASSUME NEW b \in Baskets, NEW t \in Charges,
               \/ CreateIntent(b, t) \/ CreatePayment(b, t)
               \/ StoreTakesMoney(b, t)
        PROVE  ClosedInv' /\ SparesDeclined
    <2>1. /\ b \notin declined /\ UNCHANGED <<order, lines, declined>>
          /\ charge[t].state = "none" /\ UNCHANGED req
      BY <1>0, <1>3 DEF CreateIntent, CreatePayment, StoreTakesMoney, db,
         UnusedCharge
    <2>2. PICK rt \in {"stripe", "paypal", "store"}, st \in {"created", "taken"} :
            charge' = [charge EXCEPT ![t] = [basket |-> b, lines |-> lines[b],
                                             via |-> rt, state |-> st]]
      BY <1>3 DEF CreateIntent, CreatePayment, StoreTakesMoney
    <2>3. /\ charge'[t].basket = b /\ charge'[t].lines = lines[b]
          /\ charge'[t].via = rt
          /\ \A u \in Charges \ {t} : charge'[u] = charge[u]
      BY <1>0, <2>2 DEF TypeOK
    <2>4. rt \in {"paypal", "store"} => status'[b] \notin Fillable
      <3>1. CASE CreateIntent(b, t)
        BY <1>0, <2>3, <3>1 DEF CreateIntent, TypeOK
      <3>2. CASE CreatePayment(b, t)
        BY <1>0, <3>2, StatusesDistinct DEF CreatePayment, TypeOK
      <3>3. CASE StoreTakesMoney(b, t)
        BY <1>0, <3>3, StatusesDistinct DEF StoreTakesMoney, TypeOK, db
      <3>. QED
        BY <1>3, <3>1, <3>2, <3>3
    <2>5. SparesDeclined
      BY <2>1, <2>3 DEF SparesDeclined
    <2>6. \A c \in Baskets : Filled(c) \/ Closed(c)
      BY <1>0, <1>3, <2>1 DEF CreateIntent, CreatePayment, StoreTakesMoney, Closed,
         TypeOK, db
    <2>7. \A s \in Requests : Stays(req[s])'
      <3>1. CASE Idle
        BY <2>1, <3>1, IdleStays
      <3>2. CASE StoreTakesMoney(b, t)
        <4>. SUFFICES ASSUME NEW s \in Requests PROVE Stays(req[s])'
          OBVIOUS
        <4>1. /\ req'[s] = req[s] /\ Stays(req[s]) /\ Sound(req[s])
              /\ UNCHANGED <<status, lines, declined>>
          BY <2>1, <3>2 DEF StoreTakesMoney, db, ClosedInv, Inv
        <4>2. req[s].phase = "loaded" /\ req[s].route \in {"paypal", "store"} =>
                charge'[req[s].charge] = charge[req[s].charge]
          BY <2>1, <2>3, <4>1, NoOneIsNothing DEF Sound
        <4>. QED
          BY <4>1, <4>2 DEF Stays
      <3>. QED
        BY <1>3, <3>1, <3>2 DEF CreateIntent, CreatePayment
    <2>8. \A u \in Charges : AskedFrozen(u)' =>
            \/ /\ AskedFrozen(u) /\ charge'[u].basket = charge[u].basket
               /\ charge'[u].lines = charge[u].lines
            \/ /\ charge'[u].basket \in Baskets \ declined'
               /\ status'[charge'[u].basket] \notin Fillable
               /\ charge'[u].lines = lines'[charge'[u].basket]
      BY <2>1, <2>3, <2>4 DEF AskedFrozen
    <2>. QED
      BY <1>0, <2>1, <2>5, <2>6, <2>7, <2>8, RowsKeepClosed
  <1>4. ASSUME NEW b \in Baskets, NEW t \in Charges,
               ReturnIntent(b, t)
        PROVE  ClosedInv' /\ SparesDeclined
    BY <1>0, <1>4, SameKeepsClosed DEF ReturnIntent
  <1>5. ASSUME NEW t \in Charges, ForgetKey(t) PROVE ClosedInv' /\ SparesDeclined
    BY <1>0, <1>5, SameKeepsClosed DEF ForgetKey
  <1>. QED
    BY <1>1, <1>2, <1>3, <1>4, <1>5 DEF Outside

LEMMA NextKeepsClosed ==
  ASSUME OneAtATime, Inv, Inv', ClosedInv, [Next]_vars
  PROVE  ClosedInv' /\ SparesDeclined
  <1>0. TypeOK /\ TypeOK'
    BY DEF Inv
  <1>1. ASSUME NEW r \in Requests, Crash(r) PROVE ClosedInv' /\ SparesDeclined
    BY <1>0, <1>1, AbortKeepsClosed, SameCharges DEF Crash
  <1>2. CASE UNCHANGED vars
    BY <1>0, <1>2, SameKeepsClosed DEF vars, db
  <1>. QED
    BY <1>0, <1>1, <1>2, OutsideKeepsClosed, BeginKeepsClosed, HandleKeepsClosed
    DEF Next

LEMMA ClosedInductive ==
  ASSUME OneAtATime
  PROVE  Spec => [](Inv /\ ClosedInv)
  <1>1. Init => ClosedInv
    BY NoRequestStays, NoOneIsNothing
    DEF Init, ClosedInv, OrderedStaysClosed, AskedFrozen, NoCharge
  <1>2. Inv /\ Inv' /\ ClosedInv /\ [Next]_vars => ClosedInv'
    BY NextKeepsClosed
  <1>. QED
    BY <1>1, <1>2, Invariant, PTL DEF Spec

(* When requests come one after another, a basket whose order exists is    *)
(* never open again and its lines turn up in no other basket, along every  *)
(* route and whatever fails: freeze() and submit() only close baskets, and *)
(* only baskets without an order are merged (basket/models.py,             *)
(* basket/utils.py).                                                       *)
THEOREM SerialOrderedClosed ==
  ASSUME OneAtATime
  PROVE  Spec => []OrderedStaysClosed
  <1>1. ClosedInv => OrderedStaysClosed
    BY DEF ClosedInv
  <1>. QED
    BY <1>1, ClosedInductive, PTL

(* The order number of a basket whose payment was declined is never        *)
(* charged afterwards: its lines have moved to a new basket, with a new    *)
(* number, before the handler answers (payment/views/cybersource.py).      *)
THEOREM SerialDeclinedSpared ==
  ASSUME OneAtATime
  PROVE  Spec => DeclinedNotCharged
  <1>1. Inv /\ Inv' /\ ClosedInv /\ [Next]_vars =>
          [\A t \in Charges :
             charge[t].state # "taken" /\ charge'[t].state = "taken"
               => charge'[t].basket \notin declined]_vars
    BY NextKeepsClosed DEF SparesDeclined
  <1>. QED
    BY <1>1, ClosedInductive, PTL DEF Spec, DeclinedNotCharged

-----------------------------------------------------------------------------
(* The order is for the products that were paid for.                       *)

Matched(b, ps) ==
  \/ Free(ps)
  \/ \E t \in Charges : /\ charge[t].basket = b /\ charge[t].state = "taken"
                        /\ charge[t].lines = ps

MatchInv ==
  /\ \A b \in Baskets : Matched(b, order[b])
  /\ \A r \in Requests :
       /\ req[r].phase \in {"charged", "paid"} => Matched(req[r].basket, req[r].lines)
       /\ req[r].order # {} => Matched(req[r].basket, req[r].order)

LEMMA NothingMatches == ASSUME NEW b PROVE Matched(b, {}) /\ Matched(b, {})'
  BY DEF Matched, Free

LEMMA MatchStays ==
  ASSUME Inv, [Next]_vars, NEW b, NEW ps, Matched(b, ps)
  PROVE  Matched(b, ps)'
  <1>1. CASE UNCHANGED charge
    BY <1>1 DEF Matched
  <1>2. ASSUME NEW t \in Charges, OneCharge(t) PROVE Matched(b, ps)'
    BY <1>2 DEF Matched, OneCharge
  <1>. QED
    BY <1>1, <1>2, ChargeStep

LEMMA StepKeepsMatch ==
  ASSUME OneAtATime, Inv, [Next]_vars, MatchInv, NEW r \in Requests, NEW p,
         req' = [req EXCEPT ![r] = p],
         \A b \in Baskets : order'[b] = order[b] \/ Matched(b, order[b])',
         p.phase \in {"charged", "paid"} => Matched(p.basket, p.lines)',
         p.order # {} => Matched(p.basket, p.order)'
  PROVE  MatchInv'
  <1>1. \A s \in Requests : req'[s] = p
    BY Alone DEF Inv
  <1>2. ASSUME NEW b \in Baskets PROVE Matched(b, order[b])'
    <2>1. CASE order'[b] = order[b]
      <3>1. PICK ps : ps = order[b]
        OBVIOUS
      <3>2. Matched(b, ps)
        BY <3>1 DEF MatchInv
      <3>3. Matched(b, ps)'
        BY <3>2, MatchStays
      <3>. QED
        BY <2>1, <3>1, <3>3 DEF Matched
    <2>. QED
      BY <2>1
  <1>3. ASSUME NEW s \in Requests
        PROVE  /\ (req[s].phase \in {"charged", "paid"} =>
                     Matched(req[s].basket, req[s].lines))'
               /\ (req[s].order # {} => Matched(req[s].basket, req[s].order))'
    <2>1. req'[s] = p
      BY <1>1
    <2>. QED
      BY <2>1 DEF Matched
  <1>. QED
    BY <1>2, <1>3 DEF MatchInv

LEMMA CommitMatches ==
  ASSUME TypeOK, NEW q \in Request, Commit(q), q.order # {} => Matched(q.basket, q.order)'
  PROVE  \A b \in Baskets : order'[b] = order[b] \/ Matched(b, order[b])'
  <1>. SUFFICES ASSUME NEW b \in Baskets, order'[b] # order[b]
                PROVE  Matched(b, order[b])'
    OBVIOUS
  <1>1. b = q.basket /\ q.order # {} /\ order'[b] = q.order
    BY DEF Commit, TypeOK
  <1>. QED
    BY <1>1 DEF Matched, Free

LEMMA SaveKeepsMatch ==
  ASSUME OneAtATime, Inv, [Next]_vars, MatchInv, NEW r \in Requests,
         NEW q \in Request, Save(r, q),
         q.phase \in {"charged", "paid"} => Matched(q.basket, q.lines)',
         q.order # {} => Matched(q.basket, q.order)'
  PROVE  MatchInv'
  <1>1. CASE q.txn
    BY <1>1, StepKeepsMatch DEF Save, db
  <1>2. CASE ~q.txn
    <2>1. PICK p \in Request :
            p = [q EXCEPT !.status = Unsaved, !.order = {}, !.recorded = {}]
      BY DEF Request
    <2>2. p.phase = q.phase /\ p.basket = q.basket /\ p.lines = q.lines /\ p.order = {}
      BY <2>1 DEF Request
    <2>3. Commit(q) /\ req' = [req EXCEPT ![r] = p]
      BY <1>2, <2>1 DEF Save
    <2>4. \A b \in Baskets : order'[b] = order[b] \/ Matched(b, order[b])'
      BY <2>3, CommitMatches DEF Inv
    <2>5. p.phase \in {"charged", "paid"} => Matched(p.basket, p.lines)'
      BY <2>2 DEF Matched, Free
    <2>. QED
      BY <2>2, <2>3, <2>4, <2>5, StepKeepsMatch
  <1>. QED
    BY <1>1, <1>2

(* A request that answers or is rolled back.                               *)
LEMMA EndKeepsMatch ==
  ASSUME OneAtATime, Inv, [Next]_vars, MatchInv, NEW r \in Requests,
         req' = [req EXCEPT ![r] = NoRequest],
         \/ UNCHANGED order
         \/ \E q \in Request : /\ Commit(q) /\ q.basket = req[r].basket
                               /\ q.order = req[r].order
  PROVE  MatchInv'
  <1>1. CASE UNCHANGED order
    BY <1>1, StepKeepsMatch DEF NoRequest
  <1>2. ASSUME NEW q \in Request, Commit(q), q.basket = req[r].basket,
               q.order = req[r].order
        PROVE  MatchInv'
    <2>1. q.order # {} => Matched(q.basket, q.order)
      BY <1>2 DEF MatchInv
    <2>2. q.order # {} => Matched(q.basket, q.order)'
      BY <2>1, MatchStays
    <2>3. \A b \in Baskets : order'[b] = order[b] \/ Matched(b, order[b])'
      BY <1>2, <2>2, CommitMatches DEF Inv
    <2>. QED
      BY <2>3, StepKeepsMatch DEF NoRequest
  <1>. QED
    BY <1>1, <1>2

(* A payment has been accepted: the money is for the lines the handler     *)
(* goes on with.                                                           *)
LEMMA PaidKeepsMatch ==
  ASSUME OneAtATime, Inv, [Next]_vars, MatchInv, NEW r \in Requests,
         NEW q \in Request, Save(r, q), req[r].order = {}, q.order = req[r].order,
         NEW t \in Charges, charge'[t].state = "taken", charge'[t].basket = q.basket,
         Free(q.lines) \/ charge'[t].lines = q.lines
  PROVE  MatchInv'
  <1>1. Matched(q.basket, q.lines)'
    BY DEF Matched
  <1>. QED
    BY <1>1, SaveKeepsMatch

LEMMA RestKeepsMatch ==
  ASSUME OneAtATime, Inv, ClosedInv, MatchInv, [Next]_vars, NEW r \in Requests,
         NEW t \in Charges, RestAccepted(r, t) \/ RestDuplicate(r, t)
  PROVE  MatchInv'
  <1>0. /\ req[r] \in Request /\ req[r].phase = "frozen"
        /\ req[r].basket \in Baskets /\ req[r].order = {}
        /\ lines[req[r].basket] \in SUBSET Products
        /\ req[r].lines = lines[req[r].basket]
    BY Known DEF RestAccepted, RestDuplicate, TypeOK, Stays
  <1>1. PICK p \in Request : p = [req[r] EXCEPT !.recorded = {t}]
    BY <1>0 DEF Request
  <1>2. PICK q \in Request :
          q = [p EXCEPT !.phase = "paid", !.charge = t, !.lines = lines[p.basket]]
    BY <1>0, <1>1 DEF Request
  <1>3. PICK d \in Request :
          d = [req[r] EXCEPT !.phase = "paid", !.charge = t,
                             !.lines = lines[req[r].basket]]
    BY <1>0 DEF Request
  <1>4. /\ p.basket = req[r].basket /\ p.order = {}
        /\ q.basket = req[r].basket /\ q.order = {} /\ q.lines = req[r].lines
        /\ d.basket = req[r].basket /\ d.order = {} /\ d.lines = req[r].lines
    BY <1>0, <1>1, <1>2, <1>3 DEF Request
  <1>5. Save(r, q) \/ End(r, p) \/ End(r, req[r]) \/ Save(r, d)
    BY <1>1, <1>2, <1>3 DEF RestAccepted, RestDuplicate
  <1>6. /\ charge'[t].state = "taken" /\ charge'[t].basket = req[r].basket
        /\ charge'[t].lines = req[r].lines
    BY Known DEF RestAccepted, RestDuplicate, Taken, TypeOK
  <1>7. CASE Save(r, q) \/ Save(r, d)
    BY <1>0, <1>4, <1>6, <1>7, PaidKeepsMatch
  <1>8. CASE End(r, p) \/ End(r, req[r])
    BY <1>0, <1>4, <1>8, EndKeepsMatch DEF End
  <1>. QED
    BY <1>5, <1>7, <1>8

LEMMA AcceptedKeepsMatch ==
  ASSUME OneAtATime, Inv, ClosedInv, MatchInv, [Next]_vars, NEW r \in Requests,
         \/ \E t \in Charges : ApplePayAccepted(r, t)
         \/ IntentConfirmed(r) \/ PaymentExecuted(r) \/ ReceiptAccepted(r)
  PROVE  MatchInv'
  <1>0. /\ TypeOK /\ req[r] \in Request /\ Sound(req[r]) /\ Stays(req[r])
        /\ req[r].phase = "loaded" /\ req[r].order = {}
        /\ req[r].lines = lines[req[r].basket] /\ req[r].basket \in Baskets
    BY Known DEF ApplePayAccepted, IntentConfirmed, PaymentExecuted,
          ReceiptAccepted, Stays
  <1>1. ASSUME NEW t \in Charges, ApplePayAccepted(r, t) PROVE MatchInv'
    <2>1. PICK q \in Request :
            q = [req[r] EXCEPT !.phase = "paid", !.charge = t, !.recorded = {t}]
      BY <1>0 DEF Request
    <2>2. q.order = {} /\ q.basket = req[r].basket /\ q.lines = req[r].lines
      BY <1>0, <2>1 DEF Request
    <2>3. Save(r, q)
      BY <1>1, <2>1 DEF ApplePayAccepted
    <2>4. /\ charge'[t].state = "taken" /\ charge'[t].basket = req[r].basket
          /\ charge'[t].lines = req[r].lines
      BY <1>0, <1>1 DEF ApplePayAccepted, Taken, TypeOK
    <2>. QED
      BY <1>0, <2>2, <2>3, <2>4, PaidKeepsMatch
  <1>2. CASE IntentConfirmed(r) \/ ReceiptAccepted(r)
    <2>1. req[r].charge \in Charges
      BY <1>0, <1>2 DEF IntentConfirmed, ReceiptAccepted, Sound
    <2>2. PICK q \in Request :
            q = [req[r] EXCEPT !.phase = "paid", !.recorded = {req[r].charge}]
      BY <1>0, <2>1 DEF Request
    <2>3. q.order = {} /\ q.basket = req[r].basket /\ q.lines = req[r].lines
      BY <1>0, <2>2 DEF Request
    <2>4. Save(r, q)
      BY <1>2, <2>2 DEF IntentConfirmed, ReceiptAccepted
    <2>5. /\ charge'[req[r].charge].state = "taken"
          /\ charge'[req[r].charge].basket = req[r].basket
          /\ Free(req[r].lines) \/ charge'[req[r].charge].lines = req[r].lines
      <3>1. CASE IntentConfirmed(r)
        BY <1>0, <2>1, <3>1 DEF IntentConfirmed, Taken, TypeOK
      <3>2. CASE ReceiptAccepted(r)
        <4>1. /\ charge[req[r].charge].state = "taken"
              /\ charge[req[r].charge].basket = req[r].basket
              /\ AskedFrozen(req[r].charge)
          BY <1>0, <2>1, <3>2, NoOneIsNothing
          DEF ReceiptAccepted, Sound, Stays, AskedFrozen
        <4>2. req[r].lines \in {{}, charge[req[r].charge].lines}
          BY <1>0, <2>1, <4>1 DEF ClosedInv
        <4>. QED
          BY <3>2, <4>1, <4>2 DEF ReceiptAccepted, Free
      <3>. QED
        BY <1>2, <3>1, <3>2
    <2>. QED
      BY <1>0, <2>1, <2>3, <2>4, <2>5, PaidKeepsMatch
  <1>3. CASE PaymentExecuted(r)
    <2>1. req[r].charge \in Charges
      BY <1>0, <1>3 DEF PaymentExecuted, Sound
    <2>2. PICK q \in Request :
            q = [req[r] EXCEPT !.phase = "charged", !.txn = TRUE,
                               !.recorded = {req[r].charge}]
      BY <1>0, <2>1 DEF Request
    <2>3. q.order = {} /\ q.basket = req[r].basket /\ q.lines = req[r].lines
      BY <1>0, <2>2 DEF Request
    <2>4. Save(r, q)
      BY <1>3, <2>2 DEF PaymentExecuted
    <2>5. /\ charge[req[r].charge].basket = req[r].basket
          /\ AskedFrozen(req[r].charge)
      BY <1>0, <1>3, <2>1, NoOneIsNothing DEF PaymentExecuted, Sound, Stays, AskedFrozen
    <2>6. req[r].lines \in {{}, charge[req[r].charge].lines}
      BY <1>0, <2>1, <2>5 DEF ClosedInv
    <2>7. charge[req[r].charge] \in Charge \ {NoCharge}
      BY <1>0, <1>3, <2>1 DEF PaymentExecuted, TypeOK, NoCharge
    <2>8. charge'[req[r].charge] = [charge[req[r].charge] EXCEPT !.state = "taken"]
      BY <1>0, <1>3, <2>1 DEF PaymentExecuted, TypeOK
    <2>9. /\ charge'[req[r].charge].state = "taken"
          /\ charge'[req[r].charge].basket = charge[req[r].charge].basket
          /\ charge'[req[r].charge].lines = charge[req[r].charge].lines
      BY <2>7, <2>8 DEF Charge
    <2>10. Free(req[r].lines) \/ charge'[req[r].charge].lines = req[r].lines
      BY <2>6, <2>9 DEF Free
    <2>. QED
      BY <1>0, <2>1, <2>3, <2>4, <2>5, <2>9, <2>10, PaidKeepsMatch
  <1>. QED
    BY <1>0, <1>1, <1>2, <1>3

LEMMA HandleKeepsMatch ==
  ASSUME OneAtATime, Inv, ClosedInv, MatchInv, [Next]_vars,
         NEW r \in Requests, Handle(r)
  PROVE  MatchInv'
  <1>0. /\ TypeOK /\ req[r] \in Request /\ Sound(req[r]) /\ Stays(req[r])
    BY Known
  <1>1. CASE Freeze(r)
    <2>. DEFINE ps == IF req[r].route = "api" THEN lines[req[r].basket]
                      ELSE req[r].lines
    <2>1. /\ ps \in SUBSET Products /\ req[r].phase = "loaded" /\ req[r].order = {}
      BY <1>0, <1>1, Known DEF Freeze, Request, Sound, TypeOK
    <2>2. Save(r, [req[r] EXCEPT !.status = Frozen, !.lines = ps,
                     !.phase = IF Free(ps) THEN "paid" ELSE "frozen"])
      BY <1>1 DEF Freeze
    <2>. HIDE DEF ps
    <2>3. PICK q \in Request :
            q = [req[r] EXCEPT !.status = Frozen, !.lines = ps,
                   !.phase = IF Free(ps) THEN "paid" ELSE "frozen"]
      BY <1>0, <2>1, StatusTypes DEF Request
    <2>4. q.phase \in {"charged", "paid"} => Free(q.lines)
      BY <1>0, <2>1, <2>3 DEF Request
    <2>5. q.phase \in {"charged", "paid"} => Matched(q.basket, q.lines)'
      BY <2>4 DEF Matched, Free
    <2>6. q.order = {} /\ Save(r, q)
      BY <1>0, <2>1, <2>2, <2>3 DEF Request
    <2>. QED
      BY <2>5, <2>6, SaveKeepsMatch
  <1>2. CASE RecordPayment(r)
    <2>1. PICK q \in Request : q = [req[r] EXCEPT !.phase = "paid", !.txn = FALSE]
      BY <1>0 DEF Request
    <2>2. /\ q.basket = req[r].basket /\ q.lines = req[r].lines
          /\ q.order = req[r].order /\ req[r].phase = "charged"
      BY <1>0, <1>2, <2>1 DEF Request, RecordPayment
    <2>3. Matched(q.basket, q.lines) /\ q.order = {}
      BY <2>2, Known DEF MatchInv
    <2>4. Matched(q.basket, q.lines)'
      BY <2>3, MatchStays
    <2>5. Save(r, q)
      BY <1>2, <2>1 DEF RecordPayment
    <2>. QED
      BY <2>3, <2>4, <2>5, SaveKeepsMatch
  <1>3. CASE Place(r)
    <2>1. PICK q \in Request :
            q = [req[r] EXCEPT !.phase = "placed", !.order = req[r].lines,
                               !.status = Submitted]
      BY <1>0, StatusTypes DEF Request
    <2>2. /\ q.basket = req[r].basket /\ q.order = req[r].lines
          /\ q.phase = "placed" /\ req[r].phase = "paid"
      BY <1>0, <1>3, <2>1 DEF Request, Place
    <2>3. Matched(q.basket, q.order)
      BY <2>2 DEF MatchInv
    <2>4. Matched(q.basket, q.order)'
      BY <2>3, MatchStays
    <2>5. Save(r, q)
      BY <1>3, <2>1 DEF Place
    <2>. QED
      BY <2>2, <2>4, <2>5, SaveKeepsMatch
  <1>4. CASE Start(r)
    <2>1. PICK p \in Request : p = [req[r] EXCEPT !.phase = "started"]
      BY <1>0 DEF Request
    <2>2. /\ p.phase = "started" /\ p.basket = req[r].basket
          /\ p.order = req[r].order
      BY <1>0, <2>1 DEF Request
    <2>3. p.order # {} => Matched(p.basket, p.order)
      BY <2>2 DEF MatchInv
    <2>4. p.order # {} => Matched(p.basket, p.order)'
      BY <2>3, MatchStays
    <2>5. req' = [req EXCEPT ![r] = p] /\ UNCHANGED order
      BY <1>4, <2>1 DEF Start, db
    <2>. QED
      BY <2>2, <2>4, <2>5, StepKeepsMatch
  <1>5. CASE \/ Refused(r) \/ Finish(r) \/ PlaceFails(r) \/ ApiFails(r)
             \/ StartFails(r)
             \/ \E ps \in SUBSET Products : CartSave(r, ps)
             \/ \E b \in Baskets : RestDeclined(r, b)
             \/ \E t \in Charges : LostAnswer(r, t) \/ ApiAnswers(r, t)
    <2>1. /\ req' = [req EXCEPT ![r] = NoRequest]
          /\ UNCHANGED order \/ Commit(req[r])
      BY <1>5 DEF Refused, Finish, PlaceFails, ApiFails, StartFails, CartSave, RestDeclined,
         LostAnswer, ApiAnswers, Fail, End, Abort, db
    <2>. QED
      BY <1>0, <2>1, EndKeepsMatch
  <1>. QED
    BY <1>1, <1>2, <1>3, <1>4, <1>5, RestKeepsMatch, AcceptedKeepsMatch DEF Handle

LEMMA BeginKeepsMatch ==
  ASSUME OneAtATime, ~({"stripe", "repair"} \subseteq Routes), Inv, ClosedInv,
         MatchInv, [Next]_vars, NEW r \in Requests, Begin(r)
  PROVE  MatchInv'
  <1>0. TypeOK
    BY DEF Inv
  <1>1. UNCHANGED order
    BY DEF Begin, CartLoad, LoadOpen, ApiCreate, LoadFrozen, LoadIntent,
       LoadPayment, LoadReceipt, Load, db
  <1>2. ASSUME NEW b \in Baskets, NEW t \in Charges, LoadFrozen(r, b, t)
        PROVE  MatchInv'
    <2>1. PICK p : p = [NoRequest EXCEPT !.phase = "paid", !.route = "repair",
                          !.txn = TRUE, !.basket = b, !.lines = lines[b], !.charge = t]
      OBVIOUS
    <2>2. /\ p.phase = "paid" /\ p.basket = b /\ p.lines = lines[b] /\ p.order = {}
      BY <2>1 DEF NoRequest
    <2>3. req' = [req EXCEPT ![r] = p]
      BY <1>2, <2>1 DEF LoadFrozen, Load
    <2>4. AskedFrozen(t)
      <3>1. charge[t].via \in Routes /\ "repair" \in Routes
        BY <1>0, <1>2, ChargeType DEF LoadFrozen, Load, NoCharge
      <3>. QED
        BY <1>2, <3>1 DEF LoadFrozen, AskedFrozen
    <2>5. charge[t].state = "taken"
      BY <1>2 DEF LoadFrozen, Inv, TakenCharges
    <2>6. p.lines \in {{}, charge[t].lines}
      BY <1>2, <2>2, <2>4 DEF ClosedInv, LoadFrozen
    <2>7. Matched(p.basket, p.lines)
      BY <1>2, <2>2, <2>5, <2>6 DEF Matched, Free, LoadFrozen
    <2>8. Matched(p.basket, p.lines)'
      BY <2>7, MatchStays
    <2>. QED
      BY <1>1, <2>2, <2>3, <2>8, StepKeepsMatch
  <1>3. CASE ~ \E b \in Baskets, t \in Charges : LoadFrozen(r, b, t)
    <2>1. PICK p : p.phase = "loaded" /\ p.order = {} /\ req' = [req EXCEPT ![r] = p]
      <3>1. \E rt, inTxn, b, t :
              \/ Load(r, "loaded", rt, inTxn, b, t)
              \/ \E ps \in SUBSET Products : ApiCreate(r, b, ps)
        BY <1>3 DEF Begin, CartLoad, LoadOpen, LoadFrozen, LoadIntent, LoadPayment,
           LoadReceipt
      <3>2. PICK rt, inTxn, b, t :
              \/ Load(r, "loaded", rt, inTxn, b, t)
              \/ \E ps \in SUBSET Products : ApiCreate(r, b, ps)
        BY <3>1
      <3>. QED
        BY <3>2 DEF Load, ApiCreate, NoRequest
    <2>. QED
      BY <1>1, <2>1, StepKeepsMatch
  <1>. QED
    BY <1>2, <1>3

LEMMA SameKeepsMatch ==
  ASSUME Inv, MatchInv, [Next]_vars, UNCHANGED <<order, req>>
  PROVE  MatchInv'
  <1>1. ASSUME NEW b \in Baskets PROVE Matched(b, order[b])'
    <2>1. PICK ps : ps = order[b]
      OBVIOUS
    <2>2. Matched(b, ps)'
      BY <2>1, MatchStays DEF MatchInv
    <2>. QED
      BY <2>1, <2>2 DEF Matched, Free
  <1>2. ASSUME NEW s \in Requests
        PROVE  /\ (req[s].phase \in {"charged", "paid"} =>
                     Matched(req[s].basket, req[s].lines))'
               /\ (req[s].order # {} => Matched(req[s].basket, req[s].order))'
    <2>1. PICK q : q = req[s]
      OBVIOUS
    <2>2. /\ q.phase \in {"charged", "paid"} => Matched(q.basket, q.lines)
          /\ q.order # {} => Matched(q.basket, q.order)
      BY <2>1 DEF MatchInv
    <2>3. /\ q.phase \in {"charged", "paid"} => Matched(q.basket, q.lines)'
          /\ q.order # {} => Matched(q.basket, q.order)'
      BY <2>2, MatchStays
    <2>4. req'[s] = q
      BY <2>1
    <2>. QED
      BY <2>3, <2>4 DEF Matched, Free
  <1>. QED
    BY <1>1, <1>2 DEF MatchInv

LEMMA NextKeepsMatch ==
  ASSUME OneAtATime, ~({"stripe", "repair"} \subseteq Routes), Inv, ClosedInv,
         MatchInv, [Next]_vars
  PROVE  MatchInv'
  <1>1. CASE Outside \/ UNCHANGED vars
    <2>1. UNCHANGED <<order, req>>
      BY <1>1 DEF Outside, MergeOpenBaskets, CreateIntent, ReturnIntent,
         ForgetKey, CreatePayment, StoreTakesMoney, FreezeForStore, RepairFulfils, db, vars
    <2>. QED
      BY <2>1, SameKeepsMatch
  <1>2. ASSUME NEW r \in Requests, Crash(r) PROVE MatchInv'
    BY <1>2, EndKeepsMatch DEF Crash, Abort, db
  <1>. QED
    BY <1>1, <1>2, BeginKeepsMatch, HandleKeepsMatch DEF Next

(* When requests come one after another, the products of an order are the  *)
(* ones a payment for its number was taken for, although the basket is     *)
(* read again after the payment: a basket is frozen, or not offered to     *)
(* anyone, while its payment is under way.  Stripe and the repair together *)
(* are left out: Stripe takes money for an open basket, and one whose      *)
(* placement failed may be filled again, frozen for another payment and    *)
(* then ordered by the repair with what it holds now                       *)
(* (basket/models.py freeze(), management/utils.py).                       *)
THEOREM SerialOrderMatches ==
  ASSUME OneAtATime, ~({"stripe", "repair"} \subseteq Routes)
  PROVE  Spec => []OrderMatchesCharge
  <1>1. Init => MatchInv
    BY DEF Init, MatchInv, Matched, Free, NoRequest
  <1>2. Inv /\ ClosedInv /\ MatchInv /\ [Next]_vars => MatchInv'
    BY NextKeepsMatch
  <1>3. MatchInv => OrderMatchesCharge
    BY DEF MatchInv, Matched, OrderMatchesCharge
  <1>. QED
    BY <1>1, <1>2, <1>3, ClosedInductive, PTL DEF Spec

===============================================================================
