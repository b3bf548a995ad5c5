------------------------------ MODULE CodesProofs ------------------------------
(***************************************************************************)
(* However orders, assignments and other requests interleave, and whatever *)
(* fails, a code is redeemed only as its usage type allows.  The argument  *)
(* is about the row lock of the voucher: an order not committed yet holds  *)
(* the lock on its code alone, so its code is still available to its       *)
(* learner when it commits.  Nor is a row ever redeemed without an order.  *)
(*                                                                         *)
(* When requests come one after another, redeemed and revoked rows stay    *)
(* so, whoever is nudged holds an open row, and the open rows of a code    *)
(* for one learner are one learner's.  As long as, besides, no order was   *)
(* cut short and no limit was changed, the orders and the open rows of a   *)
(* code stay within its limit, and whoever holds an open row can redeem    *)
(* its code.                                                               *)
(***************************************************************************)
EXTENDS Codes, SumTheorems

(* q has the fields of a request.                                          *)
Fields(q) ==
  DOMAIN q = {"op", "saves", "new", "on", "off", "mail", "code", "user",
              "limit", "uses", "txn"}

Redeeming(q) == q.op \in {"applied", "placed", "recorded"}
Pending(q)   == q.op \in {"placed", "recorded"} /\ q.txn

ShapeInv ==
  /\ DOMAIN req = Requests
  /\ \A r \in Requests :
       /\ Fields(req[r])
       /\ req[r].txn \in BOOLEAN
       /\ Redeeming(req[r]) => req[r].code \in Codes /\ req[r].user \in Users

CountInv == apps \in [Codes -> [Users -> Nat]]

LockInv ==
  /\ \A r \in Requests :
       Pending(req[r]) => Available(req[r].code, req[r].user)
  /\ \A r, s \in Requests :
       Pending(req[r]) /\ Pending(req[s]) /\ req[r].code = req[s].code => r = s

Inv == ShapeInv /\ CountInv /\ LockInv /\ UsageRespected

-----------------------------------------------------------------------------
LEMMA FieldsOfNoRequest ==
  /\ Fields(NoRequest)
  /\ NoRequest.op = "idle"
  /\ NoRequest.txn = TRUE
BY DEF Fields, NoRequest

LEMMA InitInv == Init => Inv
<1> SUFFICES ASSUME Init PROVE Inv OBVIOUS
<1>1. \A r \in Requests : req[r] = NoRequest
  BY DEF Init
<1>2. ShapeInv
  BY <1>1, FieldsOfNoRequest DEF Init, ShapeInv, Redeeming
<1>3. CountInv
  BY DEF Init, CountInv
<1>4. LockInv
  BY <1>1, FieldsOfNoRequest DEF LockInv, Pending
<1>5. UsageRespected
  BY DEF Init, UsageRespected
<1> QED BY <1>2, <1>3, <1>4, <1>5 DEF Inv

(* A step that records no usage and leaves the orders being placed alone.  *)
LEMMA NoUsage ==
  ASSUME Inv, usage' = usage, apps' = apps, ShapeInv',
         \A s \in Requests :
           Pending(req'[s]) =>
             /\ Pending(req[s])
             /\ req'[s].code = req[s].code /\ req'[s].user = req[s].user
  PROVE  Inv'
<1>1. CountInv'
  BY DEF Inv, CountInv
<1>2. UsageRespected'
  BY DEF Inv, UsageRespected
<1>3. \A c, u : Available(c, u)' = Available(c, u)
  BY DEF Available, OneLearner
<1>4. LockInv'
  BY <1>3 DEF Inv, LockInv
<1> QED BY <1>1, <1>2, <1>4 DEF Inv

(* Likewise, when the only request that changes is r, and r ends.          *)
LEMMA Ends ==
  ASSUME Inv, NEW r \in Requests, End(r)
  PROVE  /\ ShapeInv'
         /\ \A s \in Requests : Pending(req'[s]) => s # r /\ req'[s] = req[s]
<1>1. /\ DOMAIN req' = Requests
      /\ req'[r] = NoRequest
      /\ \A s \in Requests \ {r} : req'[s] = req[s]
  BY DEF Inv, ShapeInv, End
<1>2. ~Pending(NoRequest) /\ ~Redeeming(NoRequest)
  BY FieldsOfNoRequest DEF Pending, Redeeming
<1> QED BY <1>1, <1>2, FieldsOfNoRequest DEF Inv, ShapeInv

LEMMA EndsQuietly ==
  ASSUME Inv, NEW r \in Requests, End(r), usage' = usage, apps' = apps
  PROVE  Inv'
BY Ends, NoUsage

(* A request that begins places no order yet.                              *)
LEMMA Begins ==
  ASSUME Inv, NEW r \in Requests, NEW q, Begin(r, q), Fields(q), q.txn = TRUE,
         q.op \notin {"placed", "recorded"},
         q.op = "applied" => q.code \in Codes /\ q.user \in Users
  PROVE  Inv'
<1>1. /\ DOMAIN req' = Requests
      /\ req'[r] = q
      /\ \A s \in Requests \ {r} : req'[s] = req[s]
      /\ usage' = usage /\ apps' = apps
  BY DEF Inv, ShapeInv, Begin, db
<1>2. ShapeInv'
  BY <1>1 DEF Inv, ShapeInv, Redeeming
<1>3. \A s \in Requests :
        Pending(req'[s]) =>
          /\ Pending(req[s])
          /\ req'[s].code = req[s].code /\ req'[s].user = req[s].user
  BY <1>1 DEF Pending
<1> QED BY <1>1, <1>2, <1>3, NoUsage

-----------------------------------------------------------------------------
LEMMA StaffStep ==
  ASSUME Inv, NEW r \in Requests, Staff(r)
  PROVE  Inv'
<1>1. ASSUME NEW us \in UserLists, NEW notice \in Notices,
             NEW plan \in [DOMAIN us -> Codes], Assign(r, us, plan, notice)
      PROVE  Inv'
  <2>1. PICK new, sent, on :
          Begin(r, [NoRequest EXCEPT !.op = "assign", !.new = new,
                                     !.mail = sent, !.on = on])
    BY <1>1, Zenon DEF Assign
  <2> DEFINE x == [NoRequest EXCEPT !.op = "assign", !.new = new,
                                 !.mail = sent, !.on = on]
  <2>2. Fields(x) /\ x.op = "assign" /\ x.txn = TRUE
    BY DEF NoRequest, Fields
  <2>3. Begin(r, x)
    BY <2>1 DEF x
  <2> HIDE DEF x
  <2> QED BY <2>2, <2>3, Begins
<1>2. ASSUME NEW c \in Codes, NEW d \in Codes, NEW u \in Users,
             ReplaceCode(r, c, u, d)
      PROVE  Inv'
  <2>1. PICK sent, new :
          Begin(r, [NoRequest EXCEPT !.op = "assign", !.code = d,
                                     !.mail = sent, !.new = new])
    BY <1>2, Zenon DEF ReplaceCode
  <2> DEFINE x == [NoRequest EXCEPT !.op = "assign", !.code = d,
                                 !.mail = sent, !.new = new]
  <2>2. Fields(x) /\ x.op = "assign" /\ x.txn = TRUE
    BY DEF NoRequest, Fields
  <2>3. Begin(r, x)
    BY <2>1 DEF x
  <2> HIDE DEF x
  <2> QED BY <2>2, <2>3, Begins
<1>3. ASSUME NEW p \in Pairs, NEW q \in Pairs, Revoke(r, {p, q})
      PROVE  Inv'
  <2>1. PICK saves, off :
          Begin(r, [NoRequest EXCEPT !.op = "revoke", !.saves = saves,
                                     !.off = off])
    BY <1>3, Zenon DEF Revoke
  <2> DEFINE x == [NoRequest EXCEPT !.op = "revoke", !.saves = saves,
                                 !.off = off]
  <2>2. Fields(x) /\ x.op = "revoke" /\ x.txn = TRUE
    BY DEF NoRequest, Fields
  <2>3. Begin(r, x)
    BY <2>1 DEF x
  <2> HIDE DEF x
  <2> QED BY <2>2, <2>3, Begins
<1>4. ASSUME NEW p \in Pairs, Remind(r, p)
      PROVE  Inv'
  <2>1. PICK saves :
          Begin(r, [NoRequest EXCEPT !.op = "remind", !.saves = saves])
    BY <1>4, Zenon DEF Remind
  <2> DEFINE x == [NoRequest EXCEPT !.op = "remind", !.saves = saves]
  <2>2. Fields(x) /\ x.op = "remind" /\ x.txn = TRUE
    BY DEF NoRequest, Fields
  <2>3. Begin(r, x)
    BY <2>1 DEF x
  <2> HIDE DEF x
  <2> QED BY <2>2, <2>3, Begins
<1>5. ASSUME NEW n \in Limits \cup {0}, Resize(r, n)
      PROVE  Inv'
  <2>1. PICK new :
          Begin(r, [NoRequest EXCEPT !.op = "resize", !.limit = n,
                                     !.new = new])
    BY <1>5, Zenon DEF Resize
  <2> DEFINE x == [NoRequest EXCEPT !.op = "resize", !.limit = n,
                                 !.new = new]
  <2>2. Fields(x) /\ x.op = "resize" /\ x.txn = TRUE
    BY DEF NoRequest, Fields
  <2>3. Begin(r, x)
    BY <2>1 DEF x
  <2> HIDE DEF x
  <2> QED BY <2>2, <2>3, Begins
<1>6. CASE Commit(r)
  BY <1>6, EndsQuietly DEF Commit
<1> QED BY <1>1, <1>2, <1>3, <1>4, <1>5, <1>6 DEF Staff

LEMMA EmailStep ==
  ASSUME Inv, NEW r \in Requests, Emails(r)
  PROVE  Inv'
<1>1. ASSUME NEW p \in Pairs, DeliveredTooEarly(r, p)
      PROVE  Inv'
  <2>1. /\ DOMAIN req' = Requests
        /\ req'[r] = [req[r] EXCEPT !.mail = @ \ {p}]
        /\ \A s \in Requests \ {r} : req'[s] = req[s]
        /\ usage' = usage /\ apps' = apps
    BY <1>1 DEF Inv, ShapeInv, DeliveredTooEarly, db
  <2>2. /\ Fields(req'[r])
        /\ req'[r].op = req[r].op /\ req'[r].code = req[r].code
        /\ req'[r].user = req[r].user /\ req'[r].txn = req[r].txn
    BY <2>1 DEF Inv, ShapeInv, Fields
  <2>3. ShapeInv'
    BY <2>1, <2>2 DEF Inv, ShapeInv, Redeeming
  <2> QED BY <2>1, <2>2, <2>3, NoUsage DEF Pending
<1>2. ASSUME NEW I \in SUBSET DOMAIN rows, Bounce(r, I)
      PROVE  Inv'
  <2>1. PICK saves :
          Begin(r, [NoRequest EXCEPT !.op = "bounce", !.saves = saves])
    BY <1>2, Zenon DEF Bounce
  <2> DEFINE x == [NoRequest EXCEPT !.op = "bounce", !.saves = saves]
  <2>2. Fields(x) /\ x.op = "bounce" /\ x.txn = TRUE
    BY DEF NoRequest, Fields
  <2>3. Begin(r, x)
    BY <2>1 DEF x
  <2> HIDE DEF x
  <2> QED BY <2>2, <2>3, Begins
<1>3. ASSUME NEW i \in DOMAIN rows, BounceRow(r, i)
      PROVE  Inv'
  <2>1. /\ DOMAIN req' = Requests
        /\ \A s \in Requests \ {r} : req'[s] = req[s]
        /\ usage' = usage /\ apps' = apps
    BY <1>3 DEF Inv, ShapeInv, BounceRow
  <2>2. CASE req'[r] = NoRequest
    <3>1. ShapeInv'
      BY <2>1, <2>2, FieldsOfNoRequest DEF Inv, ShapeInv, Redeeming
    <3> QED BY <2>1, <2>2, <3>1, NoUsage, FieldsOfNoRequest DEF Pending
  <2>3. CASE req'[r] = [req[r] EXCEPT !.saves =
               Restrict(req[r].saves, DOMAIN req[r].saves \ {i})]
    <3>1. /\ Fields(req'[r])
          /\ req'[r].op = req[r].op /\ req'[r].code = req[r].code
          /\ req'[r].user = req[r].user /\ req'[r].txn = req[r].txn
      BY <2>3 DEF Inv, ShapeInv, Fields
    <3>2. ShapeInv'
      BY <2>1, <3>1 DEF Inv, ShapeInv, Redeeming
    <3> QED BY <2>1, <3>1, <3>2, NoUsage DEF Pending
  <2> QED BY <1>3, <2>2, <2>3 DEF BounceRow, Inv, ShapeInv
<1> QED BY <1>1, <1>2, <1>3 DEF Emails

-----------------------------------------------------------------------------
(* An order for an available code respects the code's usage, and takes the *)
(* availability of no other code away.                                     *)
LEMMA Usage ==
  ASSUME Inv, NEW q, q.code \in Codes, q.user \in Users,
         Available(q.code, q.user), RecordUsage(q), usage' = usage
  PROVE  /\ CountInv' /\ UsageRespected'
         /\ \A c \in Codes \ {q.code}, u \in Users :
              Available(c, u) => Available(c, u)'
<1>1. /\ apps \in [Codes -> [Users -> Nat]]
      /\ apps' = [apps EXCEPT ![q.code][q.user] = @ + 1]
  BY DEF Inv, CountInv, RecordUsage
<1>2. /\ CountInv'
      /\ apps'[q.code][q.user] = apps[q.code][q.user] + 1
      /\ \A u \in Users \ {q.user} : apps'[q.code][u] = apps[q.code][u]
      /\ \A c \in Codes \ {q.code} : apps'[c] = apps[c]
      /\ \A c \in Codes, u \in Users : apps[c][u] \in Nat
  BY <1>1 DEF CountInv
<1>3. \A c \in Codes \ {q.code}, u \in Users : Available(c, u) => Available(c, u)'
  BY <1>2 DEF Available, OneLearner
<1>4. ASSUME NEW u \in Users, NEW v \in Users
      PROVE  /\ usage \in {"single", "once per customer"} => apps'[q.code][u] <= 1
             /\ usage \in {"single", "multi per customer"} =>
                  (apps'[q.code][u] > 0 /\ apps'[q.code][v] > 0 => u = v)
  <2>2. usage = "single" => \A w \in Users : apps[q.code][w] = 0
    BY DEF Available
  <2>3. usage = "once per customer" =>
          apps[q.code][q.user] = 0 /\ \A w \in Users : apps[q.code][w] <= 1
    BY DEF Available, Inv, UsageRespected
  <2>4. usage = "multi per customer" =>
          \A w \in Users \ {q.user} : apps[q.code][w] = 0
    BY DEF Available, OneLearner
  <2>5. CASE usage = "single"
    <3>1. /\ apps'[q.code][q.user] = 1
          /\ \A w \in Users \ {q.user} : apps'[q.code][w] = 0
      BY <1>2, <2>2, <2>5
    <3>2. apps'[q.code][u] <= 1
      <4>1. CASE u = q.user
        BY <3>1, <4>1
      <4>2. CASE u # q.user
        BY <3>1, <4>2
      <4> QED BY <4>1, <4>2
    <3>3. apps'[q.code][u] > 0 => u = q.user
      BY <3>1
    <3>4. apps'[q.code][v] > 0 => v = q.user
      BY <3>1
    <3> QED BY <3>2, <3>3, <3>4
  <2>6. CASE usage = "once per customer"
    <3>0. apps[q.code][q.user] = 0
      BY <2>3, <2>6
    <3>1. apps'[q.code][q.user] = 1
      BY <1>2, <3>0
    <3>2. CASE u = q.user
      <4>1. apps'[q.code][u] <= 1
        BY <3>1, <3>2
      <4> QED BY <2>6, <4>1
    <3>3. CASE u # q.user
      <4>1. apps'[q.code][u] = apps[q.code][u]
        BY <1>2, <3>3
      <4>2. apps[q.code][u] <= 1
        BY <2>3, <2>6
      <4> QED BY <2>6, <4>1, <4>2
    <3> QED BY <3>2, <3>3
  <2>7. CASE usage = "multi per customer"
    <3>1. \A w \in Users \ {q.user} : apps'[q.code][w] = 0
      BY <1>2, <2>4, <2>7
    <3>2. apps'[q.code][u] > 0 => u = q.user
      BY <3>1
    <3>3. apps'[q.code][v] > 0 => v = q.user
      BY <3>1
    <3> QED BY <2>7, <3>2, <3>3
  <2> QED BY <2>5, <2>6, <2>7
<1>5. UsageRespected'
  BY <1>2, <1>4 DEF UsageRespected, Inv
<1> QED BY <1>2, <1>3, <1>5

LEMMA PlaceStep ==
  ASSUME Inv, NEW r \in Requests, NEW inTxn \in BOOLEAN, Place(r, inTxn)
  PROVE  Inv'
<1> DEFINE q == req[r]
<1>1. /\ q.op = "applied" /\ Fields(q)
      /\ q.code \in Codes /\ q.user \in Users
      /\ Available(q.code, q.user)
      /\ usage' = usage
  BY DEF Place, Inv, ShapeInv, Redeeming
<1>2. \A s \in Requests \ {r} : Pending(req[s]) => req[s].code # q.code
  BY DEF Place, Locked, Placing, Pending
<1>3. /\ DOMAIN req' = Requests
      /\ req'[r] = [q EXCEPT !.op = "placed", !.txn = inTxn]
      /\ \A s \in Requests \ {r} : req'[s] = req[s]
  BY DEF Place, Inv, ShapeInv
<1>4. /\ Fields(req'[r])
      /\ req'[r].op = "placed" /\ req'[r].txn = inTxn
      /\ req'[r].code = q.code /\ req'[r].user = q.user
  BY <1>1, <1>3 DEF Fields
<1>5. ShapeInv'
  BY <1>1, <1>3, <1>4 DEF Inv, ShapeInv, Redeeming
<1>6. CASE inTxn
  <2>1. apps' = apps
    BY <1>6 DEF Place
  <2>2. CountInv' /\ UsageRespected'
    BY <1>1, <2>1 DEF Inv, CountInv, UsageRespected
  <2>3. \A c, u : Available(c, u)' = Available(c, u)
    BY <1>1, <2>1 DEF Available, OneLearner
  <2>4. \A s \in Requests : Pending(req'[s]) => s = r \/ Pending(req[s])
    BY <1>3
  <2>5. LockInv'
    <3>0. LockInv
      BY DEF Inv
    <3>1. ASSUME NEW s \in Requests, Pending(req'[s])
          PROVE  Available(req[s].code, req[s].user)'
      <4>1. CASE s = r
        BY <1>1, <1>4, <2>3, <4>1
      <4>2. CASE s # r
        BY <1>3, <2>3, <2>4, <3>0, <3>1, <4>2 DEF LockInv
      <4> QED BY <4>1, <4>2
    <3>2. ASSUME NEW s \in Requests, NEW w \in Requests,
                 Pending(req'[s]), Pending(req'[w]), req'[s].code = req'[w].code
          PROVE  s = w
      <4>1. CASE s = r /\ w # r
        <5>1. Pending(req[w]) /\ req'[w] = req[w]
          BY <1>3, <3>2, <4>1
        <5> QED BY <1>2, <1>4, <3>2, <4>1, <5>1
      <4>2. CASE s # r /\ w = r
        <5>1. Pending(req[s]) /\ req'[s] = req[s]
          BY <1>3, <3>2, <4>2
        <5> QED BY <1>2, <1>4, <3>2, <4>2, <5>1
      <4>3. CASE s # r /\ w # r
        BY <1>3, <2>4, <3>0, <3>2, <4>3 DEF LockInv
      <4> QED BY <4>1, <4>2, <4>3
    <3> QED BY <3>1, <3>2 DEF LockInv
  <2> QED BY <1>5, <2>2, <2>5 DEF Inv
<1>7. CASE ~inTxn
  <2>1. RecordUsage(q)
    BY <1>7 DEF Place
  <2>2. /\ CountInv' /\ UsageRespected'
        /\ \A c \in Codes \ {q.code}, u \in Users :
             Available(c, u) => Available(c, u)'
    BY <1>1, <2>1, Usage
  <2>3. \A s \in Requests :
          Pending(req'[s]) =>
            /\ s # r /\ req'[s] = req[s]
            /\ req[s].code \in Codes \ {q.code} /\ req[s].user \in Users
    BY <1>2, <1>3, <1>4, <1>7 DEF Pending, Inv, ShapeInv, Redeeming
  <2>4. LockInv'
    BY <2>2, <2>3 DEF Inv, LockInv
  <2> QED BY <1>5, <2>2, <2>4 DEF Inv
<1> QED BY <1>6, <1>7

(* A pending order that commits.                                           *)
LEMMA OrderCommits ==
  ASSUME Inv, NEW r \in Requests, Pending(req[r]), End(r), usage' = usage,
         RecordUsage(req[r])
  PROVE  Inv'
<1>1. /\ req[r].code \in Codes /\ req[r].user \in Users
      /\ Available(req[r].code, req[r].user)
  BY DEF Pending, Redeeming, Inv, ShapeInv, LockInv
<1>2. /\ CountInv' /\ UsageRespected'
      /\ \A c \in Codes \ {req[r].code}, u \in Users :
           Available(c, u) => Available(c, u)'
  BY <1>1, Usage
<1>3. /\ ShapeInv'
      /\ \A s \in Requests : Pending(req'[s]) => s # r /\ req'[s] = req[s]
  BY Ends
<1>4. \A s \in Requests :
        Pending(req'[s]) =>
          /\ req'[s] = req[s]
          /\ req[s].code \in Codes \ {req[r].code} /\ req[s].user \in Users
  BY <1>3 DEF Inv, LockInv, ShapeInv, Redeeming, Pending
<1>5. LockInv'
  BY <1>2, <1>3, <1>4 DEF Inv, LockInv
<1> QED BY <1>2, <1>3, <1>5 DEF Inv

LEMMA LearnerStep ==
  ASSUME Inv, NEW r \in Requests, Learner(r)
  PROVE  Inv'
<1>1. ASSUME NEW c \in Codes, NEW u \in Users, Apply(r, c, u)
      PROVE  Inv'
  <2>1. PICK n :
          Begin(r, [NoRequest EXCEPT !.op = "applied", !.code = c, !.user = u,
                                     !.uses = n])
    BY <1>1, Zenon DEF Apply
  <2> DEFINE x == [NoRequest EXCEPT !.op = "applied", !.code = c, !.user = u,
                                 !.uses = n]
  <2>2. Fields(x) /\ x.op = "applied" /\ x.txn = TRUE /\ x.code = c /\ x.user = u
    BY DEF NoRequest, Fields
  <2>3. Begin(r, x)
    BY <2>1 DEF x
  <2> HIDE DEF x
  <2> QED BY <2>2, <2>3, Begins
<1>2. ASSUME NEW inTxn \in BOOLEAN, Place(r, inTxn)
      PROVE  Inv'
  BY <1>2, PlaceStep
<1>3. CASE RecordRedemption(r)
  <2>1. PICK saves, new, off :
          req' = [req EXCEPT ![r].op = "recorded", ![r].saves = saves,
                             ![r].new = new, ![r].off = off]
    BY <1>3 DEF RecordRedemption
  <2>2. /\ DOMAIN req' = Requests
        /\ req'[r] = [req[r] EXCEPT !.op = "recorded", !.saves = saves,
                                    !.new = new, !.off = off]
        /\ \A s \in Requests \ {r} : req'[s] = req[s]
    BY <2>1 DEF Inv, ShapeInv
  <2>3. /\ Fields(req'[r])
        /\ req'[r].op = "recorded" /\ req'[r].code = req[r].code
        /\ req'[r].user = req[r].user /\ req'[r].txn = req[r].txn
    BY <2>2 DEF Inv, ShapeInv, Fields
  <2>4. req[r].op = "placed" /\ usage' = usage /\ apps' = apps
    BY <1>3 DEF RecordRedemption, db
  <2>5. ShapeInv'
    BY <2>2, <2>3, <2>4 DEF Inv, ShapeInv, Redeeming
  <2> QED BY <2>2, <2>3, <2>4, <2>5, NoUsage DEF Pending
<1>4. CASE CloseOrder(r)
  <2>1. CASE req[r].txn
    BY <1>4, <2>1, OrderCommits DEF CloseOrder, Pending
  <2>2. CASE ~req[r].txn
    BY <1>4, <2>2, EndsQuietly DEF CloseOrder
  <2> QED BY <2>1, <2>2
<1>5. CASE OrderCutShort(r)
  <2>1. CASE req[r].txn
    BY <1>5, <2>1, OrderCommits DEF OrderCutShort, Pending
  <2>2. CASE ~req[r].txn
    BY <1>5, <2>2, EndsQuietly DEF OrderCutShort
  <2> QED BY <2>1, <2>2
<1> QED BY <1>1, <1>2, <1>3, <1>4, <1>5 DEF Learner

LEMMA NextInv == Inv /\ [Next]_vars => Inv'
<1> SUFFICES ASSUME Inv, [Next]_vars PROVE Inv' OBVIOUS
<1>1. ASSUME NEW r \in Requests, Abandon(r) PROVE Inv'
  BY <1>1, EndsQuietly DEF Abandon, db
<1>2. ASSUME NEW p \in Pairs, Delivered(p) PROVE Inv'
  <2>1. req' = req /\ usage' = usage /\ apps' = apps
    BY <1>2 DEF Delivered
  <2>2. ShapeInv'
    BY <2>1 DEF Inv, ShapeInv
  <2> QED BY <2>1, <2>2, NoUsage
<1>3. CASE UNCHANGED vars
  <2>1. req' = req /\ usage' = usage /\ apps' = apps
    BY <1>3 DEF vars, db
  <2>2. ShapeInv'
    BY <2>1 DEF Inv, ShapeInv
  <2> QED BY <2>1, <2>2, NoUsage
<1> QED BY <1>1, <1>2, <1>3, StaffStep, EmailStep, LearnerStep DEF Next

(* However requests interleave, fail or crash: a single-use code is        *)
(* redeemed once, a once-per-customer code once by each learner, a code    *)
(* for one learner by one learner (Voucher.is_available_to_user, asked     *)
(* again under the lock).                                                  *)
THEOREM UsageKept == Spec => []UsageRespected
<1>1. Inv => UsageRespected
  BY DEF Inv
<1> QED BY InitInv, NextInv, <1>1, PTL DEF Spec

-----------------------------------------------------------------------------
(* Sequences of rows.                                                      *)

(* flatten joins the first sequences of ss.                                *)
Flattens(it, ss, n) ==
  it = [i \in 1..n |-> IF i = 1 THEN ss[i] ELSE it[i - 1] \o ss[i]]

LEMMA FlattensSeq ==
  ASSUME NEW T, NEW ss \in Seq(Seq(T)), NEW n \in Nat, n <= Len(ss),
         NEW it, Flattens(it, ss, n)
  PROVE  \A i \in 1..n : it[i] \in Seq(T)
  <1>. DEFINE Bad == {i \in 1..n : it[i] \notin Seq(T)}
  <1>. SUFFICES ASSUME Bad # {} PROVE FALSE
    OBVIOUS
  <1>1. PICK i \in Bad : \A j \in Bad : ~(j < i)
    <2>1. Bad \subseteq Nat
      OBVIOUS
    <2>. HIDE DEF Bad
    <2>. QED
      BY <2>1, LeastNatural
  <1>2. it[i] = IF i = 1 THEN ss[i] ELSE it[i - 1] \o ss[i]
    BY DEF Flattens
  <1>3. ss[i] \in Seq(T)
    BY <1>1
  <1>4. CASE i = 1
    BY <1>1, <1>2, <1>3, <1>4
  <1>5. CASE i # 1
    <2>1. i - 1 \in 1..n /\ i - 1 < i
      BY <1>1, <1>5
    <2>2. it[i - 1] \in Seq(T)
      BY <1>1, <2>1
    <2>3. it[i - 1] \o ss[i] \in Seq(T)
      BY <1>3, <2>2
    <2>. QED
      BY <1>1, <1>2, <1>5, <2>3
  <1>. QED
    BY <1>4, <1>5

LEMMA FlattensExist ==
  ASSUME NEW ss
  PROVE  \A n \in Nat : \E it : Flattens(it, ss, n)
  <1>. DEFINE Bad == {n \in Nat : ~ \E it : Flattens(it, ss, n)}
  <1>. SUFFICES ASSUME Bad # {} PROVE FALSE
    OBVIOUS
  <1>1. PICK n \in Bad : \A m \in Bad : ~(m < n)
    BY LeastNatural
  <1>2. CASE n = 0
    <2>1. Flattens(<<>>, ss, 0)
      BY DEF Flattens
    <2>. QED
      BY <1>2, <2>1
  <1>3. CASE n # 0
    <2>1. n - 1 \in Nat /\ n - 1 \notin Bad
      BY <1>1, <1>3
    <2>2. PICK it : Flattens(it, ss, n - 1)
      BY <2>1
    <2>. DEFINE jt == [i \in 1..n |-> IF i = 1 THEN ss[i] ELSE it[i - 1] \o ss[i]]
    <2>3. ASSUME NEW i \in 1..(n - 1) PROVE jt[i] = it[i]
      <3>1. it[i] = IF i = 1 THEN ss[i] ELSE it[i - 1] \o ss[i]
        BY <2>2 DEF Flattens
      <3>2. i \in 1..n
        BY <2>1
      <3>. QED
        BY <3>1, <3>2
    <2>4. \A i \in 1..n : jt[i] = IF i = 1 THEN ss[i] ELSE jt[i - 1] \o ss[i]
      <3>. SUFFICES ASSUME NEW i \in 1..n
                    PROVE  jt[i] = IF i = 1 THEN ss[i] ELSE jt[i - 1] \o ss[i]
        OBVIOUS
      <3>1. i # 1 => i - 1 \in 1..(n - 1)
        OBVIOUS
      <3>. QED
        BY <2>3, <3>1
    <2>5. jt = [i \in 1..n |-> jt[i]]
      OBVIOUS
    <2>. HIDE DEF jt
    <2>6. Flattens(jt, ss, n)
      BY <2>4, <2>5 DEF Flattens
    <2>. QED
      BY <2>6
  <1>. QED
    BY <1>2, <1>3

LEMMA FlattenIs ==
  ASSUME NEW ss, Len(ss) \in Nat \ {0}
  PROVE  \E it : Flattens(it, ss, Len(ss)) /\ FlattenSeq(ss) = it[Len(ss)]
  <1>. DEFINE F(it) == Flattens(it, ss, Len(ss))
  <1>1. FlattenSeq(ss) = (CHOOSE it : F(it))[Len(ss)]
    BY DEF FlattenSeq, Flattens
  <1>2. \E it : F(it)
    BY FlattensExist
  <1>. HIDE DEF F
  <1>3. F(CHOOSE it : F(it))
    BY <1>2
  <1>. QED
    BY <1>1, <1>3 DEF F

LEMMA FlattenType ==
  ASSUME NEW T, NEW ss \in Seq(Seq(T))
  PROVE  FlattenSeq(ss) \in Seq(T)
  <1>1. CASE Len(ss) = 0
    BY <1>1 DEF FlattenSeq
  <1>2. CASE Len(ss) # 0
    <2>1. Len(ss) \in Nat \ {0} /\ Len(ss) \in 1..Len(ss)
      BY <1>2
    <2>. QED
      BY <2>1, FlattenIs, FlattensSeq
  <1>. QED
    BY <1>1, <1>2

(* The sequences a request joins: one, two, or only empty ones.            *)
LEMMA FlattenOne ==
  ASSUME NEW ss, Len(ss) = 1
  PROVE  FlattenSeq(ss) = ss[1]
  <1>0. Len(ss) \in Nat \ {0}
    OBVIOUS
  <1>1. PICK it : Flattens(it, ss, 1) /\ FlattenSeq(ss) = it[1]
    BY <1>0, FlattenIs
  <1>. QED
    BY <1>1 DEF Flattens

LEMMA FlattenTwo ==
  ASSUME NEW ss, Len(ss) = 2
  PROVE  FlattenSeq(ss) = ss[1] \o ss[2]
  <1>0. Len(ss) \in Nat \ {0}
    OBVIOUS
  <1>1. PICK it : Flattens(it, ss, 2) /\ FlattenSeq(ss) = it[2]
    BY <1>0, FlattenIs
  <1>2. it[1] = ss[1] /\ it[2] = it[1] \o ss[2]
    BY <1>1 DEF Flattens
  <1>. QED
    BY <1>1, <1>2

LEMMA FlattenNothing ==
  ASSUME NEW T, NEW ss \in Seq(Seq(T)), \A i \in 1..Len(ss) : ss[i] = <<>>
  PROVE  FlattenSeq(ss) = <<>>
  <1>1. CASE Len(ss) = 0
    BY <1>1 DEF FlattenSeq
  <1>2. CASE Len(ss) # 0
    <2>1. Len(ss) \in Nat \ {0}
      BY <1>2
    <2>2. PICK it : Flattens(it, ss, Len(ss)) /\ FlattenSeq(ss) = it[Len(ss)]
      BY <2>1, FlattenIs
    <2>. DEFINE Bad == {i \in 1..Len(ss) : it[i] # <<>>}
    <2>. SUFFICES ASSUME Bad # {} PROVE FALSE
      BY <2>1, <2>2
    <2>3. PICK i \in Bad : \A j \in Bad : ~(j < i)
      <3>1. Bad \subseteq Nat
        OBVIOUS
      <3>. HIDE DEF Bad
      <3>. QED
        BY <3>1, LeastNatural
    <2>4. it[i] = IF i = 1 THEN ss[i] ELSE it[i - 1] \o ss[i]
      BY <2>2 DEF Flattens
    <2>5. ss[i] = <<>> /\ (i # 1 => it[i - 1] = <<>>)
      BY <2>3
    <2>. QED
      BY <2>3, <2>4, <2>5
  <1>. QED
    BY <1>1, <1>2

(* The least element of a set of positions.                                *)
LEMMA MinIn ==
  ASSUME NEW S, S \subseteq Nat, S # {}
  PROVE  Min(S) \in S
  <1>0. \E x \in S : \A y \in S : ~(y < x)
    BY LeastNatural
  <1>1. \E x \in S : \A y \in S : x =< y
    BY <1>0
  <1>. QED
    BY <1>1 DEF Min

-----------------------------------------------------------------------------
(* Types.                                                                  *)

Typed(q) ==
  /\ Fields(q)
  /\ q.op \in Ops
  /\ q.new \in Seq(Row)
  /\ q.on \subseteq Pairs /\ q.off \subseteq Pairs /\ q.mail \subseteq Pairs
  /\ q.code \in Codes \cup {NoOne} /\ q.user \in Users \cup {NoOne}
  /\ q.limit \in Limits \cup {0} /\ q.uses \in Nat /\ q.txn \in BOOLEAN
  /\ DOMAIN q.saves \subseteq DOMAIN rows
  /\ \A i \in DOMAIN q.saves : q.saves[i] \in Status

DbOK ==
  /\ usage \in Usages
  /\ codes \subseteq Codes
  /\ limit \in Limits \cup {0}
  /\ rows \in Seq(Row)
  /\ uses \in [Codes -> Nat]
  /\ nudge \in [Pairs -> {"none", "on", "off"}]
  /\ mail \subseteq Pairs
  /\ noise \subseteq {"cut", "resized", "twice"}

TypeInv == Inv /\ DbOK /\ \A r \in Requests : Typed(req[r])

LEMMA TypedRequest ==
  ASSUME NEW q, Typed(q)
  PROVE  [q EXCEPT !.saves = <<>>] \in Request
  <1>. DEFINE p == [q EXCEPT !.saves = <<>>]
  <1>1. /\ p.op = q.op /\ p.saves = <<>> /\ p.new = q.new /\ p.on = q.on
        /\ p.off = q.off /\ p.mail = q.mail /\ p.code = q.code /\ p.user = q.user
        /\ p.limit = q.limit /\ p.uses = q.uses /\ p.txn = q.txn
    BY DEF Typed, Fields
  <1>2. p = [op |-> p.op, saves |-> p.saves, new |-> p.new, on |-> p.on,
             off |-> p.off, mail |-> p.mail, code |-> p.code, user |-> p.user,
             limit |-> p.limit, uses |-> p.uses, txn |-> p.txn]
    BY DEF Typed, Fields
  <1>. HIDE DEF p
  <1>3. p \in Request
    BY <1>1, <1>2 DEF Request, Typed
  <1>. QED
    BY <1>3 DEF p

LEMMA TypeInvSuffices == TypeInv => TypeOK
  BY TypedRequest DEF TypeInv, TypeOK, DbOK, Typed, Inv, CountInv

LEMMA NoRequestTyped == Typed(NoRequest)
  <1>1. DOMAIN NoRequest.saves = {}
    BY DEF NoRequest
  <1>. QED
    BY <1>1, FieldsOfNoRequest DEF Typed, NoRequest, Ops

LEMMA InitTypes == Init => TypeInv
  <1>. SUFFICES ASSUME Init PROVE TypeInv
    OBVIOUS
  <1>1. DbOK
    BY CodesAssumption DEF Init, DbOK
  <1>2. \A r \in Requests : req[r] = NoRequest
    BY DEF Init
  <1>. QED
    BY <1>1, <1>2, InitInv, NoRequestTyped DEF TypeInv

(* Positions of rows, and the rows of a pair.                              *)
LEMMA Positions ==
  ASSUME rows \in Seq(Row)
  PROVE  /\ DOMAIN rows = 1..Len(rows) /\ Len(rows) \in Nat
         /\ IsFiniteSet(DOMAIN rows)
         /\ \A i \in DOMAIN rows :
              /\ rows[i] \in Row /\ rows[i].code \in Codes /\ rows[i].user \in Users
              /\ rows[i].status \in Status
         /\ \A p : RowsOf(p) \subseteq DOMAIN rows /\ LiveRowsOf(p) \subseteq RowsOf(p)
         /\ \A c : LiveRows(c) \subseteq DOMAIN rows
  <1>1. DOMAIN rows = 1..Len(rows) /\ Len(rows) \in Nat
    OBVIOUS
  <1>2. IsFiniteSet(1..Len(rows))
    BY <1>1, FS_Interval
  <1>3. \A i \in DOMAIN rows : rows[i] \in Row
    OBVIOUS
  <1>. QED
    BY <1>1, <1>2, <1>3 DEF Row, RowsOf, LiveRowsOf, LiveRows

(* What a request that commits makes of the rows.                          *)
LEMMA SavedIs ==
  ASSUME rows \in Seq(Row), NEW q, Typed(q)
  PROVE  /\ Saved(q) \in Seq(Row)
         /\ Len(Saved(q)) = Len(rows) + Len(q.new)
         /\ \A i \in DOMAIN rows :
              Saved(q)[i] = IF i \in DOMAIN q.saves
                            THEN [rows[i] EXCEPT !.status = q.saves[i]] ELSE rows[i]
         /\ \A k \in 1..Len(q.new) : Saved(q)[Len(rows) + k] = q.new[k]
  <1>. DEFINE s == [i \in DOMAIN rows |->
                      IF i \in DOMAIN q.saves
                      THEN [rows[i] EXCEPT !.status = q.saves[i]] ELSE rows[i]]
  <1>1. DOMAIN rows = 1..Len(rows) /\ Len(rows) \in Nat
    OBVIOUS
  <1>2. \A i \in DOMAIN rows : s[i] \in Row
    BY Positions DEF Typed, Row
  <1>3. s \in [1..Len(rows) -> Row]
    BY <1>1, <1>2
  <1>. HIDE DEF s
  <1>4. s \in Seq(Row) /\ Len(s) = Len(rows)
    BY <1>1, <1>3
  <1>5. q.new \in Seq(Row)
    BY DEF Typed
  <1>6. Saved(q) = s \o q.new
    BY DEF Saved, s
  <1>7. /\ s \o q.new \in Seq(Row) /\ Len(s \o q.new) = Len(rows) + Len(q.new)
        /\ \A i \in 1..Len(s) : (s \o q.new)[i] = s[i]
        /\ \A k \in 1..Len(q.new) : (s \o q.new)[Len(s) + k] = q.new[k]
    BY <1>4, <1>5
  <1>. QED
    BY <1>1, <1>4, <1>6, <1>7 DEF s

(* A row of an open assignment.                                            *)
Opening == [code : Codes, user : Users, status : Live]

LEMMA OpeningRows == Seq(Opening) \subseteq Seq(Row)
  <1>1. Opening \subseteq Row
    BY DEF Opening, Row, Status
  <1>. QED
    BY <1>1

LEMMA NewRowsType ==
  ASSUME NEW c \in Codes, NEW u \in Users, NEW s \in Live, NEW n \in Nat
  PROVE  /\ NewRows(c, u, s, n) \in Seq(Opening) /\ Len(NewRows(c, u, s, n)) = n
         /\ \A k \in 1..n : NewRows(c, u, s, n)[k]
                              = [code |-> c, user |-> u, status |-> s]
  <1>1. NewRows(c, u, s, n) \in [1..n -> Opening]
    BY DEF NewRows, Opening
  <1>. QED
    BY <1>1 DEF NewRows

-----------------------------------------------------------------------------
(* What each request decides.                                              *)

Shares(us, plan) ==
  [i \in DOMAIN us |-> NewRows(plan[i], us[i], "EMAIL_PENDING",
                               IF OneLearner THEN Slots(plan[i]) ELSE 1)]

(* A decision that waits for its commit: what it saves, creates and ends.  *)
Decides(r, q, op) ==
  /\ Begin(r, q) /\ Typed(q) /\ q.op = op /\ q.txn = TRUE

Untouching(q) == DOMAIN q.saves = {} /\ q.off = {}

Adding(q) == q.new = <<>> /\ q.on = {} /\ q.code = NoOne

LEMMA Blank ==
  /\ <<>> \in Seq(Row) /\ {} \subseteq Pairs /\ 0 \in Nat /\ TRUE \in BOOLEAN
  /\ NoOne \in Codes \cup {NoOne} /\ NoOne \in Users \cup {NoOne}
  /\ 0 \in Limits \cup {0}
  /\ \A c \in Codes : c \in Codes \cup {NoOne}
  /\ \A u \in Users : u \in Users \cup {NoOne}
  /\ {"assign", "revoke", "remind", "resize", "bounce", "applied", "placed",
      "recorded"} \subseteq Ops
  BY DEF Ops

LEMMA SavesTyped ==
  ASSUME NEW q, NEW I \in SUBSET DOMAIN rows, DOMAIN q.saves = I,
         \A i \in I : q.saves[i] \in Status, Fields(q), q.op \in Ops,
         q.new \in Seq(Row), q.on \subseteq Pairs, q.off \subseteq Pairs,
         q.mail \subseteq Pairs, q.code \in Codes \cup {NoOne},
         q.user \in Users \cup {NoOne}, q.limit \in Limits \cup {0},
         q.uses \in Nat, q.txn \in BOOLEAN
  PROVE  Typed(q)
  BY DEF Typed

LEMMA FreeSlots ==
  ASSUME NEW c, usage = "single" \/ OneLearner, Slots(c) # 0
  PROVE  /\ Slots(c) = (IF limit = 0 THEN 1 ELSE limit)
         /\ ~(num_orders(c) > 0) /\ LiveRows(c) = {}
  BY DEF Slots

LEMMA ShareType ==
  ASSUME TypeInv, NEW us \in UserLists, NEW plan \in [DOMAIN us -> Codes],
         NEW i \in DOMAIN us, Fits(us, plan)
  PROVE  /\ Shares(us, plan)[i] \in Seq(Opening)
         /\ Len(Shares(us, plan)[i]) = (IF OneLearner THEN Slots(plan[i]) ELSE 1)
         /\ Len(Shares(us, plan)[i]) \in Nat
         /\ \A k \in 1..Len(Shares(us, plan)[i]) :
              Shares(us, plan)[i][k]
                = [code |-> plan[i], user |-> us[i], status |-> "EMAIL_PENDING"]
  <1>. DEFINE n == IF OneLearner THEN Slots(plan[i]) ELSE 1
  <1>1. plan[i] \in Codes /\ us[i] \in Users
    BY DEF UserLists
  <1>2. n \in Nat
    <2>1. CASE OneLearner
      <3>1. Slots(plan[i]) >= 1
        BY DEF Fits, Fillable
      <3>2. Slots(plan[i]) # 0
        BY <3>1
      <3>3. limit \in Nat
        BY CodesAssumption DEF TypeInv, DbOK
      <3>. QED
        BY <2>1, <3>2, <3>3, FreeSlots
    <2>. QED
      BY <2>1
  <1>3. "EMAIL_PENDING" \in Live
    BY DEF Live
  <1>. HIDE DEF n
  <1>4. Shares(us, plan)[i] = NewRows(plan[i], us[i], "EMAIL_PENDING", n)
    BY DEF Shares, n
  <1>. QED
    BY <1>1, <1>2, <1>3, <1>4, NewRowsType DEF n

LEMMA ListLength ==
  ASSUME NEW us \in UserLists
  PROVE  /\ Len(us) \in {1, 2} /\ DOMAIN us = 1..Len(us)
         /\ \A i \in DOMAIN us : us[i] \in Users
  <1>1. PICK n \in 1..2 : us \in [1..n -> Users]
    BY DEF UserLists
  <1>2. Len(us) = n /\ DOMAIN us = 1..n
    BY <1>1
  <1>. QED
    BY <1>1, <1>2

LEMMA AssignDecides ==
  ASSUME TypeInv, NEW r \in Requests, NEW us \in UserLists, NEW notice \in Notices,
         NEW plan \in [DOMAIN us -> Codes], Assign(r, us, plan, notice)
  PROVE  \E q : /\ Decides(r, q, "assign") /\ Untouching(q) /\ q.code = NoOne
                /\ q.new = FlattenSeq(Shares(us, plan)) /\ q.new \in Seq(Opening)
                /\ q.on \subseteq {<<plan[i], us[i]>> : i \in DOMAIN us}
  <1>. DEFINE pairs == {<<plan[i], us[i]>> : i \in DOMAIN us}
  <1>1. Fits(us, plan)
    BY DEF Assign
  <1>2. FlattenSeq(Shares(us, plan)) \in Seq(Opening)
    <2>1. DOMAIN Shares(us, plan) = 1..Len(us) /\ Len(us) \in Nat
      BY ListLength DEF Shares
    <2>2. \A i \in 1..Len(us) : Shares(us, plan)[i] \in Seq(Opening)
      BY <1>1, ShareType, ListLength
    <2>3. Shares(us, plan) \in [1..Len(us) -> Seq(Opening)]
      BY <2>1, <2>2 DEF Shares
    <2>4. Shares(us, plan) \in Seq(Seq(Opening))
      BY <2>1, <2>3
    <2>. QED
      BY <2>4, FlattenType
  <1>3. pairs \subseteq Pairs
    BY ListLength DEF Pairs
  <1>4. PICK new, sent, on :
          /\ new = FlattenSeq(Shares(us, plan))
          /\ sent = IF notice = "none" THEN {} ELSE pairs
          /\ on = {p \in pairs : notice = "nudge" /\ nudge[p] = "none"}
    OBVIOUS
  <1>. DEFINE q == [NoRequest EXCEPT !.op = "assign", !.new = new,
                                     !.mail = sent, !.on = on]
  <1>5. Begin(r, q)
    BY <1>4 DEF Assign, Shares
  <1>6. sent \subseteq Pairs /\ on \subseteq Pairs /\ on \subseteq pairs
    BY <1>3, <1>4
  <1>7. /\ Fields(q) /\ q.op = "assign" /\ q.saves = <<>> /\ q.new = new
        /\ q.on = on /\ q.off = {} /\ q.mail = sent /\ q.code = NoOne
        /\ q.user = NoOne /\ q.limit = 0 /\ q.uses = 0 /\ q.txn = TRUE
    BY DEF NoRequest, Fields
  <1>. HIDE DEF q, pairs
  <1>8. DOMAIN q.saves = {}
    BY <1>7
  <1>9. Typed(q)
    <2>1. {} \subseteq DOMAIN rows /\ q.new \in Seq(Row) /\ q.op \in Ops
      BY <1>2, <1>4, <1>7, Blank, OpeningRows
    <2>. QED
      BY <1>6, <1>7, <1>8, <2>1, Blank, SavesTyped
  <1>. QED
    BY <1>2, <1>4, <1>5, <1>6, <1>7, <1>8, <1>9 DEF Decides, Untouching, pairs

LEMMA ReplaceDecides ==
  ASSUME TypeInv, NEW r \in Requests, NEW c \in Codes, NEW d \in Codes, NEW u \in Users,
         ReplaceCode(r, c, u, d)
  PROVE  \E q : /\ Decides(r, q, "assign") /\ Untouching(q) /\ q.code = d /\ q.on = {}
                /\ q.new = NewRows(d, u, "EMAIL_PENDING", 1)
                /\ q.new \in Seq(Opening)
  <1>. DEFINE q == [NoRequest EXCEPT
                      !.op = "assign", !.code = d, !.mail = {<<d, u>>},
                      !.new = NewRows(d, u, "EMAIL_PENDING", 1)]
  <1>1. Begin(r, q)
    BY DEF ReplaceCode
  <1>2. /\ Fields(q) /\ q.op = "assign" /\ q.saves = <<>>
        /\ q.new = NewRows(d, u, "EMAIL_PENDING", 1)
        /\ q.on = {} /\ q.off = {} /\ q.mail = {<<d, u>>} /\ q.code = d
        /\ q.user = NoOne /\ q.limit = 0 /\ q.uses = 0 /\ q.txn = TRUE
    BY DEF NoRequest, Fields
  <1>. HIDE DEF q
  <1>3. DOMAIN q.saves = {} /\ <<d, u>> \in Pairs
    BY <1>2 DEF Pairs
  <1>4. NewRows(d, u, "EMAIL_PENDING", 1) \in Seq(Opening)
    BY NewRowsType DEF Live
  <1>5. Typed(q)
    <2>1. /\ {} \subseteq DOMAIN rows /\ q.new \in Seq(Row) /\ q.op \in Ops
          /\ {<<d, u>>} \subseteq Pairs
      BY <1>2, <1>3, <1>4, Blank, OpeningRows
    <2>. QED
      BY <1>2, <1>3, <2>1, Blank, SavesTyped
  <1>. QED
    BY <1>1, <1>2, <1>3, <1>4, <1>5 DEF Decides, Untouching

LEMMA RevokeDecides ==
  ASSUME TypeInv, NEW r \in Requests, NEW p \in Pairs, NEW p2 \in Pairs,
         Revoke(r, {p, p2})
  PROVE  \E q : /\ Decides(r, q, "revoke") /\ Adding(q)
                /\ q.saves = [i \in LiveRowsOf(p) \cup LiveRowsOf(p2) |-> "REVOKED"]
                /\ {p, p2} \subseteq q.off
  <1>. DEFINE I == LiveRowsOf(p) \cup LiveRowsOf(p2)
              off == {x[1] : x \in {p, p2}} \X {x[2] : x \in {p, p2}}
              q == [NoRequest EXCEPT
                      !.op = "revoke", !.saves = [i \in I |-> "REVOKED"], !.off = off]
  <1>1. UNION {LiveRowsOf(x) : x \in {p, p2}} = I
    OBVIOUS
  <1>2. Begin(r, q)
    BY <1>1 DEF Revoke
  <1>3. \A x \in {p, p2} : x[1] \in Codes /\ x[2] \in Users /\ x = <<x[1], x[2]>>
    BY DEF Pairs
  <1>4. off \subseteq Pairs /\ {p, p2} \subseteq off
    BY <1>3 DEF Pairs
  <1>5. I \subseteq DOMAIN rows
    BY Positions DEF TypeInv, DbOK
  <1>. HIDE DEF I, off
  <1>6. /\ Fields(q) /\ q.op = "revoke" /\ q.saves = [i \in I |-> "REVOKED"]
        /\ q.new = <<>> /\ q.on = {} /\ q.off = off /\ q.mail = {}
        /\ q.code = NoOne /\ q.user = NoOne /\ q.limit = 0 /\ q.uses = 0
        /\ q.txn = TRUE
    BY DEF NoRequest, Fields
  <1>. HIDE DEF q
  <1>7. DOMAIN q.saves = I /\ \A i \in I : q.saves[i] \in Status
    BY <1>6 DEF Status, Final
  <1>8. Typed(q)
    <2>1. q.new \in Seq(Row) /\ q.op \in Ops
      BY <1>6, Blank
    <2>. QED
      BY <1>4, <1>5, <1>6, <1>7, <2>1, Blank, SavesTyped
  <1>. QED
    BY <1>2, <1>4, <1>6, <1>8 DEF Decides, Adding, I

LEMMA RemindDecides ==
  ASSUME TypeInv, NEW r \in Requests, NEW p \in Pairs, Remind(r, p)
  PROVE  \E q : /\ Decides(r, q, "remind") /\ Adding(q) /\ q.off = {}
                /\ q.saves = [i \in LiveRowsOf(p) |-> rows[i].status]
  <1>. DEFINE I == LiveRowsOf(p)
              q == [NoRequest EXCEPT
                      !.op = "remind", !.saves = [i \in I |-> rows[i].status]]
  <1>1. Begin(r, q)
    BY DEF Remind
  <1>2. I \subseteq DOMAIN rows /\ \A i \in I : rows[i].status \in Status
    BY Positions DEF TypeInv, DbOK
  <1>. HIDE DEF I
  <1>3. /\ Fields(q) /\ q.op = "remind" /\ q.saves = [i \in I |-> rows[i].status]
        /\ q.new = <<>> /\ q.on = {} /\ q.off = {} /\ q.mail = {}
        /\ q.code = NoOne /\ q.user = NoOne /\ q.limit = 0 /\ q.uses = 0
        /\ q.txn = TRUE
    BY DEF NoRequest, Fields
  <1>. HIDE DEF q
  <1>4. DOMAIN q.saves = I /\ \A i \in I : q.saves[i] \in Status
    BY <1>2, <1>3
  <1>5. Typed(q)
    <2>1. q.new \in Seq(Row) /\ q.op \in Ops
      BY <1>3, Blank
    <2>. QED
      BY <1>2, <1>3, <1>4, <2>1, Blank, SavesTyped
  <1>. QED
    BY <1>1, <1>3, <1>5 DEF Decides, Adding, I

(* The rows a new limit adds are of learners who have rows of the code.    *)
TopUps(n) == [i \in 1..Cardinality(codes) |-> TopUp(SetToSeq(codes)[i], n)]

LEMMA CodeOfList ==
  ASSUME IsFiniteSet(Codes), TypeInv, NEW i \in 1..Cardinality(codes)
  PROVE  SetToSeq(codes)[i] \in codes
  <1>1. IsFiniteSet(codes)
    BY FS_Subset DEF TypeInv, DbOK
  <1>2. PICK f : f \in Bijection(1..Cardinality(codes), codes)
    BY <1>1, FS_NatBijection, FS_CountingElements DEF ExistsBijection
  <1>3. f \in [1..Cardinality(codes) -> codes] /\ IsInjective(f)
    BY <1>2 DEF Bijection, Injection, IsInjective
  <1>4. SetToSeq(codes) \in [1..Cardinality(codes) -> codes]
    BY <1>3 DEF SetToSeq
  <1>. QED
    BY <1>4

LEMMA TopUpType ==
  ASSUME TypeInv, NEW c \in Codes, NEW n \in Nat
  PROVE  TopUp(c, n) \in Seq(Opening)
  <1>. DEFINE all == {i \in DOMAIN rows : rows[i].code = c}
  <1>1. CASE ~(OneLearner /\ all # {} /\ Cardinality(all) < n)
    <2>1. TopUp(c, n) = <<>>
      BY <1>1 DEF TopUp
    <2>. QED
      BY <2>1
  <1>2. CASE OneLearner /\ all # {} /\ Cardinality(all) < n
    <2>1. TopUp(c, n) = NewRows(c, rows[Min(all)].user, "ASSIGNED", n - Cardinality(all))
      BY <1>2 DEF TopUp
    <2>2. IsFiniteSet(DOMAIN rows) /\ DOMAIN rows \subseteq Nat
      BY Positions DEF TypeInv, DbOK
    <2>3. all \subseteq DOMAIN rows
      OBVIOUS
    <2>. HIDE DEF all
    <2>4. Min(all) \in all
      BY <1>2, <2>2, <2>3, MinIn
    <2>5. rows[Min(all)].user \in Users
      BY <2>3, <2>4, Positions DEF TypeInv, DbOK
    <2>6. Cardinality(all) \in Nat
      BY <2>2, <2>3, FS_Subset, FS_CardinalityType
    <2>7. n - Cardinality(all) \in Nat
      BY <1>2, <2>6
    <2>8. "ASSIGNED" \in Live
      BY DEF Live
    <2>. QED
      BY <2>1, <2>5, <2>7, <2>8, NewRowsType
  <1>. QED
    BY <1>1, <1>2

LEMMA ResizeDecides ==
  ASSUME IsFiniteSet(Codes), TypeInv, NEW r \in Requests, NEW n \in Limits \cup {0},
         Resize(r, n)
  PROVE  \E q : /\ Decides(r, q, "resize") /\ Untouching(q) /\ q.on = {}
                /\ q.code = NoOne /\ q.limit = n
                /\ q.new = FlattenSeq(TopUps(n)) /\ q.new \in Seq(Opening)
  <1>1. FlattenSeq(TopUps(n)) \in Seq(Opening)
    <2>1. n \in Nat
      BY CodesAssumption
    <2>2. Cardinality(codes) \in Nat
      BY FS_Subset, FS_CardinalityType DEF TypeInv, DbOK
    <2>3. \A i \in 1..Cardinality(codes) : TopUps(n)[i] \in Seq(Opening)
      <3>1. \A i \in 1..Cardinality(codes) : SetToSeq(codes)[i] \in Codes
        BY CodeOfList DEF TypeInv, DbOK
      <3>. QED
        BY <2>1, <3>1, TopUpType DEF TopUps
    <2>4. TopUps(n) \in [1..Cardinality(codes) -> Seq(Opening)]
      BY <2>3 DEF TopUps
    <2>5. TopUps(n) \in Seq(Seq(Opening))
      BY <2>2, <2>4
    <2>. QED
      BY <2>5, FlattenType
  <1>2. PICK new : new = FlattenSeq(TopUps(n))
    OBVIOUS
  <1>. DEFINE q == [NoRequest EXCEPT !.op = "resize", !.limit = n, !.new = new]
  <1>3. Begin(r, q)
    BY <1>2 DEF Resize, TopUps
  <1>4. /\ Fields(q) /\ q.op = "resize" /\ q.saves = <<>> /\ q.new = new
        /\ q.on = {} /\ q.off = {} /\ q.mail = {} /\ q.code = NoOne
        /\ q.user = NoOne /\ q.limit = n /\ q.uses = 0 /\ q.txn = TRUE
    BY DEF NoRequest, Fields
  <1>. HIDE DEF q
  <1>5. DOMAIN q.saves = {}
    BY <1>4
  <1>6. {} \subseteq DOMAIN rows /\ q.new \in Seq(Row) /\ q.op \in Ops
    BY <1>1, <1>2, <1>4, Blank, OpeningRows
  <1>7. Typed(q)
    BY <1>4, <1>5, <1>6, Blank, SavesTyped
  <1>. QED
    BY <1>1, <1>2, <1>3, <1>4, <1>5, <1>7 DEF Decides, Untouching

LEMMA BounceDecides ==
  ASSUME TypeInv, NEW r \in Requests, NEW I \in SUBSET DOMAIN rows, Bounce(r, I)
  PROVE  \E q : /\ Decides(r, q, "bounce") /\ Adding(q) /\ q.off = {}
                /\ q.saves = [i \in I |-> "EMAIL_BOUNCED"]
                /\ \A i \in I : rows[i].status = "ASSIGNED"
  <1>. DEFINE q == [NoRequest EXCEPT
                      !.op = "bounce", !.saves = [i \in I |-> "EMAIL_BOUNCED"]]
  <1>1. Begin(r, q) /\ \A i \in I : rows[i].status = "ASSIGNED"
    BY DEF Bounce
  <1>2. /\ Fields(q) /\ q.op = "bounce" /\ q.saves = [i \in I |-> "EMAIL_BOUNCED"]
        /\ q.new = <<>> /\ q.on = {} /\ q.off = {} /\ q.mail = {}
        /\ q.code = NoOne /\ q.user = NoOne /\ q.limit = 0 /\ q.uses = 0
        /\ q.txn = TRUE
    BY DEF NoRequest, Fields
  <1>. HIDE DEF q
  <1>3. DOMAIN q.saves = I /\ \A i \in I : q.saves[i] \in Status
    BY <1>2 DEF Status, Live
  <1>4. q.new \in Seq(Row) /\ q.op \in Ops
    BY <1>2, Blank
  <1>5. Typed(q)
    BY <1>2, <1>3, <1>4, Blank, SavesTyped
  <1>. QED
    BY <1>1, <1>2, <1>5 DEF Decides, Adding

LEMMA ApplyDecides ==
  ASSUME TypeInv, NEW r \in Requests, NEW c \in Codes, NEW u \in Users, Apply(r, c, u)
  PROVE  \E q : /\ Decides(r, q, "applied") /\ Untouching(q)
                /\ q.new = <<>> /\ q.on = {} /\ q.code = c /\ q.user = u
                /\ q.uses = uses[c] /\ q.mail = {}
  <1>1. PICK n : n = uses[c]
    OBVIOUS
  <1>. DEFINE q == [NoRequest EXCEPT !.op = "applied", !.code = c, !.user = u,
                                     !.uses = n]
  <1>2. Begin(r, q)
    BY <1>1 DEF Apply
  <1>3. /\ Fields(q) /\ q.op = "applied" /\ q.saves = <<>>
        /\ q.new = <<>> /\ q.on = {} /\ q.off = {} /\ q.mail = {}
        /\ q.code = c /\ q.user = u /\ q.limit = 0 /\ q.uses = n
        /\ q.txn = TRUE
    BY DEF NoRequest, Fields
  <1>. HIDE DEF q
  <1>4. n \in Nat
    BY <1>1 DEF TypeInv, DbOK
  <1>5. /\ DOMAIN q.saves = {} /\ {} \subseteq DOMAIN rows
        /\ q.new \in Seq(Row) /\ q.op \in Ops
    BY <1>3, Blank
  <1>6. Typed(q)
    BY <1>3, <1>4, <1>5, Blank, SavesTyped
  <1>. QED
    BY <1>1, <1>2, <1>3, <1>5, <1>6 DEF Decides, Untouching

-----------------------------------------------------------------------------
(* What each step does to the requests.                                    *)

LEMMA BeginIs ==
  ASSUME TypeInv, NEW r \in Requests, NEW q, Begin(r, q)
  PROVE  /\ req[r].op = "idle" /\ req'[r] = q
         /\ \A s \in Requests \ {r} : req'[s] = req[s]
         /\ UNCHANGED <<usage, codes, limit, rows, apps, uses, nudge, mail, noise>>
  BY DEF TypeInv, Inv, ShapeInv, Begin, Busy, db

LEMMA EndIs ==
  ASSUME TypeInv, NEW r \in Requests, End(r)
  PROVE  /\ req'[r] = NoRequest
         /\ \A s \in Requests \ {r} : req'[s] = req[s]
  BY DEF TypeInv, Inv, ShapeInv, End

LEMMA PlaceIs ==
  ASSUME TypeInv, NEW r \in Requests, NEW inTxn \in BOOLEAN, Place(r, inTxn)
  PROVE  /\ req[r].op = "applied" /\ Fields(req'[r])
         /\ req'[r].op = "placed" /\ req'[r].txn = inTxn
         /\ req'[r].saves = req[r].saves /\ req'[r].new = req[r].new
         /\ req'[r].on = req[r].on /\ req'[r].off = req[r].off
         /\ req'[r].mail = req[r].mail /\ req'[r].code = req[r].code
         /\ req'[r].user = req[r].user /\ req'[r].limit = req[r].limit
         /\ req'[r].uses = req[r].uses
         /\ req[r].code \in Codes /\ req[r].user \in Users
         /\ \A s \in Requests \ {r} : req'[s] = req[s]
  <1>1. /\ req'[r] = [req[r] EXCEPT !.op = "placed", !.txn = inTxn]
        /\ \A s \in Requests \ {r} : req'[s] = req[s]
        /\ req[r].op = "applied"
    BY DEF Place, TypeInv, Inv, ShapeInv
  <1>2. Fields(req[r]) /\ req[r].code \in Codes /\ req[r].user \in Users
    BY <1>1 DEF TypeInv, Inv, ShapeInv, Redeeming
  <1>. QED
    BY <1>1, <1>2 DEF Fields

(* An order's first free row is redeemed, else the first of those created. *)
Pair(r) == <<req[r].code, req[r].user>>

Spare(p) == limit - Cardinality(RowsOf(p))

Extra(p) == IF OneLearner /\ Spare(p) > 0 THEN Spare(p) ELSE 0

RecordedFor(r, pair, extra) ==
  /\ req[r].op = "placed" /\ Fields(req'[r])
  /\ req'[r].op = "recorded" /\ req'[r].txn = req[r].txn
  /\ req'[r].on = req[r].on /\ req'[r].mail = req[r].mail
  /\ req'[r].code = req[r].code /\ req'[r].user = req[r].user
  /\ req'[r].limit = req[r].limit /\ req'[r].uses = req[r].uses
  /\ req[r].code \in Codes /\ req[r].user \in Users
  /\ DOMAIN req'[r].saves \subseteq LiveRowsOf(pair)
  /\ \A i \in DOMAIN req'[r].saves : req'[r].saves[i] = "REDEEMED"
  /\ LiveRowsOf(pair) # {} => \E i \in LiveRowsOf(pair) : DOMAIN req'[r].saves = {i}
  /\ req'[r].new \in Seq(Row) /\ Len(req'[r].new) = extra /\ extra \in Nat
  /\ \A k \in 1..extra :
       req'[r].new[k] = [code |-> req[r].code, user |-> req[r].user,
                         status |-> IF LiveRowsOf(pair) = {} /\ k = 1
                                    THEN "REDEEMED" ELSE "ASSIGNED"]
  /\ req'[r].off = IF LiveRowsOf(pair) = {} /\ extra = 0 THEN {} ELSE {pair}
  /\ \A s \in Requests \ {r} : req'[s] = req[s]
  /\ UNCHANGED <<usage, codes, limit, rows, apps, uses, nudge, mail, noise>>

LEMMA RecordIs ==
  ASSUME TypeInv, NEW r \in Requests, RecordRedemption(r),
         NEW pair, pair = Pair(r), NEW extra, extra = Extra(pair)
  PROVE  RecordedFor(r, pair, extra)
  <1>. DEFINE live == LiveRowsOf(pair)
              spare == limit - Cardinality(RowsOf(pair))
              base == IF OneLearner /\ spare > 0
                      THEN NewRows(req[r].code, req[r].user, "ASSIGNED", spare)
                      ELSE <<>>
              new == IF live = {} /\ base # <<>>
                     THEN [base EXCEPT ![1].status = "REDEEMED"] ELSE base
              saves == [i \in {j \in live : j = Min(live)} |-> "REDEEMED"]
              off == IF live = {} /\ base = <<>> THEN {} ELSE {pair}
  <1>1. req[r].op = "placed" /\ Fields(req[r])
        /\ req[r].code \in Codes /\ req[r].user \in Users
    BY DEF RecordRedemption, TypeInv, Inv, ShapeInv, Redeeming
  <1>2. /\ req' = [req EXCEPT ![r].op = "recorded", ![r].saves = saves,
                              ![r].new = new, ![r].off = off]
        /\ UNCHANGED <<usage, codes, limit, rows, apps, uses, nudge, mail, noise>>
    BY DEF RecordRedemption, db, Pair
  <1>3. RowsOf(pair) \subseteq DOMAIN rows /\ live \subseteq DOMAIN rows
    BY Positions DEF TypeInv, DbOK
  <1>4. IsFiniteSet(DOMAIN rows) /\ DOMAIN rows \subseteq Nat
    BY Positions DEF TypeInv, DbOK
  <1>5. extra \in Nat /\ limit \in Nat
    <2>1. Cardinality(RowsOf(pair)) \in Nat
      BY <1>3, <1>4, FS_Subset, FS_CardinalityType
    <2>2. limit \in Nat
      BY CodesAssumption DEF TypeInv, DbOK
    <2>. QED
      BY <2>1, <2>2 DEF Extra, Spare
  <1>6. live # {} => Min(live) \in live
    BY <1>3, <1>4, MinIn
  <1>7. /\ base \in Seq(Row) /\ Len(base) = extra
        /\ \A k \in 1..extra :
             base[k] = [code |-> req[r].code, user |-> req[r].user,
                        status |-> "ASSIGNED"]
    <2>1. CASE OneLearner /\ spare > 0
      <3>1. extra = spare /\ spare \in Nat /\ "ASSIGNED" \in Live
        BY <1>5, <2>1 DEF Live, Extra, Spare
      <3>2. base = NewRows(req[r].code, req[r].user, "ASSIGNED", spare)
        BY <2>1
      <3>. HIDE DEF base, spare
      <3>3. /\ base \in Seq(Opening) /\ Len(base) = spare
            /\ \A k \in 1..spare :
                 base[k] = [code |-> req[r].code, user |-> req[r].user,
                            status |-> "ASSIGNED"]
        BY <1>1, <3>1, <3>2, NewRowsType
      <3>4. base \in Seq(Row)
        BY <3>3, OpeningRows
      <3>. QED
        BY <3>1, <3>3, <3>4
    <2>2. CASE ~(OneLearner /\ spare > 0)
      <3>1. base = <<>> /\ extra = 0
        BY <2>2 DEF Extra, Spare
      <3>. HIDE DEF base, spare
      <3>2. base \in Seq(Row) /\ Len(base) = 0
        BY <3>1
      <3>3. \A k \in 1..extra : FALSE
        BY <3>1
      <3>. QED
        BY <3>1, <3>2, <3>3
    <2>. QED
      BY <2>1, <2>2
  <1>8. (base = <<>>) <=> (extra = 0)
    <2>. HIDE DEF base
    <2>. QED
      BY <1>5, <1>7
  <1>9. /\ new \in Seq(Row) /\ Len(new) = extra
        /\ \A k \in 1..extra :
             new[k] = [code |-> req[r].code, user |-> req[r].user,
                       status |-> IF live = {} /\ k = 1 THEN "REDEEMED" ELSE "ASSIGNED"]
    <2>. HIDE DEF base, live
    <2>1. CASE live = {} /\ base # <<>>
      <3>1. new = [base EXCEPT ![1].status = "REDEEMED"]
        BY <2>1
      <3>2. 1 \in 1..extra /\ DOMAIN base = 1..extra
        BY <1>5, <1>7, <1>8, <2>1
      <3>3. base \in [1..extra -> Row] /\ base[1] \in Row
        BY <1>5, <1>7, <3>2
      <3>. DEFINE one == [base[1] EXCEPT !.status = "REDEEMED"]
      <3>4. /\ one = [code |-> req[r].code, user |-> req[r].user, status |-> "REDEEMED"]
            /\ one \in Row
        <4>1. base[1] = [code |-> req[r].code, user |-> req[r].user,
                         status |-> "ASSIGNED"]
          BY <1>7, <3>2
        <4>2. one = [code |-> req[r].code, user |-> req[r].user, status |-> "REDEEMED"]
          BY <4>1
        <4>. QED
          BY <1>1, <4>2 DEF Row, Status, Final
      <3>5. new = [base EXCEPT ![1] = one]
        BY <3>1
      <3>. HIDE DEF new, one
      <3>6. /\ new \in [1..extra -> Row] /\ new[1] = one
            /\ \A k \in 1..extra : k # 1 => new[k] = base[k]
        BY <3>2, <3>3, <3>4, <3>5
      <3>7. new \in Seq(Row) /\ Len(new) = extra
        BY <1>5, <3>6
      <3>. QED
        BY <1>7, <2>1, <3>4, <3>6, <3>7
    <2>2. CASE ~(live = {} /\ base # <<>>)
      <3>1. new = base
        BY <2>2
      <3>2. \A k \in 1..extra : ~(live = {} /\ k = 1)
        BY <1>5, <1>8, <2>2
      <3>. QED
        BY <1>7, <3>1, <3>2
    <2>. QED
      BY <2>1, <2>2
  <1>10. off = IF live = {} /\ extra = 0 THEN {} ELSE {pair}
    BY <1>8
  <1>. HIDE DEF new, off, base, live, spare
  <1>11. DOMAIN req = Requests
    BY DEF TypeInv, Inv, ShapeInv
  <1>12. /\ req'[r] = [req[r] EXCEPT !.op = "recorded", !.saves = saves,
                                     !.new = new, !.off = off]
         /\ \A s \in Requests \ {r} : req'[s] = req[s]
    BY <1>2, <1>11
  <1>. HIDE DEF saves
  <1>13. /\ Fields(req'[r]) /\ req'[r].op = "recorded" /\ req'[r].saves = saves
         /\ req'[r].new = new /\ req'[r].off = off /\ req'[r].txn = req[r].txn
         /\ req'[r].on = req[r].on /\ req'[r].mail = req[r].mail
         /\ req'[r].code = req[r].code /\ req'[r].user = req[r].user
         /\ req'[r].limit = req[r].limit /\ req'[r].uses = req[r].uses
    BY <1>1, <1>12 DEF Fields
  <1>14. /\ DOMAIN saves = {j \in live : j = Min(live)}
         /\ \A i \in DOMAIN saves : saves[i] = "REDEEMED"
    BY DEF saves
  <1>15. live # {} => DOMAIN saves = {Min(live)}
    BY <1>6, <1>14
  <1>16. live = LiveRowsOf(pair)
    BY DEF live
  <1>17. /\ req'[r].new \in Seq(Row) /\ Len(req'[r].new) = extra
         /\ \A k \in 1..extra :
              req'[r].new[k] = [code |-> req[r].code, user |-> req[r].user,
                                status |-> IF LiveRowsOf(pair) = {} /\ k = 1
                                           THEN "REDEEMED" ELSE "ASSIGNED"]
    BY <1>9, <1>13, <1>16
  <1>18. /\ DOMAIN req'[r].saves \subseteq LiveRowsOf(pair)
         /\ \A i \in DOMAIN req'[r].saves : req'[r].saves[i] = "REDEEMED"
         /\ LiveRowsOf(pair) # {} =>
              \E i \in LiveRowsOf(pair) : DOMAIN req'[r].saves = {i}
    BY <1>6, <1>13, <1>14, <1>15, <1>16
  <1>19. req'[r].off = IF LiveRowsOf(pair) = {} /\ extra = 0 THEN {} ELSE {pair}
    BY <1>10, <1>13, <1>16
  <1>. QED
    BY <1>1, <1>2, <1>5, <1>12, <1>13, <1>17, <1>18, <1>19 DEF RecordedFor

-----------------------------------------------------------------------------
(* Types are kept: rows are only added, so what is to be saved stays one.  *)

LEMMA TypesKept ==
  ASSUME TypeInv, Inv', DbOK', DOMAIN rows \subseteq DOMAIN rows',
         \A s \in Requests : req'[s] = req[s] \/ Typed(req[s])'
  PROVE  TypeInv'
  <1>1. ASSUME NEW s \in Requests, req'[s] = req[s] PROVE Typed(req[s])'
    BY <1>1 DEF TypeInv, Typed, Fields
  <1>. QED
    BY <1>1 DEF TypeInv

LEMMA TypesBegin ==
  ASSUME TypeInv, Inv', NEW r \in Requests, NEW q, Begin(r, q), Typed(q)
  PROVE  TypeInv'
  <1>1. DbOK' /\ DOMAIN rows' = DOMAIN rows
    BY BeginIs DEF TypeInv, DbOK
  <1>2. Typed(req[r])'
    BY <1>1, BeginIs DEF Typed, Fields
  <1>. QED
    BY <1>1, <1>2, BeginIs, TypesKept

LEMMA TypesEnd ==
  ASSUME TypeInv, Inv', NEW r \in Requests, End(r), DbOK',
         DOMAIN rows \subseteq DOMAIN rows'
  PROVE  TypeInv'
  <1>1. Typed(NoRequest)'
    BY NoRequestTyped, PTL
  <1>2. Typed(req[r])'
    BY <1>1, EndIs
  <1>. QED
    BY <1>2, EndIs, TypesKept

(* The e-mails of a request that commits.                                  *)
LEMMA NudgesType ==
  ASSUME TypeInv, NEW q, SaveNudges(q)
  PROVE  nudge' \in [Pairs -> {"none", "on", "off"}]
  BY DEF TypeInv, DbOK, SaveNudges

LEMMA MoreRows ==
  ASSUME TypeInv, NEW q, Typed(q), rows' = Saved(q)
  PROVE  rows' \in Seq(Row) /\ DOMAIN rows \subseteq DOMAIN rows'
  <1>1. rows \in Seq(Row) /\ q.new \in Seq(Row)
    BY DEF TypeInv, DbOK, Typed
  <1>2. rows' \in Seq(Row) /\ Len(rows') = Len(rows) + Len(q.new)
    BY <1>1, SavedIs
  <1>. QED
    BY <1>1, <1>2

(* The count of an offer.                                                  *)
LEMMA UsesType ==
  ASSUME TypeInv, NEW q, Typed(q), q.code \in Codes,
         RecordUsage(q) \/ UNCHANGED <<apps, uses>>
  PROVE  uses' \in [Codes -> Nat]
  BY DEF TypeInv, DbOK, Typed, RecordUsage

LEMMA StaffTypes ==
  ASSUME IsFiniteSet(Codes), TypeInv, Inv', NEW r \in Requests, Staff(r)
  PROVE  TypeInv'
  <1>1. ASSUME NEW us \in UserLists, NEW notice \in Notices,
               NEW plan \in [DOMAIN us -> Codes], Assign(r, us, plan, notice)
        PROVE  TypeInv'
    BY <1>1, AssignDecides, TypesBegin DEF Decides
  <1>2. ASSUME NEW c \in Codes, NEW d \in Codes, NEW u \in Users, ReplaceCode(r, c, u, d)
        PROVE  TypeInv'
    BY <1>2, ReplaceDecides, TypesBegin DEF Decides
  <1>3. ASSUME NEW p \in Pairs, NEW q \in Pairs, Revoke(r, {p, q}) PROVE TypeInv'
    BY <1>3, RevokeDecides, TypesBegin DEF Decides
  <1>4. ASSUME NEW p \in Pairs, Remind(r, p) PROVE TypeInv'
    BY <1>4, RemindDecides, TypesBegin DEF Decides
  <1>5. ASSUME NEW n \in Limits \cup {0}, Resize(r, n) PROVE TypeInv'
    BY <1>5, ResizeDecides, TypesBegin DEF Decides
  <1>6. CASE Commit(r)
    <2>1. Typed(req[r]) /\ SaveNudges(req[r]) /\ rows' = Saved(req[r]) /\ End(r)
      BY <1>6 DEF Commit, TypeInv
    <2>2. rows' \in Seq(Row) /\ DOMAIN rows \subseteq DOMAIN rows'
      BY <2>1, MoreRows
    <2>3. /\ codes' \subseteq Codes /\ limit' \in Limits \cup {0}
          /\ mail' \subseteq Pairs /\ noise' \subseteq {"cut", "resized", "twice"}
          /\ usage' = usage /\ uses' = uses
      BY <1>6, <2>1 DEF Commit, TypeInv, DbOK, Typed
    <2>4. DbOK'
      BY <2>1, <2>2, <2>3, NudgesType DEF TypeInv, DbOK
    <2>. QED
      BY <2>1, <2>2, <2>4, TypesEnd
  <1>. QED
    BY <1>1, <1>2, <1>3, <1>4, <1>5, <1>6 DEF Staff

LEMMA EmailTypes ==
  ASSUME TypeInv, Inv', NEW r \in Requests, Emails(r)
  PROVE  TypeInv'
  <1>0. Typed(req[r]) /\ DOMAIN req = Requests
    BY DEF TypeInv, Inv, ShapeInv
  <1>1. ASSUME NEW p \in Pairs, DeliveredTooEarly(r, p) PROVE TypeInv'
    <2>1. DbOK' /\ DOMAIN rows' = DOMAIN rows
      BY <1>1 DEF DeliveredTooEarly, db, TypeInv, DbOK
    <2>2. /\ req'[r] = [req[r] EXCEPT !.mail = @ \ {p}]
          /\ \A s \in Requests \ {r} : req'[s] = req[s]
      BY <1>0, <1>1 DEF DeliveredTooEarly
    <2>3. Typed(req[r])'
      BY <1>0, <2>1, <2>2 DEF Typed, Fields
    <2>. QED
      BY <2>1, <2>2, <2>3, TypesKept
  <1>2. ASSUME NEW I \in SUBSET DOMAIN rows, Bounce(r, I) PROVE TypeInv'
    BY <1>2, BounceDecides, TypesBegin DEF Decides
  <1>3. ASSUME NEW i \in DOMAIN rows, BounceRow(r, i) PROVE TypeInv'
    <2>1. rows' = [rows EXCEPT ![i].status = "EMAIL_BOUNCED"]
      BY <1>3 DEF BounceRow
    <2>2. rows' \in Seq(Row) /\ DOMAIN rows' = DOMAIN rows
      <3>1. [rows[i] EXCEPT !.status = "EMAIL_BOUNCED"] \in Row
        BY Positions DEF TypeInv, DbOK, Row, Status, Live
      <3>2. rows' \in [1..Len(rows) -> Row] /\ Len(rows) \in Nat
        BY <2>1, <3>1 DEF TypeInv, DbOK
      <3>. QED
        BY <3>2 DEF TypeInv, DbOK
    <2>3. DbOK'
      BY <1>3, <2>2 DEF BounceRow, TypeInv, DbOK
    <2>4. \A s \in Requests \ {r} : req'[s] = req[s]
      BY <1>0, <1>3 DEF BounceRow
    <2>5. CASE DOMAIN req[r].saves = {i}
      <3>1. req'[r] = NoRequest
        BY <1>0, <1>3, <2>5 DEF BounceRow
      <3>2. Typed(NoRequest)'
        BY NoRequestTyped, PTL
      <3>. QED
        BY <2>2, <2>3, <2>4, <3>1, <3>2, TypesKept
    <2>6. CASE DOMAIN req[r].saves # {i}
      <3>1. req'[r] = [req[r] EXCEPT !.saves =
                         Restrict(req[r].saves, DOMAIN req[r].saves \ {i})]
        BY <1>0, <1>3, <2>6 DEF BounceRow
      <3>2. Typed(req[r])'
        BY <1>0, <2>2, <3>1 DEF Typed, Fields, Restrict
      <3>. QED
        BY <2>2, <2>3, <2>4, <3>2, TypesKept
    <2>. QED
      BY <2>5, <2>6
  <1>. QED
    BY <1>1, <1>2, <1>3 DEF Emails

LEMMA LearnerTypes ==
  ASSUME TypeInv, Inv', NEW r \in Requests, Learner(r)
  PROVE  TypeInv'
  <1>0. Typed(req[r])
    BY DEF TypeInv
  <1>1. ASSUME NEW c \in Codes, NEW u \in Users, Apply(r, c, u) PROVE TypeInv'
    BY <1>1, ApplyDecides, TypesBegin DEF Decides
  <1>2. ASSUME NEW inTxn \in BOOLEAN, Place(r, inTxn) PROVE TypeInv'
    <2>1. RecordUsage(req[r]) \/ UNCHANGED <<apps, uses>>
      BY <1>2 DEF Place
    <2>2. DbOK' /\ DOMAIN rows' = DOMAIN rows
      BY <1>0, <1>2, <2>1, PlaceIs, UsesType DEF Place, TypeInv, DbOK
    <2>3. Typed(req[r])'
      BY <1>0, <1>2, <2>2, PlaceIs DEF Typed, Ops
    <2>. QED
      BY <1>2, <2>2, <2>3, PlaceIs, TypesKept
  <1>3. CASE RecordRedemption(r)
    <2>1. PICK pair, extra : pair = Pair(r) /\ extra = Extra(pair)
      OBVIOUS
    <2>2. RecordedFor(r, pair, extra)
      BY <1>3, <2>1, RecordIs
    <2>3. /\ Fields(req'[r]) /\ req'[r].op = "recorded"
          /\ req'[r].txn = req[r].txn /\ req'[r].on = req[r].on
          /\ req'[r].mail = req[r].mail /\ req'[r].code = req[r].code
          /\ req'[r].user = req[r].user /\ req'[r].limit = req[r].limit
          /\ req'[r].uses = req[r].uses /\ req'[r].new \in Seq(Row)
          /\ \A s \in Requests \ {r} : req'[s] = req[s]
          /\ UNCHANGED <<usage, codes, limit, rows, apps, uses, nudge, mail, noise>>
      BY <2>2 DEF RecordedFor
    <2>4. /\ DOMAIN req'[r].saves \subseteq LiveRowsOf(pair)
          /\ \A i \in DOMAIN req'[r].saves : req'[r].saves[i] = "REDEEMED"
      BY <2>2 DEF RecordedFor
    <2>5. req'[r].off \subseteq {pair} /\ pair \in Pairs
      BY <2>1, <2>2 DEF RecordedFor, Pair, Pairs
    <2>6. DbOK' /\ DOMAIN rows' = DOMAIN rows
      BY <2>3 DEF TypeInv, DbOK
    <2>7. LiveRowsOf(pair) \subseteq DOMAIN rows
      BY Positions DEF TypeInv, DbOK
    <2>8. Typed(req[r])'
      <3>1. /\ DOMAIN req'[r].saves \subseteq DOMAIN rows'
            /\ \A i \in DOMAIN req'[r].saves : req'[r].saves[i] \in Status
            /\ req'[r].off \subseteq Pairs /\ req'[r].op \in Ops
        BY <2>3, <2>6, <2>7, <2>4, <2>5, Blank DEF Status, Final
      <3>2. /\ req[r].on \subseteq Pairs /\ req[r].mail \subseteq Pairs
            /\ req[r].code \in Codes \cup {NoOne} /\ req[r].user \in Users \cup {NoOne}
            /\ req[r].limit \in Limits \cup {0} /\ req[r].uses \in Nat
            /\ req[r].txn \in BOOLEAN
        BY <1>0 DEF Typed
      <3>. QED
        BY <2>3, <3>1, <3>2 DEF Typed
    <2>. QED
      BY <2>3, <2>6, <2>8, TypesKept
  <1>4. CASE CloseOrder(r)
    <2>1. SaveNudges(req[r]) /\ rows' = Saved(req[r]) /\ End(r) /\ req[r].code \in Codes
      BY <1>4 DEF CloseOrder, TypeInv, Inv, ShapeInv, Redeeming
    <2>2. rows' \in Seq(Row) /\ DOMAIN rows \subseteq DOMAIN rows'
      BY <1>0, <2>1, MoreRows
    <2>3. uses' \in [Codes -> Nat]
      BY <1>0, <1>4, <2>1, UsesType DEF CloseOrder
    <2>4. DbOK'
      BY <1>4, <2>1, <2>2, <2>3, NudgesType DEF CloseOrder, TypeInv, DbOK
    <2>. QED
      BY <2>1, <2>2, <2>4, TypesEnd
  <1>5. CASE OrderCutShort(r)
    <2>1. req[r].code \in Codes
      BY <1>5 DEF OrderCutShort, TypeInv, Inv, ShapeInv, Redeeming
    <2>2. uses' \in [Codes -> Nat]
      BY <1>0, <1>5, <2>1, UsesType DEF OrderCutShort
    <2>3. DbOK' /\ DOMAIN rows' = DOMAIN rows /\ End(r)
      BY <1>5, <2>2 DEF OrderCutShort, TypeInv, DbOK
    <2>. QED
      BY <2>3, TypesEnd
  <1>. QED
    BY <1>1, <1>2, <1>3, <1>4, <1>5 DEF Learner

(* An e-mail report about one pair.                                        *)
LEMMA DeliveredIs ==
  ASSUME TypeInv, NEW p \in Pairs, Delivered(p)
  PROVE  /\ rows' \in Seq(Row) /\ DOMAIN rows' = DOMAIN rows
         /\ \A i \in DOMAIN rows :
              /\ rows'[i].code = rows[i].code /\ rows'[i].user = rows[i].user
              /\ rows'[i].status = IF i \in RowsOf(p) /\ rows[i].status = "EMAIL_PENDING"
                                   THEN "ASSIGNED" ELSE rows[i].status
         /\ UNCHANGED <<usage, codes, limit, apps, uses, nudge, noise, req>>
         /\ mail' \subseteq Pairs
  <1>1. rows \in Seq(Row) /\ DOMAIN rows = 1..Len(rows) /\ Len(rows) \in Nat
    BY DEF TypeInv, DbOK
  <1>2. rows' = [i \in DOMAIN rows |->
                   IF i \in RowsOf(p) /\ rows[i].status = "EMAIL_PENDING"
                   THEN [rows[i] EXCEPT !.status = "ASSIGNED"] ELSE rows[i]]
    BY DEF Delivered
  <1>3. \A i \in DOMAIN rows :
          rows[i] \in Row /\ [rows[i] EXCEPT !.status = "ASSIGNED"] \in Row
    <2>1. "ASSIGNED" \in Status /\ \A i \in DOMAIN rows : rows[i] \in Row
      BY <1>1, Positions DEF Status, Live
    <2>. QED
      BY <2>1 DEF Row
  <1>4. rows' \in [1..Len(rows) -> Row]
    BY <1>1, <1>2, <1>3
  <1>5. rows' \in Seq(Row) /\ DOMAIN rows' = DOMAIN rows
    BY <1>1, <1>4
  <1>6. \A i \in DOMAIN rows :
              /\ rows'[i].code = rows[i].code /\ rows'[i].user = rows[i].user
              /\ rows'[i].status = IF i \in RowsOf(p) /\ rows[i].status = "EMAIL_PENDING"
                                   THEN "ASSIGNED" ELSE rows[i].status
    BY <1>2, <1>3 DEF Row
  <1>. QED
    BY <1>5, <1>6 DEF Delivered, TypeInv, DbOK

LEMMA NextTypes ==
  IsFiniteSet(Codes) => (TypeInv /\ [Next]_vars => TypeInv')
  <1>. SUFFICES ASSUME IsFiniteSet(Codes), TypeInv, [Next]_vars PROVE TypeInv'
    OBVIOUS
  <1>0. Inv'
    BY NextInv DEF TypeInv
  <1>1. ASSUME NEW r \in Requests, Abandon(r) PROVE TypeInv'
    <2>1. DbOK' /\ DOMAIN rows' = DOMAIN rows /\ End(r)
      BY <1>1 DEF Abandon, db, TypeInv, DbOK
    <2>. QED
      BY <1>0, <2>1, TypesEnd
  <1>2. ASSUME NEW p \in Pairs, Delivered(p) PROVE TypeInv'
    <2>1. DbOK'
      BY <1>2, DeliveredIs DEF TypeInv, DbOK
    <2>. QED
      BY <1>0, <1>2, <2>1, DeliveredIs, TypesKept
  <1>3. CASE UNCHANGED vars
    <2>1. DbOK' /\ DOMAIN rows' = DOMAIN rows /\ req' = req
      BY <1>3 DEF vars, db, TypeInv, DbOK
    <2>. QED
      BY <1>0, <2>1, TypesKept
  <1>. QED
    BY <1>0, <1>1, <1>2, <1>3, StaffTypes, EmailTypes, LearnerTypes DEF Next

(* Whatever interleaves: the tables hold values of their types, and what a *)
(* request is going to save are rows that exist by then.                   *)
THEOREM TypesAreKept == ASSUME IsFiniteSet(Codes) PROVE Spec => []TypeOK
  <1>1. Init => TypeInv
    BY InitTypes
  <1>2. TypeInv /\ [Next]_vars => TypeInv'
    BY NextTypes
  <1>. QED
    BY <1>1, <1>2, TypeInvSuffices, PTL DEF Spec

-----------------------------------------------------------------------------
(* Redeemed rows and orders.  A request about an order redeems one row at  *)
(* most, of the code and the learner of the order; no other request        *)
(* redeems any.  An order outside a transaction is counted before its row  *)
(* is redeemed: it owes one.                                               *)

RedeemedRows(p) == {i \in RowsOf(p) : rows[i].status = "REDEEMED"}

Owes(r) == Placing(r) /\ ~req[r].txn

Owing(p) == {r \in Requests : Owes(r) /\ Pair(r) = p}

SavesOneOrder(q) ==
  /\ q.op # "recorded" =>
       /\ \A i \in DOMAIN q.saves : q.saves[i] # "REDEEMED"
       /\ \A k \in 1..Len(q.new) : q.new[k].status # "REDEEMED"
  /\ q.op = "recorded" =>
       /\ \A i \in DOMAIN q.saves : i \in RowsOf(<<q.code, q.user>>)
       /\ \A k \in 1..Len(q.new) :
            /\ q.new[k].code = q.code /\ q.new[k].user = q.user
            /\ q.new[k].status = "REDEEMED" => k = 1 /\ DOMAIN q.saves = {}
       /\ \A i, j \in DOMAIN q.saves : i = j

RedeemInv ==
  /\ \A r \in Requests : SavesOneOrder(req[r])
  /\ \A c \in Codes, u \in Users :
       Cardinality(RedeemedRows(<<c, u>>)) + Cardinality(Owing(<<c, u>>)) <= apps[c][u]

(* Rows stay, with their code and their learner.                           *)
OwnersKept ==
  \A i \in DOMAIN rows :
    /\ i \in DOMAIN rows'
    /\ rows'[i].code = rows[i].code /\ rows'[i].user = rows[i].user

LEMMA SavesKept ==
  ASSUME OwnersKept, NEW q, SavesOneOrder(q)
  PROVE  SavesOneOrder(q)'
  BY DEF OwnersKept, SavesOneOrder, RowsOf

LEMMA FewRows ==
  ASSUME TypeInv, IsFiniteSet(Requests), NEW p
  PROVE  /\ IsFiniteSet(RedeemedRows(p)) /\ Cardinality(RedeemedRows(p)) \in Nat
         /\ IsFiniteSet(Owing(p)) /\ Cardinality(Owing(p)) \in Nat
  <1>1. RedeemedRows(p) \subseteq DOMAIN rows /\ IsFiniteSet(DOMAIN rows)
    BY Positions DEF TypeInv, DbOK, RedeemedRows
  <1>2. Owing(p) \subseteq Requests
    BY DEF Owing
  <1>. QED
    BY <1>1, <1>2, FS_Subset, FS_CardinalityType

LEMMA FewRowsNext ==
  TypeInv' /\ IsFiniteSet(Requests) =>
    \A p : /\ IsFiniteSet(RedeemedRows(p)') /\ Cardinality(RedeemedRows(p)') \in Nat
           /\ IsFiniteSet(Owing(p)') /\ Cardinality(Owing(p)') \in Nat
  <1>1. TypeInv /\ IsFiniteSet(Requests) =>
          \A p : /\ IsFiniteSet(RedeemedRows(p)) /\ Cardinality(RedeemedRows(p)) \in Nat
                 /\ IsFiniteSet(Owing(p)) /\ Cardinality(Owing(p)) \in Nat
    BY FewRows
  <1>2. (TypeInv /\ IsFiniteSet(Requests) =>
          \A p : /\ IsFiniteSet(RedeemedRows(p)) /\ Cardinality(RedeemedRows(p)) \in Nat
                 /\ IsFiniteSet(Owing(p)) /\ Cardinality(Owing(p)) \in Nat)'
    BY <1>1, PTL
  <1>. QED
    BY <1>2

(* A step that redeems nothing and counts nothing.                         *)
LEMMA NothingRedeemed ==
  ASSUME TypeInv, TypeInv', IsFiniteSet(Requests), RedeemInv, OwnersKept, apps' = apps,
         \A i \in DOMAIN rows' :
           rows'[i].status = "REDEEMED" => i \in DOMAIN rows /\ rows[i].status = "REDEEMED",
         \A s \in Requests :
           \/ req'[s] = req[s]
           \/ /\ SavesOneOrder(req[s])'
              /\ Owes(s)' => Owes(s) /\ Pair(s)' = Pair(s)
  PROVE  RedeemInv'
  <1>1. ASSUME NEW s \in Requests
        PROVE  SavesOneOrder(req[s])' /\ (Owes(s)' => Owes(s) /\ Pair(s)' = Pair(s))
    <2>1. CASE req'[s] = req[s]
      <3>1. SavesOneOrder(req[s])
        BY DEF RedeemInv
      <3>2. PICK q : q = req[s]
        OBVIOUS
      <3>3. SavesOneOrder(q)'
        BY <3>1, <3>2, SavesKept
      <3>. QED
        BY <2>1, <3>2, <3>3 DEF Owes, Placing, Pair
    <2>. QED
      BY <2>1
  <1>2. ASSUME NEW c \in Codes, NEW u \in Users
        PROVE  (Cardinality(RedeemedRows(<<c, u>>)) + Cardinality(Owing(<<c, u>>))
                  <= apps[c][u])'
    <2>. DEFINE p == <<c, u>>
    <2>1. RedeemedRows(p)' \subseteq RedeemedRows(p)
      BY DEF OwnersKept, RedeemedRows, RowsOf
    <2>2. Owing(p)' \subseteq Owing(p)
      BY <1>1 DEF Owing
    <2>3. Cardinality(RedeemedRows(p)) + Cardinality(Owing(p)) <= apps[c][u]
      BY DEF RedeemInv
    <2>4. apps'[c][u] = apps[c][u] /\ apps[c][u] \in Nat
      BY DEF TypeInv, Inv, CountInv
    <2>. HIDE DEF p
    <2>5. /\ Cardinality(RedeemedRows(p)') <= Cardinality(RedeemedRows(p))
          /\ Cardinality(Owing(p)') <= Cardinality(Owing(p))
      BY <2>1, <2>2, FewRows, FS_Subset
    <2>6. /\ Cardinality(RedeemedRows(p)') \in Nat /\ Cardinality(RedeemedRows(p)) \in Nat
          /\ Cardinality(Owing(p)') \in Nat /\ Cardinality(Owing(p)) \in Nat
      BY FewRows, FewRowsNext
    <2>7. Cardinality(RedeemedRows(p)') + Cardinality(Owing(p)') <= apps'[c][u]
      BY <2>3, <2>4, <2>5, <2>6
    <2>. QED
      BY <2>7 DEF p
  <1>. QED
    BY <1>1, <1>2 DEF RedeemInv

(* The owners of rows after a commit.                                      *)
LEMMA SavedOwners ==
  ASSUME TypeInv, NEW q, Typed(q), rows' = Saved(q)
  PROVE  /\ OwnersKept
         /\ \A i \in DOMAIN rows :
              rows'[i].status = IF i \in DOMAIN q.saves THEN q.saves[i] ELSE rows[i].status
         /\ \A k \in 1..Len(q.new) :
              Len(rows) + k \in DOMAIN rows' /\ rows'[Len(rows) + k] = q.new[k]
         /\ \A j \in DOMAIN rows' :
              j \in DOMAIN rows \/ \E k \in 1..Len(q.new) : j = Len(rows) + k
         /\ DOMAIN rows = 1..Len(rows) /\ Len(rows) \in Nat /\ Len(q.new) \in Nat
  <1>1. /\ rows \in Seq(Row) /\ DOMAIN rows = 1..Len(rows) /\ Len(rows) \in Nat
        /\ q.new \in Seq(Row) /\ Len(q.new) \in Nat
    BY DEF TypeInv, DbOK, Typed
  <1>2. /\ rows' \in Seq(Row) /\ Len(rows') = Len(rows) + Len(q.new)
        /\ \A i \in DOMAIN rows :
             rows'[i] = IF i \in DOMAIN q.saves
                        THEN [rows[i] EXCEPT !.status = q.saves[i]] ELSE rows[i]
        /\ \A k \in 1..Len(q.new) : rows'[Len(rows) + k] = q.new[k]
    BY <1>1, SavedIs
  <1>3. DOMAIN rows' = 1..(Len(rows) + Len(q.new))
    BY <1>2
  <1>4. \A i \in DOMAIN rows : rows[i] \in Row
    BY <1>1
  <1>5. \A i \in DOMAIN rows :
          /\ rows'[i].code = rows[i].code /\ rows'[i].user = rows[i].user
          /\ rows'[i].status = IF i \in DOMAIN q.saves THEN q.saves[i] ELSE rows[i].status
    BY <1>2, <1>4 DEF Row
  <1>6. OwnersKept
    BY <1>1, <1>3, <1>5 DEF OwnersKept
  <1>7. \A j \in DOMAIN rows' :
          j \in DOMAIN rows \/ \E k \in 1..Len(q.new) : j = Len(rows) + k
    <2>1. ASSUME NEW j \in DOMAIN rows', j \notin DOMAIN rows
          PROVE  j - Len(rows) \in 1..Len(q.new) /\ j = Len(rows) + (j - Len(rows))
      BY <1>1, <1>3, <2>1
    <2>. QED
      BY <2>1
  <1>8. \A k \in 1..Len(q.new) : Len(rows) + k \in DOMAIN rows'
    BY <1>1, <1>3
  <1>. QED
    BY <1>1, <1>2, <1>5, <1>6, <1>7, <1>8

(* What is committed redeems one more row at most, of the order's pair.    *)
LEMMA OneRedeemed ==
  ASSUME TypeInv, NEW q, Typed(q), SavesOneOrder(q), rows' = Saved(q)
  PROVE  \E x : \A p : RedeemedRows(p)' \subseteq
                         RedeemedRows(p) \cup
                           IF q.op = "recorded" /\ p = <<q.code, q.user>> THEN {x} ELSE {}
  <1>1. PICK x : /\ q.op = "recorded" => \A i \in DOMAIN q.saves : i = x
                 /\ DOMAIN q.saves = {} => x = Len(rows) + 1
    <2>1. CASE DOMAIN q.saves = {}
      BY <2>1
    <2>2. CASE DOMAIN q.saves # {}
      BY <2>2 DEF SavesOneOrder
    <2>. QED
      BY <2>1, <2>2
  <1>2. ASSUME NEW p, NEW j \in RedeemedRows(p)'
        PROVE  j \in RedeemedRows(p) \/ (q.op = "recorded" /\ p = <<q.code, q.user>> /\ j = x)
    <2>1. /\ j \in DOMAIN rows' /\ rows'[j].status = "REDEEMED"
          /\ p = <<rows'[j].code, rows'[j].user>>
      BY <1>2 DEF RedeemedRows, RowsOf
    <2>2. CASE j \in DOMAIN rows
      <3>1. p = <<rows[j].code, rows[j].user>>
        BY <2>1, <2>2, SavedOwners DEF OwnersKept
      <3>2. CASE j \in DOMAIN q.saves
        <4>1. q.saves[j] = "REDEEMED"
          BY <2>1, <2>2, <3>2, SavedOwners
        <4>2. q.op = "recorded" /\ j \in RowsOf(<<q.code, q.user>>)
          BY <3>2, <4>1 DEF SavesOneOrder
        <4>. QED
          BY <1>1, <3>1, <3>2, <4>2 DEF RowsOf
      <3>3. CASE j \notin DOMAIN q.saves
        <4>1. rows[j].status = "REDEEMED"
          BY <2>1, <2>2, <3>3, SavedOwners
        <4>. QED
          BY <2>2, <3>1, <4>1 DEF RedeemedRows, RowsOf
      <3>. QED
        BY <3>2, <3>3
    <2>3. CASE j \notin DOMAIN rows
      <3>1. PICK k \in 1..Len(q.new) : j = Len(rows) + k
        BY <2>1, <2>3, SavedOwners
      <3>2. rows'[j] = q.new[k]
        BY <3>1, SavedOwners
      <3>3. /\ q.op = "recorded" /\ k = 1 /\ DOMAIN q.saves = {}
            /\ q.new[k].code = q.code /\ q.new[k].user = q.user
        BY <2>1, <3>2 DEF SavesOneOrder
      <3>. QED
        BY <1>1, <2>1, <3>1, <3>2, <3>3
    <2>. QED
      BY <2>2, <2>3
  <1>3. \A p : RedeemedRows(p)' \subseteq
                RedeemedRows(p) \cup
                  IF q.op = "recorded" /\ p = <<q.code, q.user>> THEN {x} ELSE {}
    BY <1>2
  <1>. QED
    BY <1>3

(* No order's request saves or creates redeemed rows.                      *)
LEMMA OpenOnly ==
  ASSUME NEW q, q.op # "recorded", q.new \in Seq(Opening),
         \A i \in DOMAIN q.saves : q.saves[i] # "REDEEMED"
  PROVE  SavesOneOrder(q)
  <1>1. \A k \in 1..Len(q.new) : q.new[k] \in Opening
    OBVIOUS
  <1>. QED
    BY <1>1 DEF SavesOneOrder, Opening, Live

LEMMA RedeemBegin ==
  ASSUME TypeInv, TypeInv', IsFiniteSet(Requests), RedeemInv, NEW r \in Requests, NEW q,
         NEW op \in {"assign", "revoke", "remind", "resize", "bounce", "applied"},
         Decides(r, q, op), q.new \in Seq(Opening),
         \A i \in DOMAIN q.saves : q.saves[i] # "REDEEMED"
  PROVE  RedeemInv'
  <1>1. /\ req'[r] = q /\ rows' = rows /\ apps' = apps
        /\ \A s \in Requests \ {r} : req'[s] = req[s]
    BY BeginIs DEF Decides
  <1>2. OwnersKept
    BY <1>1 DEF OwnersKept
  <1>3. SavesOneOrder(q)
    BY OpenOnly DEF Decides
  <1>4. SavesOneOrder(q)'
    BY <1>2, <1>3, SavesKept
  <1>5. ~Owes(r)'
    BY <1>1 DEF Owes, Placing, Decides
  <1>. QED
    BY <1>1, <1>2, <1>4, <1>5, NothingRedeemed

LEMMA NoRequestSaves == SavesOneOrder(NoRequest)
  <1>1. NoRequest.new \in Seq(Opening) /\ DOMAIN NoRequest.saves = {}
        /\ NoRequest.op # "recorded"
    BY DEF NoRequest
  <1>. QED
    BY <1>1, OpenOnly

LEMMA NoRequestSavesNext == SavesOneOrder(NoRequest)'
  BY NoRequestSaves, PTL

LEMMA EndOwes ==
  ASSUME TypeInv, NEW r \in Requests, End(r)
  PROVE  SavesOneOrder(req[r])' /\ ~Owes(r)'
  <1>1. NoRequest.op = "idle"
    BY DEF NoRequest
  <1>. QED
    BY <1>1, EndIs, NoRequestSavesNext DEF Owes, Placing

LEMMA RedeemStaff ==
  ASSUME IsFiniteSet(Codes), IsFiniteSet(Requests), TypeInv, TypeInv', RedeemInv,
         NEW r \in Requests, Staff(r)
  PROVE  RedeemInv'
  <1>0. <<>> \in Seq(Opening)
    OBVIOUS
  <1>1. ASSUME NEW us \in UserLists, NEW notice \in Notices,
               NEW plan \in [DOMAIN us -> Codes], Assign(r, us, plan, notice)
        PROVE  RedeemInv'
    BY <1>1, AssignDecides, RedeemBegin DEF Untouching
  <1>2. ASSUME NEW c \in Codes, NEW d \in Codes, NEW u \in Users, ReplaceCode(r, c, u, d)
        PROVE  RedeemInv'
    BY <1>2, ReplaceDecides, RedeemBegin DEF Untouching
  <1>3. ASSUME NEW p \in Pairs, NEW p2 \in Pairs, Revoke(r, {p, p2}) PROVE RedeemInv'
    <2>1. PICK q : /\ Decides(r, q, "revoke") /\ Adding(q)
                   /\ q.saves = [i \in LiveRowsOf(p) \cup LiveRowsOf(p2) |-> "REVOKED"]
      BY <1>3, RevokeDecides
    <2>. QED
      BY <1>0, <2>1, RedeemBegin DEF Adding
  <1>4. ASSUME NEW p \in Pairs, Remind(r, p) PROVE RedeemInv'
    <2>1. PICK q : /\ Decides(r, q, "remind") /\ Adding(q)
                   /\ q.saves = [i \in LiveRowsOf(p) |-> rows[i].status]
      BY <1>4, RemindDecides
    <2>2. \A i \in DOMAIN q.saves : q.saves[i] # "REDEEMED"
      BY <2>1 DEF LiveRowsOf, Live
    <2>. QED
      BY <1>0, <2>1, <2>2, RedeemBegin DEF Adding
  <1>5. ASSUME NEW n \in Limits \cup {0}, Resize(r, n) PROVE RedeemInv'
    BY <1>5, ResizeDecides, RedeemBegin DEF Untouching
  <1>6. CASE Commit(r)
    <2>1. /\ Typed(req[r]) /\ rows' = Saved(req[r]) /\ End(r) /\ apps' = apps
          /\ req[r].op # "recorded" /\ SavesOneOrder(req[r])
      BY <1>6 DEF Commit, TypeInv, RedeemInv
    <2>2. OwnersKept
      BY <2>1, SavedOwners
    <2>3. \A p : RedeemedRows(p)' \subseteq RedeemedRows(p)
      BY <2>1, OneRedeemed
    <2>4. ASSUME NEW i \in DOMAIN rows', rows'[i].status = "REDEEMED"
          PROVE  i \in DOMAIN rows /\ rows[i].status = "REDEEMED"
      <3>1. PICK p : p = <<rows'[i].code, rows'[i].user>>
        OBVIOUS
      <3>2. i \in RedeemedRows(p)
        BY <2>3, <2>4, <3>1 DEF RedeemedRows, RowsOf
      <3>. QED
        BY <3>2 DEF RedeemedRows, RowsOf
    <2>. QED
      BY <2>1, <2>2, <2>4, EndIs, EndOwes, NothingRedeemed
  <1>. QED
    BY <1>1, <1>2, <1>3, <1>4, <1>5, <1>6 DEF Staff

LEMMA RedeemEmails ==
  ASSUME IsFiniteSet(Requests), TypeInv, TypeInv', RedeemInv, NEW r \in Requests, Emails(r)
  PROVE  RedeemInv'
  <1>0. Typed(req[r]) /\ DOMAIN req = Requests /\ SavesOneOrder(req[r])
    BY DEF TypeInv, Inv, ShapeInv, RedeemInv
  <1>1. ASSUME NEW p \in Pairs, DeliveredTooEarly(r, p) PROVE RedeemInv'
    <2>1. /\ req'[r] = [req[r] EXCEPT !.mail = @ \ {p}]
          /\ \A s \in Requests \ {r} : req'[s] = req[s]
          /\ rows' = rows /\ apps' = apps
      BY <1>0, <1>1 DEF DeliveredTooEarly, db
    <2>2. /\ req'[r].op = req[r].op /\ req'[r].txn = req[r].txn
          /\ req'[r].saves = req[r].saves /\ req'[r].new = req[r].new
          /\ req'[r].code = req[r].code /\ req'[r].user = req[r].user
      BY <1>0, <2>1 DEF Typed, Fields
    <2>3. OwnersKept
      BY <2>1 DEF OwnersKept
    <2>4. SavesOneOrder(req[r])'
      BY <1>0, <2>1, <2>2 DEF SavesOneOrder, RowsOf
    <2>5. Owes(r)' => Owes(r) /\ Pair(r)' = Pair(r)
      BY <2>2 DEF Owes, Placing, Pair
    <2>. QED
      BY <2>1, <2>3, <2>4, <2>5, NothingRedeemed
  <1>2. ASSUME NEW I \in SUBSET DOMAIN rows, Bounce(r, I) PROVE RedeemInv'
    <2>1. PICK q : /\ Decides(r, q, "bounce") /\ Adding(q)
                   /\ q.saves = [i \in I |-> "EMAIL_BOUNCED"]
      BY <1>2, BounceDecides
    <2>2. <<>> \in Seq(Opening)
      OBVIOUS
    <2>. QED
      BY <2>1, <2>2, RedeemBegin DEF Adding
  <1>3. ASSUME NEW i \in DOMAIN rows, BounceRow(r, i) PROVE RedeemInv'
    <2>1. /\ rows' = [rows EXCEPT ![i].status = "EMAIL_BOUNCED"]
          /\ apps' = apps /\ \A s \in Requests \ {r} : req'[s] = req[s]
          /\ req[r].op = "bounce"
      BY <1>0, <1>3 DEF BounceRow
    <2>2. /\ DOMAIN rows' = DOMAIN rows
          /\ \A j \in DOMAIN rows :
               /\ rows'[j].code = rows[j].code /\ rows'[j].user = rows[j].user
               /\ rows'[j].status = IF j = i THEN "EMAIL_BOUNCED" ELSE rows[j].status
      BY <2>1, Positions DEF TypeInv, DbOK, Row
    <2>3. OwnersKept
      BY <2>2 DEF OwnersKept
    <2>4. SavesOneOrder(req[r])' /\ ~Owes(r)'
      <3>1. CASE DOMAIN req[r].saves = {i}
        <4>1. req'[r] = NoRequest /\ NoRequest.op = "idle"
          BY <1>0, <1>3, <3>1 DEF BounceRow, NoRequest
        <4>. QED
          BY <4>1, NoRequestSavesNext DEF Owes, Placing
      <3>2. CASE DOMAIN req[r].saves # {i}
        <4>1. req'[r] = [req[r] EXCEPT !.saves =
                           Restrict(req[r].saves, DOMAIN req[r].saves \ {i})]
          BY <1>0, <1>3, <3>2 DEF BounceRow
        <4>2. /\ req'[r].op = "bounce" /\ req'[r].new = req[r].new
              /\ DOMAIN req'[r].saves \subseteq DOMAIN req[r].saves
              /\ \A j \in DOMAIN req'[r].saves : req'[r].saves[j] = req[r].saves[j]
          BY <1>0, <2>1, <4>1 DEF Typed, Fields, Restrict
        <4>. QED
          BY <1>0, <2>1, <4>2 DEF SavesOneOrder, Owes, Placing
      <3>. QED
        BY <3>1, <3>2
    <2>. QED
      BY <2>1, <2>2, <2>3, <2>4, NothingRedeemed
  <1>. QED
    BY <1>1, <1>2, <1>3 DEF Emails

LEMMA OneMore ==
  ASSUME NEW S, IsFiniteSet(S), NEW x
  PROVE  /\ IsFiniteSet(S \cup {x}) /\ Cardinality(S \cup {x}) \in Nat
         /\ Cardinality(S \cup {x}) <= Cardinality(S) + 1
  <1>1. /\ IsFiniteSet(S \cup {x})
        /\ Cardinality(S \cup {x}) = Cardinality(S)
           \/ Cardinality(S \cup {x}) = Cardinality(S) + 1
    BY FS_AddElement
  <1>2. Cardinality(S) \in Nat /\ Cardinality(S \cup {x}) \in Nat
    BY <1>1, FS_CardinalityType
  <1>. QED
    BY <1>1, <1>2

(* An order's own step: the rows of its pair, and what is owed to it, grow *)
(* by no more than its count.                                              *)
LEMMA Redeemed ==
  ASSUME TypeInv, TypeInv', IsFiniteSet(Requests), RedeemInv, NEW r \in Requests,
         OwnersKept, SavesOneOrder(req[r])',
         \A s \in Requests \ {r} : req'[s] = req[s],
         NEW c \in Codes, NEW u \in Users, Pair(r) = <<c, u>>,
         \A d \in Codes, v \in Users : <<d, v>> # <<c, u>> => apps'[d][v] = apps[d][v],
         \A p : p # <<c, u>> => RedeemedRows(p)' \subseteq RedeemedRows(p),
         Owes(r)' => Pair(r)' = <<c, u>>,
         Cardinality(RedeemedRows(<<c, u>>)') + Cardinality(Owing(<<c, u>>)')
           <= Cardinality(RedeemedRows(<<c, u>>)) + Cardinality(Owing(<<c, u>>))
              + apps'[c][u] - apps[c][u]
  PROVE  RedeemInv'
  <1>1. ASSUME NEW s \in Requests PROVE SavesOneOrder(req[s])'
    <2>1. CASE s # r
      <3>1. PICK q : q = req[s]
        OBVIOUS
      <3>2. SavesOneOrder(q)'
        BY <3>1, SavesKept DEF RedeemInv
      <3>. QED
        BY <2>1, <3>1, <3>2
    <2>. QED
      BY <2>1
  <1>2. ASSUME NEW d \in Codes, NEW v \in Users
        PROVE  (Cardinality(RedeemedRows(<<d, v>>)) + Cardinality(Owing(<<d, v>>))
                  <= apps[d][v])'
    <2>1. apps[d][v] \in Nat /\ apps'[d][v] \in Nat
      BY DEF TypeInv, Inv, CountInv
    <2>2. PICK p : p = <<d, v>>
      OBVIOUS
    <2>3. Cardinality(RedeemedRows(p)) + Cardinality(Owing(p)) <= apps[d][v]
      BY <2>2 DEF RedeemInv
    <2>4. /\ Cardinality(RedeemedRows(p)') \in Nat /\ Cardinality(RedeemedRows(p)) \in Nat
          /\ Cardinality(Owing(p)') \in Nat /\ Cardinality(Owing(p)) \in Nat
          /\ IsFiniteSet(RedeemedRows(p)) /\ IsFiniteSet(Owing(p))
      BY FewRows, FewRowsNext
    <2>5. CASE p = <<c, u>>
      <3>1. d = c /\ v = u
        BY <2>2, <2>5
      <3>2. Cardinality(RedeemedRows(p)') + Cardinality(Owing(p)')
              <= Cardinality(RedeemedRows(p)) + Cardinality(Owing(p)) + apps'[d][v] - apps[d][v]
        BY <2>5, <3>1
      <3>3. Cardinality(RedeemedRows(p)') + Cardinality(Owing(p)') <= apps'[d][v]
        BY <2>1, <2>3, <2>4, <3>2
      <3>. QED
        BY <2>2, <3>3
    <2>6. CASE p # <<c, u>>
      <3>1. apps'[d][v] = apps[d][v] /\ RedeemedRows(p)' \subseteq RedeemedRows(p)
        BY <2>2, <2>6
      <3>2. Owing(p)' \subseteq Owing(p)
        BY <2>6 DEF Owing, Owes, Placing, Pair
      <3>3. /\ Cardinality(RedeemedRows(p)') <= Cardinality(RedeemedRows(p))
            /\ Cardinality(Owing(p)') <= Cardinality(Owing(p))
        BY <2>4, <3>1, <3>2, FS_Subset
      <3>4. Cardinality(RedeemedRows(p)') + Cardinality(Owing(p)') <= apps'[d][v]
        BY <2>1, <2>3, <2>4, <3>1, <3>3
      <3>. QED
        BY <2>2, <3>4
    <2>. QED
      BY <2>5, <2>6
  <1>. QED
    BY <1>1, <1>2 DEF RedeemInv

(* Recording the usage of an order.                                        *)
LEMMA Counted ==
  ASSUME TypeInv, NEW q, NEW c \in Codes, NEW u \in Users, q.code = c, q.user = u,
         RecordUsage(q)
  PROVE  /\ apps'[c][u] = apps[c][u] + 1 /\ apps[c][u] \in Nat
         /\ \A d \in Codes, v \in Users : <<d, v>> # <<c, u>> => apps'[d][v] = apps[d][v]
  BY DEF RecordUsage, TypeInv, Inv, CountInv

LEMMA RedeemPlace ==
  ASSUME IsFiniteSet(Requests), TypeInv, TypeInv', RedeemInv, NEW r \in Requests,
         NEW inTxn \in BOOLEAN, Place(r, inTxn)
  PROVE  RedeemInv'
  <1>1. /\ req[r].op = "applied" /\ req'[r].op = "placed" /\ req'[r].txn = inTxn
        /\ req'[r].saves = req[r].saves /\ req'[r].new = req[r].new
        /\ req'[r].code = req[r].code /\ req'[r].user = req[r].user
        /\ req[r].code \in Codes /\ req[r].user \in Users
        /\ \A s \in Requests \ {r} : req'[s] = req[s]
        /\ rows' = rows
    BY PlaceIs DEF Place
  <1>2. OwnersKept
    BY <1>1 DEF OwnersKept
  <1>3. SavesOneOrder(req[r])'
    <2>1. /\ \A i \in DOMAIN req[r].saves : req[r].saves[i] # "REDEEMED"
          /\ \A k \in 1..Len(req[r].new) : req[r].new[k].status # "REDEEMED"
      BY <1>1 DEF RedeemInv, SavesOneOrder
    <2>2. /\ \A i \in DOMAIN req'[r].saves : req'[r].saves[i] # "REDEEMED"
          /\ \A k \in 1..Len(req'[r].new) : req'[r].new[k].status # "REDEEMED"
          /\ req'[r].op # "recorded"
      BY <1>1, <2>1
    <2>. QED
      BY <2>2 DEF SavesOneOrder
  <1>4. CASE inTxn
    <2>1. apps' = apps /\ ~Owes(r)'
      BY <1>1, <1>4 DEF Place, Owes
    <2>. QED
      BY <1>1, <1>2, <1>3, <2>1, NothingRedeemed
  <1>5. CASE ~inTxn
    <2>1. PICK c \in Codes, u \in Users : c = req[r].code /\ u = req[r].user
      BY <1>1
    <2>2. RecordUsage(req[r])
      BY <1>5 DEF Place
    <2>3. /\ apps'[c][u] = apps[c][u] + 1 /\ apps[c][u] \in Nat
          /\ \A d \in Codes, v \in Users : <<d, v>> # <<c, u>> => apps'[d][v] = apps[d][v]
      BY <2>1, <2>2, Counted
    <2>4. \A p : RedeemedRows(p)' = RedeemedRows(p)
      BY <1>1 DEF RedeemedRows, RowsOf
    <2>5. PICK p : p = <<c, u>>
      OBVIOUS
    <2>6. Owing(p)' \subseteq Owing(p) \cup {r}
      BY <1>1 DEF Owing, Owes, Placing, Pair
    <2>7. /\ IsFiniteSet(Owing(p)) /\ Cardinality(Owing(p)) \in Nat
          /\ Cardinality(Owing(p)') \in Nat /\ Cardinality(RedeemedRows(p)) \in Nat
      BY FewRows, FewRowsNext
    <2>8. Cardinality(Owing(p)') <= Cardinality(Owing(p)) + 1
      <3>1. /\ IsFiniteSet(Owing(p) \cup {r})
            /\ Cardinality(Owing(p) \cup {r}) <= Cardinality(Owing(p)) + 1
            /\ Cardinality(Owing(p) \cup {r}) \in Nat
        BY <2>7, OneMore
      <3>2. Cardinality(Owing(p)') <= Cardinality(Owing(p) \cup {r})
        BY <2>6, <3>1, FS_Subset
      <3>. QED
        BY <2>7, <3>1, <3>2
    <2>9. Cardinality(RedeemedRows(p)') + Cardinality(Owing(p)')
            <= Cardinality(RedeemedRows(p)) + Cardinality(Owing(p)) + apps'[c][u] - apps[c][u]
      BY <2>3, <2>4, <2>7, <2>8
    <2>10. Pair(r) = <<c, u>> /\ Pair(r)' = <<c, u>>
      BY <1>1, <2>1 DEF Pair
    <2>. QED
      BY <1>1, <1>2, <1>3, <2>3, <2>4, <2>5, <2>9, <2>10, Redeemed
  <1>. QED
    BY <1>4, <1>5

(* The order ends: its row is redeemed, and it owes none any more.         *)
LEMMA RedeemClose ==
  ASSUME IsFiniteSet(Requests), TypeInv, TypeInv', RedeemInv, NEW r \in Requests,
         CloseOrder(r) \/ OrderCutShort(r)
  PROVE  RedeemInv'
  <1>1. /\ req[r].op \in {"placed", "recorded"} /\ End(r)
        /\ IF req[r].txn THEN RecordUsage(req[r]) ELSE UNCHANGED <<apps, uses>>
        /\ (req[r].op = "recorded" /\ rows' = Saved(req[r])) \/ rows' = rows
        /\ req[r].txn \in BOOLEAN /\ Typed(req[r]) /\ SavesOneOrder(req[r])
    BY DEF CloseOrder, OrderCutShort, TypeInv, Typed, RedeemInv
  <1>2. PICK c \in Codes, u \in Users : c = req[r].code /\ u = req[r].user
    BY <1>1 DEF TypeInv, Inv, ShapeInv, Redeeming
  <1>3. PICK p : p = <<c, u>>
    OBVIOUS
  <1>4. OwnersKept
    BY <1>1, SavedOwners DEF OwnersKept
  <1>5. PICK x : \A p2 : RedeemedRows(p2)' \subseteq
                           RedeemedRows(p2) \cup IF p2 = p THEN {x} ELSE {}
    <2>1. CASE rows' = rows
      BY <2>1 DEF RedeemedRows, RowsOf
    <2>2. CASE req[r].op = "recorded" /\ rows' = Saved(req[r])
      BY <1>1, <1>2, <1>3, <2>2, OneRedeemed
    <2>. QED
      BY <1>1, <2>1, <2>2
  <1>6. /\ IsFiniteSet(RedeemedRows(p)) /\ Cardinality(RedeemedRows(p)) \in Nat
        /\ IsFiniteSet(Owing(p)) /\ Cardinality(Owing(p)) \in Nat
        /\ Cardinality(RedeemedRows(p)') \in Nat /\ Cardinality(Owing(p)') \in Nat
    BY FewRows, FewRowsNext
  <1>7. Cardinality(RedeemedRows(p)') <= Cardinality(RedeemedRows(p)) + 1
    <2>1. /\ IsFiniteSet(RedeemedRows(p) \cup {x})
          /\ Cardinality(RedeemedRows(p) \cup {x}) <= Cardinality(RedeemedRows(p)) + 1
          /\ Cardinality(RedeemedRows(p) \cup {x}) \in Nat
      BY <1>6, OneMore
    <2>2. RedeemedRows(p)' \subseteq RedeemedRows(p) \cup {x}
      BY <1>5
    <2>3. Cardinality(RedeemedRows(p)') <= Cardinality(RedeemedRows(p) \cup {x})
      BY <2>1, <2>2, FS_Subset
    <2>. QED
      BY <1>6, <2>1, <2>3
  <1>8. Owing(p)' \subseteq Owing(p) \ {r} /\ SavesOneOrder(req[r])' /\ ~Owes(r)'
    BY <1>1, EndIs, EndOwes DEF Owing, Owes, Placing, Pair
  <1>9. Cardinality(Owing(p)') <= Cardinality(Owing(p))
    BY <1>6, <1>8, FS_Subset
  <1>10. Pair(r) = p
    BY <1>2, <1>3 DEF Pair
  <1>11. CASE req[r].txn
    <2>1. /\ apps'[c][u] = apps[c][u] + 1 /\ apps[c][u] \in Nat
          /\ \A d \in Codes, v \in Users : <<d, v>> # <<c, u>> => apps'[d][v] = apps[d][v]
      BY <1>1, <1>2, <1>11, Counted
    <2>2. Cardinality(RedeemedRows(p)') + Cardinality(Owing(p)')
            <= Cardinality(RedeemedRows(p)) + Cardinality(Owing(p)) + apps'[c][u] - apps[c][u]
      BY <1>6, <1>7, <1>9, <2>1
    <2>. QED
      BY <1>1, <1>3, <1>4, <1>5, <1>8, <1>10, <2>1, <2>2, EndIs, Redeemed
  <1>12. CASE ~req[r].txn
    <2>1. apps' = apps /\ apps[c][u] \in Nat
      BY <1>1, <1>12 DEF TypeInv, Inv, CountInv
    <2>2. r \in Owing(p)
      BY <1>1, <1>10, <1>12 DEF Owing, Owes, Placing
    <2>3. Cardinality(Owing(p)') <= Cardinality(Owing(p)) - 1
      <3>1. /\ IsFiniteSet(Owing(p) \ {r})
            /\ Cardinality(Owing(p) \ {r}) = Cardinality(Owing(p)) - 1
        BY <1>6, <2>2, FS_RemoveElement
      <3>2. Cardinality(Owing(p)') <= Cardinality(Owing(p) \ {r})
        BY <1>8, <3>1, FS_Subset
      <3>. QED
        BY <3>1, <3>2
    <2>4. Cardinality(RedeemedRows(p)') + Cardinality(Owing(p)')
            <= Cardinality(RedeemedRows(p)) + Cardinality(Owing(p)) + apps'[c][u] - apps[c][u]
      BY <1>6, <1>7, <2>1, <2>3
    <2>. QED
      BY <1>1, <1>3, <1>4, <1>5, <1>8, <1>10, <2>1, <2>4, EndIs, Redeemed
  <1>. QED
    BY <1>1, <1>11, <1>12

LEMMA RedeemLearner ==
  ASSUME IsFiniteSet(Requests), TypeInv, TypeInv', RedeemInv, NEW r \in Requests, Learner(r)
  PROVE  RedeemInv'
  <1>1. ASSUME NEW c \in Codes, NEW u \in Users, Apply(r, c, u) PROVE RedeemInv'
    <2>1. PICK q : Decides(r, q, "applied") /\ Untouching(q) /\ q.new = <<>>
      BY <1>1, ApplyDecides
    <2>2. q.new \in Seq(Opening) /\ DOMAIN q.saves = {}
      BY <2>1 DEF Untouching
    <2>. QED
      BY <2>1, <2>2, RedeemBegin
  <1>2. CASE RecordRedemption(r)
    <2>1. PICK pair, extra : pair = Pair(r) /\ extra = Extra(pair)
      OBVIOUS
    <2>2. RecordedFor(r, pair, extra)
      BY <1>2, <2>1, RecordIs
    <2>3. /\ req[r].op = "placed" /\ req'[r].op = "recorded"
          /\ req'[r].code = req[r].code /\ req'[r].user = req[r].user
          /\ req'[r].txn = req[r].txn /\ rows' = rows /\ apps' = apps
          /\ \A s \in Requests \ {r} : req'[s] = req[s]
      BY <2>2 DEF RecordedFor
    <2>4. OwnersKept
      BY <2>3 DEF OwnersKept
    <2>5. Owes(r)' => Owes(r) /\ Pair(r)' = Pair(r)
      BY <2>3 DEF Owes, Placing, Pair
    <2>6. SavesOneOrder(req[r])'
      <3>1. /\ DOMAIN req'[r].saves \subseteq LiveRowsOf(pair)
            /\ LiveRowsOf(pair) # {} =>
                 \E i \in LiveRowsOf(pair) : DOMAIN req'[r].saves = {i}
        BY <2>2 DEF RecordedFor
      <3>2. \A i \in DOMAIN req'[r].saves : i \in RowsOf(pair)
        BY <3>1 DEF LiveRowsOf
      <3>3. /\ Len(req'[r].new) = extra
            /\ \A k \in 1..extra :
                 req'[r].new[k] = [code |-> req[r].code, user |-> req[r].user,
                                   status |-> IF LiveRowsOf(pair) = {} /\ k = 1
                                              THEN "REDEEMED" ELSE "ASSIGNED"]
        BY <2>2 DEF RecordedFor
      <3>4. \A k \in 1..Len(req'[r].new) :
              /\ req'[r].new[k].code = req'[r].code /\ req'[r].new[k].user = req'[r].user
              /\ req'[r].new[k].status = "REDEEMED" => k = 1 /\ DOMAIN req'[r].saves = {}
        <4>1. ASSUME NEW k \in 1..extra
              PROVE  /\ req'[r].new[k].code = req[r].code
                     /\ req'[r].new[k].user = req[r].user
                     /\ req'[r].new[k].status = "REDEEMED" => LiveRowsOf(pair) = {} /\ k = 1
          <5>1. CASE LiveRowsOf(pair) = {} /\ k = 1
            <6>1. req'[r].new[k] = [code |-> req[r].code, user |-> req[r].user,
                                    status |-> "REDEEMED"]
              BY <3>3, <5>1
            <6>. QED
              BY <5>1, <6>1
          <5>2. CASE ~(LiveRowsOf(pair) = {} /\ k = 1)
            <6>1. req'[r].new[k] = [code |-> req[r].code, user |-> req[r].user,
                                    status |-> "ASSIGNED"]
              BY <3>3, <5>2
            <6>. QED
              BY <6>1
          <5>. QED
            BY <5>1, <5>2
        <4>2. LiveRowsOf(pair) = {} => DOMAIN req'[r].saves = {}
          BY <3>1
        <4>. QED
          BY <2>3, <3>3, <4>1, <4>2
      <3>5. \A i, j \in DOMAIN req'[r].saves : i = j
        BY <3>1
      <3>6. pair = <<req'[r].code, req'[r].user>> /\ RowsOf(pair)' = RowsOf(pair)
        BY <2>1, <2>3 DEF Pair, RowsOf
      <3>. QED
        BY <2>3, <3>2, <3>4, <3>5, <3>6 DEF SavesOneOrder, RowsOf
    <2>. QED
      BY <2>3, <2>4, <2>5, <2>6, NothingRedeemed
  <1>. QED
    BY <1>1, <1>2, RedeemPlace, RedeemClose DEF Learner

LEMMA RedeemInit ==
  IsFiniteSet(Requests) => (Init => RedeemInv)
  <1>. SUFFICES ASSUME Init PROVE RedeemInv
    OBVIOUS
  <1>1. /\ \A r \in Requests : req[r] = NoRequest /\ ~Owes(r)
        /\ DOMAIN rows = {} /\ \A c \in Codes, u \in Users : apps[c][u] = 0
    BY DEF Init, Owes, Placing, NoRequest
  <1>2. \A p : RedeemedRows(p) = {} /\ Owing(p) = {}
    BY <1>1 DEF RedeemedRows, RowsOf, Owing
  <1>3. \A c \in Codes, u \in Users :
          Cardinality(RedeemedRows(<<c, u>>)) + Cardinality(Owing(<<c, u>>)) <= apps[c][u]
    <2>1. \A p : Cardinality(RedeemedRows(p)) = 0 /\ Cardinality(Owing(p)) = 0
      BY <1>2, FS_EmptySet
    <2>. QED
      BY <1>1, <2>1
  <1>. QED
    BY <1>1, <1>3, NoRequestSaves DEF RedeemInv

LEMMA RedeemNext ==
  IsFiniteSet(Codes) /\ IsFiniteSet(Requests) =>
    (TypeInv /\ TypeInv' /\ RedeemInv /\ [Next]_vars => RedeemInv')
  <1>. SUFFICES ASSUME IsFiniteSet(Codes), IsFiniteSet(Requests), TypeInv, TypeInv',
                       RedeemInv, [Next]_vars
                PROVE  RedeemInv'
    OBVIOUS
  <1>1. ASSUME NEW r \in Requests, Abandon(r) PROVE RedeemInv'
    <2>1. rows' = rows /\ apps' = apps /\ End(r)
      BY <1>1 DEF Abandon, db
    <2>2. OwnersKept
      BY <2>1 DEF OwnersKept
    <2>. QED
      BY <2>1, <2>2, EndIs, EndOwes, NothingRedeemed
  <1>2. ASSUME NEW p \in Pairs, Delivered(p) PROVE RedeemInv'
    <2>1. OwnersKept /\ apps' = apps /\ req' = req
      BY <1>2, DeliveredIs DEF OwnersKept
    <2>2. \A i \in DOMAIN rows' :
            rows'[i].status = "REDEEMED" => i \in DOMAIN rows /\ rows[i].status = "REDEEMED"
      BY <1>2, DeliveredIs
    <2>. QED
      BY <2>1, <2>2, NothingRedeemed
  <1>3. CASE UNCHANGED vars
    <2>1. OwnersKept /\ apps' = apps /\ req' = req /\ rows' = rows
      BY <1>3 DEF OwnersKept, vars, db
    <2>. QED
      BY <2>1, NothingRedeemed
  <1>. QED
    BY <1>1, <1>2, <1>3, RedeemStaff, RedeemEmails, RedeemLearner DEF Next

LEMMA RedeemSuffices ==
  IsFiniteSet(Requests) => (TypeInv /\ RedeemInv => RedeemedForAnOrder)
  <1>. SUFFICES ASSUME IsFiniteSet(Requests), TypeInv, RedeemInv,
                       NEW c \in Codes, NEW u \in Users
                PROVE  Cardinality({i \in RowsOf(<<c, u>>) : rows[i].status = "REDEEMED"})
                         <= apps[c][u]
    BY DEF RedeemedForAnOrder
  <1>1. Cardinality(RedeemedRows(<<c, u>>)) + Cardinality(Owing(<<c, u>>)) <= apps[c][u]
    BY DEF RedeemInv
  <1>2. /\ Cardinality(RedeemedRows(<<c, u>>)) \in Nat
        /\ Cardinality(Owing(<<c, u>>)) \in Nat /\ apps[c][u] \in Nat
    BY FewRows DEF TypeInv, Inv, CountInv
  <1>3. Cardinality(RedeemedRows(<<c, u>>)) <= apps[c][u]
    BY <1>1, <1>2
  <1>. QED
    BY <1>3 DEF RedeemedRows

(* However orders, reports and staff requests interleave, and whichever of *)
(* them fail: a learner has no more redeemed rows of a code than orders    *)
(* with it.                                                                *)
THEOREM RedeemedRowsHaveOrders ==
  ASSUME IsFiniteSet(Codes), IsFiniteSet(Requests)
  PROVE  Spec => []RedeemedForAnOrder
  <1>1. Init => TypeInv /\ RedeemInv
    BY InitTypes, RedeemInit
  <1>2. TypeInv /\ RedeemInv /\ [Next]_vars => (TypeInv /\ RedeemInv)'
    BY NextTypes, RedeemNext
  <1>3. TypeInv /\ RedeemInv => RedeemedForAnOrder
    BY RedeemSuffices
  <1>. QED
    BY <1>1, <1>2, <1>3, PTL DEF Spec

-----------------------------------------------------------------------------
(* One request at a time.  Reports of e-mails still come at any time: they *)
(* make a pending row an assigned one.                                     *)

OneAtATime == \A r, s \in Requests : r = s

(* Requests that end and save, and those that end and do not.  Openness:   *)
(* a step leaves every row as open or closed as it was.                    *)
Saving(r) ==
  /\ req[r].op \in {"assign", "revoke", "remind", "resize", "recorded"}
  /\ End(r) /\ rows' = Saved(req[r]) /\ SaveNudges(req[r])
  /\ limit' = IF req[r].op = "resize" THEN req[r].limit ELSE limit
  /\ limit' # limit => "resized" \in noise'
  /\ noise \subseteq noise' /\ usage' = usage

Dropping(r) ==
  /\ End(r) /\ rows' = rows /\ nudge' = nudge /\ limit' = limit
  /\ noise \subseteq noise' /\ usage' = usage

Openness ==
  /\ OwnersKept /\ DOMAIN rows' = DOMAIN rows
  /\ \A i \in DOMAIN rows :
       /\ (rows'[i].status \in Live) <=> (rows[i].status \in Live)
       /\ rows[i].status \in Final => rows'[i].status = rows[i].status
  /\ nudge' = nudge /\ usage' = usage /\ noise' = noise

LEMMA RowsEnds ==
  ASSUME TypeInv, NEW r \in Requests
  PROVE  /\ Commit(r) \/ CloseOrder(r) => Saving(r)
         /\ OrderCutShort(r) \/ Abandon(r) => Dropping(r)
  BY DEF Commit, CloseOrder, OrderCutShort, Abandon, Saving, Dropping, db

LEMMA SameRows ==
  ASSUME TypeInv, rows' = rows, nudge' = nudge, usage' = usage, noise' = noise
  PROVE  Openness
  BY DEF Openness, OwnersKept

LEMMA DeliveredOpenness ==
  ASSUME TypeInv, NEW p \in Pairs, Delivered(p)
  PROVE  Openness /\ req' = req
  <1>1. /\ DOMAIN rows' = DOMAIN rows
        /\ \A i \in DOMAIN rows :
              /\ rows'[i].code = rows[i].code /\ rows'[i].user = rows[i].user
              /\ rows'[i].status = IF i \in RowsOf(p) /\ rows[i].status = "EMAIL_PENDING"
                                   THEN "ASSIGNED" ELSE rows[i].status
        /\ UNCHANGED <<usage, codes, limit, apps, uses, nudge, noise, req>>
    BY DeliveredIs
  <1>2. OwnersKept
    BY <1>1 DEF OwnersKept
  <1>3. \A i \in DOMAIN rows :
          /\ (rows'[i].status \in Live) <=> (rows[i].status \in Live)
          /\ rows[i].status \in Final => rows'[i].status = rows[i].status
    BY <1>1 DEF Live, Final
  <1>. QED
    BY <1>1, <1>2, <1>3 DEF Openness

(* A bounce: the row was open, and stays open.                             *)
LEMMA BounceRowIs ==
  ASSUME TypeInv, NEW r \in Requests, NEW i \in DOMAIN rows, BounceRow(r, i)
  PROVE  /\ OwnersKept /\ DOMAIN rows' = DOMAIN rows
         /\ \A j \in DOMAIN rows :
              rows'[j].status = IF j = i THEN "EMAIL_BOUNCED" ELSE rows[j].status
         /\ req[r].op = "bounce" /\ i \in DOMAIN req[r].saves
         /\ UNCHANGED <<usage, codes, limit, apps, uses, nudge, mail, noise>>
         /\ \A s \in Requests \ {r} : req'[s] = req[s]
         /\ \/ req'[r] = NoRequest
            \/ /\ req'[r].op = "bounce" /\ req'[r].new = req[r].new
               /\ req'[r].on = req[r].on /\ req'[r].off = req[r].off
               /\ req'[r].code = req[r].code /\ req'[r].txn = req[r].txn
               /\ DOMAIN req'[r].saves = DOMAIN req[r].saves \ {i}
               /\ \A j \in DOMAIN req'[r].saves : req'[r].saves[j] = req[r].saves[j]
  <1>0. Typed(req[r]) /\ DOMAIN req = Requests
    BY DEF TypeInv, Inv, ShapeInv
  <1>1. rows' = [rows EXCEPT ![i].status = "EMAIL_BOUNCED"]
    BY DEF BounceRow
  <1>2. /\ DOMAIN rows' = DOMAIN rows
        /\ \A j \in DOMAIN rows :
             /\ rows'[j].code = rows[j].code /\ rows'[j].user = rows[j].user
             /\ rows'[j].status = IF j = i THEN "EMAIL_BOUNCED" ELSE rows[j].status
    BY <1>1, Positions DEF TypeInv, DbOK, Row
  <1>3. OwnersKept
    BY <1>2 DEF OwnersKept
  <1>4. /\ req[r].op = "bounce" /\ i \in DOMAIN req[r].saves
        /\ \A s \in Requests \ {r} : req'[s] = req[s]
    BY <1>0 DEF BounceRow
  <1>5. CASE DOMAIN req[r].saves = {i}
    <2>1. req'[r] = NoRequest
      BY <1>0, <1>5 DEF BounceRow
    <2>. QED
      BY <1>2, <1>3, <1>4, <2>1 DEF BounceRow
  <1>6. CASE DOMAIN req[r].saves # {i}
    <2>1. req'[r] = [req[r] EXCEPT !.saves =
                       Restrict(req[r].saves, DOMAIN req[r].saves \ {i})]
      BY <1>0, <1>6 DEF BounceRow
    <2>2. /\ req'[r].op = "bounce" /\ req'[r].new = req[r].new
          /\ req'[r].on = req[r].on /\ req'[r].off = req[r].off
          /\ req'[r].code = req[r].code /\ req'[r].txn = req[r].txn
          /\ DOMAIN req'[r].saves = DOMAIN req[r].saves \ {i}
          /\ \A j \in DOMAIN req'[r].saves : req'[r].saves[j] = req[r].saves[j]
      BY <1>0, <1>4, <2>1 DEF Typed, Fields, Restrict
    <2>. QED
      BY <1>2, <1>3, <1>4, <2>2 DEF BounceRow
  <1>. QED
    BY <1>5, <1>6

LEMMA TooEarlyIs ==
  ASSUME TypeInv, NEW r \in Requests, NEW p \in Pairs, DeliveredTooEarly(r, p)
  PROVE  /\ Fields(req'[r]) /\ req'[r].op = req[r].op /\ req'[r].saves = req[r].saves
         /\ req'[r].new = req[r].new /\ req'[r].on = req[r].on
         /\ req'[r].off = req[r].off /\ req'[r].code = req[r].code
         /\ req'[r].user = req[r].user /\ req'[r].limit = req[r].limit
         /\ req'[r].uses = req[r].uses /\ req'[r].txn = req[r].txn
         /\ UNCHANGED <<usage, codes, limit, rows, apps, uses, nudge, mail, noise>>
  <1>1. Typed(req[r]) /\ DOMAIN req = Requests
    BY DEF TypeInv, Inv, ShapeInv
  <1>2. req'[r] = [req[r] EXCEPT !.mail = @ \ {p}]
    BY <1>1 DEF DeliveredTooEarly
  <1>. QED
    BY <1>1, <1>2 DEF Typed, Fields, DeliveredTooEarly, db

-----------------------------------------------------------------------------
(* Only open rows are about to be saved.                                   *)
FinalInv == \A r \in Requests : \A i \in DOMAIN req[r].saves : rows[i].status \in Live

FinalKept ==
  \A i \in DOMAIN rows : rows[i].status \in Final => rows'[i].status = rows[i].status

LEMMA FinalOpenness ==
  ASSUME TypeInv, FinalInv, Openness, NEW r \in Requests, OneAtATime,
         DOMAIN req'[r].saves \subseteq DOMAIN req[r].saves
  PROVE  FinalInv' /\ FinalKept
  <1>1. \A i \in DOMAIN req[r].saves : i \in DOMAIN rows
    BY DEF TypeInv, Typed
  <1>. QED
    BY <1>1 DEF FinalInv, FinalKept, Openness, OneAtATime

LEMMA FinalBegin ==
  ASSUME TypeInv, FinalInv, OneAtATime, NEW r \in Requests, NEW q, Begin(r, q),
         \A i \in DOMAIN q.saves : rows[i].status \in Live
  PROVE  FinalInv' /\ FinalKept
  BY BeginIs DEF FinalInv, FinalKept, OneAtATime

LEMMA FinalEnd ==
  ASSUME TypeInv, FinalInv, OneAtATime, NEW r \in Requests, Saving(r) \/ Dropping(r)
  PROVE  FinalInv' /\ FinalKept
  <1>1. req'[r] = NoRequest /\ DOMAIN NoRequest.saves = {}
    <2>1. DOMAIN NoRequest.saves = {}
      BY DEF NoRequest
    <2>. QED
      BY <2>1, EndIs DEF Saving, Dropping
  <1>2. FinalInv'
    BY <1>1 DEF FinalInv, OneAtATime
  <1>3. FinalKept
    <2>1. CASE Dropping(r)
      BY <2>1 DEF FinalKept, Dropping
    <2>2. CASE Saving(r)
      <3>1. \A i \in DOMAIN rows :
              rows'[i].status = IF i \in DOMAIN req[r].saves THEN req[r].saves[i]
                                ELSE rows[i].status
        BY <2>2, SavedOwners DEF Saving, TypeInv
      <3>2. Live \cap Final = {}
        BY DEF Live, Final
      <3>. QED
        BY <3>1, <3>2 DEF FinalInv, FinalKept
    <2>. QED
      BY <2>1, <2>2
  <1>. QED
    BY <1>2, <1>3

LEMMA FinalStep ==
  OneAtATime /\ IsFiniteSet(Codes) =>
    (TypeInv /\ FinalInv /\ [Next]_vars => FinalInv' /\ FinalKept)
  <1>. SUFFICES ASSUME OneAtATime, IsFiniteSet(Codes), TypeInv, FinalInv, [Next]_vars
                PROVE  FinalInv' /\ FinalKept
    OBVIOUS
  <1>1. ASSUME NEW r \in Requests, Staff(r) PROVE FinalInv' /\ FinalKept
    <2>1. ASSUME NEW us \in UserLists, NEW notice \in Notices,
                 NEW plan \in [DOMAIN us -> Codes], Assign(r, us, plan, notice)
          PROVE  FinalInv' /\ FinalKept
      BY <2>1, AssignDecides, FinalBegin DEF Decides, Untouching
    <2>2. ASSUME NEW c \in Codes, NEW d \in Codes, NEW u \in Users, ReplaceCode(r, c, u, d)
          PROVE  FinalInv' /\ FinalKept
      BY <2>2, ReplaceDecides, FinalBegin DEF Decides, Untouching
    <2>3. ASSUME NEW p \in Pairs, NEW p2 \in Pairs, Revoke(r, {p, p2})
          PROVE  FinalInv' /\ FinalKept
      <3>1. PICK q : /\ Decides(r, q, "revoke") /\ Adding(q)
                     /\ q.saves = [i \in LiveRowsOf(p) \cup LiveRowsOf(p2) |-> "REVOKED"]
        BY <2>3, RevokeDecides
      <3>2. \A i \in DOMAIN q.saves : rows[i].status \in Live
        BY <3>1 DEF LiveRowsOf
      <3>. QED
        BY <3>1, <3>2, FinalBegin DEF Decides
    <2>4. ASSUME NEW p \in Pairs, Remind(r, p) PROVE FinalInv' /\ FinalKept
      <3>1. PICK q : /\ Decides(r, q, "remind") /\ Adding(q)
                     /\ q.saves = [i \in LiveRowsOf(p) |-> rows[i].status]
        BY <2>4, RemindDecides
      <3>2. \A i \in DOMAIN q.saves : rows[i].status \in Live
        BY <3>1 DEF LiveRowsOf
      <3>. QED
        BY <3>1, <3>2, FinalBegin DEF Decides
    <2>5. ASSUME NEW n \in Limits \cup {0}, Resize(r, n) PROVE FinalInv' /\ FinalKept
      BY <2>5, ResizeDecides, FinalBegin DEF Decides, Untouching
    <2>6. CASE Commit(r)
      BY <2>6, RowsEnds, FinalEnd
    <2>. QED
      BY <1>1, <2>1, <2>2, <2>3, <2>4, <2>5, <2>6 DEF Staff
  <1>2. ASSUME NEW r \in Requests, Emails(r) PROVE FinalInv' /\ FinalKept
    <2>1. ASSUME NEW p \in Pairs, DeliveredTooEarly(r, p) PROVE FinalInv' /\ FinalKept
      BY <2>1, TooEarlyIs, SameRows, FinalOpenness
    <2>2. ASSUME NEW I \in SUBSET DOMAIN rows, Bounce(r, I) PROVE FinalInv' /\ FinalKept
      <3>1. PICK q : /\ Decides(r, q, "bounce") /\ q.saves = [i \in I |-> "EMAIL_BOUNCED"]
                     /\ \A i \in I : rows[i].status = "ASSIGNED"
        BY <2>2, BounceDecides
      <3>2. \A i \in DOMAIN q.saves : rows[i].status \in Live
        BY <3>1 DEF Live
      <3>. QED
        BY <3>1, <3>2, FinalBegin DEF Decides
    <2>3. ASSUME NEW i \in DOMAIN rows, BounceRow(r, i) PROVE FinalInv' /\ FinalKept
      <3>1. /\ DOMAIN rows' = DOMAIN rows /\ i \in DOMAIN req[r].saves
            /\ \A j \in DOMAIN rows :
                 rows'[j].status = IF j = i THEN "EMAIL_BOUNCED" ELSE rows[j].status
        BY <2>3, BounceRowIs
      <3>2. rows[i].status \notin Final /\ "EMAIL_BOUNCED" \in Live
        BY <3>1 DEF FinalInv, Live, Final
      <3>3. DOMAIN req'[r].saves \subseteq DOMAIN req[r].saves
        BY <2>3, BounceRowIs DEF NoRequest
      <3>4. \A j \in DOMAIN req[r].saves : j \in DOMAIN rows
        BY DEF TypeInv, Typed
      <3>. QED
        BY <3>1, <3>2, <3>3, <3>4 DEF FinalInv, FinalKept, OneAtATime
    <2>. QED
      BY <1>2, <2>1, <2>2, <2>3 DEF Emails
  <1>3. ASSUME NEW r \in Requests, Learner(r) PROVE FinalInv' /\ FinalKept
    <2>1. ASSUME NEW c \in Codes, NEW u \in Users, Apply(r, c, u)
          PROVE  FinalInv' /\ FinalKept
      BY <2>1, ApplyDecides, FinalBegin DEF Decides, Untouching
    <2>2. ASSUME NEW inTxn \in BOOLEAN, Place(r, inTxn) PROVE FinalInv' /\ FinalKept
      <3>1. Openness
        BY <2>2, SameRows DEF Place
      <3>. QED
        BY <2>2, <3>1, PlaceIs, FinalOpenness
    <2>3. CASE RecordRedemption(r)
      <3>1. PICK pair, extra : pair = Pair(r) /\ extra = Extra(pair)
        OBVIOUS
      <3>2. RecordedFor(r, pair, extra)
        BY <2>3, <3>1, RecordIs
      <3>. QED
        BY <3>2 DEF RecordedFor, LiveRowsOf, FinalInv, FinalKept, OneAtATime
    <2>4. CASE CloseOrder(r) \/ OrderCutShort(r)
      BY <2>4, RowsEnds, FinalEnd
    <2>. QED
      BY <1>3, <2>1, <2>2, <2>3, <2>4 DEF Learner
  <1>4. ASSUME NEW r \in Requests, Abandon(r) PROVE FinalInv' /\ FinalKept
    BY <1>4, RowsEnds, FinalEnd
  <1>5. ASSUME Openness, req' = req PROVE FinalInv' /\ FinalKept
    <2>1. \A r \in Requests : \A i \in DOMAIN req[r].saves : i \in DOMAIN rows
      BY DEF TypeInv, Typed
    <2>. QED
      BY <1>5, <2>1 DEF FinalInv, FinalKept, Openness
  <1>6. CASE UNCHANGED vars
    BY <1>5, <1>6, SameRows DEF vars, db
  <1>. QED
    BY <1>1, <1>2, <1>3, <1>4, <1>5, <1>6, DeliveredOpenness DEF Next

(* With one request at a time, and e-mail reports at any time: a redeemed  *)
(* or revoked row stays what it is.                                        *)
THEOREM SerialFinalRowsStay ==
  ASSUME OneAtATime, IsFiniteSet(Codes)
  PROVE  Spec => FinalRowsStay
  <1>1. Init => TypeInv /\ FinalInv
    <2>1. Init => FinalInv
      BY DEF Init, FinalInv, NoRequest
    <2>. QED
      BY <2>1, InitTypes
  <1>2. TypeInv /\ FinalInv /\ [Next]_vars => (TypeInv /\ FinalInv)'
    BY NextTypes, FinalStep
  <1>3. TypeInv /\ FinalInv /\ [Next]_vars =>
          [\A i \in DOMAIN rows :
             rows[i].status \in Final => rows'[i].status = rows[i].status]_vars
    BY FinalStep DEF FinalKept
  <1>. QED
    BY <1>1, <1>2, <1>3, PTL DEF Spec, FinalRowsStay

-----------------------------------------------------------------------------
(* Nudge e-mails.  Of the pairs that are nudged now, those a request does  *)
(* not unsubscribe keep an open row when it commits; and it creates open   *)
(* rows for those it is going to nudge.                                    *)

Nudged(p) == p \in Pairs /\ nudge[p] = "on"

Keeps(q) ==
  \A p \in Pairs \ q.off :
    Nudged(p) => \E i \in LiveRowsOf(p) : i \in DOMAIN q.saves => q.saves[i] \in Live

Brings(q) ==
  /\ Redeeming(q) => q.on = {}
  /\ \A p \in q.on :
       \E k \in 1..Len(q.new) :
         <<q.new[k].code, q.new[k].user>> = p /\ q.new[k].status \in Live

AllHeld == \A p \in Pairs : Nudged(p) => LiveRowsOf(p) # {}

NudgeInv ==
  "cut" \notin noise => AllHeld /\ \A r \in Requests : Keeps(req[r]) /\ Brings(req[r])

LEMMA LiveStays ==
  ASSUME Openness, NEW p
  PROVE  LiveRowsOf(p)' = LiveRowsOf(p) /\ (Nudged(p)' <=> Nudged(p))
  BY DEF Openness, OwnersKept, LiveRowsOf, RowsOf, Nudged

LEMMA KeepsStays ==
  ASSUME Openness, NEW q, Keeps(q)
  PROVE  Keeps(q)'
  BY LiveStays DEF Keeps

LEMMA HeldStays ==
  ASSUME Openness, AllHeld
  PROVE  AllHeld'
  BY LiveStays DEF AllHeld

LEMMA NoRequestKeeps ==
  AllHeld => Keeps(NoRequest) /\ Brings(NoRequest)
  <1>1. NoRequest.on = {} /\ DOMAIN NoRequest.saves = {}
    BY DEF NoRequest
  <1>. QED
    BY <1>1 DEF AllHeld, Keeps, Brings

LEMMA NoRequestKeepsNext ==
  AllHeld' => Keeps(NoRequest)' /\ Brings(NoRequest)'
  <1>1. (AllHeld => Keeps(NoRequest) /\ Brings(NoRequest))'
    BY NoRequestKeeps, PTL
  <1>. QED
    BY <1>1

(* A request that begins, or goes on, without a change of the rows.        *)
LEMMA NudgeGoesOn ==
  ASSUME TypeInv, NudgeInv, OneAtATime, Openness, NEW r \in Requests,
         "cut" \notin noise /\ AllHeld => Keeps(req[r])' /\ Brings(req[r])'
  PROVE  NudgeInv'
  <1>. SUFFICES ASSUME "cut" \notin noise' PROVE
         AllHeld' /\ \A s \in Requests : Keeps(req[s])' /\ Brings(req[s])'
    BY DEF NudgeInv
  <1>1. "cut" \notin noise /\ AllHeld
    BY DEF NudgeInv, Openness
  <1>. QED
    BY <1>1, HeldStays DEF OneAtATime

LEMMA NudgeBegin ==
  ASSUME TypeInv, NudgeInv, OneAtATime, NEW r \in Requests, NEW q, Begin(r, q),
         "cut" \notin noise /\ AllHeld => Keeps(q) /\ Brings(q)
  PROVE  NudgeInv'
  <1>1. Openness /\ req'[r] = q
    BY BeginIs, SameRows
  <1>2. "cut" \notin noise /\ AllHeld => Keeps(q)' /\ Brings(q)'
    BY <1>1, KeepsStays DEF Brings
  <1>3. "cut" \notin noise /\ AllHeld => Keeps(req[r])' /\ Brings(req[r])'
    BY <1>1, <1>2
  <1>. QED
    BY <1>1, <1>3, NudgeGoesOn

(* Nothing about nudge e-mails is changed.                                 *)
LEMMA KeepsAll ==
  ASSUME AllHeld, NEW q, DOMAIN q.saves = {}
  PROVE  Keeps(q)
  BY DEF AllHeld, Keeps

LEMMA NudgeDrop ==
  ASSUME TypeInv, NudgeInv, OneAtATime, NEW r \in Requests, Dropping(r)
  PROVE  NudgeInv'
  <1>. SUFFICES ASSUME "cut" \notin noise' PROVE
         AllHeld' /\ \A s \in Requests : Keeps(req[s])' /\ Brings(req[s])'
    BY DEF NudgeInv
  <1>1. AllHeld
    BY DEF NudgeInv, Dropping
  <1>2. AllHeld'
    BY <1>1 DEF Dropping, AllHeld, Nudged, LiveRowsOf, RowsOf
  <1>3. Keeps(NoRequest)' /\ Brings(NoRequest)'
    BY <1>2, NoRequestKeepsNext
  <1>4. req'[r] = NoRequest
    BY EndIs DEF Dropping
  <1>5. Keeps(req[r])' /\ Brings(req[r])'
    BY <1>3, <1>4
  <1>. QED
    BY <1>2, <1>5 DEF OneAtATime

LEMMA NudgeSave ==
  ASSUME TypeInv, NudgeInv, OneAtATime, NEW r \in Requests, Saving(r)
  PROVE  NudgeInv'
  <1>. SUFFICES ASSUME "cut" \notin noise' PROVE
         AllHeld' /\ \A s \in Requests : Keeps(req[s])' /\ Brings(req[s])'
    BY DEF NudgeInv
  <1>1. PICK q : q = req[r]
    OBVIOUS
  <1>2. Keeps(q) /\ Brings(q)
    BY <1>1 DEF NudgeInv, Saving
  <1>3. Typed(q) /\ rows' = Saved(q) /\ SaveNudges(q) /\ End(r)
    BY <1>1 DEF Saving, TypeInv
  <1>4. ASSUME NEW p \in Pairs, Nudged(p)' PROVE LiveRowsOf(p)' # {}
    <2>1. p \in q.on \/ (Nudged(p) /\ p \notin q.off)
      BY <1>3, <1>4 DEF SaveNudges, Nudged
    <2>2. CASE p \in q.on
      <3>1. PICK k \in 1..Len(q.new) :
              <<q.new[k].code, q.new[k].user>> = p /\ q.new[k].status \in Live
        BY <1>2, <2>2 DEF Brings
      <3>2. Len(rows) + k \in DOMAIN rows' /\ rows'[Len(rows) + k] = q.new[k]
        BY <1>3, SavedOwners
      <3>. QED
        BY <3>1, <3>2 DEF LiveRowsOf, RowsOf
    <2>3. CASE Nudged(p) /\ p \notin q.off
      <3>1. PICK i \in LiveRowsOf(p) : i \in DOMAIN q.saves => q.saves[i] \in Live
        BY <1>2, <2>3 DEF Keeps
      <3>2. i \in DOMAIN rows /\ rows[i].status \in Live
            /\ <<rows[i].code, rows[i].user>> = p
        BY <3>1 DEF LiveRowsOf, RowsOf
      <3>3. i \in DOMAIN rows' /\ rows'[i].status \in Live
            /\ <<rows'[i].code, rows'[i].user>> = p
        BY <1>3, <3>1, <3>2, SavedOwners DEF OwnersKept
      <3>. QED
        BY <3>3 DEF LiveRowsOf, RowsOf
    <2>. QED
      BY <2>1, <2>2, <2>3
  <1>5. AllHeld'
    BY <1>4 DEF AllHeld
  <1>6. Keeps(NoRequest)' /\ Brings(NoRequest)'
    BY <1>5, NoRequestKeepsNext
  <1>7. req'[r] = NoRequest
    BY <1>3, EndIs
  <1>8. Keeps(req[r])' /\ Brings(req[r])'
    BY <1>6, <1>7
  <1>. QED
    BY <1>5, <1>8 DEF OneAtATime

LEMMA Concat ==
  ASSUME NEW T, NEW a \in Seq(T), NEW b \in Seq(T)
  PROVE  /\ a \o b \in Seq(T) /\ Len(a \o b) = Len(a) + Len(b)
         /\ \A k \in 1..Len(a) : (a \o b)[k] = a[k]
         /\ \A k \in 1..Len(b) : (a \o b)[Len(a) + k] = b[k]
         /\ Len(a) \in Nat /\ Len(b) \in Nat
  OBVIOUS

(* The shares of an assignment lie one after the other in its new rows.    *)
Share(c) == IF OneLearner THEN Slots(c) ELSE 1

Pledged(c, u) == [code |-> c, user |-> u, status |-> "EMAIL_PENDING"]

Lie(new, us, plan, off) ==
  /\ \A i \in DOMAIN us :
       /\ Share(plan[i]) \in Nat \ {0} /\ off[i] \in Nat
       /\ \A k \in 1..Share(plan[i]) :
            off[i] + k \in 1..Len(new) /\ new[off[i] + k] = Pledged(plan[i], us[i])
  /\ \A m \in 1..Len(new) :
       \E i \in DOMAIN us : \E k \in 1..Share(plan[i]) : m = off[i] + k
  /\ ~OneLearner => \A i \in DOMAIN us : off[i] = i - 1

LEMMA SharesFlat ==
  ASSUME TypeInv, NEW us \in UserLists, NEW plan \in [DOMAIN us -> Codes], Fits(us, plan),
         NEW new, new = FlattenSeq(Shares(us, plan))
  PROVE  \E off : Lie(new, us, plan, off)
  <1>. DEFINE ss == Shares(us, plan)
  <1>1. DOMAIN us = 1..Len(us) /\ Len(us) \in {1, 2}
    BY ListLength
  <1>2. ASSUME NEW i \in DOMAIN us
        PROVE  /\ ss[i] \in Seq(Opening) /\ Len(ss[i]) = Share(plan[i])
               /\ \A k \in 1..Share(plan[i]) : ss[i][k] = Pledged(plan[i], us[i])
               /\ Share(plan[i]) \in Nat \ {0}
    <2>1. Slots(plan[i]) >= 1
      BY DEF Fits, Fillable
    <2>2. /\ ss[i] \in Seq(Opening) /\ Len(ss[i]) = Share(plan[i]) /\ Len(ss[i]) \in Nat
          /\ \A k \in 1..Len(ss[i]) : ss[i][k] = Pledged(plan[i], us[i])
      BY ShareType DEF Share, Pledged
    <2>3. Share(plan[i]) # 0
      BY <2>1 DEF Share
    <2>. QED
      BY <2>2, <2>3
  <1>3. Len(ss) = Len(us)
    <2>1. DOMAIN ss = 1..Len(us) /\ Len(us) \in Nat
      BY <1>1 DEF Shares
    <2>. QED
      BY <2>1
  <1>4. new = FlattenSeq(ss)
    OBVIOUS
  <1>. HIDE DEF ss
  <1>5. CASE Len(us) = 1
    <2>1. DOMAIN us = {1} /\ Len(ss) = 1
      BY <1>1, <1>3, <1>5
    <2>2. new = ss[1]
      BY <1>4, <2>1, FlattenOne
    <2>. DEFINE off == [i \in DOMAIN us |-> 0]
    <2>3. off \in [DOMAIN us -> Nat]
      OBVIOUS
    <2>4. /\ Len(new) = Share(plan[1]) /\ Share(plan[1]) \in Nat
          /\ \A k \in 1..Share(plan[1]) : new[k] = Pledged(plan[1], us[1])
      BY <1>2, <2>1, <2>2
    <2>5. \A i \in DOMAIN us : i = 1 /\ off[i] = 0
      BY <2>1
    <2>. HIDE DEF off
    <2>6. \A i \in DOMAIN us : \A k \in 1..Share(plan[i]) :
            off[i] + k \in 1..Len(new) /\ new[off[i] + k] = Pledged(plan[i], us[i])
      BY <2>4, <2>5
    <2>7. \A m \in 1..Len(new) :
            \E i \in DOMAIN us : \E k \in 1..Share(plan[i]) : m = off[i] + k
      BY <2>1, <2>4, <2>5
    <2>8. \A i \in DOMAIN us : off[i] = i - 1
      BY <2>5
    <2>. QED
      BY <1>2, <2>3, <2>6, <2>7, <2>8 DEF Lie
  <1>6. CASE Len(us) = 2
    <2>1. PICK a, b : a = ss[1] /\ b = ss[2]
      OBVIOUS
    <2>2. DOMAIN us = {1, 2} /\ Len(ss) = 2
      BY <1>1, <1>3, <1>6
    <2>3. new = a \o b
      BY <1>4, <2>1, <2>2, FlattenTwo
    <2>4. /\ a \in Seq(Opening) /\ b \in Seq(Opening)
          /\ Len(a) = Share(plan[1]) /\ Len(b) = Share(plan[2])
          /\ \A k \in 1..Share(plan[1]) : a[k] = Pledged(plan[1], us[1])
          /\ \A k \in 1..Share(plan[2]) : b[k] = Pledged(plan[2], us[2])
          /\ Share(plan[1]) \in Nat \ {0} /\ Share(plan[2]) \in Nat \ {0}
      BY <1>2, <2>1, <2>2
    <2>5. /\ Len(new) = Len(a) + Len(b)
          /\ \A k \in 1..Len(a) : new[k] = a[k]
          /\ \A k \in 1..Len(b) : new[Len(a) + k] = b[k]
      <3>1. a \in Seq(Opening) /\ b \in Seq(Opening)
        BY <2>4
      <3>. QED
        BY <2>3, <3>1, Concat
    <2>. DEFINE off == [i \in DOMAIN us |-> IF i = 1 THEN 0 ELSE Len(a)]
    <2>6. off \in [DOMAIN us -> Nat] /\ off[1] = 0 /\ off[2] = Share(plan[1])
      BY <2>2, <2>4
    <2>. HIDE DEF off
    <2>7. ASSUME NEW i \in DOMAIN us, NEW k \in 1..Share(plan[i])
          PROVE  off[i] + k \in 1..Len(new) /\ new[off[i] + k] = Pledged(plan[i], us[i])
      <3>1. CASE i = 1
        BY <2>4, <2>5, <2>6, <3>1
      <3>2. CASE i = 2
        BY <2>4, <2>5, <2>6, <3>2
      <3>. QED
        BY <2>2, <3>1, <3>2
    <2>8. ASSUME NEW m \in 1..Len(new)
          PROVE  \E i \in DOMAIN us : \E k \in 1..Share(plan[i]) : m = off[i] + k
      <3>1. CASE m <= Share(plan[1])
        <4>1. m \in 1..Share(plan[1]) /\ m = off[1] + m
          BY <2>4, <2>5, <2>6, <3>1
        <4>. QED
          BY <2>2, <4>1
      <3>2. CASE ~(m <= Share(plan[1]))
        <4>1. m - Share(plan[1]) \in 1..Share(plan[2]) /\ m = off[2] + (m - Share(plan[1]))
          BY <2>4, <2>5, <2>6, <3>2
        <4>. QED
          BY <2>2, <4>1
      <3>. QED
        BY <3>1, <3>2
    <2>9. ~OneLearner => \A i \in DOMAIN us : off[i] = i - 1
      BY <2>2, <2>6 DEF Share
    <2>. QED
      BY <1>2, <2>6, <2>7, <2>8, <2>9 DEF Lie
  <1>. QED
    BY <1>1, <1>5, <1>6

LEMMA NudgeStaff ==
  ASSUME IsFiniteSet(Codes), OneAtATime, TypeInv, NudgeInv, NEW r \in Requests, Staff(r)
  PROVE  NudgeInv'
  <1>1. ASSUME NEW us \in UserLists, NEW notice \in Notices,
               NEW plan \in [DOMAIN us -> Codes], Assign(r, us, plan, notice)
        PROVE  NudgeInv'
    <2>1. PICK q : /\ Decides(r, q, "assign") /\ Untouching(q)
                   /\ q.new = FlattenSeq(Shares(us, plan))
                   /\ q.on \subseteq {<<plan[i], us[i]>> : i \in DOMAIN us}
      BY <1>1, AssignDecides
    <2>2. Brings(q)
      <3>. SUFFICES ASSUME NEW p \in q.on
                    PROVE  \E k \in 1..Len(q.new) :
                             /\ <<q.new[k].code, q.new[k].user>> = p
                             /\ q.new[k].status \in Live
        BY <2>1 DEF Brings, Redeeming, Decides
      <3>1. PICK i \in DOMAIN us : p = <<plan[i], us[i]>>
        BY <2>1
      <3>2. Fits(us, plan)
        BY <1>1 DEF Assign
      <3>3. PICK off : Lie(q.new, us, plan, off)
        BY <2>1, <3>2, SharesFlat
      <3>4. 1 \in 1..Share(plan[i]) /\ "EMAIL_PENDING" \in Live
        BY <3>3 DEF Lie, Live
      <3>5. /\ off[i] + 1 \in 1..Len(q.new)
            /\ q.new[off[i] + 1] = Pledged(plan[i], us[i])
        BY <3>3, <3>4 DEF Lie
      <3>. QED
        BY <3>1, <3>4, <3>5 DEF Pledged
    <2>. QED
      BY <2>1, <2>2, KeepsAll, NudgeBegin DEF Decides, Untouching
  <1>2. ASSUME NEW c \in Codes, NEW d \in Codes, NEW u \in Users, ReplaceCode(r, c, u, d)
        PROVE  NudgeInv'
    <2>1. PICK q : Decides(r, q, "assign") /\ Untouching(q) /\ q.on = {}
      BY <1>2, ReplaceDecides
    <2>2. Brings(q)
      BY <2>1 DEF Brings
    <2>. QED
      BY <2>1, <2>2, KeepsAll, NudgeBegin DEF Decides, Untouching
  <1>3. ASSUME NEW p1 \in Pairs, NEW p2 \in Pairs, Revoke(r, {p1, p2}) PROVE NudgeInv'
    <2>1. PICK q : /\ Decides(r, q, "revoke") /\ Adding(q)
                   /\ q.saves = [i \in LiveRowsOf(p1) \cup LiveRowsOf(p2) |-> "REVOKED"]
                   /\ {p1, p2} \subseteq q.off
      BY <1>3, RevokeDecides
    <2>2. Brings(q)
      BY <2>1 DEF Brings, Adding
    <2>3. ASSUME AllHeld PROVE Keeps(q)
      <3>. SUFFICES ASSUME NEW p \in Pairs \ q.off, Nudged(p)
                    PROVE  \E i \in LiveRowsOf(p) : i \notin DOMAIN q.saves
        BY DEF Keeps
      <3>1. p # p1 /\ p # p2 /\ LiveRowsOf(p) # {}
        BY <2>1, <2>3 DEF AllHeld
      <3>2. \A i \in LiveRowsOf(p) : i \notin LiveRowsOf(p1) \cup LiveRowsOf(p2)
        BY <3>1 DEF LiveRowsOf, RowsOf
      <3>. QED
        BY <2>1, <3>1, <3>2
    <2>. QED
      BY <2>1, <2>2, <2>3, NudgeBegin DEF Decides
  <1>4. ASSUME NEW p1 \in Pairs, Remind(r, p1) PROVE NudgeInv'
    <2>1. PICK q : /\ Decides(r, q, "remind") /\ Adding(q)
                   /\ q.saves = [i \in LiveRowsOf(p1) |-> rows[i].status]
      BY <1>4, RemindDecides
    <2>2. Brings(q)
      BY <2>1 DEF Brings, Adding
    <2>3. ASSUME AllHeld PROVE Keeps(q)
      BY <2>1, <2>3 DEF AllHeld, Keeps, LiveRowsOf
    <2>. QED
      BY <2>1, <2>2, <2>3, NudgeBegin DEF Decides
  <1>5. ASSUME NEW n \in Limits \cup {0}, Resize(r, n) PROVE NudgeInv'
    <2>1. PICK q : Decides(r, q, "resize") /\ Untouching(q) /\ q.on = {}
      BY <1>5, ResizeDecides
    <2>2. Brings(q)
      BY <2>1 DEF Brings
    <2>. QED
      BY <2>1, <2>2, KeepsAll, NudgeBegin DEF Decides, Untouching
  <1>6. CASE Commit(r)
    BY <1>6, RowsEnds, NudgeSave
  <1>. QED
    BY <1>1, <1>2, <1>3, <1>4, <1>5, <1>6 DEF Staff

LEMMA NudgeEmails ==
  ASSUME OneAtATime, TypeInv, NudgeInv, NEW r \in Requests, Emails(r)
  PROVE  NudgeInv'
  <1>1. ASSUME NEW p \in Pairs, DeliveredTooEarly(r, p) PROVE NudgeInv'
    <2>1. /\ req'[r].saves = req[r].saves /\ req'[r].new = req[r].new
          /\ req'[r].on = req[r].on /\ req'[r].off = req[r].off /\ Openness
          /\ req'[r].op = req[r].op
      BY <1>1, TooEarlyIs, SameRows
    <2>2. ASSUME "cut" \notin noise PROVE Keeps(req[r])' /\ Brings(req[r])'
      <3>1. Keeps(req[r]) /\ Brings(req[r])
        BY <2>2 DEF NudgeInv
      <3>2. PICK q : q = req[r]
        OBVIOUS
      <3>3. Keeps(q)'
        BY <2>1, <3>1, <3>2, KeepsStays
      <3>. QED
        BY <2>1, <3>1, <3>2, <3>3 DEF Keeps, Brings, Redeeming
    <2>. QED
      BY <2>1, <2>2, NudgeGoesOn
  <1>2. ASSUME NEW I \in SUBSET DOMAIN rows, Bounce(r, I) PROVE NudgeInv'
    <2>1. PICK q : /\ Decides(r, q, "bounce") /\ Adding(q)
                   /\ q.saves = [i \in I |-> "EMAIL_BOUNCED"]
      BY <1>2, BounceDecides
    <2>2. Brings(q)
      BY <2>1 DEF Brings, Adding
    <2>3. ASSUME AllHeld PROVE Keeps(q)
      BY <2>1, <2>3 DEF AllHeld, Keeps, Live
    <2>. QED
      BY <2>1, <2>2, <2>3, NudgeBegin DEF Decides
  <1>3. ASSUME NEW i \in DOMAIN rows, BounceRow(r, i) PROVE NudgeInv'
    <2>. SUFFICES ASSUME "cut" \notin noise' PROVE
           AllHeld' /\ \A s \in Requests : Keeps(req[s])' /\ Brings(req[s])'
      BY DEF NudgeInv
    <2>1. /\ OwnersKept /\ DOMAIN rows' = DOMAIN rows /\ nudge' = nudge
          /\ \A j \in DOMAIN rows :
               rows'[j].status = IF j = i THEN "EMAIL_BOUNCED" ELSE rows[j].status
          /\ noise' = noise
      BY <1>3, BounceRowIs
    <2>2. \A p : LiveRowsOf(p) \subseteq LiveRowsOf(p)' /\ (Nudged(p)' <=> Nudged(p))
      BY <2>1 DEF OwnersKept, LiveRowsOf, RowsOf, Nudged, Live
    <2>3. AllHeld /\ Keeps(req[r]) /\ Brings(req[r])
      BY <2>1 DEF NudgeInv
    <2>4. AllHeld'
      BY <2>2, <2>3 DEF AllHeld
    <2>5. CASE req'[r] = NoRequest
      <3>1. Keeps(NoRequest)' /\ Brings(NoRequest)'
        BY <2>4, NoRequestKeepsNext
      <3>2. Keeps(req[r])' /\ Brings(req[r])'
        BY <2>5, <3>1
      <3>. QED
        BY <2>4, <3>2 DEF OneAtATime
    <2>6. CASE req'[r] # NoRequest
      <3>1. /\ req'[r].new = req[r].new
            /\ req'[r].on = req[r].on /\ req'[r].off = req[r].off
            /\ req'[r].op = "bounce"
            /\ DOMAIN req'[r].saves = DOMAIN req[r].saves \ {i}
            /\ \A j \in DOMAIN req'[r].saves : req'[r].saves[j] = req[r].saves[j]
        BY <1>3, <2>6, BounceRowIs
      <3>2. Brings(req[r])'
        BY <2>3, <3>1 DEF Brings, Redeeming
      <3>3. Keeps(req[r])'
        <4>. SUFFICES ASSUME NEW p \in Pairs \ req'[r].off, Nudged(p)'
                      PROVE  \E j \in LiveRowsOf(p)' :
                               j \in DOMAIN req'[r].saves => req'[r].saves[j] \in Live
          BY DEF Keeps
        <4>1. PICK j \in LiveRowsOf(p) : j \in DOMAIN req[r].saves => req[r].saves[j] \in Live
          BY <2>2, <2>3, <3>1 DEF Keeps
        <4>. QED
          BY <2>2, <3>1, <4>1
      <3>. QED
        BY <2>4, <3>2, <3>3 DEF OneAtATime
    <2>. QED
      BY <2>5, <2>6
  <1>. QED
    BY <1>1, <1>2, <1>3 DEF Emails

LEMMA NudgeLearner ==
  ASSUME OneAtATime, TypeInv, NudgeInv, NEW r \in Requests, Learner(r)
  PROVE  NudgeInv'
  <1>1. ASSUME NEW c \in Codes, NEW u \in Users, Apply(r, c, u) PROVE NudgeInv'
    <2>1. PICK q : Decides(r, q, "applied") /\ Untouching(q) /\ q.on = {}
      BY <1>1, ApplyDecides
    <2>2. Brings(q)
      BY <2>1 DEF Brings
    <2>. QED
      BY <2>1, <2>2, KeepsAll, NudgeBegin DEF Decides, Untouching
  <1>2. ASSUME NEW inTxn \in BOOLEAN, Place(r, inTxn) PROVE NudgeInv'
    <2>1. Openness
      BY <1>2, SameRows DEF Place
    <2>2. /\ req'[r].saves = req[r].saves /\ req'[r].new = req[r].new
          /\ req'[r].on = req[r].on /\ req'[r].off = req[r].off
          /\ req[r].op = "applied"
      BY <1>2, PlaceIs
    <2>3. ASSUME "cut" \notin noise PROVE Keeps(req[r])' /\ Brings(req[r])'
      <3>1. Keeps(req[r]) /\ Brings(req[r])
        BY <2>3 DEF NudgeInv
      <3>2. PICK q : q = req[r]
        OBVIOUS
      <3>3. Keeps(q)'
        BY <2>1, <3>1, <3>2, KeepsStays
      <3>. QED
        BY <2>2, <3>1, <3>2, <3>3 DEF Keeps, Brings, Redeeming
    <2>. QED
      BY <2>1, <2>3, NudgeGoesOn
  <1>3. CASE RecordRedemption(r)
    <2>1. PICK pair, extra : pair = Pair(r) /\ extra = Extra(pair)
      OBVIOUS
    <2>2. RecordedFor(r, pair, extra)
      BY <1>3, <2>1, RecordIs
    <2>3. UNCHANGED <<rows, nudge, usage, noise>>
      BY <2>2 DEF RecordedFor
    <2>4. Openness
      BY <2>3, SameRows
    <2>5. ASSUME "cut" \notin noise, AllHeld PROVE Keeps(req[r])' /\ Brings(req[r])'
      <3>1. Brings(req[r]) /\ req[r].op = "placed"
        BY <2>2, <2>5 DEF NudgeInv, RecordedFor
      <3>2. req'[r].on = req[r].on
        BY <2>2 DEF RecordedFor
      <3>3. req[r].on = {}
        BY <3>1 DEF Brings, Redeeming
      <3>4. Brings(req[r])'
        BY <3>2, <3>3 DEF Brings
      <3>5. Keeps(req[r])'
        <4>. SUFFICES ASSUME NEW p \in Pairs \ req'[r].off, Nudged(p)'
                      PROVE  \E j \in LiveRowsOf(p)' : j \notin DOMAIN req'[r].saves
          BY DEF Keeps
        <4>1. /\ DOMAIN req'[r].saves \subseteq LiveRowsOf(pair)
              /\ req'[r].off = IF LiveRowsOf(pair) = {} /\ extra = 0 THEN {} ELSE {pair}
          BY <2>2 DEF RecordedFor
        <4>2. LiveRowsOf(p)' = LiveRowsOf(p) /\ Nudged(p)
          BY <2>4, LiveStays
        <4>3. LiveRowsOf(p) # {}
          BY <2>5, <4>2 DEF AllHeld
        <4>4. CASE LiveRowsOf(pair) = {}
          BY <4>1, <4>2, <4>3, <4>4
        <4>5. CASE LiveRowsOf(pair) # {}
          <5>1. p # pair
            BY <4>1, <4>5
          <5>2. \A j \in LiveRowsOf(p) : j \notin LiveRowsOf(pair)
            BY <5>1 DEF LiveRowsOf, RowsOf
          <5>. QED
            BY <4>1, <4>2, <4>3, <5>2
        <4>. QED
          BY <4>4, <4>5
      <3>. QED
        BY <3>4, <3>5
    <2>. QED
      BY <2>4, <2>5, NudgeGoesOn
  <1>4. CASE CloseOrder(r)
    BY <1>4, RowsEnds, NudgeSave
  <1>5. CASE OrderCutShort(r)
    BY <1>5, RowsEnds, NudgeDrop
  <1>. QED
    BY <1>1, <1>2, <1>3, <1>4, <1>5 DEF Learner

LEMMA NudgeNext ==
  OneAtATime /\ IsFiniteSet(Codes) =>
    (TypeInv /\ NudgeInv /\ [Next]_vars => NudgeInv')
  <1>. SUFFICES ASSUME OneAtATime, IsFiniteSet(Codes), TypeInv, NudgeInv, [Next]_vars
                PROVE  NudgeInv'
    OBVIOUS
  <1>1. ASSUME NEW r \in Requests, Abandon(r) PROVE NudgeInv'
    BY <1>1, RowsEnds, NudgeDrop
  <1>2. ASSUME Openness, req' = req PROVE NudgeInv'
    <2>. SUFFICES ASSUME "cut" \notin noise', NEW r \in Requests PROVE
           AllHeld' /\ Keeps(req[r])' /\ Brings(req[r])'
      BY <1>2, HeldStays DEF NudgeInv, Openness
    <2>1. AllHeld /\ Keeps(req[r]) /\ Brings(req[r])
      BY <1>2 DEF NudgeInv, Openness
    <2>2. PICK q : q = req[r]
      OBVIOUS
    <2>3. Keeps(q)'
      BY <1>2, <2>1, <2>2, KeepsStays
    <2>. QED
      BY <1>2, <2>1, <2>2, <2>3, HeldStays DEF Brings
  <1>3. CASE UNCHANGED vars
    BY <1>2, <1>3, SameRows DEF vars, db
  <1>. QED
    BY <1>1, <1>2, <1>3, DeliveredOpenness, NudgeStaff, NudgeEmails, NudgeLearner DEF Next

(* With one request at a time: as long as no order was cut short between   *)
(* being placed and being recorded, whoever gets nudge e-mails about a     *)
(* code holds an open assignment of it.                                    *)
THEOREM SerialNudgedHoldsCode ==
  ASSUME OneAtATime, IsFiniteSet(Codes)
  PROVE  Spec => []NudgedHoldsCode
  <1>1. Init => TypeInv /\ NudgeInv
    <2>1. ASSUME Init PROVE NudgeInv
      <3>1. AllHeld
        BY <2>1 DEF Init, AllHeld, Nudged
      <3>. QED
        BY <2>1, <3>1, NoRequestKeeps DEF Init, NudgeInv
    <2>. QED
      BY <2>1, InitTypes
  <1>2. TypeInv /\ NudgeInv /\ [Next]_vars => (TypeInv /\ NudgeInv)'
    BY NextTypes, NudgeNext
  <1>3. NudgeInv => NudgedHoldsCode
    BY DEF NudgeInv, AllHeld, Nudged, NudgedHoldsCode
  <1>. QED
    BY <1>1, <1>2, <1>3, PTL DEF Spec

-----------------------------------------------------------------------------
(* The holder of a code for one learner.  All open rows of a code are one  *)
(* learner's, and whoever has rows of it has at least as many as the       *)
(* limit, so that a new limit is the only reason to add some.              *)

HeldBy(R, p) == {i \in DOMAIN R : <<R[i].code, R[i].user>> = p}

SoleHolder(R) ==
  \A i, j \in DOMAIN R :
    R[i].code = R[j].code /\ R[i].status \in Live /\ R[j].status \in Live
      => R[i].user = R[j].user

FullSets(R, n) == \A p : HeldBy(R, p) = {} \/ n <= Cardinality(HeldBy(R, p))

Orderly(R, n) == SoleHolder(R) /\ FullSets(R, n)

(* S has the rows of R, and opens none.                                    *)
Narrows(R, S) ==
  /\ DOMAIN S = DOMAIN R
  /\ \A i \in DOMAIN R :
       /\ S[i].code = R[i].code /\ S[i].user = R[i].user
       /\ S[i].status \in Live => R[i].status \in Live

LEMMA NarrowOrderly ==
  ASSUME NEW R, NEW S, NEW n, Narrows(R, S), Orderly(R, n)
  PROVE  Orderly(S, n)
  <1>1. SoleHolder(S)
    BY DEF Narrows, Orderly, SoleHolder
  <1>2. \A p : HeldBy(S, p) = HeldBy(R, p)
    BY DEF Narrows, HeldBy
  <1>. QED
    BY <1>1, <1>2 DEF Orderly, FullSets

SavedShape(q) ==
  /\ DOMAIN Saved(q) = 1..(Len(rows) + Len(q.new)) /\ DOMAIN rows = 1..Len(rows)
  /\ Len(rows) \in Nat /\ Len(q.new) \in Nat
  /\ \A i \in DOMAIN rows :
       /\ i \in DOMAIN Saved(q)
       /\ Saved(q)[i].code = rows[i].code /\ Saved(q)[i].user = rows[i].user
       /\ Saved(q)[i].status = IF i \in DOMAIN q.saves THEN q.saves[i] ELSE rows[i].status
  /\ \A k \in 1..Len(q.new) :
       /\ Len(rows) + k \in DOMAIN Saved(q) /\ Len(rows) + k \notin DOMAIN rows
       /\ Saved(q)[Len(rows) + k] = q.new[k]
  /\ \A j \in DOMAIN Saved(q) :
       j \in DOMAIN rows \/ \E k \in 1..Len(q.new) : j = Len(rows) + k

LEMMA SavedShapes == TypeInv => \A q : Typed(q) => SavedShape(q)
  <1>. SUFFICES ASSUME TypeInv, NEW q, Typed(q) PROVE SavedShape(q)
    OBVIOUS
  <1>1. /\ rows \in Seq(Row) /\ DOMAIN rows = 1..Len(rows) /\ Len(rows) \in Nat
        /\ q.new \in Seq(Row) /\ Len(q.new) \in Nat
    BY DEF TypeInv, DbOK, Typed
  <1>2. /\ Saved(q) \in Seq(Row) /\ Len(Saved(q)) = Len(rows) + Len(q.new)
        /\ \A i \in DOMAIN rows :
             Saved(q)[i] = IF i \in DOMAIN q.saves
                           THEN [rows[i] EXCEPT !.status = q.saves[i]] ELSE rows[i]
        /\ \A k \in 1..Len(q.new) : Saved(q)[Len(rows) + k] = q.new[k]
    BY <1>1, SavedIs
  <1>. DEFINE R == Saved(q)
  <1>. HIDE DEF R
  <1>3. DOMAIN R = 1..(Len(rows) + Len(q.new))
    BY <1>2 DEF R
  <1>4. \A i \in DOMAIN rows : rows[i] \in Row
    BY <1>1
  <1>5. \A i \in DOMAIN rows :
          /\ R[i].code = rows[i].code /\ R[i].user = rows[i].user
          /\ R[i].status = IF i \in DOMAIN q.saves THEN q.saves[i] ELSE rows[i].status
    BY <1>2, <1>4 DEF Row, R
  <1>6. ASSUME NEW j \in DOMAIN R, j \notin DOMAIN rows
        PROVE  \E k \in 1..Len(q.new) : j = Len(rows) + k
    <2>1. j - Len(rows) \in 1..Len(q.new) /\ j = Len(rows) + (j - Len(rows))
      BY <1>1, <1>3, <1>6
    <2>. QED
      BY <2>1
  <1>7. /\ \A k \in 1..Len(q.new) :
             Len(rows) + k \in DOMAIN R /\ Len(rows) + k \notin DOMAIN rows
        /\ \A i \in DOMAIN rows : i \in DOMAIN R
    BY <1>1, <1>3
  <1>8. \A k \in 1..Len(q.new) : R[Len(rows) + k] = q.new[k]
    BY <1>2 DEF R
  <1>. QED
    BY <1>1, <1>3, <1>5, <1>6, <1>7, <1>8 DEF SavedShape, R

LEMMA SavedShapesNext == TypeInv' => \A q : Typed(q)' => SavedShape(q)'
  <1>1. (TypeInv => \A q : Typed(q) => SavedShape(q))'
    BY SavedShapes, PTL
  <1>. QED
    BY <1>1

LEMMA OpennessNarrows ==
  ASSUME TypeInv, TypeInv', Openness
  PROVE  /\ Narrows(rows, rows')
         /\ \A q : Typed(q) => Narrows(Saved(q), Saved(q)')
  <1>1. Narrows(rows, rows')
    BY DEF Openness, OwnersKept, Narrows
  <1>2. ASSUME NEW q, Typed(q) PROVE Narrows(Saved(q), Saved(q)')
    <2>1. Typed(q)'
      BY <1>2 DEF Typed, Openness
    <2>2. PICK R, S : R = Saved(q) /\ S = Saved(q)'
      OBVIOUS
    <2>3. SavedShape(q) /\ SavedShape(q)'
      BY <1>2, <2>1, SavedShapes, SavedShapesNext
    <2>4. /\ DOMAIN rows' = DOMAIN rows /\ Len(rows') = Len(rows)
      BY DEF Openness, TypeInv, DbOK
    <2>5. DOMAIN S = DOMAIN R
      BY <2>2, <2>3, <2>4 DEF SavedShape
    <2>6. ASSUME NEW j \in DOMAIN R
          PROVE  /\ S[j].code = R[j].code /\ S[j].user = R[j].user
                 /\ S[j].status \in Live => R[j].status \in Live
      <3>1. CASE j \in DOMAIN rows
        <4>1. /\ R[j].code = rows[j].code /\ R[j].user = rows[j].user
              /\ R[j].status = IF j \in DOMAIN q.saves THEN q.saves[j] ELSE rows[j].status
          BY <2>2, <2>3, <3>1 DEF SavedShape
        <4>2. /\ S[j].code = rows'[j].code /\ S[j].user = rows'[j].user
              /\ S[j].status = IF j \in DOMAIN q.saves THEN q.saves[j] ELSE rows'[j].status
          BY <2>2, <2>3, <2>4, <3>1 DEF SavedShape
        <4>3. /\ rows'[j].code = rows[j].code /\ rows'[j].user = rows[j].user
              /\ rows'[j].status \in Live => rows[j].status \in Live
          BY <3>1 DEF Openness, OwnersKept
        <4>. QED
          BY <4>1, <4>2, <4>3
      <3>2. CASE j \notin DOMAIN rows
        <4>1. PICK k \in 1..Len(q.new) : j = Len(rows) + k
          BY <2>2, <2>3, <3>2 DEF SavedShape
        <4>2. R[j] = q.new[k]
          BY <2>2, <2>3, <4>1 DEF SavedShape
        <4>3. S[j] = q.new[k]
          BY <2>2, <2>3, <2>4, <4>1 DEF SavedShape
        <4>. QED
          BY <4>2, <4>3
      <3>. QED
        BY <3>1, <3>2
    <2>. QED
      BY <2>2, <2>5, <2>6 DEF Narrows
  <1>. QED
    BY <1>1, <1>2

OpenOf(R, c) == {i \in DOMAIN R : R[i].code = c /\ R[i].status \in Live}

LEMMA LiveRowsAre ==
  ASSUME TypeInv, NEW c \in Codes
  PROVE  LiveRows(c) = OpenOf(rows, c)
  <1>1. \A i \in DOMAIN rows : rows[i].user \in Users
    BY Positions DEF TypeInv, DbOK
  <1>. QED
    BY <1>1 DEF LiveRows, LiveRowsOf, RowsOf, OpenOf

Ordering(q) ==
  q.op \in {"applied", "placed"} => \A i \in OpenOf(rows, q.code) : rows[i].user = q.user

Committing(q) ==
  \/ q.op \in {"assign", "revoke", "remind", "recorded"}
  \/ q.op = "resize" /\ q.limit = limit

KeepsOrder(q) == Ordering(q) /\ (Committing(q) => Orderly(Saved(q), limit))

HolderInv ==
  OneLearner /\ "resized" \notin noise =>
    Orderly(rows, limit) /\ \A r \in Requests : KeepsOrder(req[r])

LEMMA HolderStays ==
  ASSUME TypeInv, TypeInv', Openness, limit' = limit
  PROVE  /\ Orderly(rows, limit) => Orderly(rows, limit)'
         /\ \A q : Typed(q) /\ KeepsOrder(q) => KeepsOrder(q)'
  <1>1. Orderly(rows, limit) => Orderly(rows, limit)'
    BY OpennessNarrows, NarrowOrderly DEF Openness
  <1>2. ASSUME NEW q, Typed(q), KeepsOrder(q) PROVE KeepsOrder(q)'
    <2>1. Ordering(q)'
      BY <1>2 DEF KeepsOrder, Ordering, OpenOf, Openness, OwnersKept
    <2>2. Committing(q)' => Orderly(Saved(q), limit)
      BY <1>2 DEF KeepsOrder, Committing
    <2>3. Narrows(Saved(q), Saved(q)')
      BY <1>2, OpennessNarrows
    <2>4. Committing(q)' => Orderly(Saved(q)', limit)
      BY <2>2, <2>3, NarrowOrderly
    <2>. QED
      BY <2>1, <2>4 DEF KeepsOrder
  <1>. QED
    BY <1>1, <1>2

LEMMA HolderGoesOn ==
  ASSUME TypeInv, TypeInv', HolderInv, OneAtATime, Openness, limit' = limit,
         NEW r \in Requests,
         OneLearner /\ "resized" \notin noise /\ Orderly(rows, limit) => KeepsOrder(req[r])'
  PROVE  HolderInv'
  BY HolderStays DEF HolderInv, Openness, OneLearner, OneAtATime

LEMMA HolderBegin ==
  ASSUME TypeInv, TypeInv', HolderInv, OneAtATime, NEW r \in Requests, NEW q, Begin(r, q),
         Typed(q), OneLearner /\ Orderly(rows, limit) => KeepsOrder(q)
  PROVE  HolderInv'
  <1>1. Openness /\ req'[r] = q /\ limit' = limit
    BY BeginIs, SameRows
  <1>2. OneLearner /\ Orderly(rows, limit) => KeepsOrder(q)'
    BY <1>1, HolderStays
  <1>3. OneLearner /\ Orderly(rows, limit) => KeepsOrder(req[r])'
    BY <1>1, <1>2
  <1>. QED
    BY <1>1, <1>3, HolderGoesOn

LEMMA IdleKeepsOrder == \A q : q.op = "idle" => KeepsOrder(q)
  BY DEF KeepsOrder, Ordering, Committing

LEMMA IdleKeepsOrderNext == \A q : q.op = "idle" => KeepsOrder(q)'
  <1>1. (\A q : q.op = "idle" => KeepsOrder(q))'
    BY IdleKeepsOrder, PTL
  <1>. QED
    BY <1>1

LEMMA HolderEnd ==
  ASSUME TypeInv, TypeInv', HolderInv, OneAtATime, NEW r \in Requests,
         Saving(r) \/ Dropping(r)
  PROVE  HolderInv'
  <1>. SUFFICES ASSUME OneLearner', "resized" \notin noise'
                PROVE  Orderly(rows, limit)' /\ \A s \in Requests : KeepsOrder(req[s])'
    BY DEF HolderInv
  <1>1. OneLearner /\ "resized" \notin noise /\ limit' = limit
    BY DEF Saving, Dropping, OneLearner
  <1>2. Orderly(rows, limit) /\ KeepsOrder(req[r])
    BY <1>1 DEF HolderInv
  <1>3. Orderly(rows, limit)'
    <2>1. CASE Dropping(r)
      BY <1>1, <1>2, <2>1 DEF Dropping
    <2>2. CASE Saving(r)
      <3>1. Committing(req[r])
        BY <1>1, <2>2 DEF Saving, Committing
      <3>. QED
        BY <1>1, <1>2, <2>2, <3>1 DEF Saving, KeepsOrder
    <2>. QED
      BY <2>1, <2>2
  <1>4. req'[r] = NoRequest /\ NoRequest.op = "idle"
    BY EndIs DEF Saving, Dropping, NoRequest
  <1>5. KeepsOrder(NoRequest)'
    BY <1>4, IdleKeepsOrderNext
  <1>. QED
    BY <1>3, <1>4, <1>5 DEF OneAtATime

(* A request that creates no rows and opens none.                          *)
LEMMA SavingNarrows ==
  ASSUME TypeInv, NEW q, Typed(q), q.new = <<>>,
         \A i \in DOMAIN q.saves : q.saves[i] \in Live => rows[i].status \in Live
  PROVE  Narrows(rows, Saved(q))
  <1>1. SavedShape(q) /\ Len(q.new) = 0
    BY SavedShapes
  <1>2. DOMAIN Saved(q) = DOMAIN rows
    BY <1>1 DEF SavedShape
  <1>. QED
    BY <1>1, <1>2 DEF SavedShape, Narrows

LEMMA FewHeld ==
  ASSUME TypeInv, NEW q, Typed(q), NEW p
  PROVE  /\ HeldBy(rows, p) \subseteq HeldBy(Saved(q), p)
         /\ HeldBy(rows, p) = RowsOf(p)
         /\ IsFiniteSet(HeldBy(rows, p)) /\ Cardinality(HeldBy(rows, p)) \in Nat
         /\ IsFiniteSet(HeldBy(Saved(q), p)) /\ Cardinality(HeldBy(Saved(q), p)) \in Nat
  <1>1. SavedShape(q)
    BY SavedShapes
  <1>2. HeldBy(rows, p) \subseteq HeldBy(Saved(q), p)
    BY <1>1 DEF SavedShape, HeldBy
  <1>3. IsFiniteSet(DOMAIN Saved(q))
    <2>1. Len(rows) + Len(q.new) \in Nat /\ DOMAIN Saved(q) = 1..(Len(rows) + Len(q.new))
      BY <1>1 DEF SavedShape
    <2>. QED
      BY <2>1, FS_Interval
  <1>4. HeldBy(Saved(q), p) \subseteq DOMAIN Saved(q)
    BY DEF HeldBy
  <1>. QED
    BY <1>2, <1>3, <1>4, FS_Subset, FS_CardinalityType DEF HeldBy, RowsOf

(* An interval of positions a learner holds.                               *)
LEMMA HeldInterval ==
  ASSUME TypeInv, NEW q, Typed(q), NEW p, NEW m \in Nat, NEW n \in Nat,
         \A k \in 1..n : m + k \in HeldBy(Saved(q), p)
  PROVE  n <= Cardinality(HeldBy(Saved(q), p))
  <1>1. (m + 1)..(m + n) \subseteq HeldBy(Saved(q), p)
    <2>1. ASSUME NEW j \in (m + 1)..(m + n) PROVE j - m \in 1..n /\ j = m + (j - m)
      OBVIOUS
    <2>. QED
      BY <2>1
  <1>2. Cardinality((m + 1)..(m + n)) = n
    BY FS_Interval
  <1>3. IsFiniteSet(HeldBy(Saved(q), p))
    BY FewHeld
  <1>. QED
    BY <1>1, <1>2, <1>3, FS_Subset

LEMMA AtMostOne ==
  ASSUME NEW S, IsFiniteSet(S), Cardinality(S) <= 1
  PROVE  \A x, y \in S : x = y
  <1>. SUFFICES ASSUME NEW x \in S, NEW y \in S, x # y PROVE FALSE
    OBVIOUS
  <1>1. IsFiniteSet({x}) /\ Cardinality({x}) = 1 /\ y \notin {x}
    BY FS_Singleton
  <1>2. IsFiniteSet({x} \cup {y}) /\ Cardinality({x} \cup {y}) = 2
    BY <1>1, FS_AddElement
  <1>3. {x} \cup {y} \subseteq S
    OBVIOUS
  <1>4. Cardinality({x} \cup {y}) <= Cardinality(S) /\ Cardinality(S) \in Nat
    BY <1>3, FS_Subset, FS_CardinalityType
  <1>. QED
    BY <1>2, <1>4

LEMMA HolderAssign ==
  ASSUME TypeInv, OneLearner, Orderly(rows, limit), NEW q, Typed(q), DOMAIN q.saves = {},
         NEW us \in UserLists, NEW plan \in [DOMAIN us -> Codes], Fits(us, plan),
         q.new = FlattenSeq(Shares(us, plan))
  PROVE  Orderly(Saved(q), limit)
  <1>1. PICK off : Lie(q.new, us, plan, off)
    BY SharesFlat
  <1>2. SavedShape(q)
    BY SavedShapes
  <1>3. PICK R : R = Saved(q)
    OBVIOUS
  <1>4. ASSUME NEW k \in 1..Len(q.new)
        PROVE  \E i \in DOMAIN us : q.new[k] = Pledged(plan[i], us[i])
    BY <1>1 DEF Lie
  <1>5. ASSUME NEW i \in DOMAIN us
        PROVE  /\ \A j \in DOMAIN us : plan[i] = plan[j] => i = j
               /\ LiveRows(plan[i]) = {} /\ Share(plan[i]) = IF limit = 0 THEN 1 ELSE limit
    <2>1. Cardinality({j \in DOMAIN us : plan[j] = plan[i]}) <= 1 /\ Slots(plan[i]) >= 1
      BY DEF Fits, Fillable
    <2>2. IsFiniteSet({j \in DOMAIN us : plan[j] = plan[i]})
      <3>1. IsFiniteSet(DOMAIN us)
        BY ListLength, FS_Interval
      <3>. QED
        BY <3>1, FS_Subset
    <2>3. \A j \in DOMAIN us : plan[i] = plan[j] => i = j
      BY <2>1, <2>2, AtMostOne
    <2>4. Slots(plan[i]) # 0
      BY <2>1
    <2>. QED
      BY <2>3, <2>4, FreeSlots DEF Share
  <1>6. ASSUME NEW a \in DOMAIN R, R[a].status \in Live
        PROVE  \/ a \in OpenOf(rows, R[a].code) /\ R[a].user = rows[a].user
               \/ \E i \in DOMAIN us : R[a] = Pledged(plan[i], us[i])
    <2>1. CASE a \in DOMAIN rows
      BY <1>2, <1>3, <1>6, <2>1 DEF SavedShape, OpenOf
    <2>2. CASE a \notin DOMAIN rows
      BY <1>2, <1>3, <1>4, <2>2 DEF SavedShape
    <2>. QED
      BY <2>1, <2>2
  <1>7. ASSUME NEW a \in DOMAIN R, NEW b \in DOMAIN R, R[a].code = R[b].code,
               R[a].status \in Live, R[b].status \in Live
        PROVE  R[a].user = R[b].user
    <2>1. ASSUME NEW i \in DOMAIN us, NEW x \in DOMAIN R, R[x].code = plan[i],
                 R[x].status \in Live
          PROVE  R[x].user = us[i]
      <3>1. OpenOf(rows, plan[i]) = {}
        BY <1>5, LiveRowsAre
      <3>2. PICK j \in DOMAIN us : R[x] = Pledged(plan[j], us[j])
        BY <1>6, <2>1, <3>1
      <3>3. plan[j] = plan[i] /\ R[x].user = us[j]
        BY <2>1, <3>2 DEF Pledged
      <3>. QED
        BY <1>5, <3>3
    <2>2. CASE \E i \in DOMAIN us : R[a] = Pledged(plan[i], us[i]) \/ R[b] = Pledged(plan[i], us[i])
      <3>1. PICK i \in DOMAIN us : R[a].code = plan[i]
        BY <1>7, <2>2 DEF Pledged
      <3>. QED
        BY <1>7, <2>1, <3>1
    <2>3. CASE a \in OpenOf(rows, R[a].code) /\ b \in OpenOf(rows, R[b].code)
               /\ R[a].user = rows[a].user /\ R[b].user = rows[b].user
      <3>1. SoleHolder(rows)
        BY DEF Orderly
      <3>. QED
        BY <1>7, <2>3, <3>1 DEF SoleHolder, OpenOf
    <2>. QED
      BY <1>6, <1>7, <2>2, <2>3
  <1>8. ASSUME NEW p PROVE HeldBy(R, p) = {} \/ limit <= Cardinality(HeldBy(R, p))
    <2>0. limit \in Nat
      BY CodesAssumption DEF TypeInv, DbOK
    <2>1. CASE HeldBy(rows, p) # {}
      <3>1. limit <= Cardinality(HeldBy(rows, p))
        BY <2>1 DEF Orderly, FullSets
      <3>2. /\ Cardinality(HeldBy(rows, p)) <= Cardinality(HeldBy(Saved(q), p))
            /\ Cardinality(HeldBy(rows, p)) \in Nat /\ Cardinality(HeldBy(Saved(q), p)) \in Nat
        BY FewHeld, FS_Subset
      <3>. QED
        BY <1>3, <2>0, <3>1, <3>2
    <2>2. CASE HeldBy(rows, p) = {} /\ HeldBy(R, p) # {}
      <3>1. PICK x \in DOMAIN R : <<R[x].code, R[x].user>> = p
        BY <2>2 DEF HeldBy
      <3>2. x \notin DOMAIN rows
        BY <1>2, <1>3, <2>2, <3>1 DEF SavedShape, HeldBy
      <3>3. PICK i \in DOMAIN us : R[x] = Pledged(plan[i], us[i])
        BY <1>2, <1>3, <1>4, <3>2 DEF SavedShape
      <3>4. p = <<plan[i], us[i]>>
        BY <3>1, <3>3 DEF Pledged
      <3>5. /\ off[i] \in Nat /\ Share(plan[i]) \in Nat
            /\ \A k \in 1..Share(plan[i]) :
                 off[i] + k \in 1..Len(q.new) /\ q.new[off[i] + k] = Pledged(plan[i], us[i])
        BY <1>1 DEF Lie
      <3>6. Len(rows) \in Nat
        BY <1>2 DEF SavedShape
      <3>7. ASSUME NEW k \in 1..Share(plan[i])
            PROVE  (Len(rows) + off[i]) + k \in HeldBy(R, p)
        <4>1. /\ Len(rows) + (off[i] + k) \in DOMAIN R
              /\ R[Len(rows) + (off[i] + k)] = Pledged(plan[i], us[i])
          BY <1>2, <1>3, <3>5 DEF SavedShape
        <4>2. Len(rows) + (off[i] + k) \in HeldBy(R, p)
          BY <3>4, <4>1 DEF HeldBy, Pledged
        <4>3. (Len(rows) + off[i]) + k = Len(rows) + (off[i] + k)
          BY <3>5, <3>6
        <4>. QED
          BY <4>2, <4>3
      <3>8. Share(plan[i]) <= Cardinality(HeldBy(R, p))
        <4>1. Len(rows) + off[i] \in Nat
          BY <3>5, <3>6
        <4>. QED
          BY <1>3, <3>5, <3>7, <4>1, HeldInterval
      <3>9. limit <= Share(plan[i])
        BY <1>5, <2>0
      <3>10. Cardinality(HeldBy(R, p)) \in Nat
        BY <1>3, FewHeld
      <3>. QED
        BY <2>0, <3>5, <3>8, <3>9, <3>10
    <2>. QED
      BY <1>3, <2>1, <2>2
  <1>. QED
    BY <1>3, <1>7, <1>8 DEF Orderly, SoleHolder, FullSets

(* With the limit there is, no code lacks rows.                            *)
LEMMA NothingToTopUp ==
  ASSUME IsFiniteSet(Codes), TypeInv, OneLearner => FullSets(rows, limit)
  PROVE  FlattenSeq(TopUps(limit)) = <<>>
  <1>1. ASSUME NEW c \in Codes PROVE TopUp(c, limit) = <<>>
    <2>. DEFINE all == {i \in DOMAIN rows : rows[i].code = c}
    <2>1. ASSUME OneLearner, all # {} PROVE ~(Cardinality(all) < limit)
      <3>1. PICK i \in all : TRUE
        BY <2>1
      <3>2. PICK p : p = <<c, rows[i].user>>
        OBVIOUS
      <3>3. i \in HeldBy(rows, p) /\ HeldBy(rows, p) \subseteq all
        BY <3>1, <3>2 DEF HeldBy
      <3>4. limit <= Cardinality(HeldBy(rows, p))
        BY <2>1, <3>3 DEF FullSets
      <3>5. IsFiniteSet(DOMAIN rows) /\ all \subseteq DOMAIN rows
        BY Positions DEF TypeInv, DbOK
      <3>. HIDE DEF all
      <3>6. IsFiniteSet(all) /\ Cardinality(all) \in Nat
        BY <3>5, FS_Subset, FS_CardinalityType
      <3>7. /\ Cardinality(HeldBy(rows, p)) <= Cardinality(all)
            /\ Cardinality(HeldBy(rows, p)) \in Nat
        BY <3>3, <3>6, FS_Subset, FS_CardinalityType
      <3>8. limit \in Nat
        BY CodesAssumption DEF TypeInv, DbOK
      <3>. QED
        BY <3>4, <3>6, <3>7, <3>8
    <2>. QED
      BY <2>1 DEF TopUp
  <1>2. Cardinality(codes) \in Nat
    BY FS_Subset, FS_CardinalityType DEF TypeInv, DbOK
  <1>3. \A i \in 1..Cardinality(codes) : TopUps(limit)[i] = <<>>
    <2>1. \A i \in 1..Cardinality(codes) : SetToSeq(codes)[i] \in Codes
      BY CodeOfList DEF TypeInv, DbOK
    <2>. QED
      BY <1>1, <2>1 DEF TopUps
  <1>4. DOMAIN TopUps(limit) = 1..Cardinality(codes)
    BY DEF TopUps
  <1>5. TopUps(limit) \in Seq(Seq(Row)) /\ Len(TopUps(limit)) = Cardinality(codes)
    <2>1. <<>> \in Seq(Row)
      OBVIOUS
    <2>2. TopUps(limit) \in [1..Cardinality(codes) -> Seq(Row)]
      BY <1>3, <2>1 DEF TopUps
    <2>. QED
      BY <1>2, <1>4, <2>2
  <1>. QED
    BY <1>3, <1>5, FlattenNothing

LEMMA HolderStaff ==
  ASSUME IsFiniteSet(Codes), OneAtATime, TypeInv, TypeInv', HolderInv,
         NEW r \in Requests, Staff(r)
  PROVE  HolderInv'
  <1>1. ASSUME NEW us \in UserLists, NEW notice \in Notices,
               NEW plan \in [DOMAIN us -> Codes], Assign(r, us, plan, notice)
        PROVE  HolderInv'
    <2>1. PICK q : /\ Decides(r, q, "assign") /\ Untouching(q)
                   /\ q.new = FlattenSeq(Shares(us, plan))
      BY <1>1, AssignDecides
    <2>2. ASSUME OneLearner, Orderly(rows, limit) PROVE KeepsOrder(q)
      <3>1. Fits(us, plan)
        BY <1>1 DEF Assign
      <3>2. Orderly(Saved(q), limit)
        BY <2>1, <2>2, <3>1, HolderAssign DEF Decides, Untouching
      <3>. QED
        BY <2>1, <3>2 DEF KeepsOrder, Ordering, Decides
    <2>. QED
      BY <2>1, <2>2, HolderBegin DEF Decides
  <1>2. ASSUME NEW c \in Codes, NEW d \in Codes, NEW u \in Users, ReplaceCode(r, c, u, d)
        PROVE  HolderInv'
    <2>1. PICK q : Decides(r, q, "assign")
      BY <1>2, ReplaceDecides
    <2>2. ~OneLearner
      BY <1>2 DEF ReplaceCode, OneLearner
    <2>. QED
      BY <2>1, <2>2, HolderBegin DEF Decides
  <1>3. ASSUME NEW p1 \in Pairs, NEW p2 \in Pairs, Revoke(r, {p1, p2}) PROVE HolderInv'
    <2>1. PICK q : /\ Decides(r, q, "revoke") /\ Adding(q)
                   /\ q.saves = [i \in LiveRowsOf(p1) \cup LiveRowsOf(p2) |-> "REVOKED"]
      BY <1>3, RevokeDecides
    <2>2. \A i \in DOMAIN q.saves : q.saves[i] \in Live => rows[i].status \in Live
      BY <2>1 DEF LiveRowsOf
    <2>3. Narrows(rows, Saved(q))
      BY <2>1, <2>2, SavingNarrows DEF Decides, Adding
    <2>4. Orderly(rows, limit) => KeepsOrder(q)
      BY <2>1, <2>3, NarrowOrderly DEF KeepsOrder, Ordering, Decides
    <2>. QED
      BY <2>1, <2>4, HolderBegin DEF Decides
  <1>4. ASSUME NEW p1 \in Pairs, Remind(r, p1) PROVE HolderInv'
    <2>1. PICK q : /\ Decides(r, q, "remind") /\ Adding(q)
                   /\ q.saves = [i \in LiveRowsOf(p1) |-> rows[i].status]
      BY <1>4, RemindDecides
    <2>2. \A i \in DOMAIN q.saves : q.saves[i] \in Live => rows[i].status \in Live
      BY <2>1 DEF LiveRowsOf
    <2>3. Narrows(rows, Saved(q))
      BY <2>1, <2>2, SavingNarrows DEF Decides, Adding
    <2>4. Orderly(rows, limit) => KeepsOrder(q)
      BY <2>1, <2>3, NarrowOrderly DEF KeepsOrder, Ordering, Decides
    <2>. QED
      BY <2>1, <2>4, HolderBegin DEF Decides
  <1>5. ASSUME NEW n \in Limits \cup {0}, Resize(r, n) PROVE HolderInv'
    <2>1. PICK q : /\ Decides(r, q, "resize") /\ Untouching(q) /\ q.limit = n
                   /\ q.new = FlattenSeq(TopUps(n))
      BY <1>5, ResizeDecides
    <2>2. ASSUME OneLearner, Orderly(rows, limit) PROVE KeepsOrder(q)
      <3>1. ASSUME n = limit PROVE Orderly(Saved(q), limit)
        <4>1. q.new = <<>>
          BY <2>1, <2>2, <3>1, NothingToTopUp DEF Orderly
        <4>2. Narrows(rows, Saved(q))
          BY <2>1, <4>1, SavingNarrows DEF Decides, Untouching
        <4>. QED
          BY <2>2, <4>2, NarrowOrderly
      <3>. QED
        BY <2>1, <3>1 DEF KeepsOrder, Ordering, Committing, Decides
    <2>. QED
      BY <2>1, <2>2, HolderBegin DEF Decides
  <1>6. CASE Commit(r)
    BY <1>6, RowsEnds, HolderEnd
  <1>. QED
    BY <1>1, <1>2, <1>3, <1>4, <1>5, <1>6 DEF Staff

(* Bounced rows were open, when requests come one at a time.               *)
LEMMA BounceOpenness ==
  ASSUME TypeInv, FinalInv, NEW r \in Requests, NEW i \in DOMAIN rows, BounceRow(r, i)
  PROVE  Openness
  <1>1. rows[i].status \in Live
    BY BounceRowIs DEF FinalInv
  <1>2. "EMAIL_BOUNCED" \in Live /\ Live \cap Final = {}
    BY DEF Live, Final
  <1>3. /\ OwnersKept /\ DOMAIN rows' = DOMAIN rows
        /\ \A j \in DOMAIN rows :
             rows'[j].status = IF j = i THEN "EMAIL_BOUNCED" ELSE rows[j].status
        /\ nudge' = nudge /\ usage' = usage /\ noise' = noise
    BY BounceRowIs
  <1>4. ASSUME NEW j \in DOMAIN rows
        PROVE  /\ (rows'[j].status \in Live) <=> (rows[j].status \in Live)
               /\ rows[j].status \in Final => rows'[j].status = rows[j].status
    <2>1. CASE j = i
      BY <1>1, <1>2, <1>3, <2>1
    <2>2. CASE j # i
      BY <1>3, <2>2
    <2>. QED
      BY <2>1, <2>2
  <1>. QED
    BY <1>3, <1>4 DEF Openness

LEMMA HolderEmails ==
  ASSUME OneAtATime, TypeInv, TypeInv', FinalInv, HolderInv, NEW r \in Requests, Emails(r)
  PROVE  HolderInv'
  <1>1. ASSUME NEW p \in Pairs, DeliveredTooEarly(r, p) PROVE HolderInv'
    <2>1. /\ req'[r].op = req[r].op /\ req'[r].saves = req[r].saves
          /\ req'[r].new = req[r].new /\ req'[r].code = req[r].code
          /\ req'[r].user = req[r].user /\ req'[r].limit = req[r].limit
          /\ rows' = rows /\ limit' = limit
      BY <1>1, TooEarlyIs
    <2>2. Openness
      BY <1>1, TooEarlyIs, SameRows
    <2>3. KeepsOrder(req[r]) => KeepsOrder(req[r])'
      BY <2>1 DEF KeepsOrder, Ordering, Committing, OpenOf, Saved
    <2>4. OneLearner /\ "resized" \notin noise => KeepsOrder(req[r])
      BY DEF HolderInv
    <2>. QED
      BY <2>1, <2>2, <2>3, <2>4, HolderGoesOn
  <1>2. ASSUME NEW I \in SUBSET DOMAIN rows, Bounce(r, I) PROVE HolderInv'
    <2>1. PICK q : Decides(r, q, "bounce")
      BY <1>2, BounceDecides
    <2>2. KeepsOrder(q)
      BY <2>1 DEF Decides, KeepsOrder, Ordering, Committing
    <2>. QED
      BY <2>1, <2>2, HolderBegin DEF Decides
  <1>3. ASSUME NEW i \in DOMAIN rows, BounceRow(r, i) PROVE HolderInv'
    <2>1. Openness /\ limit' = limit
      BY <1>3, BounceOpenness, BounceRowIs
    <2>2. req'[r].op \in {"idle", "bounce"}
      BY <1>3, BounceRowIs DEF NoRequest
    <2>3. KeepsOrder(req[r])'
      BY <2>2 DEF KeepsOrder, Ordering, Committing
    <2>. QED
      BY <2>1, <2>3, HolderGoesOn
  <1>. QED
    BY <1>1, <1>2, <1>3 DEF Emails

(* An order for the one learner who may hold open rows of the code.        *)
LEMMA HolderRecord ==
  ASSUME TypeInv, TypeInv', HolderInv, NEW r \in Requests, RecordRedemption(r),
         OneLearner, "resized" \notin noise
  PROVE  KeepsOrder(req[r])'
  <1>1. PICK pair, extra : pair = Pair(r) /\ extra = Extra(pair)
    OBVIOUS
  <1>2. RecordedFor(r, pair, extra)
    BY <1>1, RecordIs
  <1>3. PICK q, c, u : q = req'[r] /\ c = req[r].code /\ u = req[r].user
    OBVIOUS
  <1>4. /\ q.op = "recorded" /\ req[r].op = "placed" /\ c \in Codes /\ u \in Users
        /\ DOMAIN q.saves \subseteq LiveRowsOf(pair)
        /\ \A i \in DOMAIN q.saves : q.saves[i] = "REDEEMED"
        /\ q.new \in Seq(Row) /\ Len(q.new) = extra /\ extra \in Nat
        /\ \A k \in 1..extra :
             q.new[k] = [code |-> c, user |-> u,
                         status |-> IF LiveRowsOf(pair) = {} /\ k = 1
                                    THEN "REDEEMED" ELSE "ASSIGNED"]
        /\ UNCHANGED <<rows, limit>>
    BY <1>2, <1>3 DEF RecordedFor
  <1>5. pair = <<c, u>>
    BY <1>1, <1>3 DEF Pair
  <1>6. Orderly(rows, limit) /\ \A i \in OpenOf(rows, c) : rows[i].user = u
    BY <1>3, <1>4 DEF HolderInv, KeepsOrder, Ordering
  <1>7. Typed(q)' /\ Typed(q)
    <2>1. Typed(req[r])'
      BY DEF TypeInv
    <2>2. Typed(q)'
      BY <1>3, <2>1
    <2>. QED
      BY <1>4, <2>2 DEF Typed
  <1>8. PICK R : R = Saved(q)
    OBVIOUS
  <1>9. SavedShape(q)
    BY <1>7, SavedShapes
  <1>10. ASSUME NEW k \in 1..extra
         PROVE  q.new[k].code = c /\ q.new[k].user = u
    <2>1. CASE LiveRowsOf(pair) = {} /\ k = 1
      <3>1. q.new[k] = [code |-> c, user |-> u, status |-> "REDEEMED"]
        BY <1>4, <2>1
      <3>. QED
        BY <3>1
    <2>2. CASE ~(LiveRowsOf(pair) = {} /\ k = 1)
      <3>1. q.new[k] = [code |-> c, user |-> u, status |-> "ASSIGNED"]
        BY <1>4, <2>2
      <3>. QED
        BY <3>1
    <2>. QED
      BY <2>1, <2>2
  <1>11. ASSUME NEW a \in DOMAIN R, R[a].status \in Live
         PROVE  (a \in OpenOf(rows, R[a].code) /\ R[a].user = rows[a].user)
                \/ (R[a].code = c /\ R[a].user = u)
    <2>1. CASE a \in DOMAIN rows
      <3>1. a \notin DOMAIN q.saves
        BY <1>4, <1>8, <1>9, <1>11, <2>1 DEF SavedShape, Live
      <3>. QED
        BY <1>8, <1>9, <1>11, <2>1, <3>1 DEF SavedShape, OpenOf
    <2>2. CASE a \notin DOMAIN rows
      <3>1. PICK k \in 1..Len(q.new) : R[a] = q.new[k]
        BY <1>8, <1>9, <1>11, <2>2 DEF SavedShape
      <3>2. k \in 1..extra
        BY <1>4, <3>1
      <3>. QED
        BY <1>10, <3>1, <3>2
    <2>. QED
      BY <2>1, <2>2
  <1>12. SoleHolder(R)
    <2>. SUFFICES ASSUME NEW a \in DOMAIN R, NEW b \in DOMAIN R, R[a].code = R[b].code,
                         R[a].status \in Live, R[b].status \in Live
                  PROVE  R[a].user = R[b].user
      BY DEF SoleHolder
    <2>1. SoleHolder(rows)
      BY <1>6 DEF Orderly
    <2>2. CASE R[a].code = c
      <3>1. R[a].user = u
        BY <1>6, <1>11, <2>2
      <3>2. R[b].user = u
        BY <1>6, <1>11, <2>2
      <3>. QED
        BY <3>1, <3>2
    <2>3. CASE R[a].code # c
      <3>1. a \in OpenOf(rows, R[a].code) /\ R[a].user = rows[a].user
        BY <1>11, <2>3
      <3>2. b \in OpenOf(rows, R[b].code) /\ R[b].user = rows[b].user
        BY <1>11, <2>3
      <3>. QED
        BY <2>1, <3>1, <3>2 DEF SoleHolder, OpenOf
    <2>. QED
      BY <2>2, <2>3
  <1>13. ASSUME NEW p PROVE HeldBy(R, p) = {} \/ limit <= Cardinality(HeldBy(R, p))
    <2>0. limit \in Nat
      BY CodesAssumption DEF TypeInv, DbOK
    <2>1. CASE HeldBy(rows, p) # {}
      <3>1. limit <= Cardinality(HeldBy(rows, p))
        BY <1>6, <2>1 DEF Orderly, FullSets
      <3>2. /\ Cardinality(HeldBy(rows, p)) <= Cardinality(HeldBy(R, p))
            /\ Cardinality(HeldBy(rows, p)) \in Nat /\ Cardinality(HeldBy(R, p)) \in Nat
        BY <1>7, <1>8, FewHeld, FS_Subset
      <3>. QED
        BY <2>0, <3>1, <3>2
    <2>2. CASE HeldBy(rows, p) = {} /\ HeldBy(R, p) # {}
      <3>1. PICK x \in DOMAIN R : <<R[x].code, R[x].user>> = p
        BY <2>2 DEF HeldBy
      <3>2. x \notin DOMAIN rows
        BY <1>8, <1>9, <2>2, <3>1 DEF SavedShape, HeldBy
      <3>3. p = pair
        <4>1. PICK k \in 1..Len(q.new) : R[x] = q.new[k]
          BY <1>8, <1>9, <3>1, <3>2 DEF SavedShape
        <4>2. k \in 1..extra
          BY <1>4, <4>1
        <4>3. R[x].code = c /\ R[x].user = u
          BY <1>10, <4>1, <4>2
        <4>. QED
          BY <1>5, <3>1, <4>3
      <3>4. ASSUME NEW k \in 1..extra PROVE Len(rows) + k \in HeldBy(R, p)
        BY <1>4, <1>5, <1>8, <1>9, <1>10, <3>3 DEF SavedShape, HeldBy
      <3>5. extra <= Cardinality(HeldBy(R, p))
        <4>1. Len(rows) \in Nat
          BY <1>9 DEF SavedShape
        <4>. QED
          BY <1>4, <1>7, <1>8, <3>4, <4>1, HeldInterval
      <3>6. Cardinality(RowsOf(pair)) = 0
        BY <2>2, <3>3, FS_EmptySet DEF HeldBy, RowsOf
      <3>7. limit <= extra
        BY <1>1, <2>0, <3>6 DEF Extra, Spare
      <3>8. Cardinality(HeldBy(R, p)) \in Nat
        BY <1>7, <1>8, FewHeld
      <3>. QED
        BY <1>4, <2>0, <3>5, <3>7, <3>8
    <2>. QED
      BY <2>1, <2>2
  <1>14. Orderly(Saved(q), limit)
    BY <1>8, <1>12, <1>13 DEF Orderly, FullSets
  <1>15. Orderly(Saved(q), limit)'
    BY <1>4, <1>14 DEF Saved
  <1>. QED
    BY <1>3, <1>4, <1>15 DEF KeepsOrder, Ordering

LEMMA HolderLearner ==
  ASSUME OneAtATime, TypeInv, TypeInv', HolderInv, NEW r \in Requests, Learner(r)
  PROVE  HolderInv'
  <1>1. ASSUME NEW c \in Codes, NEW u \in Users, Apply(r, c, u) PROVE HolderInv'
    <2>1. PICK q : Decides(r, q, "applied") /\ q.code = c /\ q.user = u
      BY <1>1, ApplyDecides
    <2>2. ASSUME OneLearner, Orderly(rows, limit) PROVE KeepsOrder(q)
      <3>1. \A i \in OpenOf(rows, c) : rows[i].user = u
        <4>1. CASE LiveRowsOf(<<c, u>>) # {}
          <5>1. PICK j \in LiveRowsOf(<<c, u>>) : TRUE
            BY <4>1
          <5>2. /\ j \in DOMAIN rows /\ rows[j].code = c /\ rows[j].user = u
                /\ rows[j].status \in Live
            BY <5>1 DEF LiveRowsOf, RowsOf
          <5>. QED
            BY <2>2, <5>2 DEF Orderly, SoleHolder, OpenOf
        <4>2. CASE Slots(c) # 0
          BY <2>2, <4>2, FreeSlots, LiveRowsAre
        <4>. QED
          BY <1>1, <4>1, <4>2 DEF Apply, Redeemable
      <3>. QED
        BY <2>1, <3>1 DEF KeepsOrder, Ordering, Committing, Decides
    <2>. QED
      BY <2>1, <2>2, HolderBegin DEF Decides
  <1>2. ASSUME NEW inTxn \in BOOLEAN, Place(r, inTxn) PROVE HolderInv'
    <2>1. Openness /\ limit' = limit /\ rows' = rows
      BY <1>2, SameRows DEF Place
    <2>2. /\ req[r].op = "applied" /\ req'[r].op = "placed"
          /\ req'[r].code = req[r].code /\ req'[r].user = req[r].user
      BY <1>2, PlaceIs
    <2>3. ASSUME KeepsOrder(req[r]) PROVE KeepsOrder(req[r])'
      BY <2>1, <2>2, <2>3 DEF KeepsOrder, Ordering, Committing, OpenOf
    <2>4. OneLearner /\ "resized" \notin noise => KeepsOrder(req[r])
      BY DEF HolderInv
    <2>. QED
      BY <2>1, <2>3, <2>4, HolderGoesOn
  <1>3. CASE RecordRedemption(r)
    <2>1. Openness /\ limit' = limit
      <3>1. UNCHANGED <<usage, limit, rows, nudge, noise>>
        BY <1>3 DEF RecordRedemption, db
      <3>. QED
        BY <3>1, SameRows
    <2>. QED
      BY <1>3, <2>1, HolderRecord, HolderGoesOn
  <1>4. CASE CloseOrder(r) \/ OrderCutShort(r)
    BY <1>4, RowsEnds, HolderEnd
  <1>. QED
    BY <1>1, <1>2, <1>3, <1>4 DEF Learner

LEMMA HolderNext ==
  OneAtATime /\ IsFiniteSet(Codes) =>
    (TypeInv /\ TypeInv' /\ FinalInv /\ HolderInv /\ [Next]_vars => HolderInv')
  <1>. SUFFICES ASSUME OneAtATime, IsFiniteSet(Codes), TypeInv, TypeInv', FinalInv,
                       HolderInv, [Next]_vars
                PROVE  HolderInv'
    OBVIOUS
  <1>1. ASSUME NEW r \in Requests, Abandon(r) PROVE HolderInv'
    BY <1>1, RowsEnds, HolderEnd
  <1>2. ASSUME Openness, req' = req, limit' = limit PROVE HolderInv'
    <2>. SUFFICES ASSUME OneLearner, "resized" \notin noise, NEW r \in Requests
                  PROVE  Orderly(rows, limit)' /\ KeepsOrder(req[r])'
      BY <1>2, HolderStays DEF HolderInv, Openness, OneLearner
    <2>1. Orderly(rows, limit) /\ KeepsOrder(req[r]) /\ Typed(req[r])
      BY DEF HolderInv, TypeInv
    <2>2. PICK q : q = req[r]
      OBVIOUS
    <2>3. KeepsOrder(q)'
      BY <1>2, <2>1, <2>2, HolderStays
    <2>. QED
      BY <1>2, <2>1, <2>2, <2>3, HolderStays
  <1>3. CASE UNCHANGED vars
    BY <1>2, <1>3, SameRows DEF vars, db
  <1>4. ASSUME NEW p \in Pairs, Delivered(p) PROVE HolderInv'
    BY <1>2, <1>4, DeliveredOpenness, DeliveredIs
  <1>. QED
    BY <1>1, <1>3, <1>4, HolderStaff, HolderEmails, HolderLearner DEF Next

LEMMA HolderInit == Init => HolderInv
  <1>. SUFFICES ASSUME Init PROVE HolderInv
    OBVIOUS
  <1>1. DOMAIN rows = {} /\ \A r \in Requests : req[r].op = "idle"
    BY DEF Init, NoRequest
  <1>2. Orderly(rows, limit)
    BY <1>1 DEF Orderly, SoleHolder, FullSets, HeldBy
  <1>. QED
    BY <1>1, <1>2, IdleKeepsOrder DEF HolderInv

LEMMA HolderSuffices == IsFiniteSet(Users) => (HolderInv => OneHolder)
  <1>. SUFFICES ASSUME IsFiniteSet(Users), HolderInv, OneLearner, "resized" \notin noise,
                       NEW c \in Codes
                PROVE  Cardinality({u \in Users : LiveRowsOf(<<c, u>>) # {}}) <= 1
    BY DEF OneHolder
  <1>. DEFINE S == {u \in Users : LiveRowsOf(<<c, u>>) # {}}
  <1>1. SoleHolder(rows)
    BY DEF HolderInv, Orderly
  <1>2. \A u, v \in S : u = v
    BY <1>1 DEF SoleHolder, LiveRowsOf, RowsOf
  <1>. HIDE DEF S
  <1>3. CASE S = {}
    <2>1. Cardinality(S) = 0
      BY <1>3, FS_EmptySet
    <2>. QED
      BY <2>1 DEF S
  <1>4. CASE S # {}
    <2>1. PICK u : S = {u}
      BY <1>2, <1>4
    <2>2. Cardinality(S) = 1
      BY <2>1, FS_Singleton
    <2>. QED
      BY <2>2 DEF S
  <1>. QED
    BY <1>3, <1>4

(* With one request at a time, as long as the limit was not changed: all   *)
(* open assignments of a code for one learner are one learner's.           *)
THEOREM SerialOneHolder ==
  ASSUME OneAtATime, IsFiniteSet(Codes), IsFiniteSet(Users)
  PROVE  Spec => []OneHolder
  <1>1. Init => TypeInv /\ FinalInv /\ HolderInv
    <2>1. Init => FinalInv
      BY DEF Init, FinalInv, NoRequest
    <2>. QED
      BY <2>1, InitTypes, HolderInit
  <1>2. TypeInv /\ FinalInv /\ HolderInv /\ [Next]_vars =>
          (TypeInv /\ FinalInv /\ HolderInv)'
    BY NextTypes, FinalStep, HolderNext
  <1>3. HolderInv => OneHolder
    BY HolderSuffices
  <1>. QED
    BY <1>1, <1>2, <1>3, PTL DEF Spec

-----------------------------------------------------------------------------
(* No more orders and open rows together than a code has uses, and none    *)
(* that stand in each other's way.                                         *)

OrdersIn(A, c) == FoldFunctionOnSet(+, 0, A[c], Users)

Cap ==
  IF limit # 0 THEN limit
  ELSE IF usage \in {"multi", "once per customer"} THEN OFFER_MAX_USES_DEFAULT ELSE 1

Within(R, A, c) == OrdersIn(A, c) + Cardinality(OpenOf(R, c)) <= Cap

OneEach(R, c) ==
  usage = "once per customer" =>
    \A i, j \in OpenOf(R, c) : R[j].user = R[i].user => i = j

Unused(R, A, c) ==
  /\ usage = "once per customer" => \A i \in OpenOf(R, c) : A[c][R[i].user] = 0
  /\ OneLearner => \A i \in OpenOf(R, c), v \in Users : A[c][v] > 0 => R[i].user = v

(* Whoever holds an open row of R can still redeem it, with the orders A.  *)
Fair(R, A, c) == Within(R, A, c) /\ OneEach(R, c) /\ Unused(R, A, c)

(* The orders with the one of request q.                                   *)
With(q) ==
  IF q.op \in {"placed", "recorded"} /\ q.txn
  THEN [apps EXCEPT ![q.code][q.user] = @ + 1] ELSE apps

(* The orders A hold one of learner u for which no row is redeemed yet.    *)
Taking(R, A, c, u) ==
  /\ \A d \in Codes \ {c} : Fair(R, A, d)
  /\ IF LiveRowsOf(<<c, u>>) # {}
     THEN OrdersIn(A, c) + Cardinality(OpenOf(R, c)) <= Cap + 1
     ELSE Within(R, A, c) /\ (OneLearner => OpenOf(R, c) = {} /\ OrdersIn(A, c) <= 1)
  /\ OneEach(R, c)
  /\ usage = "once per customer" =>
       \A i \in OpenOf(R, c) : R[i].user # u => A[c][R[i].user] = 0
  /\ OneLearner => \A v \in Users : A[c][v] > 0 => v = u

FairCommit(q) ==
  Committing(q) /\ ~Doubled(q) =>
    /\ \A c \in Codes : Fair(Saved(q), With(q), c)
    /\ \A k \in 1..Len(q.new) : q.new[k].code \in codes \cup {q.code}

FairOrder(q) ==
  /\ Redeeming(q) => q.code \in codes
  /\ q.op = "applied" \/ (q.op \in {"placed", "recorded"} /\ q.txn) =>
       q.uses = uses[q.code]
  /\ q.op = "applied" => LiveRowsOf(<<q.code, q.user>>) # {} \/ Slots(q.code) # 0
  /\ q.op = "placed" => Taking(rows, With(q), q.code, q.user)

Settled ==
  /\ usage = "single" => limit = 0
  /\ \A i \in DOMAIN rows : rows[i].code \in codes
  /\ \A c \in Codes \ codes, u \in Users : apps[c][u] = 0
  /\ \A c \in Codes : uses[c] = OrdersIn(apps, c)

AllFair == \A c \in Codes : Fair(rows, apps, c)

FairInv ==
  noise = {} =>
    /\ Settled
    /\ (\A r \in Requests : ~Owes(r)) => AllFair
    /\ \A r \in Requests : FairCommit(req[r]) /\ FairOrder(req[r])

LEMMA OrdersAre ==
  ASSUME IsFiniteSet(Users), NEW A \in [Codes -> [Users -> Nat]], NEW c \in Codes
  PROVE  /\ OrdersIn(A, c) \in Nat
         /\ \A u \in Users : A[c][u] \in Nat /\ A[c][u] <= OrdersIn(A, c)
         /\ (\A u \in Users : A[c][u] = 0) => OrdersIn(A, c) = 0
  <1>1. PICK f \in [Users -> Nat] : f = A[c]
    OBVIOUS
  <1>2. OrdersIn(A, c) = SumOver(f, Users)
    BY <1>1, FoldIsSum DEF OrdersIn
  <1>3. SumOver(f, Users) \in Nat /\ \A u \in Users : f[u] <= SumOver(f, Users)
    BY SumNat, SumAtLeast
  <1>4. (\A u \in Users : f[u] = 0) => SumOver(f, Users) = 0
    BY SumZero
  <1>. QED
    BY <1>1, <1>2, <1>3, <1>4

LEMMA OrdersNumber == \A d : num_orders(d) = OrdersIn(apps, d)
  BY DEF OrdersIn, num_orders

LEMMA OrdersNumberNext == \A d : num_orders(d)' = OrdersIn(apps', d)
  <1>1. (\A d : num_orders(d) = OrdersIn(apps, d))'
    BY OrdersNumber, PTL
  <1>. QED
    BY <1>1

PlusOne(A, c, u) == [A EXCEPT ![c][u] = @ + 1]

LEMMA OneOrderMore ==
  ASSUME IsFiniteSet(Users), NEW A \in [Codes -> [Users -> Nat]], NEW c \in Codes,
         NEW u \in Users, NEW B, B = PlusOne(A, c, u)
  PROVE  /\ B \in [Codes -> [Users -> Nat]]
         /\ OrdersIn(B, c) = OrdersIn(A, c) + 1
         /\ B[c][u] = A[c][u] + 1
         /\ \A v \in Users \ {u} : B[c][v] = A[c][v]
         /\ \A d \in Codes \ {c} : B[d] = A[d] /\ OrdersIn(B, d) = OrdersIn(A, d)
  <1>1. /\ B \in [Codes -> [Users -> Nat]]
        /\ B[c][u] = A[c][u] + 1 /\ A[c][u] \in Nat
        /\ \A v \in Users \ {u} : B[c][v] = A[c][v]
        /\ \A d \in Codes \ {c} : B[d] = A[d]
    BY DEF PlusOne
  <1>2. PICK f \in [Users -> Nat], g \in [Users -> Nat] : f = A[c] /\ g = B[c]
    BY <1>1
  <1>3. OrdersIn(A, c) = SumOver(f, Users) /\ OrdersIn(B, c) = SumOver(g, Users)
    BY <1>2, FoldIsSum DEF OrdersIn
  <1>4. SumOver(g, Users) = SumOver(f, Users) + g[u] - f[u]
    <2>1. \A x \in Users \ {u} : g[x] = f[x]
      BY <1>1, <1>2
    <2>. QED
      BY <2>1, SumChange
  <1>5. SumOver(f, Users) \in Nat
    BY SumNat
  <1>6. OrdersIn(B, c) = OrdersIn(A, c) + 1
    BY <1>1, <1>2, <1>3, <1>4, <1>5
  <1>7. \A d \in Codes \ {c} : OrdersIn(B, d) = OrdersIn(A, d)
    BY <1>1 DEF OrdersIn
  <1>. QED
    BY <1>1, <1>6, <1>7

LEMMA CapIs ==
  ASSUME TypeInv
  PROVE  /\ Cap \in Nat \ {0}
         /\ limit \in Nat /\ (limit # 0 => Cap = limit)
         /\ usage \in {"multi", "once per customer"} => Cap = MaxUses
         /\ usage \in AllUsages
  <1>1. limit \in Nat /\ usage \in AllUsages
    BY CodesAssumption DEF TypeInv, DbOK
  <1>2. OFFER_MAX_USES_DEFAULT \in Nat \ {0}
    BY CodesAssumption
  <1>3. Cap \in Nat \ {0}
    <2>1. (Cap = limit /\ limit # 0) \/ Cap = OFFER_MAX_USES_DEFAULT \/ Cap = 1
      BY DEF Cap
    <2>. QED
      BY <1>1, <1>2, <2>1
  <1>4. /\ limit # 0 => Cap = limit
        /\ usage \in {"multi", "once per customer"} => Cap = MaxUses
    BY DEF Cap, MaxUses
  <1>. QED
    BY <1>1, <1>3, <1>4

LEMMA FewOpen ==
  TypeInv =>
    \A c : /\ IsFiniteSet(OpenOf(rows, c)) /\ Cardinality(OpenOf(rows, c)) \in Nat
           /\ \A q : Typed(q) => /\ IsFiniteSet(OpenOf(Saved(q), c))
                                 /\ Cardinality(OpenOf(Saved(q), c)) \in Nat
  <1>. SUFFICES ASSUME TypeInv, NEW c
                PROVE  /\ IsFiniteSet(OpenOf(rows, c)) /\ Cardinality(OpenOf(rows, c)) \in Nat
                       /\ \A q : Typed(q) => /\ IsFiniteSet(OpenOf(Saved(q), c))
                                             /\ Cardinality(OpenOf(Saved(q), c)) \in Nat
    OBVIOUS
  <1>1. IsFiniteSet(DOMAIN rows)
    BY Positions DEF TypeInv, DbOK
  <1>2. OpenOf(rows, c) \subseteq DOMAIN rows
    BY DEF OpenOf
  <1>3. ASSUME NEW q, Typed(q)
        PROVE  IsFiniteSet(OpenOf(Saved(q), c)) /\ Cardinality(OpenOf(Saved(q), c)) \in Nat
    <2>1. PICK R : R = Saved(q)
      OBVIOUS
    <2>2. /\ DOMAIN R = 1..(Len(rows) + Len(q.new))
          /\ Len(rows) + Len(q.new) \in Nat
      BY <1>3, <2>1, SavedShapes DEF SavedShape
    <2>3. IsFiniteSet(DOMAIN R) /\ OpenOf(R, c) \subseteq DOMAIN R
      BY <2>2, FS_Interval DEF OpenOf
    <2>. QED
      BY <2>1, <2>3, FS_Subset, FS_CardinalityType
  <1>. QED
    BY <1>1, <1>2, <1>3, FS_Subset, FS_CardinalityType

(* Fewer open rows, of the same learners, are fair if more are.            *)
LEMMA FewerFair ==
  ASSUME TypeInv, IsFiniteSet(Users), NEW A \in [Codes -> [Users -> Nat]], NEW B,
         NEW R, NEW S, NEW c \in Codes,
         Fair(R, A, c), IsFiniteSet(OpenOf(R, c)), OpenOf(S, c) \subseteq OpenOf(R, c),
         \A i \in OpenOf(S, c) : S[i].user = R[i].user, B[c] = A[c]
  PROVE  Fair(S, B, c)
  <1>1. OrdersIn(B, c) = OrdersIn(A, c) /\ OrdersIn(A, c) \in Nat
    BY OrdersAre DEF OrdersIn
  <1>2. Cardinality(OpenOf(S, c)) <= Cardinality(OpenOf(R, c))
        /\ Cardinality(OpenOf(S, c)) \in Nat /\ Cardinality(OpenOf(R, c)) \in Nat
    BY FS_Subset, FS_CardinalityType
  <1>3. Within(S, B, c)
    <2>1. Cap \in Nat
      BY CapIs
    <2>2. OrdersIn(A, c) + Cardinality(OpenOf(R, c)) <= Cap
      BY DEF Fair, Within
    <2>3. OrdersIn(B, c) + Cardinality(OpenOf(S, c)) <= Cap
      BY <1>1, <1>2, <2>1, <2>2
    <2>. QED
      BY <2>3 DEF Within
  <1>4. OneEach(S, c)
    BY DEF Fair, OneEach
  <1>5. Unused(S, B, c)
    BY DEF Fair, Unused
  <1>. QED
    BY <1>3, <1>4, <1>5 DEF Fair

LEMMA NarrowFair ==
  ASSUME TypeInv, IsFiniteSet(Users), NEW A \in [Codes -> [Users -> Nat]],
         NEW R, NEW S, NEW c \in Codes,
         Narrows(R, S), Fair(R, A, c), IsFiniteSet(OpenOf(R, c))
  PROVE  Fair(S, A, c)
  <1>1. /\ OpenOf(S, c) \subseteq OpenOf(R, c)
        /\ \A i \in OpenOf(S, c) : S[i].user = R[i].user
    BY DEF Narrows, OpenOf
  <1>. QED
    BY <1>1, FewerFair

(* E-mail reports and bounces change nothing that counts.                  *)
LEMMA OpennessCounts ==
  ASSUME TypeInv, Openness
  PROVE  /\ \A c : OpenOf(rows, c)' = OpenOf(rows, c)
         /\ \A i \in DOMAIN rows : rows'[i].user = rows[i].user
         /\ \A p : LiveRowsOf(p)' = LiveRowsOf(p)
         /\ \A c : LiveRows(c)' = LiveRows(c)
  <1>1. \A c : OpenOf(rows, c)' = OpenOf(rows, c)
    BY DEF Openness, OwnersKept, OpenOf
  <1>2. \A p : LiveRowsOf(p)' = LiveRowsOf(p)
    BY DEF Openness, OwnersKept, LiveRowsOf, RowsOf
  <1>3. \A i \in DOMAIN rows : rows'[i].user = rows[i].user
    BY DEF Openness, OwnersKept
  <1>. QED
    BY <1>1, <1>2, <1>3 DEF LiveRows

LEMMA FairSame ==
  ASSUME usage' = usage, limit' = limit
  PROVE  \A R, A, c : Fair(R, A, c)' = Fair(R, A, c)
  BY DEF Fair, Within, OneEach, Unused, Cap, OneLearner

(* The orders with a request's own are counts.                             *)
Owned(q) == q.op \in {"placed", "recorded"} => q.code \in Codes /\ q.user \in Users

LEMMA WithIs ==
  ASSUME TypeInv, NEW q, Owned(q)
  PROVE  /\ With(q) \in [Codes -> [Users -> Nat]]
         /\ apps \in [Codes -> [Users -> Nat]]
         /\ q.op \notin {"placed", "recorded"} => With(q) = apps
  <1>1. apps \in [Codes -> [Users -> Nat]]
    BY DEF TypeInv, Inv, CountInv
  <1>2. CASE q.op \in {"placed", "recorded"} /\ q.txn
    <2>1. With(q) = [apps EXCEPT ![q.code][q.user] = @ + 1]
      BY <1>2 DEF With
    <2>2. q.code \in Codes /\ q.user \in Users
      BY <1>2 DEF Owned
    <2>. QED
      BY <1>1, <1>2, <2>1, <2>2
  <1>3. CASE ~(q.op \in {"placed", "recorded"} /\ q.txn)
    BY <1>1, <1>3 DEF With
  <1>. QED
    BY <1>1, <1>2, <1>3

LEMMA TakingStays ==
  ASSUME TypeInv, Openness, limit' = limit
  PROVE  \A A, c, u : Taking(rows, A, c, u) => Taking(rows, A, c, u)'
  <1>1. /\ usage' = usage /\ limit' = limit
        /\ \A c : OpenOf(rows, c)' = OpenOf(rows, c)
        /\ \A i \in DOMAIN rows : rows'[i].user = rows[i].user
        /\ \A p : LiveRowsOf(p)' = LiveRowsOf(p)
    BY OpennessCounts DEF Openness
  <1>2. ASSUME NEW A, NEW c, Fair(rows, A, c) PROVE Fair(rows, A, c)'
    <2>1. PICK S, T : S = OpenOf(rows, c) /\ T = OpenOf(rows, c)'
      OBVIOUS
    <2>2. S = T /\ \A i \in S : rows'[i].user = rows[i].user
      BY <1>1, <2>1 DEF OpenOf
    <2>3. Within(rows, A, c)'
      BY <1>1, <1>2, <2>1, <2>2 DEF Fair, Within, Cap
    <2>4. OneEach(rows, c)'
      BY <1>1, <1>2, <2>1, <2>2 DEF Fair, OneEach
    <2>5. Unused(rows, A, c)'
      BY <1>1, <1>2, <2>1, <2>2 DEF Fair, Unused, OneLearner
    <2>. QED
      BY <2>3, <2>4, <2>5 DEF Fair
  <1>3. ASSUME NEW A, NEW c, NEW u, Taking(rows, A, c, u) PROVE Taking(rows, A, c, u)'
    <2>1. \A d \in Codes \ {c} : Fair(rows, A, d)'
      BY <1>2, <1>3 DEF Taking
    <2>2. OneEach(rows, c)' /\ (Within(rows, A, c) <=> Within(rows, A, c)')
      <3>1. PICK S, T : S = OpenOf(rows, c) /\ T = OpenOf(rows, c)'
        OBVIOUS
      <3>2. S = T /\ \A i \in S : rows'[i].user = rows[i].user
        BY <1>1, <3>1 DEF OpenOf
      <3>3. OneEach(rows, c)'
        BY <1>1, <1>3, <3>1, <3>2 DEF Taking, OneEach
      <3>. QED
        BY <1>1, <3>1, <3>2, <3>3 DEF Within, Cap
    <2>3. \A i \in OpenOf(rows, c) : rows'[i].user = rows[i].user
      BY <1>1 DEF OpenOf
    <2>. QED
      BY <1>1, <1>3, <2>1, <2>2, <2>3 DEF Taking, OneLearner, Cap
  <1>. QED
    BY <1>3

LEMMA FairStays ==
  ASSUME IsFiniteSet(Users), TypeInv, TypeInv', Openness,
         UNCHANGED <<codes, limit, apps, uses>>
  PROVE  /\ Settled => Settled'
         /\ AllFair => AllFair'
         /\ \A q : Typed(q) /\ Owned(q) /\ FairCommit(q) => FairCommit(q)'
         /\ \A q : FairOrder(q) => FairOrder(q)'
  <1>1. usage' = usage /\ limit' = limit /\ apps' = apps
        /\ apps \in [Codes -> [Users -> Nat]]
    BY DEF Openness, TypeInv, Inv, CountInv
  <1>2. \A q : With(q)' = With(q)
    BY <1>1 DEF With
  <1>3. Settled => Settled'
    BY <1>1 DEF Settled, Openness, OwnersKept
  <1>4. ASSUME NEW A \in [Codes -> [Users -> Nat]], NEW c \in Codes, Fair(rows, A, c)
        PROVE  Fair(rows, A, c)'
    <2>1. PICK S : S = rows'
      OBVIOUS
    <2>2. Narrows(rows, S) /\ IsFiniteSet(OpenOf(rows, c))
      BY <2>1, FewOpen, OpennessNarrows
    <2>3. Fair(S, A, c)
      BY <1>4, <2>2, NarrowFair
    <2>4. Fair(S, A, c)'
      BY <1>1, <2>3, FairSame
    <2>. QED
      BY <2>1, <2>4 DEF Fair, Within, OneEach, Unused
  <1>5. ASSUME AllFair PROVE AllFair'
    <2>1. PICK A : A = apps
      OBVIOUS
    <2>2. \A c \in Codes : Fair(rows, A, c)'
      BY <1>1, <1>4, <1>5, <2>1 DEF AllFair
    <2>. QED
      BY <1>1, <2>1, <2>2 DEF AllFair, Fair, Within, OneEach, Unused
  <1>6. ASSUME NEW q, Typed(q), FairCommit(q), Owned(q) PROVE FairCommit(q)'
    <2>. SUFFICES ASSUME Committing(q)', ~Doubled(q)'
                  PROVE  /\ \A c \in Codes : Fair(Saved(q), With(q), c)'
                         /\ \A k \in 1..Len(q.new) : q.new[k].code \in codes \cup {q.code}
      BY DEF FairCommit
    <2>1. Committing(q) /\ ~Doubled(q)
      BY <1>1 DEF Committing, Doubled
    <2>2. PICK R, S, A : R = Saved(q) /\ S = Saved(q)' /\ A = With(q)
      OBVIOUS
    <2>3. A \in [Codes -> [Users -> Nat]]
      BY <1>6, <2>2, WithIs
    <2>4. Narrows(R, S) /\ \A c : IsFiniteSet(OpenOf(R, c))
      BY <1>6, <2>2, OpennessNarrows, FewOpen
    <2>5. \A c \in Codes : Fair(R, A, c)
      BY <1>6, <2>1, <2>2 DEF FairCommit
    <2>6. \A c \in Codes : Fair(S, A, c)
      BY <2>3, <2>4, <2>5, NarrowFair
    <2>7. \A c \in Codes : Fair(S, A, c)'
      BY <1>1, <2>6, FairSame
    <2>8. A = With(q)'
      BY <1>2, <2>2
    <2>9. \A c \in Codes : Fair(Saved(q), With(q), c)'
      <3>. SUFFICES ASSUME NEW c \in Codes PROVE Fair(Saved(q), With(q), c)'
        OBVIOUS
      <3>1. Within(S, A, c)' /\ OneEach(S, c)' /\ Unused(S, A, c)'
        BY <2>7 DEF Fair
      <3>2. Within(Saved(q), With(q), c)'
        BY <2>2, <2>8, <3>1 DEF Within
      <3>3. OneEach(Saved(q), c)'
        BY <2>2, <3>1 DEF OneEach
      <3>4. Unused(Saved(q), With(q), c)'
        BY <2>2, <2>8, <3>1 DEF Unused
      <3>. QED
        BY <3>2, <3>3, <3>4 DEF Fair
    <2>. QED
      BY <1>6, <2>1, <2>9 DEF FairCommit
  <1>7. ASSUME NEW q, FairOrder(q) PROVE FairOrder(q)'
    <2>1. /\ \A c : OpenOf(rows, c)' = OpenOf(rows, c)
          /\ \A i \in DOMAIN rows : rows'[i].user = rows[i].user
          /\ \A p : LiveRowsOf(p)' = LiveRowsOf(p)
          /\ \A c : LiveRows(c)' = LiveRows(c)
      BY OpennessCounts
    <2>2. Slots(q.code)' = Slots(q.code)
      <3>1. PICK c : c = q.code
        OBVIOUS
      <3>2. num_orders(c)' = num_orders(c)
        <4>1. num_orders(c)' = OrdersIn(apps', c) /\ num_orders(c) = OrdersIn(apps, c)
          BY OrdersNumber, OrdersNumberNext
        <4>. QED
          BY <1>1, <4>1
      <3>3. Slots(c)' = Slots(c)
        BY <1>1, <2>1, <3>2 DEF Slots, OneLearner, MaxUses
      <3>. QED
        BY <3>1, <3>3
    <2>5. PICK A : A = With(q)
      OBVIOUS
    <2>6. q.op = "placed" => Taking(rows, A, q.code, q.user)'
      BY <1>7, <2>5, TakingStays DEF FairOrder
    <2>7. q.op = "placed" => Taking(rows, With(q), q.code, q.user)'
      BY <1>2, <2>5, <2>6 DEF Taking, Fair, Within, OneEach, Unused
    <2>. QED
      BY <1>7, <2>1, <2>2, <2>7 DEF FairOrder
  <1>. QED
    BY <1>3, <1>5, <1>6, <1>7

LEMMA FairGoesOn ==
  ASSUME IsFiniteSet(Users), OneAtATime, TypeInv, TypeInv', FairInv, Openness,
         UNCHANGED <<codes, limit, apps, uses>>, NEW r \in Requests,
         Owes(r) => Owes(r)',
         noise = {} => FairCommit(req[r])' /\ FairOrder(req[r])'
  PROVE  FairInv'
  <1>. SUFFICES ASSUME noise' = {}
                PROVE  /\ Settled'
                       /\ ~Owes(r)' => AllFair'
                       /\ FairCommit(req[r])' /\ FairOrder(req[r])'
    BY DEF FairInv, OneAtATime
  <1>1. noise = {}
    BY DEF Openness
  <1>2. Settled /\ (~Owes(r) => AllFair)
    BY <1>1 DEF FairInv, OneAtATime
  <1>. QED
    BY <1>1, <1>2, FairStays

LEMMA IdleIsFair ==
  \A q : q.op \notin {"applied", "placed", "recorded"} /\ ~Committing(q)
           => FairCommit(q) /\ FairOrder(q)
  BY DEF FairCommit, FairOrder, Redeeming

LEMMA IdleIsFairNext ==
  \A q : q.op \in {"idle", "bounce"} => FairCommit(q)' /\ FairOrder(q)'
  <1>1. \A q : q.op \in {"idle", "bounce"} => FairCommit(q) /\ FairOrder(q)
    BY IdleIsFair DEF Committing
  <1>2. (\A q : q.op \in {"idle", "bounce"} => FairCommit(q) /\ FairOrder(q))'
    BY <1>1, PTL
  <1>. QED
    BY <1>2

(* A request that begins was fair on the rows and orders it read.          *)
LEMMA FairBegin ==
  ASSUME IsFiniteSet(Users), OneAtATime, TypeInv, TypeInv', FairInv,
         NEW r \in Requests, NEW q, Begin(r, q), Typed(q),
         q.op \notin {"placed", "recorded"},
         noise = {} /\ Settled /\ AllFair => FairCommit(q) /\ FairOrder(q)
  PROVE  FairInv'
  <1>1. /\ Openness /\ UNCHANGED <<codes, limit, apps, uses>> /\ req'[r] = q
        /\ req[r].op = "idle"
    BY BeginIs, SameRows
  <1>2. ~Owes(r)
    BY <1>1 DEF Owes, Placing
  <1>3. ASSUME noise = {} PROVE FairCommit(req[r])' /\ FairOrder(req[r])'
    <2>1. FairCommit(q) /\ FairOrder(q)
      BY <1>2, <1>3 DEF FairInv, OneAtATime
    <2>2. FairCommit(q)' /\ FairOrder(q)'
      BY <1>1, <2>1, FairStays DEF Owned
    <2>. QED
      BY <1>1, <2>2
  <1>. QED
    BY <1>1, <1>2, <1>3, FairGoesOn

(* Requests that only close rows, or save them as they are.                *)
LEMMA FairNarrow ==
  ASSUME IsFiniteSet(Users), TypeInv, AllFair, NEW q, Typed(q), q.new = <<>>,
         q.op \in {"revoke", "remind", "resize"},
         \A i \in DOMAIN q.saves : q.saves[i] \in Live => rows[i].status \in Live
  PROVE  FairCommit(q) /\ FairOrder(q)
  <1>1. PICK R : R = Saved(q)
    OBVIOUS
  <1>2. Narrows(rows, R)
    BY <1>1, SavingNarrows
  <1>3. apps \in [Codes -> [Users -> Nat]] /\ With(q) = apps
    BY WithIs DEF Owned
  <1>4. \A c \in Codes : Fair(R, apps, c)
    BY <1>2, <1>3, NarrowFair, FewOpen DEF AllFair
  <1>5. Len(q.new) = 0
    OBVIOUS
  <1>. QED
    BY <1>1, <1>3, <1>4, <1>5 DEF FairCommit, FairOrder, Redeeming

(* New rows of c, at positions in P.                                       *)
LEMMA RoomForMore ==
  ASSUME TypeInv, IsFiniteSet(Users), NEW A \in [Codes -> [Users -> Nat]],
         NEW R, NEW c \in Codes, NEW P, IsFiniteSet(P), NEW n \in Nat, Cardinality(P) <= n,
         OpenOf(R, c) \subseteq OpenOf(rows, c) \cup P,
         OrdersIn(A, c) + Cardinality(OpenOf(rows, c)) + n <= Cap
  PROVE  Within(R, A, c)
  <1>1. IsFiniteSet(OpenOf(rows, c)) /\ Cardinality(OpenOf(rows, c)) \in Nat
    BY FewOpen
  <1>2. PICK S : S = OpenOf(rows, c) \cup P
    OBVIOUS
  <1>3. /\ IsFiniteSet(S)
        /\ Cardinality(S) = Cardinality(OpenOf(rows, c)) + Cardinality(P)
                              - Cardinality(OpenOf(rows, c) \cap P)
    BY <1>1, <1>2, FS_Union
  <1>4. Cardinality(OpenOf(rows, c) \cap P) \in Nat /\ Cardinality(P) \in Nat
        /\ Cardinality(S) \in Nat
    BY <1>1, <1>3, FS_Subset, FS_CardinalityType
  <1>5. Cardinality(OpenOf(R, c)) \in Nat /\ Cardinality(OpenOf(R, c)) <= Cardinality(S)
    BY <1>2, <1>3, FS_Subset, FS_CardinalityType
  <1>6. Cardinality(OpenOf(R, c)) <= Cardinality(OpenOf(rows, c)) + n
    BY <1>1, <1>3, <1>4, <1>5
  <1>7. OrdersIn(A, c) \in Nat /\ Cap \in Nat
    BY OrdersAre, CapIs
  <1>8. OrdersIn(A, c) + Cardinality(OpenOf(R, c)) <= Cap
    BY <1>1, <1>5, <1>6, <1>7
  <1>. QED
    BY <1>8 DEF Within

(* Those who share out a code of a coupon for many learners.               *)
LEMMA FewTakers ==
  ASSUME NEW us \in UserLists, NEW T, T \subseteq DOMAIN us, NEW m \in Nat,
         NEW P, P = {m + i : i \in T}
  PROVE  IsFiniteSet(P) /\ Cardinality(P) <= Cardinality(T) /\ Cardinality(T) \in Nat
  <1>. DEFINE f == [x \in P |-> x - m]
  <1>1. IsFiniteSet(T) /\ T \subseteq Nat
    <2>1. DOMAIN us = 1..Len(us) /\ Len(us) \in Nat
      BY ListLength
    <2>2. IsFiniteSet(DOMAIN us)
      BY <2>1, FS_Interval
    <2>. QED
      BY <2>1, <2>2, FS_Subset
  <1>2. f \in Injection(P, T)
    <2>1. \A x \in P : x - m \in T /\ x \in Int
      BY <1>1
    <2>2. \A x, y \in P : x - m = y - m => x = y
      BY <2>1
    <2>. QED
      BY <2>1, <2>2 DEF Injection, IsInjective
  <1>3. IsFiniteSet(P) /\ Cardinality(P) <= Cardinality(T)
    BY <1>1, <1>2, FS_Injection
  <1>4. Cardinality(T) \in Nat
    BY <1>1, FS_CardinalityType
  <1>. QED
    BY <1>3, <1>4

(* Without two rows of one code and learner, no learner was given a code   *)
(* twice.                                                                  *)
LEMMA PledgesApart ==
  ASSUME NEW us \in UserLists, NEW plan \in [DOMAIN us -> Codes], NEW new \in Seq(Row),
         NEW off, Lie(new, us, plan, off), ~OneLearner, IsInjective(new),
         NEW i \in DOMAIN us, NEW j \in DOMAIN us, us[i] = us[j], plan[i] = plan[j]
  PROVE  i = j
  <1>1. ASSUME NEW k \in DOMAIN us
        PROVE  k \in DOMAIN new /\ new[k] = Pledged(plan[k], us[k])
    <2>1. k \in Nat
      BY ListLength
    <2>2. Share(plan[k]) = 1
      BY DEF Share
    <2>3. off[k] = k - 1
      BY DEF Lie
    <2>4. off[k] + 1 = k
      BY <2>1, <2>3
    <2>5. 1 \in 1..Share(plan[k])
      BY <2>2
    <2>6. off[k] + 1 \in 1..Len(new) /\ new[off[k] + 1] = Pledged(plan[k], us[k])
      BY <2>5 DEF Lie
    <2>. QED
      BY <2>4, <2>6
  <1>2. new[i] = new[j]
    BY <1>1
  <1>. QED
    BY <1>1, <1>2 DEF IsInjective

(* The new rows of an assignment fit into what their codes have left.      *)
LEMMA FairAssign ==
  ASSUME IsFiniteSet(Users), TypeInv, Settled, AllFair, NEW q, Typed(q), q.op = "assign",
         DOMAIN q.saves = {}, NEW us \in UserLists, NEW plan \in [DOMAIN us -> Codes],
         Fits(us, plan), q.new = FlattenSeq(Shares(us, plan)), ~Doubled(q)
  PROVE  FairCommit(q) /\ FairOrder(q)
  <1>1. PICK off : Lie(q.new, us, plan, off)
    BY SharesFlat
  <1>2. SavedShape(q)
    BY SavedShapes
  <1>3. PICK R, N : R = Saved(q) /\ N = Len(rows)
    OBVIOUS
  <1>4. N \in Nat /\ apps \in [Codes -> [Users -> Nat]] /\ With(q) = apps
        /\ limit \in Nat /\ Cap \in Nat \ {0}
    BY <1>2, <1>3, WithIs, CapIs DEF SavedShape, Owned
  <1>5. ASSUME NEW c \in Codes, NEW a \in OpenOf(R, c)
        PROVE  \/ a \in OpenOf(rows, c) /\ R[a].user = rows[a].user
               \/ \E i \in DOMAIN us : \E k \in 1..Share(plan[i]) :
                    /\ plan[i] = c /\ R[a].user = us[i]
                    /\ a = N + (off[i] + k)
    <2>1. a \in DOMAIN R /\ R[a].code = c /\ R[a].status \in Live
      BY DEF OpenOf
    <2>2. CASE a \in DOMAIN rows
      BY <1>2, <1>3, <2>1, <2>2 DEF SavedShape, OpenOf
    <2>3. CASE a \notin DOMAIN rows
      <3>1. PICK m \in 1..Len(q.new) : a = N + m /\ R[a] = q.new[m]
        BY <1>2, <1>3, <2>1, <2>3 DEF SavedShape
      <3>2. PICK i \in DOMAIN us : \E k \in 1..Share(plan[i]) :
              m = off[i] + k /\ q.new[m] = Pledged(plan[i], us[i])
        BY <1>1 DEF Lie
      <3>3. plan[i] = c /\ R[a].user = us[i]
        BY <2>1, <3>1, <3>2 DEF Pledged
      <3>. QED
        BY <3>1, <3>2, <3>3
    <2>. QED
      BY <2>2, <2>3
  <1>6. ASSUME NEW c \in Codes, \A i \in DOMAIN us : plan[i] # c
        PROVE  Fair(R, apps, c)
    <2>1. /\ OpenOf(R, c) \subseteq OpenOf(rows, c)
          /\ \A a \in OpenOf(R, c) : R[a].user = rows[a].user
      BY <1>5, <1>6
    <2>. QED
      BY <1>4, <2>1, FewerFair, FewOpen DEF AllFair
  <1>7. ASSUME NEW i0 \in DOMAIN us, NEW c \in Codes, plan[i0] = c, OneLearner
        PROVE  Fair(R, apps, c)
    <2>1. Slots(c) >= 1 /\ Cardinality({j \in DOMAIN us : plan[j] = c}) <= 1
      BY <1>7 DEF Fits, Fillable
    <2>2. Slots(c) # 0
      BY <2>1
    <2>3. /\ Slots(c) = (IF limit = 0 THEN 1 ELSE limit)
          /\ ~(num_orders(c) > 0) /\ LiveRows(c) = {}
      BY <1>7, <2>2, FreeSlots
    <2>4. OpenOf(rows, c) = {} /\ OrdersIn(apps, c) = 0
          /\ \A u \in Users : ~(apps[c][u] > 0)
      <3>1. OrdersIn(apps, c) = num_orders(c)
        BY DEF OrdersIn, num_orders
      <3>2. OrdersIn(apps, c) \in Nat
            /\ \A u \in Users : apps[c][u] \in Nat /\ apps[c][u] <= OrdersIn(apps, c)
        BY <1>4, OrdersAre
      <3>3. OrdersIn(apps, c) = 0
        BY <2>3, <3>1, <3>2
      <3>. QED
        BY <2>3, <3>2, <3>3, LiveRowsAre
    <2>5. IsFiniteSet({j \in DOMAIN us : plan[j] = c})
      <3>1. IsFiniteSet(DOMAIN us)
        BY ListLength, FS_Interval
      <3>. QED
        BY <3>1, FS_Subset
    <2>6. \A j \in DOMAIN us : plan[j] = c => j = i0
      BY <1>7, <2>1, <2>5, AtMostOne
    <2>7. off[i0] \in Nat /\ Share(c) = Slots(c) /\ Share(c) \in Nat /\ Share(c) <= Cap
      <3>1. off[i0] \in Nat /\ Share(c) \in Nat /\ Share(c) = Slots(c)
        BY <1>1, <1>7 DEF Lie, Share
      <3>2. Slots(c) <= Cap
        <4>1. CASE limit = 0
          BY <1>4, <2>3, <4>1
        <4>2. CASE limit # 0
          <5>1. Cap = limit /\ Slots(c) = limit
            BY <2>3, <4>2, CapIs
          <5>. QED
            BY <1>4, <5>1
        <4>. QED
          BY <4>1, <4>2
      <3>. QED
        BY <3>1, <3>2
    <2>. DEFINE b == N + off[i0]
                P == (b + 1)..(b + Share(c))
    <2>8. OpenOf(R, c) \subseteq OpenOf(rows, c) \cup P
      <3>. SUFFICES ASSUME NEW a \in OpenOf(R, c) PROVE a \in P
        OBVIOUS
      <3>1. PICK i \in DOMAIN us : \E k \in 1..Share(plan[i]) :
              plan[i] = c /\ a = N + (off[i] + k)
        BY <1>5, <2>4
      <3>2. i = i0
        BY <2>6, <3>1
      <3>3. PICK k \in 1..Share(c) : a = N + (off[i0] + k)
        BY <3>1, <3>2
      <3>. QED
        BY <1>4, <2>7, <3>3
    <2>9. IsFiniteSet(P) /\ Cardinality(P) = Share(c)
      <3>1. b + 1 \in Int /\ b + Share(c) \in Int
        BY <1>4, <2>7
      <3>2. IsFiniteSet(P) /\ Cardinality(P) = IF b + 1 > b + Share(c) THEN 0
                                               ELSE (b + Share(c)) - (b + 1) + 1
        BY <3>1, FS_Interval
      <3>. HIDE DEF P
      <3>. QED
        BY <1>4, <2>7, <3>2
    <2>. HIDE DEF P, b
    <2>10. Cardinality(OpenOf(rows, c)) = 0
      BY <2>4, FS_EmptySet
    <2>11. Within(R, apps, c)
      <3>1. OrdersIn(apps, c) + Cardinality(OpenOf(rows, c)) + Share(c) <= Cap
        BY <1>4, <2>4, <2>7, <2>10
      <3>2. Cardinality(P) <= Share(c)
        BY <2>7, <2>9
      <3>. QED
        BY <1>4, <2>7, <2>8, <2>9, <3>1, <3>2, RoomForMore
    <2>. QED
      BY <1>7, <2>4, <2>11 DEF Fair, OneEach, Unused, OneLearner
  <1>8. ASSUME NEW i0 \in DOMAIN us, NEW c \in Codes, plan[i0] = c, ~OneLearner
        PROVE  Fair(R, apps, c)
    <2>0. PICK T, P : T = {j \in DOMAIN us : plan[j] = c} /\ P = {N + i : i \in T}
      OBVIOUS
    <2>1. Slots(c) >= 1 /\ (Cardinality(T) <= Slots(c) \/ Cardinality(T) = 0)
      BY <1>8, <2>0 DEF Fits, Fillable
    <2>2. IsFiniteSet(P) /\ Cardinality(P) <= Cardinality(T) /\ Cardinality(T) \in Nat
      BY <1>4, <2>0, FewTakers
    <2>3. /\ OpenOf(R, c) \subseteq OpenOf(rows, c) \cup P
          /\ \A a \in OpenOf(R, c) :
               \/ a \in OpenOf(rows, c) /\ R[a].user = rows[a].user
               \/ \E i \in T : a = N + i /\ R[a].user = us[i]
      <3>1. ASSUME NEW a \in OpenOf(R, c)
            PROVE  \/ a \in OpenOf(rows, c) /\ R[a].user = rows[a].user
                   \/ \E i \in T : a = N + i /\ R[a].user = us[i]
        <4>1. CASE \E i \in DOMAIN us : \E k \in 1..Share(plan[i]) :
                     plan[i] = c /\ R[a].user = us[i] /\ a = N + (off[i] + k)
          <5>1. PICK i \in DOMAIN us : \E k \in 1..Share(plan[i]) :
                     plan[i] = c /\ R[a].user = us[i] /\ a = N + (off[i] + k)
            BY <4>1
          <5>2. PICK k \in 1..Share(plan[i]) : a = N + (off[i] + k)
            BY <5>1
          <5>3. off[i] = i - 1 /\ k = 1 /\ i \in Nat
            BY <1>1, <1>8, ListLength DEF Lie, Share
          <5>4. a = N + i /\ i \in T
            BY <1>4, <2>0, <5>1, <5>2, <5>3
          <5>. QED
            BY <5>1, <5>4
        <4>. QED
          BY <1>5, <4>1
      <3>. QED
        BY <2>0, <3>1
    <2>4. /\ Slots(c) \in Nat /\ limit \in Nat
          /\ OrdersIn(apps, c) + Cardinality(OpenOf(rows, c)) + Slots(c) <= Cap
      <3>1. OrdersIn(apps, c) = num_orders(c) /\ LiveRows(c) = OpenOf(rows, c)
        BY LiveRowsAre DEF OrdersIn, num_orders
      <3>2. OrdersIn(apps, c) \in Nat /\ Cardinality(OpenOf(rows, c)) \in Nat
        BY <1>4, OrdersAre, FewOpen
      <3>3. CASE usage = "single"
        <4>1. Slots(c) # 0
          BY <2>1
        <4>2. Slots(c) = 1 /\ ~(num_orders(c) > 0) /\ OpenOf(rows, c) = {}
          BY <3>1, <3>3, <4>1, FreeSlots DEF Settled
        <4>3. Cardinality(OpenOf(rows, c)) = 0
          BY <4>2, FS_EmptySet
        <4>. QED
          BY <1>4, <3>1, <3>2, <4>2, <4>3
      <3>4. CASE usage # "single"
        <4>1. usage \in {"multi", "once per customer"}
          BY <1>8, <3>4, CapIs DEF AllUsages, OneLearner
        <4>2. Cap = MaxUses
          BY <4>1, CapIs
        <4>3. Slots(c) = Cap - (OrdersIn(apps, c) + Cardinality(OpenOf(rows, c)))
          BY <1>8, <3>1, <3>4, <4>2 DEF Slots
        <4>. QED
          BY <1>4, <2>1, <3>2, <4>3
      <3>. QED
        BY <3>3, <3>4
    <2>5. Cardinality(P) <= Slots(c)
      <3>1. Cardinality(P) \in Nat
        BY <2>2, FS_CardinalityType
      <3>. QED
        BY <2>1, <2>2, <2>4, <3>1
    <2>6. Within(R, apps, c)
      <3>. QED
        BY <1>4, <2>2, <2>3, <2>4, <2>5, RoomForMore
    <2>7. ASSUME usage = "once per customer", NEW i \in T
          PROVE  /\ apps[c][us[i]] = 0
                 /\ \A a \in OpenOf(rows, c) : rows[a].user # us[i]
      <3>1. /\ apps[c][us[i]] = 0
            /\ \A j \in RowsOf(<<c, us[i]>>) : rows[j].status = "REVOKED"
        BY <1>8, <2>0, <2>7 DEF Fits, Fillable
      <3>2. "REVOKED" \notin Live
        BY DEF Live
      <3>. QED
        BY <3>1, <3>2 DEF OpenOf, RowsOf
    <2>8. OneEach(R, c)
      <3>. SUFFICES ASSUME usage = "once per customer", NEW a \in OpenOf(R, c),
                           NEW b \in OpenOf(R, c), R[b].user = R[a].user
                    PROVE  a = b
        BY DEF OneEach
      <3>1. CASE a \in OpenOf(rows, c) /\ R[a].user = rows[a].user
        <4>1. b \in OpenOf(rows, c) /\ R[b].user = rows[b].user
          BY <2>3, <2>7, <3>1
        <4>. QED
          BY <3>1, <4>1 DEF AllFair, Fair, OneEach
      <3>2. CASE \E i \in T : a = N + i /\ R[a].user = us[i]
        <4>1. PICK i \in T : a = N + i /\ R[a].user = us[i]
          BY <3>2
        <4>2. PICK j \in T : b = N + j /\ R[b].user = us[j]
          BY <2>3, <2>7, <4>1
        <4>3. us[i] = us[j] /\ i \in DOMAIN us /\ j \in DOMAIN us /\ plan[i] = plan[j]
          BY <2>0, <4>1, <4>2
        <4>4. IsInjective(q.new) /\ q.new \in Seq(Row)
          BY DEF Doubled, Typed
        <4>5. i = j
          BY <1>1, <1>8, <4>3, <4>4, PledgesApart
        <4>. QED
          BY <4>1, <4>2, <4>5
      <3>. QED
        BY <2>3, <3>1, <3>2
    <2>9. Unused(R, apps, c)
      <3>. SUFFICES ASSUME usage = "once per customer", NEW a \in OpenOf(R, c)
                    PROVE  apps[c][R[a].user] = 0
        BY <1>8 DEF Unused
      <3>1. CASE a \in OpenOf(rows, c) /\ R[a].user = rows[a].user
        BY <3>1 DEF AllFair, Fair, Unused
      <3>2. CASE \E i \in T : R[a].user = us[i]
        BY <2>7, <3>2
      <3>. QED
        BY <2>3, <3>1, <3>2
    <2>. QED
      BY <2>6, <2>8, <2>9 DEF Fair
  <1>9. ASSUME NEW k \in 1..Len(q.new) PROVE q.new[k].code \in codes
    <2>1. PICK i \in DOMAIN us : q.new[k] = Pledged(plan[i], us[i])
      BY <1>1 DEF Lie
    <2>2. plan[i] \in codes
      BY DEF Fits, Fillable
    <2>. QED
      BY <2>1, <2>2 DEF Pledged
  <1>10. \A c \in Codes : Fair(Saved(q), With(q), c)
    BY <1>3, <1>4, <1>6, <1>7, <1>8
  <1>. QED
    BY <1>9, <1>10 DEF FairCommit, FairOrder, Redeeming

(* A code created for one learner has one row, of that learner.            *)
LEMMA FairReplace ==
  ASSUME IsFiniteSet(Users), TypeInv, Settled, AllFair, NEW q, Typed(q), q.op = "assign",
         DOMAIN q.saves = {}, usage = "single", NEW d \in Codes \ codes, NEW u \in Users,
         q.code = d, q.new = NewRows(d, u, "EMAIL_PENDING", 1)
  PROVE  FairCommit(q) /\ FairOrder(q)
  <1>1. SavedShape(q)
    BY SavedShapes
  <1>2. Len(q.new) = 1 /\ q.new[1].code = d
    <2>1. PICK n, s : n = 1 /\ s = "EMAIL_PENDING"
      OBVIOUS
    <2>2. n \in Nat /\ s \in Live /\ d \in Codes
      BY <2>1 DEF Live
    <2>3. /\ Len(NewRows(d, u, s, n)) = n
          /\ \A k \in 1..n : NewRows(d, u, s, n)[k]
                              = [code |-> d, user |-> u, status |-> s]
      BY <2>2, NewRowsType
    <2>. QED
      BY <2>1, <2>3
  <1>3. PICK R, N : R = Saved(q) /\ N = Len(rows)
    OBVIOUS
  <1>4. apps \in [Codes -> [Users -> Nat]] /\ With(q) = apps /\ Cap \in Nat \ {0}
    BY WithIs, CapIs DEF Owned
  <1>5. ASSUME NEW a \in DOMAIN R, a \notin DOMAIN rows
        PROVE  a = N + 1 /\ R[a].code = d
    BY <1>1, <1>2, <1>3, <1>5 DEF SavedShape
  <1>6. \A a \in DOMAIN R : a \in DOMAIN rows =>
          /\ R[a].code = rows[a].code /\ R[a].user = rows[a].user
          /\ R[a].status = rows[a].status
    BY <1>1, <1>3 DEF SavedShape
  <1>7. ASSUME NEW c \in Codes, c # d PROVE Fair(R, apps, c)
    <2>1. /\ OpenOf(R, c) \subseteq OpenOf(rows, c)
          /\ \A a \in OpenOf(R, c) : R[a].user = rows[a].user
      BY <1>5, <1>6, <1>7 DEF OpenOf
    <2>. QED
      BY <1>4, <2>1, FewerFair, FewOpen DEF AllFair
  <1>8. Fair(R, apps, d)
    <2>1. OpenOf(rows, d) = {} /\ Cardinality(OpenOf(rows, d)) = 0
      <3>1. OpenOf(rows, d) = {}
        BY DEF Settled, OpenOf
      <3>. QED
        BY <3>1, FS_EmptySet
    <2>2. OrdersIn(apps, d) = 0
      BY <1>4, OrdersAre DEF Settled
    <2>3. OpenOf(R, d) \subseteq OpenOf(rows, d) \cup {N + 1}
      BY <1>5, <1>6 DEF OpenOf
    <2>4. IsFiniteSet({N + 1}) /\ Cardinality({N + 1}) <= 1
      <3>1. IsFiniteSet({N + 1}) /\ Cardinality({N + 1}) = 1
        BY FS_Singleton
      <3>. QED
        BY <3>1
    <2>5. Within(R, apps, d)
      <3>1. OrdersIn(apps, d) + Cardinality(OpenOf(rows, d)) + 1 <= Cap
        BY <1>4, <2>1, <2>2
      <3>. QED
        BY <1>4, <2>3, <2>4, <3>1, RoomForMore
    <2>. QED
      BY <2>5 DEF Fair, OneEach, Unused, OneLearner
  <1>9. \A k \in 1..Len(q.new) : q.new[k].code = q.code
    BY <1>2
  <1>. QED
    BY <1>3, <1>4, <1>7, <1>8, <1>9 DEF FairCommit, FairOrder, Redeeming

(* What a request saves was fair, with the order it records.               *)
LEMMA FairSave ==
  ASSUME IsFiniteSet(Users), OneAtATime, TypeInv, TypeInv', FairInv, NEW r \in Requests,
         Saving(r), Committing(req[r]), ~Doubled(req[r]), noise = {}, limit' = limit,
         codes' = codes \cup ({req[r].code} \ {NoOne}),
         apps' = With(req[r]),
         \/ uses' = uses /\ apps' = apps
         \/ /\ req[r].op = "recorded" /\ req[r].txn
            /\ uses' = [uses EXCEPT ![req[r].code] = req[r].uses + 1]
  PROVE  Settled' /\ AllFair'
  <1>1. PICK q : q = req[r]
    OBVIOUS
  <1>2. Settled /\ FairCommit(q) /\ FairOrder(q) /\ Typed(q)
        /\ (Redeeming(q) => q.code \in Codes /\ q.user \in Users)
    BY <1>1 DEF FairInv, TypeInv, Inv, ShapeInv
  <1>3. /\ \A c \in Codes : Fair(Saved(q), With(q), c)
        /\ \A k \in 1..Len(q.new) : q.new[k].code \in codes \cup {q.code}
    BY <1>1, <1>2 DEF FairCommit
  <1>4. usage' = usage /\ rows' = Saved(q) /\ apps' = With(q) /\ codes \subseteq codes'
        /\ codes' = codes \cup ({q.code} \ {NoOne})
    BY <1>1 DEF Saving
  <1>5. AllFair'
    <2>1. PICK R, A : R = Saved(q) /\ A = With(q)
      OBVIOUS
    <2>2. \A c \in Codes : Fair(R, A, c)'
      BY <1>3, <1>4, <2>1, FairSame
    <2>3. rows' = R /\ apps' = A
      BY <1>4, <2>1
    <2>. QED
      BY <2>2, <2>3 DEF AllFair, Fair, Within, OneEach, Unused
  <1>6. \A i \in DOMAIN rows' : rows'[i].code \in codes'
    <2>1. PICK R : R = Saved(q)
      OBVIOUS
    <2>2. SavedShape(q)
      BY <1>2, SavedShapes
    <2>3. ASSUME NEW i \in DOMAIN R PROVE R[i].code \in codes'
      <3>1. CASE i \in DOMAIN rows
        BY <1>2, <1>4, <2>1, <2>2, <3>1 DEF SavedShape, Settled
      <3>2. CASE i \notin DOMAIN rows
        <4>1. PICK k \in 1..Len(q.new) : R[i] = q.new[k]
          <5>1. PICK k \in 1..Len(q.new) : i = Len(rows) + k
            BY <2>1, <2>2, <2>3, <3>2 DEF SavedShape
          <5>. QED
            BY <2>1, <2>2, <5>1 DEF SavedShape
        <4>2. q.new[k] \in Row
          <5>1. q.new \in Seq(Row) /\ k \in 1..Len(q.new)
            BY <1>2, <4>1 DEF Typed
          <5>. QED
            BY <5>1
        <4>3. q.new[k].code \in Codes /\ NoOne \notin Codes
          BY <4>2, CodesAssumption DEF Row, NoOne
        <4>. QED
          BY <1>3, <1>4, <4>1, <4>3
      <3>. QED
        BY <3>1, <3>2
    <2>. QED
      BY <1>4, <2>1, <2>3
  <1>7. ASSUME uses' = uses, apps' = apps PROVE Settled'
    <2>1. usage' = usage /\ limit' = limit /\ \A d \in Codes \ codes' : d \in Codes \ codes
      BY <1>4
    <2>. QED
      BY <1>2, <1>6, <1>7, <2>1 DEF Settled
  <1>8. ASSUME q.op = "recorded", q.txn,
               uses' = [uses EXCEPT ![q.code] = q.uses + 1]
        PROVE  Settled'
    <2>1. PICK c, u, B : c = q.code /\ u = q.user /\ B = apps'
      OBVIOUS
    <2>2. c \in Codes /\ u \in Users /\ c \in codes /\ q.uses = uses[c]
      BY <1>2, <1>8, <2>1 DEF Redeeming, FairOrder
    <2>3. apps \in [Codes -> [Users -> Nat]] /\ uses \in [Codes -> Nat]
      BY DEF TypeInv, Inv, CountInv, DbOK
    <2>4. B = PlusOne(apps, c, u)
      BY <1>4, <1>8, <2>1 DEF With, PlusOne
    <2>5. /\ OrdersIn(B, c) = OrdersIn(apps, c) + 1
          /\ \A d \in Codes \ {c} : B[d] = apps[d] /\ OrdersIn(B, d) = OrdersIn(apps, d)
      <3>1. c \in Codes /\ u \in Users /\ apps \in [Codes -> [Users -> Nat]]
        BY <2>2, <2>3
      <3>. QED
        BY <2>4, <3>1, OneOrderMore
    <2>6. \A d \in Codes : uses'[d] = OrdersIn(B, d)
      <3>1. /\ uses'[c] = uses[c] + 1
            /\ \A d \in Codes \ {c} : uses'[d] = uses[d]
        BY <1>8, <2>1, <2>2, <2>3
      <3>. QED
        BY <1>2, <2>5, <3>1 DEF Settled
    <2>7. \A d \in Codes \ codes', v \in Users : B[d][v] = 0
      BY <1>2, <1>4, <2>2, <2>5 DEF Settled
    <2>8. /\ usage' = "single" => limit' = 0
          /\ \A i \in DOMAIN rows' : rows'[i].code \in codes'
          /\ \A d \in Codes \ codes', v \in Users : apps'[d][v] = 0
          /\ \A d \in Codes : uses'[d] = OrdersIn(apps', d)
      BY <1>2, <1>4, <1>6, <2>1, <2>6, <2>7 DEF Settled
    <2>. QED
      BY <2>8 DEF Settled
  <1>9. Settled'
    BY <1>1, <1>7, <1>8
  <1>. QED
    BY <1>5, <1>9

LEMMA FairEnd ==
  ASSUME IsFiniteSet(Users), OneAtATime, TypeInv, TypeInv', FairInv, NEW r \in Requests,
         Commit(r) \/ CloseOrder(r)
  PROVE  FairInv'
  <1>. SUFFICES ASSUME noise' = {} PROVE FairInv'
    BY DEF FairInv
  <1>1. Saving(r) /\ noise = {} /\ limit' = limit
    <2>1. Saving(r)
      BY RowsEnds
    <2>. QED
      BY <2>1 DEF Saving
  <1>2. Committing(req[r])
    BY <1>1 DEF Saving, Committing
  <1>3. CASE Commit(r)
    <2>1. /\ codes' = codes \cup ({req[r].code} \ {NoOne})
          /\ UNCHANGED <<apps, uses>> /\ req[r].op \notin {"placed", "recorded"}
      BY <1>3 DEF Commit
    <2>2. apps' = With(req[r]) /\ ~Doubled(req[r])
      BY <1>3, <2>1 DEF With, Commit
    <2>3. Settled' /\ AllFair'
      BY <1>1, <1>2, <2>1, <2>2, FairSave
    <2>. QED
      BY <1>1, <2>3, EndIs, IdleIsFairNext DEF FairInv, OneAtATime, Saving, NoRequest
  <1>4. CASE CloseOrder(r)
    <2>1. /\ req[r].op = "recorded" /\ codes' = codes
          /\ IF req[r].txn THEN RecordUsage(req[r]) ELSE UNCHANGED <<apps, uses>>
      BY <1>4 DEF CloseOrder
    <2>2. req[r].code \in codes
      BY <1>1, <2>1 DEF FairInv, FairOrder, Redeeming
    <2>3. codes' = codes \cup ({req[r].code} \ {NoOne})
      BY <2>1, <2>2
    <2>4. apps' = With(req[r]) /\ ~Doubled(req[r])
      BY <2>1 DEF With, RecordUsage, Doubled
    <2>5. \/ uses' = uses /\ apps' = apps
          \/ /\ req[r].op = "recorded" /\ req[r].txn
             /\ uses' = [uses EXCEPT ![req[r].code] = req[r].uses + 1]
      BY <2>1 DEF RecordUsage
    <2>6. Settled' /\ AllFair'
      BY <1>1, <1>2, <2>3, <2>4, <2>5, FairSave
    <2>. QED
      BY <1>1, <2>6, EndIs, IdleIsFairNext DEF FairInv, OneAtATime, Saving, NoRequest
  <1>. QED
    BY <1>3, <1>4

LEMMA FairStaff ==
  ASSUME IsFiniteSet(Codes), IsFiniteSet(Users), OneAtATime, TypeInv, TypeInv', HolderInv,
         FairInv, NEW r \in Requests, Staff(r)
  PROVE  FairInv'
  <1>1. ASSUME NEW us \in UserLists, NEW notice \in Notices,
               NEW plan \in [DOMAIN us -> Codes], Assign(r, us, plan, notice)
        PROVE  FairInv'
    <2>1. PICK q : /\ Decides(r, q, "assign") /\ Untouching(q)
                   /\ q.new = FlattenSeq(Shares(us, plan))
      BY <1>1, AssignDecides
    <2>2. Fits(us, plan)
      BY <1>1 DEF Assign
    <2>3. Settled /\ AllFair => FairCommit(q) /\ FairOrder(q)
      <3>1. Settled /\ AllFair /\ ~Doubled(q) => FairCommit(q) /\ FairOrder(q)
        BY <2>1, <2>2, FairAssign DEF Decides, Untouching
      <3>2. Doubled(q) => FairCommit(q) /\ FairOrder(q)
        BY <2>1 DEF FairCommit, FairOrder, Redeeming, Decides
      <3>. QED
        BY <3>1, <3>2
    <2>. QED
      BY <2>1, <2>3, FairBegin DEF Decides
  <1>2. ASSUME NEW c \in Codes, NEW d \in Codes, NEW u \in Users, ReplaceCode(r, c, u, d)
        PROVE  FairInv'
    <2>1. PICK q : /\ Decides(r, q, "assign") /\ Untouching(q) /\ q.code = d
                   /\ q.new = NewRows(d, u, "EMAIL_PENDING", 1)
      BY <1>2, ReplaceDecides
    <2>2. usage = "single" /\ d \in Codes \ codes
      BY <1>2 DEF ReplaceCode
    <2>3. Settled /\ AllFair => FairCommit(q) /\ FairOrder(q)
      BY <2>1, <2>2, FairReplace DEF Decides, Untouching
    <2>. QED
      BY <2>1, <2>3, FairBegin DEF Decides
  <1>3. ASSUME NEW p1 \in Pairs, NEW p2 \in Pairs, Revoke(r, {p1, p2}) PROVE FairInv'
    <2>1. PICK q : /\ Decides(r, q, "revoke") /\ Adding(q)
                   /\ q.saves = [i \in LiveRowsOf(p1) \cup LiveRowsOf(p2) |-> "REVOKED"]
      BY <1>3, RevokeDecides
    <2>2. \A i \in DOMAIN q.saves : q.saves[i] \in Live => rows[i].status \in Live
      BY <2>1 DEF LiveRowsOf
    <2>3. AllFair => FairCommit(q) /\ FairOrder(q)
      BY <2>1, <2>2, FairNarrow DEF Decides, Adding
    <2>. QED
      BY <2>1, <2>3, FairBegin DEF Decides
  <1>4. ASSUME NEW p1 \in Pairs, Remind(r, p1) PROVE FairInv'
    <2>1. PICK q : /\ Decides(r, q, "remind") /\ Adding(q)
                   /\ q.saves = [i \in LiveRowsOf(p1) |-> rows[i].status]
      BY <1>4, RemindDecides
    <2>2. \A i \in DOMAIN q.saves : q.saves[i] \in Live => rows[i].status \in Live
      BY <2>1 DEF LiveRowsOf
    <2>3. AllFair => FairCommit(q) /\ FairOrder(q)
      BY <2>1, <2>2, FairNarrow DEF Decides, Adding
    <2>. QED
      BY <2>1, <2>3, FairBegin DEF Decides
  <1>5. ASSUME NEW n \in Limits \cup {0}, Resize(r, n) PROVE FairInv'
    <2>1. PICK q : /\ Decides(r, q, "resize") /\ Untouching(q) /\ q.limit = n
                   /\ q.new = FlattenSeq(TopUps(n))
      BY <1>5, ResizeDecides
    <2>2. ASSUME noise = {}, AllFair PROVE FairCommit(q) /\ FairOrder(q)
      <3>1. CASE n = limit
        <4>1. OneLearner => FullSets(rows, limit)
          BY <2>2 DEF HolderInv, Orderly
        <4>2. q.new = <<>>
          BY <2>1, <3>1, <4>1, NothingToTopUp
        <4>. QED
          BY <2>1, <2>2, <4>2, FairNarrow DEF Decides, Untouching
      <3>2. CASE n # limit
        <4>1. ~Committing(q)
          BY <2>1, <3>2 DEF Committing, Decides
        <4>. QED
          BY <2>1, <4>1, IdleIsFair DEF Decides
      <3>. QED
        BY <3>1, <3>2
    <2>. QED
      BY <2>1, <2>2, FairBegin DEF Decides
  <1>6. CASE Commit(r)
    BY <1>6, FairEnd
  <1>. QED
    BY <1>1, <1>2, <1>3, <1>4, <1>5, <1>6 DEF Staff

LEMMA FairEmails ==
  ASSUME IsFiniteSet(Users), OneAtATime, TypeInv, TypeInv', FinalInv, FairInv,
         NEW r \in Requests, Emails(r)
  PROVE  FairInv'
  <1>1. ASSUME NEW p \in Pairs, DeliveredTooEarly(r, p) PROVE FairInv'
    <2>1. /\ req'[r].op = req[r].op /\ req'[r].saves = req[r].saves
          /\ req'[r].new = req[r].new /\ req'[r].code = req[r].code
          /\ req'[r].user = req[r].user /\ req'[r].limit = req[r].limit
          /\ req'[r].uses = req[r].uses /\ req'[r].txn = req[r].txn
          /\ UNCHANGED <<rows, codes, limit, apps, uses, usage, nudge, noise>>
      BY <1>1, TooEarlyIs
    <2>2. Openness /\ (Owes(r) => Owes(r)')
      BY <2>1, SameRows DEF Owes, Placing
    <2>3. ASSUME noise = {} PROVE FairCommit(req[r])' /\ FairOrder(req[r])'
      <3>1. PICK q, p1 : q = req[r] /\ p1 = req'[r]
        OBVIOUS
      <3>2. FairCommit(q) /\ FairOrder(q)
        BY <2>3, <3>1 DEF FairInv
      <3>3. Saved(p1) = Saved(q) /\ With(p1) = With(q)
        BY <2>1, <3>1 DEF Saved, With
      <3>4. FairCommit(p1)
        BY <2>1, <3>1, <3>2, <3>3 DEF FairCommit, Committing, Doubled
      <3>5. FairOrder(p1)
        BY <2>1, <3>1, <3>2, <3>3 DEF FairOrder, Redeeming
      <3>6. Typed(p1) /\ Owned(p1)
        <4>1. Typed(req[r])'
          BY DEF TypeInv
        <4>2. Typed(p1)
          BY <2>1, <3>1, <4>1 DEF Typed, Fields
        <4>3. Owned(q)
          BY <3>1 DEF TypeInv, Inv, ShapeInv, Owned, Redeeming
        <4>. QED
          BY <2>1, <3>1, <4>2, <4>3 DEF Owned
      <3>7. FairCommit(p1)' /\ FairOrder(p1)'
        BY <2>1, <2>2, <3>4, <3>5, <3>6, FairStays
      <3>. QED
        BY <3>1, <3>7
    <2>. QED
      BY <2>1, <2>2, <2>3, FairGoesOn
  <1>2. ASSUME NEW I \in SUBSET DOMAIN rows, Bounce(r, I) PROVE FairInv'
    <2>1. PICK q : Decides(r, q, "bounce")
      BY <1>2, BounceDecides
    <2>2. FairCommit(q) /\ FairOrder(q)
      BY <2>1, IdleIsFair DEF Decides, Committing
    <2>. QED
      BY <2>1, <2>2, FairBegin DEF Decides
  <1>3. ASSUME NEW i \in DOMAIN rows, BounceRow(r, i) PROVE FairInv'
    <2>1. /\ Openness /\ UNCHANGED <<codes, limit, apps, uses>>
          /\ req[r].op = "bounce" /\ req'[r].op \in {"idle", "bounce"}
      BY <1>3, BounceOpenness, BounceRowIs DEF NoRequest
    <2>2. FairCommit(req[r])' /\ FairOrder(req[r])'
      BY <2>1, IdleIsFairNext
    <2>3. ~Owes(r)
      BY <2>1 DEF Owes, Placing
    <2>. QED
      BY <2>1, <2>2, <2>3, FairGoesOn
  <1>. QED
    BY <1>1, <1>2, <1>3 DEF Emails

(* An order is placed on a code its learner may redeem.                    *)
LEMMA TakingStarts ==
  ASSUME TypeInv, IsFiniteSet(Users), Settled, AllFair, NEW c \in codes, NEW u \in Users,
         LiveRowsOf(<<c, u>>) # {} \/ Slots(c) # 0, Available(c, u)
  PROVE  Taking(rows, PlusOne(apps, c, u), c, u)
  <1>1. PICK B : B = PlusOne(apps, c, u)
    OBVIOUS
  <1>2. c \in Codes /\ apps \in [Codes -> [Users -> Nat]] /\ Cap \in Nat \ {0}
    BY CapIs DEF TypeInv, DbOK, Inv, CountInv
  <1>3. /\ OrdersIn(B, c) = OrdersIn(apps, c) + 1
        /\ \A v \in Users \ {u} : B[c][v] = apps[c][v]
        /\ \A d \in Codes \ {c} : B[d] = apps[d]
    <2>1. c \in Codes /\ u \in Users /\ apps \in [Codes -> [Users -> Nat]]
      BY <1>2
    <2>. QED
      BY <1>1, <2>1, OneOrderMore
  <1>4. OrdersIn(apps, c) \in Nat /\ Cardinality(OpenOf(rows, c)) \in Nat
        /\ \A v \in Users : apps[c][v] \in Nat
    BY <1>2, OrdersAre, FewOpen
  <1>5. \A d \in Codes \ {c} : Fair(rows, B, d)
    BY <1>2, <1>3, FewerFair, FewOpen DEF AllFair
  <1>6. Fair(rows, apps, c) /\ OrdersIn(apps, c) + Cardinality(OpenOf(rows, c)) <= Cap
    BY <1>2 DEF AllFair, Fair, Within
  <1>7. OrdersIn(B, c) + Cardinality(OpenOf(rows, c)) <= Cap + 1
    BY <1>2, <1>3, <1>4, <1>6
  <1>8. ASSUME LiveRowsOf(<<c, u>>) = {}
        PROVE  Within(rows, B, c) /\ (OneLearner => OpenOf(rows, c) = {} /\ OrdersIn(B, c) <= 1)
    <2>1. Slots(c) # 0
      BY <1>8
    <2>2. OrdersIn(apps, c) = num_orders(c) /\ LiveRows(c) = OpenOf(rows, c)
      BY <1>2, LiveRowsAre DEF OrdersIn, num_orders
    <2>3. CASE usage = "single" \/ OneLearner
      <3>1. ~(num_orders(c) > 0) /\ OpenOf(rows, c) = {}
        BY <2>1, <2>2, <2>3, FreeSlots
      <3>2. Cardinality(OpenOf(rows, c)) = 0 /\ OrdersIn(apps, c) = 0
        BY <1>4, <2>2, <3>1, FS_EmptySet
      <3>3. OrdersIn(B, c) = 1 /\ OrdersIn(B, c) + Cardinality(OpenOf(rows, c)) <= Cap
        BY <1>2, <1>3, <3>2
      <3>. QED
        BY <3>1, <3>3 DEF Within
    <2>4. CASE ~(usage = "single" \/ OneLearner)
      <3>1. Cap = MaxUses
        BY <2>4, CapIs DEF AllUsages, OneLearner
      <3>2. Slots(c) = Cap - (OrdersIn(apps, c) + Cardinality(OpenOf(rows, c)))
        BY <2>2, <2>4, <3>1 DEF Slots
      <3>3. OrdersIn(B, c) + Cardinality(OpenOf(rows, c)) <= Cap
        BY <1>2, <1>3, <1>4, <1>6, <2>1, <3>2
      <3>. QED
        BY <2>4, <3>3 DEF Within
    <2>. QED
      BY <2>3, <2>4
  <1>9. OneEach(rows, c)
    BY <1>6 DEF Fair
  <1>10. ASSUME usage = "once per customer", NEW i \in OpenOf(rows, c), rows[i].user # u
         PROVE  B[c][rows[i].user] = 0
    <2>1. rows[i].user \in Users
      BY Positions DEF OpenOf, TypeInv, DbOK
    <2>. QED
      BY <1>3, <1>6, <1>10, <2>1 DEF Fair, Unused
  <1>11. ASSUME OneLearner, NEW v \in Users, B[c][v] > 0 PROVE v = u
    <2>. SUFFICES ASSUME v # u PROVE FALSE
      OBVIOUS
    <2>1. B[c][v] = apps[c][v] /\ apps[c][v] = 0
      BY <1>3, <1>11 DEF Available
    <2>. QED
      BY <1>11, <2>1
  <1>12. Taking(rows, B, c, u)
    <2>1. CASE LiveRowsOf(<<c, u>>) # {}
      BY <1>5, <1>7, <1>9, <1>10, <1>11, <2>1 DEF Taking
    <2>2. CASE LiveRowsOf(<<c, u>>) = {}
      BY <1>5, <1>8, <1>9, <1>10, <1>11, <2>2 DEF Taking
    <2>. QED
      BY <2>1, <2>2
  <1>. QED
    BY <1>1, <1>12

LEMMA FairPlace ==
  ASSUME IsFiniteSet(Users), OneAtATime, TypeInv, TypeInv', FairInv, NEW r \in Requests,
         NEW inTxn \in BOOLEAN, Place(r, inTxn)
  PROVE  FairInv'
  <1>. SUFFICES ASSUME noise' = {} PROVE FairInv'
    BY DEF FairInv
  <1>1. /\ req[r].op = "applied" /\ req'[r].op = "placed" /\ req'[r].txn = inTxn
        /\ req'[r].code = req[r].code /\ req'[r].user = req[r].user
        /\ req'[r].uses = req[r].uses
        /\ req[r].code \in Codes /\ req[r].user \in Users
    BY PlaceIs
  <1>2. /\ Available(req[r].code, req[r].user)
        /\ UNCHANGED <<usage, codes, limit, rows, nudge, mail, noise>>
        /\ IF inTxn THEN UNCHANGED <<apps, uses>> ELSE RecordUsage(req[r])
    BY DEF Place
  <1>3. PICK c, u, B : c = req[r].code /\ u = req[r].user /\ B = PlusOne(apps, c, u)
    OBVIOUS
  <1>4. Settled /\ AllFair /\ FairOrder(req[r])
    BY <1>1, <1>2 DEF FairInv, OneAtATime, Owes, Placing
  <1>5. /\ c \in codes /\ c \in Codes /\ u \in Users /\ req[r].uses = uses[c]
        /\ LiveRowsOf(<<c, u>>) # {} \/ Slots(c) # 0
    BY <1>1, <1>3, <1>4 DEF FairOrder, Redeeming
  <1>6. Taking(rows, B, c, u)
    BY <1>2, <1>3, <1>4, <1>5, TakingStarts
  <1>7. apps \in [Codes -> [Users -> Nat]] /\ uses \in [Codes -> Nat]
    BY DEF TypeInv, Inv, CountInv, DbOK
  <1>8. B = With(req[r])'
    <2>1. CASE inTxn
      BY <1>1, <1>2, <1>3, <2>1 DEF With, PlusOne
    <2>2. CASE ~inTxn
      BY <1>1, <1>2, <1>3, <2>2 DEF With, PlusOne, RecordUsage
    <2>. QED
      BY <2>1, <2>2
  <1>9. Taking(rows, B, c, u)'
    <2>1. Openness /\ limit' = limit
      BY <1>2, SameRows
    <2>. QED
      BY <1>6, <2>1, TakingStays
  <1>10. FairOrder(req[r])'
    <2>1. Taking(rows, With(req[r]), req[r].code, req[r].user)'
      BY <1>1, <1>3, <1>8, <1>9
    <2>2. (req[r].code \in codes)'
      BY <1>1, <1>2, <1>3, <1>5
    <2>3. req'[r].txn => req'[r].uses = uses'[req'[r].code]
      BY <1>1, <1>2, <1>3, <1>5
    <2>. QED
      BY <1>1, <2>1, <2>2, <2>3 DEF FairOrder
  <1>11. FairCommit(req[r])'
    BY <1>1 DEF FairCommit, Committing
  <1>12. Settled' /\ (inTxn => AllFair')
    <2>1. CASE inTxn
      <3>1. Openness /\ UNCHANGED <<codes, limit, apps, uses>>
        BY <1>2, <2>1, SameRows
      <3>. QED
        BY <1>4, <3>1, FairStays
    <2>2. CASE ~inTxn
      <3>1. apps' = B /\ uses' = [uses EXCEPT ![c] = uses[c] + 1]
        BY <1>2, <1>3, <1>5, <2>2 DEF RecordUsage, PlusOne
      <3>2. /\ OrdersIn(B, c) = OrdersIn(apps, c) + 1
            /\ \A d \in Codes \ {c} : B[d] = apps[d] /\ OrdersIn(B, d) = OrdersIn(apps, d)
        BY <1>3, <1>5, <1>7, OneOrderMore
      <3>3. /\ uses'[c] = uses[c] + 1
            /\ \A d \in Codes \ {c} : uses'[d] = uses[d]
        BY <1>5, <1>7, <3>1
      <3>4. \A d \in Codes : uses'[d] = OrdersIn(B, d)
        BY <1>4, <3>2, <3>3 DEF Settled
      <3>5. \A d \in Codes \ codes, v \in Users : B[d][v] = 0
        BY <1>4, <1>5, <3>2 DEF Settled
      <3>. QED
        BY <1>2, <1>4, <2>2, <3>1, <3>4, <3>5 DEF Settled
    <2>. QED
      BY <2>1, <2>2
  <1>13. ~Owes(r)' => AllFair'
    BY <1>1, <1>12 DEF Owes, Placing
  <1>. QED
    BY <1>10, <1>11, <1>12, <1>13 DEF FairInv, OneAtATime

(* The order's row is closed: whoever still holds one can redeem it.       *)
LEMMA TakingEnds ==
  ASSUME IsFiniteSet(Users), TypeInv, NEW q, Typed(q), NEW c \in Codes, NEW u \in Users,
         NEW A \in [Codes -> [Users -> Nat]], Taking(rows, A, c, u),
         NEW extra \in Nat, Len(q.new) = extra,
         DOMAIN q.saves \subseteq LiveRowsOf(<<c, u>>),
         \A i \in DOMAIN q.saves : q.saves[i] = "REDEEMED",
         LiveRowsOf(<<c, u>>) # {} => \E i \in LiveRowsOf(<<c, u>>) : DOMAIN q.saves = {i},
         \A k \in 1..extra :
           q.new[k] = [code |-> c, user |-> u,
                       status |-> IF LiveRowsOf(<<c, u>>) = {} /\ k = 1
                                  THEN "REDEEMED" ELSE "ASSIGNED"],
         LiveRowsOf(<<c, u>>) # {} => extra = 0,
         ~OneLearner => extra = 0,
         OneLearner => /\ limit # 0 /\ extra <= limit
                       /\ \A i \in OpenOf(rows, c) : rows[i].user = u
  PROVE  \A d \in Codes : Fair(Saved(q), A, d)
  <1>1. SavedShape(q)
    BY SavedShapes
  <1>2. PICK R, N, p : R = Saved(q) /\ N = Len(rows) /\ p = <<c, u>>
    OBVIOUS
  <1>3. N \in Nat /\ limit \in Nat /\ Cap \in Nat \ {0}
    BY <1>1, <1>2, CapIs DEF SavedShape
  <1>4. /\ \A d \in Codes \ {c} : Fair(rows, A, d)
        /\ OneEach(rows, c)
        /\ usage = "once per customer" =>
             \A i \in OpenOf(rows, c) : rows[i].user # u => A[c][rows[i].user] = 0
        /\ OneLearner => \A v \in Users : A[c][v] > 0 => v = u
    BY DEF Taking
  <1>5. ASSUME NEW k \in 1..extra
        PROVE  /\ q.new[k].code = c /\ q.new[k].user = u
               /\ LiveRowsOf(p) = {} /\ k = 1 => q.new[k].status = "REDEEMED"
    <2>1. PICK s : /\ q.new[k] = [code |-> c, user |-> u, status |-> s]
                   /\ LiveRowsOf(p) = {} /\ k = 1 => s = "REDEEMED"
      BY <1>2
    <2>. QED
      BY <2>1
  <1>6. ASSUME NEW d \in Codes, NEW a \in OpenOf(R, d)
        PROVE  \/ a \in OpenOf(rows, d) \ DOMAIN q.saves /\ R[a].user = rows[a].user
               \/ /\ d = c /\ R[a].user = u
                  /\ \E k \in 1..extra : a = N + k /\ ~(LiveRowsOf(p) = {} /\ k = 1)
    <2>1. a \in DOMAIN R /\ R[a].code = d /\ R[a].status \in Live
      BY DEF OpenOf
    <2>2. CASE a \in DOMAIN rows
      <3>1. a \notin DOMAIN q.saves
        BY <1>1, <1>2, <2>1, <2>2 DEF SavedShape, Live
      <3>. QED
        BY <1>1, <1>2, <2>1, <2>2, <3>1 DEF SavedShape, OpenOf
    <2>3. CASE a \notin DOMAIN rows
      <3>1. PICK k \in 1..extra : a = N + k /\ R[a] = q.new[k]
        <4>1. PICK k \in 1..Len(q.new) : a = N + k
          BY <1>1, <1>2, <2>1, <2>3 DEF SavedShape
        <4>2. R[a] = q.new[k]
          BY <1>1, <1>2, <4>1 DEF SavedShape
        <4>. QED
          BY <4>1, <4>2
      <3>2. "REDEEMED" \notin Live
        BY DEF Live
      <3>. QED
        BY <1>5, <2>1, <3>1, <3>2
    <2>. QED
      BY <2>2, <2>3
  <1>7. ASSUME NEW d \in Codes \ {c} PROVE Fair(R, A, d)
    <2>1. /\ OpenOf(R, d) \subseteq OpenOf(rows, d)
          /\ \A a \in OpenOf(R, d) : R[a].user = rows[a].user
      BY <1>6
    <2>. QED
      BY <1>4, <2>1, FewerFair, FewOpen
  <1>8. /\ OrdersIn(A, c) \in Nat /\ Cardinality(OpenOf(rows, c)) \in Nat
        /\ IsFiniteSet(OpenOf(rows, c))
    BY OrdersAre, FewOpen
  <1>9. CASE LiveRowsOf(p) # {}
    <2>1. PICK i \in LiveRowsOf(p) : DOMAIN q.saves = {i}
      BY <1>2, <1>9
    <2>2. /\ i \in OpenOf(rows, c) /\ rows[i].user = u /\ extra = 0
          /\ OrdersIn(A, c) + Cardinality(OpenOf(rows, c)) <= Cap + 1
      BY <1>2, <1>9 DEF LiveRowsOf, RowsOf, OpenOf, Taking
    <2>3. /\ OpenOf(R, c) \subseteq OpenOf(rows, c) \ {i}
          /\ \A a \in OpenOf(R, c) : R[a].user = rows[a].user
      BY <1>6, <2>1, <2>2
    <2>4. Within(R, A, c)
      <3>1. /\ IsFiniteSet(OpenOf(rows, c) \ {i})
            /\ Cardinality(OpenOf(rows, c) \ {i}) = Cardinality(OpenOf(rows, c)) - 1
        BY <1>8, <2>2, FS_RemoveElement
      <3>2. /\ Cardinality(OpenOf(R, c)) <= Cardinality(OpenOf(rows, c) \ {i})
            /\ Cardinality(OpenOf(R, c)) \in Nat
        BY <2>3, <3>1, FS_Subset, FS_CardinalityType
      <3>3. OrdersIn(A, c) + Cardinality(OpenOf(R, c)) <= Cap
        BY <1>3, <1>8, <2>2, <3>1, <3>2
      <3>. QED
        BY <3>3 DEF Within
    <2>5. OneEach(R, c)
      BY <1>4, <2>3 DEF OneEach
    <2>6. Unused(R, A, c)
      <3>1. ASSUME usage = "once per customer", NEW a \in OpenOf(R, c)
            PROVE  A[c][R[a].user] = 0
        <4>1. a \in OpenOf(rows, c) /\ a # i /\ R[a].user = rows[a].user
          BY <2>3
        <4>2. rows[a].user # u
          BY <1>4, <2>2, <3>1, <4>1 DEF OneEach
        <4>. QED
          BY <1>4, <3>1, <4>1, <4>2
      <3>2. ASSUME OneLearner, NEW a \in OpenOf(R, c), NEW v \in Users, A[c][v] > 0
            PROVE  R[a].user = v
        BY <1>4, <2>3, <3>2
      <3>. QED
        BY <3>1, <3>2 DEF Unused
    <2>7. Fair(R, A, c)
      BY <2>4, <2>5, <2>6 DEF Fair
    <2>. QED
      BY <1>2, <1>7, <2>7
  <1>10. CASE LiveRowsOf(p) = {} /\ ~OneLearner
    <2>1. Within(rows, A, c) /\ extra = 0
      BY <1>2, <1>10 DEF Taking
    <2>2. /\ OpenOf(R, c) \subseteq OpenOf(rows, c)
          /\ \A a \in OpenOf(R, c) : R[a].user = rows[a].user
      BY <1>6, <2>1
    <2>3. ASSUME NEW a \in OpenOf(rows, c) PROVE rows[a].user # u
      BY <1>2, <1>10 DEF OpenOf, LiveRowsOf, RowsOf
    <2>4. Unused(rows, A, c)
      BY <1>4, <1>10, <2>3 DEF Unused
    <2>5. Fair(rows, A, c)
      BY <1>4, <2>1, <2>4 DEF Fair
    <2>6. Fair(R, A, c)
      BY <1>8, <2>2, <2>5, FewerFair
    <2>. QED
      BY <1>2, <1>7, <2>6
  <1>11. CASE LiveRowsOf(p) = {} /\ OneLearner
    <2>1. OpenOf(rows, c) = {} /\ OrdersIn(A, c) <= 1
      BY <1>2, <1>11 DEF Taking
    <2>. DEFINE P == (N + 2)..(N + extra)
    <2>2. /\ OpenOf(R, c) \subseteq P
          /\ \A a \in OpenOf(R, c) : R[a].user = u
      <3>. SUFFICES ASSUME NEW a \in OpenOf(R, c) PROVE a \in P /\ R[a].user = u
        OBVIOUS
      <3>1. PICK k \in 1..extra : a = N + k /\ k # 1 /\ R[a].user = u
        BY <1>6, <1>11, <2>1
      <3>. QED
        BY <1>3, <3>1
    <2>3. IsFiniteSet(P) /\ Cardinality(P) = IF N + 2 > N + extra THEN 0 ELSE extra - 1
      <3>1. N + 2 \in Int /\ N + extra \in Int
        BY <1>3
      <3>2. IsFiniteSet(P) /\ Cardinality(P) = IF N + 2 > N + extra THEN 0
                                               ELSE (N + extra) - (N + 2) + 1
        BY <3>1, FS_Interval
      <3>. HIDE DEF P
      <3>3. (N + extra) - (N + 2) + 1 = extra - 1
        BY <1>3
      <3>. QED
        BY <3>2, <3>3
    <2>. HIDE DEF P
    <2>4. limit # 0 /\ extra <= limit /\ Cap = limit
      BY <1>11, CapIs
    <2>5. Cardinality(P) \in Nat /\ Cardinality(P) <= limit - 1
      <3>1. CASE N + 2 > N + extra
        BY <1>3, <2>3, <2>4, <3>1
      <3>2. CASE ~(N + 2 > N + extra)
        BY <1>3, <2>3, <2>4, <3>2
      <3>. QED
        BY <3>1, <3>2
    <2>6. /\ Cardinality(OpenOf(R, c)) <= Cardinality(P)
          /\ Cardinality(OpenOf(R, c)) \in Nat
      BY <2>2, <2>3, FS_Subset, FS_CardinalityType
    <2>7. OrdersIn(A, c) + Cardinality(OpenOf(R, c)) <= Cap
      BY <1>3, <1>8, <2>1, <2>4, <2>5, <2>6
    <2>8. OneEach(R, c)
      BY <1>11 DEF OneEach, OneLearner
    <2>9. Unused(R, A, c)
      BY <1>4, <1>11, <2>2 DEF Unused, OneLearner
    <2>10. Fair(R, A, c)
      BY <2>7, <2>8, <2>9 DEF Fair, Within
    <2>. QED
      BY <1>2, <1>7, <2>10
  <1>. QED
    BY <1>9, <1>10, <1>11

LEMMA FairRecord ==
  ASSUME IsFiniteSet(Users), OneAtATime, TypeInv, TypeInv', HolderInv, FairInv,
         NEW r \in Requests, RecordRedemption(r)
  PROVE  FairInv'
  <1>1. PICK pair, extra : pair = Pair(r) /\ extra = Extra(pair)
    OBVIOUS
  <1>2. RecordedFor(r, pair, extra)
    BY <1>1, RecordIs
  <1>3. PICK p, q, c, u : p = req[r] /\ q = req'[r] /\ c = req[r].code /\ u = req[r].user
    OBVIOUS
  <1>4. /\ q.op = "recorded" /\ p.op = "placed" /\ c \in Codes /\ u \in Users
        /\ q.txn = p.txn /\ q.code = c /\ q.user = u /\ q.uses = p.uses
        /\ p.code = c /\ p.user = u
        /\ UNCHANGED <<usage, codes, limit, rows, apps, uses, nudge, mail, noise>>
    BY <1>2, <1>3 DEF RecordedFor
  <1>5. pair = <<c, u>>
    BY <1>1, <1>3 DEF Pair
  <1>6. Openness /\ (Owes(r) => Owes(r)')
    <2>1. Openness
      BY <1>4, SameRows
    <2>. QED
      BY <1>3, <1>4, <2>1 DEF Owes, Placing
  <1>7. Typed(q) /\ Owned(q)
    <2>1. Typed(req[r])'
      BY DEF TypeInv
    <2>2. Typed(q)'
      BY <1>3, <2>1
    <2>. QED
      BY <1>4, <2>2 DEF Typed, Owned
  <1>8. ASSUME noise = {} PROVE FairCommit(q) /\ FairOrder(q)
    <2>1. FairOrder(p)
      BY <1>3, <1>8 DEF FairInv
    <2>2. /\ c \in codes /\ Taking(rows, With(p), c, u)
          /\ q.txn => q.uses = uses[c]
      BY <1>4, <2>1 DEF FairOrder, Redeeming
    <2>3. With(q) = With(p)
      BY <1>4 DEF With
    <2>4. PICK A : A = With(q)
      OBVIOUS
    <2>5. A \in [Codes -> [Users -> Nat]] /\ Taking(rows, A, c, u)
      BY <1>7, <2>2, <2>3, <2>4, WithIs
    <2>6. /\ extra \in Nat /\ Len(q.new) = extra
          /\ DOMAIN q.saves \subseteq LiveRowsOf(<<c, u>>)
          /\ \A i \in DOMAIN q.saves : q.saves[i] = "REDEEMED"
          /\ LiveRowsOf(<<c, u>>) # {} =>
               \E i \in LiveRowsOf(<<c, u>>) : DOMAIN q.saves = {i}
          /\ \A k \in 1..extra :
               q.new[k] = [code |-> c, user |-> u,
                           status |-> IF LiveRowsOf(<<c, u>>) = {} /\ k = 1
                                      THEN "REDEEMED" ELSE "ASSIGNED"]
      BY <1>2, <1>3, <1>5 DEF RecordedFor
    <2>7. limit \in Nat /\ Cardinality(RowsOf(pair)) \in Nat
      BY <1>7, FewHeld, CapIs
    <2>8. ~OneLearner => extra = 0
      BY <1>1 DEF Extra
    <2>9. ASSUME OneLearner
          PROVE  /\ limit # 0 /\ extra <= limit
                 /\ \A i \in OpenOf(rows, c) : rows[i].user = u
                 /\ LiveRowsOf(<<c, u>>) # {} => extra = 0
      <3>1. limit # 0
        BY <2>9 DEF RecordRedemption
      <3>2. extra <= limit
        BY <1>1, <2>7 DEF Extra, Spare
      <3>3. Orderly(rows, limit) /\ Ordering(p)
        BY <1>3, <1>8, <2>9 DEF HolderInv, KeepsOrder
      <3>4. \A i \in OpenOf(rows, c) : rows[i].user = u
        BY <1>4, <3>3 DEF Ordering
      <3>5. ASSUME LiveRowsOf(<<c, u>>) # {} PROVE extra = 0
        <4>1. RowsOf(pair) # {} /\ HeldBy(rows, pair) = RowsOf(pair)
          BY <1>5, <3>5 DEF LiveRowsOf, RowsOf, HeldBy
        <4>2. limit <= Cardinality(RowsOf(pair))
          BY <3>3, <4>1 DEF Orderly, FullSets
        <4>3. ~(limit - Cardinality(RowsOf(pair)) > 0)
          BY <2>7, <4>2
        <4>. QED
          BY <1>1, <4>3 DEF Extra, Spare
      <3>. QED
        BY <3>1, <3>2, <3>4, <3>5
    <2>10. \A d \in Codes : Fair(Saved(q), A, d)
      <3>1. LiveRowsOf(<<c, u>>) # {} => extra = 0
        BY <2>8, <2>9
      <3>. QED
        BY <1>4, <1>7, <2>5, <2>6, <2>8, <2>9, <3>1, TakingEnds
    <2>11. ASSUME NEW k \in 1..Len(q.new) PROVE q.new[k].code = c
      <3>1. PICK s : q.new[k] = [code |-> c, user |-> u, status |-> s]
        BY <2>6
      <3>. QED
        BY <3>1
    <2>12. FairCommit(q)
      BY <1>4, <2>4, <2>10, <2>11 DEF FairCommit
    <2>13. FairOrder(q)
      BY <1>4, <2>2 DEF FairOrder
    <2>. QED
      BY <2>12, <2>13
  <1>9. ASSUME noise = {} PROVE FairCommit(req[r])' /\ FairOrder(req[r])'
    <2>1. FairCommit(q)' /\ FairOrder(q)'
      BY <1>4, <1>6, <1>7, <1>8, <1>9, FairStays
    <2>. QED
      BY <1>3, <2>1
  <1>. QED
    BY <1>4, <1>6, <1>9, FairGoesOn

LEMMA FairLearner ==
  ASSUME IsFiniteSet(Users), OneAtATime, TypeInv, TypeInv', HolderInv, FairInv,
         NEW r \in Requests, Learner(r)
  PROVE  FairInv'
  <1>1. ASSUME NEW c \in Codes, NEW u \in Users, Apply(r, c, u) PROVE FairInv'
    <2>1. PICK q : /\ Decides(r, q, "applied") /\ q.code = c /\ q.user = u
                   /\ q.uses = uses[c]
      BY <1>1, ApplyDecides
    <2>2. c \in codes /\ (LiveRowsOf(<<c, u>>) # {} \/ Slots(c) # 0)
      BY <1>1 DEF Apply, Redeemable
    <2>3. q.op = "applied"
      BY <2>1 DEF Decides
    <2>4. FairCommit(q) /\ FairOrder(q)
      BY <2>1, <2>2, <2>3 DEF FairCommit, FairOrder, Committing
    <2>. QED
      BY <2>1, <2>3, <2>4, FairBegin DEF Decides
  <1>2. ASSUME NEW inTxn \in BOOLEAN, Place(r, inTxn) PROVE FairInv'
    BY <1>2, FairPlace
  <1>3. CASE RecordRedemption(r)
    BY <1>3, FairRecord
  <1>4. CASE CloseOrder(r)
    BY <1>4, FairEnd
  <1>5. CASE OrderCutShort(r)
    BY <1>5 DEF OrderCutShort, FairInv
  <1>. QED
    BY <1>1, <1>2, <1>3, <1>4, <1>5 DEF Learner

LEMMA FairNext ==
  OneAtATime /\ IsFiniteSet(Codes) /\ IsFiniteSet(Users) =>
    (TypeInv /\ TypeInv' /\ FinalInv /\ HolderInv /\ FairInv /\ [Next]_vars => FairInv')
  <1>. SUFFICES ASSUME OneAtATime, IsFiniteSet(Codes), IsFiniteSet(Users), TypeInv,
                       TypeInv', FinalInv, HolderInv, FairInv, [Next]_vars
                PROVE  FairInv'
    OBVIOUS
  <1>1. ASSUME NEW r \in Requests, Abandon(r) PROVE FairInv'
    <2>1. /\ ~Owes(r) /\ End(r)
          /\ UNCHANGED <<usage, codes, limit, rows, apps, uses, nudge, mail, noise>>
      BY <1>1 DEF Abandon, Owes, db
    <2>2. Openness
      BY <2>1, SameRows
    <2>3. FairCommit(req[r])' /\ FairOrder(req[r])'
      BY <2>1, EndIs, IdleIsFairNext DEF NoRequest
    <2>. QED
      BY <2>1, <2>2, <2>3, FairGoesOn
  <1>2. ASSUME Openness, req' = req, UNCHANGED <<codes, limit, apps, uses>> PROVE FairInv'
    <2>. SUFFICES ASSUME noise = {} PROVE FairInv'
      BY <1>2 DEF FairInv, Openness
    <2>1. Settled /\ Settled'
      BY <1>2, FairStays DEF FairInv
    <2>2. (\A r \in Requests : ~Owes(r)) => AllFair'
      BY <1>2, FairStays DEF FairInv
    <2>3. ASSUME NEW r \in Requests PROVE FairCommit(req[r])' /\ FairOrder(req[r])'
      <3>1. /\ Typed(req[r]) /\ Owned(req[r])
            /\ FairCommit(req[r]) /\ FairOrder(req[r])
        BY DEF FairInv, TypeInv, Inv, ShapeInv, Owned, Redeeming
      <3>2. PICK q : q = req[r]
        OBVIOUS
      <3>3. FairCommit(q)' /\ FairOrder(q)'
        BY <1>2, <3>1, <3>2, FairStays
      <3>. QED
        BY <1>2, <3>2, <3>3
    <2>4. (\A r \in Requests : ~Owes(r))' => \A r \in Requests : ~Owes(r)
      BY <1>2 DEF Owes, Placing
    <2>. QED
      BY <2>1, <2>2, <2>3, <2>4 DEF FairInv
  <1>3. CASE UNCHANGED vars
    BY <1>2, <1>3, SameRows DEF vars, db
  <1>4. ASSUME NEW p \in Pairs, Delivered(p) PROVE FairInv'
    BY <1>2, <1>4, DeliveredOpenness, DeliveredIs
  <1>. QED
    BY <1>1, <1>3, <1>4, FairStaff, FairEmails, FairLearner DEF Next

LEMMA FairInit == IsFiniteSet(Users) => (Init => FairInv)
  <1>. SUFFICES ASSUME IsFiniteSet(Users), Init PROVE FairInv
    OBVIOUS
  <1>1. /\ DOMAIN rows = {} /\ \A r \in Requests : req[r].op = "idle"
        /\ apps = [c \in Codes |-> [u \in Users |-> 0]]
        /\ uses = [c \in Codes |-> 0] /\ codes \subseteq Codes
    BY DEF Init, NoRequest
  <1>2. /\ apps \in [Codes -> [Users -> Nat]]
        /\ \A c \in Codes, u \in Users : apps[c][u] = 0
    BY <1>1
  <1>3. \A c \in Codes : OrdersIn(apps, c) = 0
    BY <1>2, OrdersAre
  <1>4. Settled
    BY <1>1, <1>2, <1>3 DEF Settled, Init
  <1>5. ASSUME NEW c \in Codes PROVE Fair(rows, apps, c)
    <2>1. OpenOf(rows, c) = {} /\ Cardinality(OpenOf(rows, c)) = 0
      <3>1. OpenOf(rows, c) = {}
        BY <1>1 DEF OpenOf
      <3>. QED
        BY <3>1, FS_EmptySet
    <2>2. Cap \in Nat
      BY CapIs, InitTypes
    <2>. QED
      BY <1>3, <2>1, <2>2 DEF Fair, Within, OneEach, Unused
  <1>6. \A r \in Requests : FairCommit(req[r]) /\ FairOrder(req[r])
    BY <1>1, IdleIsFair DEF Committing
  <1>. QED
    BY <1>4, <1>5, <1>6 DEF FairInv, AllFair

LEMMA FairSuffices ==
  IsFiniteSet(Users) => (TypeInv /\ FairInv => NeverOversold /\ AssignedCanRedeem)
  <1>. SUFFICES ASSUME IsFiniteSet(Users), TypeInv, FairInv, noise = {},
                       \A r \in Requests : ~Placing(r), NEW c \in codes
                PROVE  /\ num_orders(c) + Cardinality(LiveRows(c)) <= Cap
                       /\ \A u \in Users : LiveRowsOf(<<c, u>>) # {} =>
                            Available(c, u) /\ (limit = 0 \/ uses[c] < limit)
    BY DEF NeverOversold, AssignedCanRedeem, Cap
  <1>1. c \in Codes /\ apps \in [Codes -> [Users -> Nat]]
    BY DEF TypeInv, DbOK, Inv, CountInv
  <1>2. Settled /\ Fair(rows, apps, c)
    BY <1>1 DEF FairInv, AllFair, Owes
  <1>3. /\ LiveRows(c) = OpenOf(rows, c) /\ num_orders(c) = OrdersIn(apps, c)
        /\ OrdersIn(apps, c) + Cardinality(OpenOf(rows, c)) <= Cap
    BY <1>1, <1>2, LiveRowsAre, OrdersNumber DEF Fair, Within
  <1>4. ASSUME NEW u \in Users, LiveRowsOf(<<c, u>>) # {}
        PROVE  Available(c, u) /\ (limit = 0 \/ uses[c] < limit)
    <2>1. PICK i \in OpenOf(rows, c) : rows[i].user = u
      BY <1>4 DEF LiveRowsOf, RowsOf, OpenOf
    <2>2. /\ OrdersIn(apps, c) \in Nat /\ Cap \in Nat /\ limit \in Nat
          /\ \A v \in Users : apps[c][v] \in Nat /\ apps[c][v] <= OrdersIn(apps, c)
      BY <1>1, OrdersAre, CapIs
    <2>3. Cardinality(OpenOf(rows, c)) >= 1
      <3>1. IsFiniteSet(OpenOf(rows, c)) /\ Cardinality(OpenOf(rows, c)) \in Nat
        BY FewOpen
      <3>2. Cardinality(OpenOf(rows, c)) # 0
        BY <2>1, <3>1, FS_EmptySet
      <3>. QED
        BY <3>1, <3>2
    <2>4. OrdersIn(apps, c) < Cap /\ OrdersIn(apps, c) + 1 <= Cap
      <3>1. Cardinality(OpenOf(rows, c)) \in Nat
        BY FewOpen
      <3>. QED
        BY <1>3, <2>2, <2>3, <3>1
    <2>5. ASSUME usage = "single", NEW v \in Users PROVE apps[c][v] = 0
      <3>1. Cap = 1
        BY <1>2, <2>5 DEF Settled, Cap
      <3>. QED
        BY <2>2, <2>4, <3>1
    <2>6. usage = "once per customer" => apps[c][u] = 0
      BY <1>2, <2>1 DEF Fair, Unused
    <2>7. ASSUME OneLearner, NEW v \in Users \ {u} PROVE apps[c][v] = 0
      <3>1. ~(apps[c][v] > 0)
        BY <1>2, <2>1, <2>7 DEF Fair, Unused
      <3>. QED
        BY <2>2, <3>1
    <2>8. uses[c] = OrdersIn(apps, c)
      BY <1>1, <1>2 DEF Settled
    <2>9. limit # 0 => uses[c] < limit
      BY <2>4, <2>8, CapIs
    <2>. QED
      BY <2>5, <2>6, <2>7, <2>9 DEF Available
  <1>. QED
    BY <1>3, <1>4

(* With one request at a time: as long as no order was cut short and the   *)
(* limit was not changed, orders and open assignments together stay within *)
(* the limit of a code.                                                    *)
THEOREM SerialNeverOversold ==
  ASSUME OneAtATime, IsFiniteSet(Codes), IsFiniteSet(Users)
  PROVE  Spec => []NeverOversold
  <1>1. Init => TypeInv /\ FinalInv /\ HolderInv /\ FairInv
    <2>1. Init => FinalInv
      BY DEF Init, FinalInv, NoRequest
    <2>. QED
      BY <2>1, InitTypes, HolderInit, FairInit
  <1>2. TypeInv /\ FinalInv /\ HolderInv /\ FairInv /\ [Next]_vars =>
          (TypeInv /\ FinalInv /\ HolderInv /\ FairInv)'
    BY NextTypes, FinalStep, HolderNext, FairNext
  <1>3. TypeInv /\ FairInv => NeverOversold
    BY FairSuffices
  <1>. QED
    BY <1>1, <1>2, <1>3, PTL DEF Spec

(* Likewise, whoever holds an open assignment can redeem its code.         *)
THEOREM SerialAssignedCanRedeem ==
  ASSUME OneAtATime, IsFiniteSet(Codes), IsFiniteSet(Users)
  PROVE  Spec => []AssignedCanRedeem
  <1>1. Init => TypeInv /\ FinalInv /\ HolderInv /\ FairInv
    <2>1. Init => FinalInv
      BY DEF Init, FinalInv, NoRequest
    <2>. QED
      BY <2>1, InitTypes, HolderInit, FairInit
  <1>2. TypeInv /\ FinalInv /\ HolderInv /\ FairInv /\ [Next]_vars =>
          (TypeInv /\ FinalInv /\ HolderInv /\ FairInv)'
    BY NextTypes, FinalStep, HolderNext, FairNext
  <1>3. TypeInv /\ FairInv => AssignedCanRedeem
    BY FairSuffices
  <1>. QED
    BY <1>1, <1>2, <1>3, PTL DEF Spec

===============================================================================
