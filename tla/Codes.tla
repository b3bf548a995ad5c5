--------------------------------- MODULE Codes ---------------------------------
(***************************************************************************)
(* The codes of one enterprise coupon: assigned to learners by e-mail,     *)
(* revoked, reminded of, redeemed, replaced after a refund, resized        *)
(* (ecommerce/extensions/voucher, offer, api and checkout).                *)
(*                                                                         *)
(* A coupon has one usage type for all its codes.  Of a multi-use coupon   *)
(* each code has an offer of its own, and all offers have the same limit;  *)
(* the codes of a single-use coupon share one offer without a limit.  An   *)
(* OfferAssignment is a row: one potential redemption of a code by the     *)
(* learner with that e-mail address.  A learner stands for the address.    *)
(*                                                                         *)
(* A request reads rows, decides, and commits what it decided when it      *)
(* answers (ATOMIC_REQUESTS): the changes wait in req until then.  Rows    *)
(* are saved as they were read, whatever was committed in between.         *)
(***************************************************************************)
EXTENDS Integers, SequencesExt

CONSTANTS
  Codes,      \* the codes that exist or may be created after a refund
  Users,
  Requests,   \* requests and commands running at the same time
  Usages,     \* the usage types a coupon may have
  Limits,     \* values of max_uses, 0 for none
  OFFER_MAX_USES_DEFAULT,
  Notices,    \* what learners may be sent when a code is assigned
  MaxRows,    \* bound: rows
  MaxOrders   \* bound: orders with a code

AllUsages == {"single", "multi", "once per customer", "multi per customer"}

ASSUME CodesAssumption ==
  /\ Usages \subseteq AllUsages
  /\ Limits \subseteq Nat
  /\ Notices \subseteq {"none", "mail", "nudge"}
  /\ OFFER_MAX_USES_DEFAULT \in Nat \ {0}
  /\ {} \notin Codes \cup Users

VARIABLES
  usage,   \* the coupon's usage type
  codes,   \* the codes that exist
  limit,   \* max_global_applications of the coupon's offers, 0 for None
  rows,    \* the offer assignments, oldest first
  apps,    \* voucher applications: how often a learner redeemed a code
  uses,    \* num_applications of each code's offer
  nudge,   \* the nudge e-mails of a code and a learner
  mail,    \* assignment e-mails whose delivery has not been reported
  noise,   \* history: what makes the serial guarantees void
  req      \* the requests' local state

db   == <<usage, codes, limit, rows, apps, uses, nudge>>
vars == <<db, mail, noise, req>>

Pairs == Codes \X Users
NoOne == {}

Live   == {"EMAIL_PENDING", "ASSIGNED", "EMAIL_BOUNCED"}
Final  == {"REDEEMED", "REVOKED"}
Status == Live \cup Final

Row == [code : Codes, user : Users, status : Status]

Ops == {"idle", "assign", "revoke", "remind", "resize", "bounce",
        "applied", "placed", "recorded"}

Request ==
  [op    : Ops,
   saves : {<<>>},                          \* rows to save: see TypeOK
   new   : Seq(Row),                        \* rows to create
   on    : SUBSET Pairs,                    \* nudge e-mails to create
   off   : SUBSET Pairs,                    \* nudge e-mails to unsubscribe
   mail  : SUBSET Pairs,                    \* e-mails sent before the commit
   code  : Codes \cup {NoOne},              \* to create or to redeem
   user  : Users \cup {NoOne},
   limit : Limits \cup {0},                 \* as loaded, or to save
   uses  : Nat,                             \* the offer's count as loaded
   txn   : BOOLEAN]                         \* inside transaction.atomic()

NoRequest ==
  [op |-> "idle", saves |-> <<>>, new |-> <<>>, on |-> {}, off |-> {},
   mail |-> {}, code |-> NoOne, user |-> NoOne, limit |-> 0, uses |-> 0,
   txn |-> TRUE]

TypeOK ==
  /\ usage \in Usages
  /\ codes \subseteq Codes
  /\ limit \in Limits \cup {0}
  /\ rows \in Seq(Row)
  /\ apps \in [Codes -> [Users -> Nat]]
  /\ uses \in [Codes -> Nat]
  /\ nudge \in [Pairs -> {"none", "on", "off"}]
  /\ mail \subseteq Pairs
  /\ noise \subseteq {"cut", "resized", "twice"}
  /\ \A r \in Requests :
       /\ [req[r] EXCEPT !.saves = <<>>] \in Request
       /\ DOMAIN req[r].saves \subseteq DOMAIN rows
       /\ \A i \in DOMAIN req[r].saves : req[r].saves[i] \in Status

(* The coupon is created with its codes; a single-use one has no max_uses, *)
(* and may get more codes later.                                           *)
Init ==
  /\ usage \in Usages
  /\ limit \in IF usage = "single" THEN {0} ELSE Limits
  /\ codes \in IF usage = "single" THEN (SUBSET Codes) \ {{}} ELSE {Codes}
  /\ rows = <<>>
  /\ apps = [c \in Codes |-> [u \in Users |-> 0]]
  /\ uses = [c \in Codes |-> 0]
  /\ nudge = [p \in Pairs |-> "none"]
  /\ mail = {}
  /\ noise = {}
  /\ req = [r \in Requests |-> NoRequest]

-----------------------------------------------------------------------------
(* Reading.                                                                *)

RowsOf(p)     == {i \in DOMAIN rows : <<rows[i].code, rows[i].user>> = p}
LiveRowsOf(p) == {i \in RowsOf(p) : rows[i].status \in Live}
LiveRows(c)   == UNION {LiveRowsOf(<<c, u>>) : u \in Users}

num_orders(c) == FoldFunctionOnSet(+, 0, apps[c], Users)

MaxUses == IF limit = 0 THEN OFFER_MAX_USES_DEFAULT ELSE limit

OneLearner == usage = "multi per customer"

(* Mutants: assignments do not take the slots of a code for one learner;   *)
(* and redemptions do not take slots.                                      *)
SlotsUnlessRedeemed(c) ==
  IF usage = "single" \/ OneLearner
  THEN IF num_orders(c) > 0 THEN 0 ELSE IF limit = 0 THEN 1 ELSE limit
  ELSE MaxUses - (num_orders(c) + Cardinality(LiveRows(c)))

SlotsNotRedeemed(c) ==
  IF usage = "single" \/ OneLearner
  THEN IF LiveRows(c) # {} THEN 0 ELSE IF limit = 0 THEN 1 ELSE limit
  ELSE MaxUses - Cardinality(LiveRows(c))

(* slots_available_for_assignment; may be negative.                        *)
Slots(c) ==
  IF usage = "single" \/ OneLearner
  THEN IF num_orders(c) > 0 \/ LiveRows(c) # {} THEN 0
       ELSE IF limit = 0 THEN 1 ELSE limit
  ELSE MaxUses - (num_orders(c) + Cardinality(LiveRows(c)))

(* Voucher.is_available_to_user                                            *)
Available(c, u) ==
  /\ usage = "single" => \A v \in Users : apps[c][v] = 0
  /\ usage = "once per customer" => apps[c][u] = 0
  /\ OneLearner => \A v \in Users \ {u} : apps[c][v] = 0

(* AssignableEnterpriseCustomerCondition and the offer's own limit.  Any   *)
(* number of slots but 0 counts as free, a negative one as well.           *)
Redeemable(c, u) ==
  /\ limit = 0 \/ uses[c] < limit
  /\ LiveRowsOf(<<c, u>>) # {} \/ Slots(c) # 0

-----------------------------------------------------------------------------
(* Writing.                                                                *)

Busy(r) == req[r].op # "idle"

(* Request r, idle so far, has read the database and decided q.            *)
Begin(r, q) ==
  /\ ~Busy(r)
  /\ Len(rows) + Len(q.new) <= MaxRows
  /\ req' = [req EXCEPT ![r] = q]
  /\ UNCHANGED <<db, mail, noise>>

Saved(q) ==
  [i \in DOMAIN rows |->
     IF i \in DOMAIN q.saves THEN [rows[i] EXCEPT !.status = q.saves[i]]
     ELSE rows[i]] \o q.new

(* unsubscribe_from_nudging() and the creation of nudge e-mails, which are *)
(* unique: a second creation breaks the request.                           *)
SaveNudges(q) ==
  /\ \A p \in q.on : nudge[p] = "none"
  /\ nudge' = [p \in Pairs |->
                 CASE p \in q.on -> "on"
                   [] p \in q.off /\ nudge[p] = "on" -> "off"
                   [] OTHER -> nudge[p]]

End(r) == req' = [req EXCEPT ![r] = NoRequest]

-----------------------------------------------------------------------------
(* Assignment.                                                             *)

(* Mutant: learners may be given a once-per-customer code twice.           *)
FillableAgain(c, us) == c \in codes /\ Slots(c) >= 1

(* Codes of a once-per-customer coupon are left out when one of the        *)
(* learners holds or has redeemed them.                                    *)
Fillable(c, us) ==
  /\ c \in codes
  /\ Slots(c) >= 1
  /\ usage = "once per customer" =>
       \A i \in DOMAIN us :
         /\ apps[c][us[i]] = 0
         /\ \A j \in RowsOf(<<c, us[i]>>) : rows[j].status = "REVOKED"

(* plan gives each learner of the list a code.  Codes are used up one      *)
(* after the other; whoever gets a code of a one-learner coupon gets all   *)
(* its slots.  The order in which codes are used is left open.             *)
Fits(us, plan) ==
  LET taken(c) == Cardinality({i \in DOMAIN us : plan[i] = c}) IN
  /\ \A i \in DOMAIN us : Fillable(plan[i], us)
  /\ IF OneLearner
     THEN \A c \in Codes : taken(c) <= 1
     ELSE /\ \A c \in Codes : taken(c) <= Slots(c) \/ taken(c) = 0
          /\ \A i, j \in DOMAIN us :
               plan[i] # plan[j] =>
                 \E c \in {plan[i], plan[j]} : taken(c) = Slots(c)

NewRows(c, u, s, n) == [k \in 1..n |-> [code |-> c, user |-> u, status |-> s]]

(* notice: no e-mail, an assignment e-mail, or nudge e-mails as well.  The *)
(* e-mails are sent before the request commits.                            *)
Assign(r, us, plan, notice) ==
  LET new   == [i \in DOMAIN us |->
                  NewRows(plan[i], us[i], "EMAIL_PENDING",
                          IF OneLearner THEN Slots(plan[i]) ELSE 1)]
      pairs == {<<plan[i], us[i]>> : i \in DOMAIN us}
  IN
  /\ ~Busy(r)
  /\ Fits(us, plan)
  /\ Begin(r, [NoRequest EXCEPT
                 !.op = "assign", !.new = FlattenSeq(new),
                 !.mail = IF notice = "none" THEN {} ELSE pairs,
                 !.on = {p \in pairs : notice = "nudge" /\ nudge[p] = "none"}])

(* create_refunded_voucher: the learner u of an order with code c gets a   *)
(* new code d.                                                             *)
ReplaceCode(r, c, u, d) ==
  /\ usage = "single"
  /\ apps[c][u] > 0
  /\ d \notin codes /\ \A s \in Requests : req[s].code # d
  /\ Begin(r, [NoRequest EXCEPT
                 !.op = "assign", !.code = d, !.mail = {<<d, u>>},
                 !.new = NewRows(d, u, "EMAIL_PENDING", 1)])

(* Revocation of a list of pairs.  The nudge e-mails of every listed code  *)
(* to every listed learner are unsubscribed, whether or not the pair was   *)
(* one that could be revoked.                                              *)
Revoke(r, ps) ==
  LET I == UNION {LiveRowsOf(p) : p \in ps} IN
  Begin(r, [NoRequest EXCEPT
              !.op = "revoke", !.saves = [i \in I |-> "REVOKED"],
              !.off = {p[1] : p \in ps} \X {p[2] : p \in ps}])

(* The reminder sets a date; the rows are saved with the status read.      *)
Remind(r, p) ==
  /\ LiveRowsOf(p) # {}
  /\ Begin(r, [NoRequest EXCEPT
                 !.op = "remind",
                 !.saves = [i \in LiveRowsOf(p) |-> rows[i].status]])

(* update_assignments_for_multi_use_per_customer: a code with fewer rows   *)
(* than the new limit gets more, for the learner of its first row.         *)
TopUp(c, n) ==
  LET all == {i \in DOMAIN rows : rows[i].code = c} IN
  IF OneLearner /\ all # {} /\ Cardinality(all) < n
  THEN NewRows(c, rows[Min(all)].user, "ASSIGNED", n - Cardinality(all))
  ELSE <<>>

(* The coupon is updated.  Without max_uses, the top-up compares a number  *)
(* with None, and the request fails.                                       *)
Resize(r, n) ==
  /\ n \in Limits \cup {0}
  /\ usage = "single" => n = 0
  /\ OneLearner /\ n = 0 => rows = <<>>
  /\ Begin(r, [NoRequest EXCEPT
                 !.op = "resize", !.limit = n,
                 !.new = FlattenSeq([i \in 1..Cardinality(codes) |->
                                       TopUp(SetToSeq(codes)[i], n)])])

(* A learner who was listed twice gets a once-per-customer code twice.     *)
Doubled(q) ==
  usage = "once per customer" /\ q.op = "assign" /\ ~IsInjective(q.new)

(* The request answers.                                                    *)
Commit(r) ==
  LET q == req[r] IN
  /\ q.op \in {"assign", "revoke", "remind", "resize"}
  /\ Len(rows) + Len(q.new) <= MaxRows
  /\ SaveNudges(q)
  /\ rows' = Saved(q)
  /\ codes' = codes \cup ({q.code} \ {NoOne})
  /\ limit' = IF q.op = "resize" THEN q.limit ELSE limit
  /\ mail' = mail \cup q.mail
  /\ End(r)
  /\ noise' = noise \cup {n \in {"resized"} : limit' # limit}
                     \cup {n \in {"twice"} : Doubled(q)}
  /\ UNCHANGED <<usage, apps, uses>>

-----------------------------------------------------------------------------
(* The status of e-mails.                                                  *)

(* Mutants: the report is not restricted to pending rows; and the worker's *)
(* own word is saved.                                                      *)
DeliveredAny(p) ==
  /\ p \in mail
  /\ mail' = mail \ {p}
  /\ rows' = [i \in DOMAIN rows |->
                IF i \in RowsOf(p) THEN [rows[i] EXCEPT !.status = "ASSIGNED"]
                ELSE rows[i]]
  /\ UNCHANGED <<usage, codes, limit, apps, uses, nudge, noise, req>>

DeliveredSuccess(p) ==
  /\ p \in mail
  /\ mail' = mail \ {p}
  /\ rows' = [i \in DOMAIN rows |->
                IF i \in RowsOf(p) /\ rows[i].status = "EMAIL_PENDING"
                THEN [rows[i] EXCEPT !.status = "success"]
                ELSE rows[i]]
  /\ UNCHANGED <<usage, codes, limit, apps, uses, nudge, noise, req>>

(* ecommerce-worker reports that an assignment e-mail was sent.            *)
Delivered(p) ==
  /\ p \in mail
  /\ mail' = mail \ {p}
  /\ rows' = [i \in DOMAIN rows |->
                IF i \in RowsOf(p) /\ rows[i].status = "EMAIL_PENDING"
                THEN [rows[i] EXCEPT !.status = "ASSIGNED"]
                ELSE rows[i]]
  /\ UNCHANGED <<usage, codes, limit, apps, uses, nudge, noise, req>>

(* The report comes before the assignment is committed: no such row.       *)
DeliveredTooEarly(r, p) ==
  /\ p \in req[r].mail
  /\ req' = [req EXCEPT ![r].mail = @ \ {p}]
  /\ UNCHANGED <<db, mail, noise>>

(* The command that asks for bounces reads the assigned rows once, and     *)
(* then saves them one at a time.                                          *)
Bounce(r, I) ==
  /\ I # {}
  /\ \A i \in I : rows[i].status = "ASSIGNED"
  /\ Begin(r, [NoRequest EXCEPT
                 !.op = "bounce", !.saves = [i \in I |-> "EMAIL_BOUNCED"]])

BounceRow(r, i) ==
  LET saves == req[r].saves IN
  /\ req[r].op = "bounce"
  /\ i \in DOMAIN saves
  /\ rows' = [rows EXCEPT ![i].status = "EMAIL_BOUNCED"]
  /\ req' = [req EXCEPT ![r] =
       IF DOMAIN saves = {i} THEN NoRequest
       ELSE [@ EXCEPT !.saves = Restrict(saves, DOMAIN saves \ {i})]]
  /\ UNCHANGED <<usage, codes, limit, apps, uses, nudge, mail, noise>>

-----------------------------------------------------------------------------
(* Redemption.                                                             *)

(* The basket of the request applies the code's offer.                     *)
Apply(r, c, u) ==
  /\ ~Busy(r)
  /\ c \in codes
  /\ MapThenSumSet(num_orders, Codes) < MaxOrders
  /\ Available(c, u) /\ Redeemable(c, u)
  /\ Begin(r, [NoRequest EXCEPT !.op = "applied", !.code = c, !.user = u,
                                !.uses = uses[c]])

Placing(r) == req[r].op \in {"placed", "recorded"}

(* The row lock on voucher c is held by another request.                   *)
Locked(r, c) ==
  \E s \in Requests \ {r} : Placing(s) /\ req[s].txn /\ req[s].code = c

(* The application is recorded; the offer's count is saved as it was       *)
(* loaded, plus one.                                                       *)
RecordUsage(q) ==
  /\ apps' = [apps EXCEPT ![q.code][q.user] = @ + 1]
  /\ uses' = [uses EXCEPT ![q.code] = q.uses + 1]

(* Mutant: the voucher is not looked at again once it is locked.           *)
PlaceUnchecked(r, inTxn) ==
  LET q == req[r] IN
  /\ q.op = "applied"
  /\ ~Locked(r, q.code)
  /\ req' = [req EXCEPT ![r].op = "placed", ![r].txn = inTxn]
  /\ IF inTxn THEN UNCHANGED <<apps, uses>> ELSE RecordUsage(q)
  /\ UNCHANGED <<usage, codes, limit, rows, nudge, mail, noise>>

(* place_order locks the voucher and checks its availability again.  Most  *)
(* views are one transaction; outside one the order is committed here.     *)
Place(r, inTxn) ==
  LET q == req[r] IN
  /\ q.op = "applied"
  /\ ~Locked(r, q.code)
  /\ Available(q.code, q.user)
  /\ req' = [req EXCEPT ![r].op = "placed", ![r].txn = inTxn]
  /\ IF inTxn THEN UNCHANGED <<apps, uses>> ELSE RecordUsage(q)
  /\ UNCHANGED <<usage, codes, limit, rows, nudge, mail, noise>>

(* Mutants: every row of the learner is redeemed by one order; and the     *)
(* nudge e-mails go on.                                                    *)
RecordAllRedemptions(r) ==
  LET q    == req[r]
      pair == <<q.code, q.user>>
  IN
  /\ q.op = "placed"
  /\ req' = [req EXCEPT ![r].op = "recorded",
               ![r].saves = [i \in LiveRowsOf(pair) |-> "REDEEMED"],
               ![r].off = {pair}]
  /\ UNCHANGED <<db, mail, noise>>

RecordRedemptionStillNudged(r) ==
  LET q    == req[r]
      live == LiveRowsOf(<<q.code, q.user>>)
  IN
  /\ q.op = "placed"
  /\ req' = [req EXCEPT ![r].op = "recorded",
               ![r].saves = [i \in {j \in live : j = Min(live)} |-> "REDEEMED"]]
  /\ UNCHANGED <<db, mail, noise>>

(* handle_successful_order.  The learner of a one-learner code gets rows   *)
(* up to its limit, whatever became of the rows there are; the first live  *)
(* row is redeemed.  With no limit there is None to compare with: the      *)
(* request fails after its order (OrderCutShort).                          *)
RecordRedemption(r) ==
  LET q     == req[r]
      pair  == <<q.code, q.user>>
      live  == LiveRowsOf(pair)
      spare == limit - Cardinality(RowsOf(pair))
      new   == IF OneLearner /\ spare > 0
               THEN NewRows(q.code, q.user, "ASSIGNED", spare) ELSE <<>>
  IN
  /\ q.op = "placed"
  /\ OneLearner => limit # 0
  /\ Len(rows) + Len(new) <= MaxRows
  /\ req' = [req EXCEPT ![r].op = "recorded",
               ![r].saves = [i \in {j \in live : j = Min(live)} |-> "REDEEMED"],
               ![r].new = IF live = {} /\ new # <<>>
                          THEN [new EXCEPT ![1].status = "REDEEMED"] ELSE new,
               ![r].off = IF live = {} /\ new = <<>> THEN {} ELSE {pair}]
  /\ UNCHANGED <<db, mail, noise>>

CloseOrder(r) ==
  LET q == req[r] IN
  /\ q.op = "recorded"
  /\ Len(rows) + Len(q.new) <= MaxRows
  /\ IF q.txn THEN RecordUsage(q) ELSE UNCHANGED <<apps, uses>>
  /\ SaveNudges(q)
  /\ rows' = Saved(q)
  /\ End(r)
  /\ UNCHANGED <<usage, codes, limit, mail, noise>>

(* The order is placed and its assignments are not updated: an exception   *)
(* after place_order that the view answers, or a crash outside a           *)
(* transaction.                                                            *)
OrderCutShort(r) ==
  LET q == req[r] IN
  /\ q.op = "placed" \/ (q.op = "recorded" /\ ~q.txn)
  /\ IF q.txn THEN RecordUsage(q) ELSE UNCHANGED <<apps, uses>>
  /\ noise' = noise \cup {"cut"}
  /\ End(r)
  /\ UNCHANGED <<usage, codes, limit, rows, nudge, mail>>

(* The request ends without saving: a crash, an error, or a code that is   *)
(* not available any more.                                                 *)
Abandon(r) ==
  /\ Busy(r)
  /\ ~(Placing(r) /\ ~req[r].txn)
  /\ End(r)
  /\ UNCHANGED <<db, mail, noise>>

-----------------------------------------------------------------------------
(* Lists of one or two entries, which may name a learner twice: nothing    *)
(* removes the second one.  A revocation is asked for at least one learner *)
(* who holds the code.                                                     *)
UserLists == UNION {[1..n -> Users] : n \in 1..2}

Staff(r) ==
  \/ \E us \in UserLists, notice \in Notices :
       \E plan \in [DOMAIN us -> Codes] : Assign(r, us, plan, notice)
  \/ \E c, d \in Codes, u \in Users : ReplaceCode(r, c, u, d)
  \/ \E p, q \in Pairs : LiveRowsOf(p) # {} /\ Revoke(r, {p, q})
  \/ \E p \in Pairs : Remind(r, p)
  \/ \E n \in Limits \cup {0} : Resize(r, n)
  \/ Commit(r)

Emails(r) ==
  \/ \E p \in Pairs : DeliveredTooEarly(r, p)
  \/ \E I \in SUBSET DOMAIN rows : Bounce(r, I)
  \/ \E i \in DOMAIN rows : BounceRow(r, i)

Learner(r) ==
  \/ \E c \in Codes, u \in Users : Apply(r, c, u)
  \/ \E inTxn \in BOOLEAN : Place(r, inTxn)
  \/ RecordRedemption(r)
  \/ CloseOrder(r)
  \/ OrderCutShort(r)

Next ==
  \/ \E r \in Requests : Staff(r) \/ Emails(r) \/ Learner(r) \/ Abandon(r)
  \/ \E p \in Pairs : Delivered(p)

Spec == Init /\ [][Next]_vars

-----------------------------------------------------------------------------
(* Properties.                                                             *)

Quiet(what) == noise \cap what = {}

(* A single-use code is redeemed once, a once-per-customer code once by    *)
(* each learner, and a code for one learner by one learner, however the    *)
(* orders interleave: the check made when the basket is priced is made     *)
(* again under the voucher's lock.                                         *)
UsageRespected ==
  \A c \in Codes, u, v \in Users :
    /\ usage \in {"single", "once per customer"} => apps[c][u] <= 1
    /\ usage \in {"single", "multi per customer"} =>
         (apps[c][u] > 0 /\ apps[c][v] > 0 => u = v)

(* A row says REDEEMED for an order of its own: a learner never has more   *)
(* redeemed rows of a code than orders with it.                            *)
RedeemedForAnOrder ==
  \A c \in Codes, u \in Users :
    Cardinality({i \in RowsOf(<<c, u>>) : rows[i].status = "REDEEMED"})
      <= apps[c][u]

(* The rest is about requests one at a time.                               *)

(* No order cut short, the limit never changed and no once-per-customer    *)
(* code given to a learner twice: between orders, those placed and the     *)
(* open assignments together stay within a code's limit.                   *)
NeverOversold ==
  noise = {} /\ (\A r \in Requests : ~Placing(r)) =>
    \A c \in codes :
      num_orders(c) + Cardinality(LiveRows(c)) <=
        IF limit # 0 THEN limit
        ELSE IF usage \in {"multi", "once per customer"}
        THEN OFFER_MAX_USES_DEFAULT ELSE 1

(* Likewise, whoever holds an assignment can redeem the code: it is        *)
(* available to the learner, and its offer has not reached its limit.  A   *)
(* learner with two assignments of a once-per-customer code can redeem     *)
(* only one of them.                                                       *)
AssignedCanRedeem ==
  noise = {} /\ (\A r \in Requests : ~Placing(r)) =>
    \A c \in codes, u \in Users :
      LiveRowsOf(<<c, u>>) # {} =>
        Available(c, u) /\ (limit = 0 \/ uses[c] < limit)

(* The limit never changed: all open slots of a code for one learner are   *)
(* one learner's.                                                          *)
OneHolder ==
  OneLearner /\ "resized" \notin noise =>
    \A c \in Codes : Cardinality({u \in Users : LiveRowsOf(<<c, u>>) # {}}) <= 1

(* A revoked or redeemed row is final: no report, reminder or bounce       *)
(* brings it back.                                                         *)
FinalRowsStay ==
  [][\A i \in DOMAIN rows :
       rows[i].status \in Final => rows'[i].status = rows[i].status]_vars

(* Whoever gets nudge e-mails about a code holds an assignment of it,      *)
(* unless an order was cut short.                                          *)
NudgedHoldsCode ==
  "cut" \notin noise =>
    \A p \in Pairs : nudge[p] = "on" => LiveRowsOf(p) # {}

===============================================================================
