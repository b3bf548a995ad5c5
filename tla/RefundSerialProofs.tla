-------------------------- MODULE RefundSerialProofs --------------------------
(***************************************************************************)
(* What holds of Refund when its requests come one after another, whatever *)
(* the order and however many approvals fail, crash, lose the processor's  *)
(* answer or are tried again.                                              *)
(***************************************************************************)
EXTENDS RefundProofs, SumTheorems

(* Runs of the one request there is never overlap.                         *)
OneAtATime == \A r, s \in Requests : r = s

(* A credit is in the status, pending in the request that got it, or among *)
(* those that were lost.                                                   *)
Pending(f) == \E r \in Requests : req[r].granted /\ req[r].refund = f

Accounted(f) ==
  \/ ledger[f] = lost[f]
  \/ ledger[f] = lost[f] + 1 /\ (status[f] \in SettledStatus \/ Pending(f))

(* What a request's phase says of its credit and of the committed status.  *)
Tells(q) ==
  /\ q.granted =>
       /\ q.refund \in Refunds /\ ledger[q.refund] = lost[q.refund] + 1
       /\ q.phase = "book" \/ (q.saved /\ q.status \in SettledStatus)
  /\ q.phase \in {"idle", "insert", "credit", "deny"} => ~q.granted
  /\ q.phase \in {"insert", "credit", "book", "deny"} =>
       /\ q.status \notin SettledStatus
       /\ q.refund \in Refunds => status[q.refund] \notin SettledStatus
  /\ q.phase \in {"settled", "revoke"} =>
       /\ q.status \in SettledStatus
       /\ q.saved \/ status[q.refund] \in SettledStatus

LedgerInv ==
  /\ \A f \in Refunds : Accounted(f)
  /\ \A r \in Requests : Tells(req[r])

(* r's next local state does not drop a credit.                            *)
Carries(r, q) == req[r].granted => q.granted /\ q.refund = req[r].refund

LEMMA NoRequestTells == Tells(NoRequest) /\ ~NoRequest.granted
  BY DEF Tells, NoRequest

LEMMA NotSettled ==
  /\ SettledStatus \subseteq RefundStatus
  /\ {Open, PaymentRefundError, Denied, Absent} \cap SettledStatus = {}
  /\ RefundStatus = SettledStatus \cup {Open, PaymentRefundError, Denied}
  BY DEF SettledStatus, RefundStatus, Open, PaymentRefundError, Denied, Absent,
         PaymentRefunded, RevocationError, Complete

LEMMA MoveKeepsLedger ==
  ASSUME OneAtATime, TypeInv, LedgerInv, NEW r \in Requests, NEW p,
         req' = [req EXCEPT ![r] = p], UNCHANGED <<status, ledger, lost>>,
         Tells(p), Carries(r, p)
  PROVE  LedgerInv'
  <1>1. \A s \in Requests : s = r /\ req'[s] = p
    BY DEF OneAtATime, TypeInv, ReqOK
  <1>2. \A f \in Refunds : Pending(f) => Pending(f)'
    BY <1>1 DEF Pending, Carries
  <1>3. \A f \in Refunds : Accounted(f)'
    BY <1>2 DEF LedgerInv, Accounted
  <1>4. Tells(p)'
    BY DEF Tells
  <1>. QED
    BY <1>1, <1>3, <1>4 DEF LedgerInv

(* A commit shows the credit it carries in the status.                     *)
LEMMA SaveKeepsLedger ==
  ASSUME OneAtATime, TypeInv, LedgerInv, NEW r \in Requests, NEW q \in Known,
         Save(r, q) \/ End(r, q), UNCHANGED <<ledger, lost>>,
         Tells(q), Carries(r, q), q.refund \in Refunds,
         q.phase \notin {"idle", "book"}
  PROVE  LedgerInv'
  <1>1. CASE Save(r, q) /\ q.txn
    BY <1>1, MoveKeepsLedger DEF Save, db
  <1>2. ASSUME NEW p \in {Flushed(q), NoRequest}, req' = [req EXCEPT ![r] = p], Commit(q)
        PROVE  LedgerInv'
    <2>. DEFINE f == q.refund
    <2>0. /\ status \in [Refunds -> RefundStatus \cup {Absent}]
          /\ \A s \in Requests : s = r /\ req'[s] = p
          /\ q.phase \in {"insert", "credit", "settled", "revoke", "deny"}
      BY <1>2 DEF OneAtATime, TypeInv, ReqOK, DbOK, Known, Request
    <2>1. /\ status'[f] = IF q.saved THEN q.status ELSE status[f]
          /\ \A g \in Refunds \ {f} : status'[g] = status[g]
      BY <1>2, <2>0 DEF Commit
    <2>2. /\ status[f] \in SettledStatus \/ q.granted => status'[f] \in SettledStatus
          /\ q.phase \in {"insert", "credit", "deny"} => status'[f] \notin SettledStatus
          /\ q.phase \in {"settled", "revoke"} => status'[f] \in SettledStatus
      BY <2>0, <2>1 DEF Tells
    <2>3. ASSUME NEW g \in Refunds PROVE Accounted(g)'
      <3>1. Accounted(g)
        BY DEF LedgerInv
      <3>2. Pending(g) => g = f /\ q.granted
        BY <2>0 DEF Pending, Carries
      <3>3. status[g] \in SettledStatus \/ Pending(g) => status'[g] \in SettledStatus
        BY <2>1, <2>2, <3>2
      <3>. QED
        BY <3>1, <3>3 DEF Accounted
    <2>4. Tells(p)'
      <3>1. CASE p = NoRequest
        BY <3>1 DEF Tells, NoRequest
      <3>2. CASE p = Flushed(q)
        <4>1. /\ p.phase = q.phase /\ p.refund = f /\ p.status = q.status
              /\ ~p.granted
          BY <3>2 DEF Flushed, Known, Request
        <4>. QED
          BY <2>2, <4>1 DEF Tells
      <3>. QED
        BY <3>1, <3>2
    <2>5. \A s \in Requests : Tells(req[s])'
      BY <2>0, <2>4
    <2>. QED
      BY <2>3, <2>5 DEF LedgerInv
  <1>3. CASE Save(r, q) /\ ~q.txn
    BY <1>2, <1>3 DEF Save
  <1>4. CASE End(r, q)
    BY <1>2, <1>4 DEF End
  <1>. QED
    BY <1>1, <1>3, <1>4

(* A rollback forgets the credit, and counts it among the lost ones.       *)
LEMMA AbortKeepsLedger ==
  ASSUME OneAtATime, TypeInv, LedgerInv, NEW r \in Requests, Abort(r),
         UNCHANGED ledger
  PROVE  LedgerInv'
  <1>0. /\ \A s \in Requests : s = r /\ req'[s] = NoRequest
        /\ UNCHANGED status
        /\ lost \in [Refunds -> Nat]
    BY DEF OneAtATime, TypeInv, ReqOK, HistoryOK, LostOK, Abort, db
  <1>1. ASSUME NEW f \in Refunds PROVE Accounted(f)'
    <2>1. Accounted(f)
      BY DEF LedgerInv
    <2>2. CASE Pending(f)
      <3>1. req[r].granted /\ req[r].refund = f
        BY <1>0, <2>2 DEF Pending
      <3>2. ledger[f] = lost[f] + 1
        BY <3>1 DEF LedgerInv, Tells
      <3>3. lost'[f] = lost[f] + 1
        BY <1>0, <3>1 DEF Abort, Forgotten
      <3>. QED
        BY <3>2, <3>3 DEF Accounted
    <2>3. CASE ~Pending(f)
      <3>1. lost'[f] = lost[f]
        BY <1>0, <2>3 DEF Abort, Forgotten, Pending
      <3>. QED
        BY <1>0, <2>1, <2>3, <3>1 DEF Accounted
    <2>. QED
      BY <2>2, <2>3
  <1>2. \A s \in Requests : Tells(req[s])'
    BY <1>0 DEF Tells, NoRequest
  <1>. QED
    BY <1>1, <1>2 DEF LedgerInv

(* The processor grants a credit to a request that holds none.             *)
LEMMA GrantAccounted ==
  ASSUME OneAtATime, TypeInv, LedgerInv, NEW r \in Requests, req[r].phase = "credit"
  PROVE  /\ req[r].refund \in Refunds
         /\ ledger[req[r].refund] = lost[req[r].refund]
         /\ \A f \in Refunds : ~Pending(f)
  <1>1. req[r].refund \in Refunds /\ \A s \in Requests : s = r
    BY DEF OneAtATime, TypeInv, ReqOK, Known
  <1>2. ~req[r].granted /\ status[req[r].refund] \notin SettledStatus
    BY <1>1 DEF LedgerInv, Tells
  <1>3. \A f \in Refunds : ~Pending(f)
    BY <1>1, <1>2 DEF Pending
  <1>. QED
    BY <1>1, <1>2, <1>3 DEF LedgerInv, Accounted

LEMMA GrantedOne ==
  ASSUME TypeInv, NEW f \in Refunds, NEW a, Grants(f, a)
  PROVE  /\ ledger'[f] = ledger[f] + 1
         /\ \A g \in Refunds \ {f} : ledger'[g] = ledger[g]
  BY DEF TypeInv, OutsideOK, Grants

LEMMA StepKeepsLedger ==
  ASSUME OneAtATime, TypeInv, LedgerInv, NEW r \in Requests, Step(r)
  PROVE  LedgerInv'
  <1>0. /\ req[r] \in Known /\ Tells(req[r])
        /\ \A s \in Requests : s = r
        /\ lost \in [Refunds -> Nat]
    BY DEF TypeInv, ReqOK, LedgerInv, OneAtATime, HistoryOK, LostOK
  (* A request that starts.                                                *)
  <1>1. ASSUME NEW q, req' = [req EXCEPT ![r] = q], UNCHANGED <<status, ledger, lost>>,
               req[r].phase = "idle", ~q.granted, Tells(q)
        PROVE  LedgerInv'
    BY <1>0, <1>1, MoveKeepsLedger DEF Carries, Tells
  <1>2. CASE \/ BeginCommand(r)
             \/ \E course \in SUBSET Lines :
                  BeginCreate(r, course) \/ BeginStoreRefund(r, course)
    <2>1. PICK lines, t, b : Select(r, lines, t, b)
      BY <1>2 DEF BeginCommand, BeginCreate, BeginStoreRefund
    <2>2. PICK q \in {[NoRequest EXCEPT !.phase = "insert", !.txn = t, !.store = b,
                                        !.covers = lines, !.todo = lines]} :
            req' = [req EXCEPT ![r] = q]
      BY <2>1 DEF Select
    <2>3. q.phase = "insert" /\ ~q.granted /\ q.refund = NoRefund /\ q.status = Open
      BY DEF NoRequest
    <2>4. Tells(q)
      BY <2>3, NotSettled, RefundAssumption DEF Tells
    <2>. QED
      BY <1>1, <2>1, <2>2, <2>3, <2>4 DEF Select, db, outside, history
  <1>3. ASSUME NEW f \in Refunds, NEW payOnly \in BOOLEAN, BeginApprove(r, f, payOnly)
        PROVE  LedgerInv'
    <2>1. PICK q \in {[NoRequest EXCEPT
             !.phase = IF status[f] \in {Open, PaymentRefundError}
                       THEN "credit" ELSE "settled",
             !.txn = TRUE, !.payOnly = payOnly, !.refund = f, !.status = status[f],
             !.covers = covers[f], !.source = source]} : req' = [req EXCEPT ![r] = q]
      BY <1>3 DEF BeginApprove
    <2>2. /\ ~q.granted /\ q.refund = f /\ q.status = status[f]
          /\ q.phase = IF status[f] \in {Open, PaymentRefundError}
                       THEN "credit" ELSE "settled"
      BY DEF NoRequest
    <2>3. status[f] \in {Open, PaymentRefundError} \/ status[f] \in SettledStatus
      BY <1>3, NotSettled DEF BeginApprove
    <2>4. Tells(q)
      BY <2>2, <2>3, NotSettled DEF Tells
    <2>. QED
      BY <1>1, <1>3, <2>1, <2>2, <2>4 DEF BeginApprove, db, outside, history
  <1>4. ASSUME NEW f \in Refunds, BeginDeny(r, f) PROVE LedgerInv'
    <2>1. PICK q \in {[NoRequest EXCEPT !.phase = "deny", !.txn = TRUE, !.refund = f,
                                        !.covers = covers[f]]} :
            req' = [req EXCEPT ![r] = q]
      BY <1>4 DEF BeginDeny
    <2>2. ~q.granted /\ q.refund = f /\ q.status = Open /\ q.phase = "deny"
      BY DEF NoRequest
    <2>3. Tells(q)
      BY <1>4, <2>2, NotSettled DEF Tells, BeginDeny
    <2>. QED
      BY <1>1, <1>4, <2>1, <2>2, <2>3 DEF BeginDeny, db, outside, history
  (* Creating: the refund is not settled, and nothing is granted.          *)
  <1>5. CASE InsertRefund(r)
    <2>1. PICK f \in Refunds :
            /\ Free(f)
            /\ \E q \in {[req[r] EXCEPT !.refund = f, !.new = TRUE, !.saved = TRUE]} :
                 Save(r, q)
      BY <1>5 DEF InsertRefund
    <2>2. PICK q \in {[req[r] EXCEPT !.refund = f, !.new = TRUE, !.saved = TRUE]} :
            Save(r, q)
      BY <2>1
    <2>3. /\ q \in Known /\ q.refund = f /\ q.phase = "insert"
          /\ q.status = req[r].status /\ q.granted = req[r].granted
      BY <1>0, <1>5 DEF InsertRefund, Request, Known
    <2>4. Tells(q) /\ Carries(r, q)
      BY <1>0, <1>5, <2>1, <2>3, NotSettled DEF Tells, Free, InsertRefund, Carries
    <2>. QED
      BY <1>5, <2>2, <2>3, <2>4, SaveKeepsLedger DEF InsertRefund, outside, history
  <1>6. ASSUME NEW l \in Lines, InsertLine(r, l) PROVE LedgerInv'
    <2>1. PICK q \in {[req[r] EXCEPT !.wrote[l] = InitialLineStatus,
                                     !.todo = @ \ {l}]} : Save(r, q)
      BY <1>6 DEF InsertLine
    <2>2. PICK w \in [Lines -> LineStatus \cup {Unwritten}] :
            w = [req[r].wrote EXCEPT ![l] = InitialLineStatus]
      BY <1>0 DEF Known, Request, InitialLineStatus, LineStatus
    <2>3. q = [req[r] EXCEPT !.wrote = w, !.todo = @ \ {l}]
      BY <2>1, <2>2
    <2>4. /\ q \in Known /\ q.refund = req[r].refund /\ q.phase = "insert"
          /\ q.status = req[r].status /\ q.granted = req[r].granted
          /\ q.refund \in Refunds
      BY <1>0, <1>6, <2>3 DEF InsertLine, Request, Known
    <2>5. Tells(q) /\ Carries(r, q)
      BY <1>0, <1>6, <2>4 DEF Tells, InsertLine, Carries
    <2>. QED
      BY <1>6, <2>1, <2>4, <2>5, SaveKeepsLedger DEF InsertLine, outside, history
  <1>7. CASE EndCreate(r)
    <2>1. req[r].phase = "insert" /\ req[r].refund \in Refunds
      BY <1>0, <1>7 DEF EndCreate, Inserted, Known, Request
    <2>. QED
      BY <1>0, <1>7, <2>1, SaveKeepsLedger DEF EndCreate, Carries, outside, history
  <1>8. CASE ApproveAtOnce(r)
    <2>1. PICK q \in {[req[r] EXCEPT !.phase = "credit", !.source = source]} :
            req' = [req EXCEPT ![r] = q]
      BY <1>8 DEF ApproveAtOnce, TypeInv, ReqOK
    <2>2. /\ q.refund = req[r].refund /\ q.phase = "credit"
          /\ q.status = req[r].status /\ q.granted = req[r].granted
      BY <1>0 DEF Known, Request
    <2>3. Tells(q) /\ Carries(r, q)
      BY <1>0, <1>8, <2>2 DEF Tells, ApproveAtOnce, Inserted, Carries
    <2>. QED
      BY <1>8, <2>1, <2>3, MoveKeepsLedger DEF ApproveAtOnce, db, outside, history
  (* The credit.                                                           *)
  <1>9. CASE Credited(r)
    <2>0. req[r].phase = "credit"
      BY <1>9 DEF Credited, Crediting
    <2>1. PICK granted \in BOOLEAN :
            /\ Paid(r, granted)
            /\ IF granted THEN Grants(req[r].refund, Amount(r))
                          ELSE UNCHANGED <<ledger, credited>>
      BY <1>9 DEF Credited
    <2>2. PICK q \in {[req[r] EXCEPT !.phase = "book", !.paid = TRUE,
                                     !.granted = granted]} :
            req' = [req EXCEPT ![r] = q]
      BY <2>1 DEF Paid, TypeInv, ReqOK
    <2>3. PICK f \in Refunds :
            f = req[r].refund /\ ledger[f] = lost[f] /\ \A g \in Refunds : ~Pending(g)
      BY <2>0, GrantAccounted
    <2>4. /\ q.refund = f /\ q.phase = "book" /\ q.granted = granted
          /\ q.status = req[r].status
      BY <1>0, <2>3 DEF Known, Request
    <2>5. UNCHANGED <<status, lost>> /\ \A s \in Requests : req'[s] = q
      BY <1>0, <1>9, <2>2 DEF Credited, db, history, TypeInv, ReqOK
    <2>6. CASE granted
      <3>1. /\ ledger'[f] = ledger[f] + 1
            /\ \A g \in Refunds \ {f} : ledger'[g] = ledger[g]
        BY <2>1, <2>3, <2>6, GrantedOne
      <3>2. Pending(f)'
        BY <2>4, <2>5, <2>6 DEF Pending
      <3>3. \A g \in Refunds : Accounted(g)'
        BY <2>3, <2>5, <3>1, <3>2 DEF LedgerInv, Accounted
      <3>4. /\ q.refund = f /\ q.phase = "book" /\ q.granted
            /\ q.status \notin SettledStatus /\ status'[f] \notin SettledStatus
            /\ ledger'[f] = lost'[f] + 1
        BY <1>0, <2>0, <2>3, <2>4, <2>5, <2>6, <3>1 DEF Tells
      <3>5. Tells(q)'
        BY <2>3, <3>4 DEF Tells
      <3>. QED
        BY <2>5, <3>3, <3>5 DEF LedgerInv
    <2>7. CASE ~granted
      <3>1. Tells(q) /\ Carries(r, q)
        BY <1>0, <2>0, <2>3, <2>4, <2>7 DEF Tells, Carries
      <3>. QED
        BY <2>1, <2>2, <2>5, <2>7, <3>1, MoveKeepsLedger
    <2>. QED
      BY <2>6, <2>7
  <1>10. CASE NothingToCredit(r)
    <2>1. PICK q \in {[req[r] EXCEPT !.phase = "book"]} : req' = [req EXCEPT ![r] = q]
      BY <1>10 DEF NothingToCredit, TypeInv, ReqOK
    <2>2. /\ q.refund = req[r].refund /\ q.phase = "book"
          /\ q.status = req[r].status /\ q.granted = req[r].granted
      BY <1>0 DEF Known, Request
    <2>3. Tells(q) /\ Carries(r, q)
      BY <1>0, <1>10, <2>2 DEF Tells, NothingToCredit, Carries
    <2>. QED
      BY <1>10, <2>1, <2>3, MoveKeepsLedger DEF NothingToCredit, db, outside, history
  (* The answer may be lost with the credit: both accounts grow.           *)
  <1>11. CASE CreditFailed(r)
    <2>0. req[r].phase = "credit"
      BY <1>11 DEF CreditFailed, Crediting
    <2>1. PICK q \in {[req[r] EXCEPT !.status = PaymentRefundError, !.saved = TRUE]} :
            End(r, q)
      BY <1>11 DEF CreditFailed
    <2>2. PICK f \in Refunds :
            f = req[r].refund /\ ledger[f] = lost[f] /\ \A g \in Refunds : ~Pending(g)
      BY <2>0, GrantAccounted
    <2>3. /\ q \in Known /\ q.refund = f /\ q.phase = "credit"
          /\ q.status = PaymentRefundError /\ q.granted = req[r].granted
      BY <1>0, <2>0, <2>2 DEF Known, Request, RefundStatus
    <2>4. Tells(q) /\ Carries(r, q)
      BY <1>0, <2>0, <2>2, <2>3, NotSettled DEF Tells, Carries
    <2>5. CASE UNCHANGED <<ledger, lost>>
      BY <2>1, <2>3, <2>4, <2>5, SaveKeepsLedger
    <2>6. CASE Grants(f, Amount(r)) /\ Forgotten(f)
      <3>1. /\ ledger'[f] = ledger[f] + 1 /\ lost'[f] = lost[f] + 1
            /\ \A g \in Refunds \ {f} : ledger'[g] = ledger[g] /\ lost'[g] = lost[g]
        BY <1>0, <2>6, GrantedOne DEF Forgotten
      <3>2. /\ \A s \in Requests : req'[s] = NoRequest
            /\ \A g \in Refunds \ {f} : status'[g] = status[g]
        BY <1>0, <2>1, <2>3 DEF End, Commit, TypeInv, ReqOK, DbOK
      <3>3. \A g \in Refunds : Accounted(g)'
        BY <2>2, <3>1, <3>2 DEF LedgerInv, Accounted
      <3>4. \A s \in Requests : Tells(req[s])'
        BY <3>2 DEF Tells, NoRequest
      <3>. QED
        BY <3>3, <3>4 DEF LedgerInv
    <2>. QED
      BY <1>11, <2>2, <2>5, <2>6 DEF CreditFailed
  <1>12. CASE CreditRaises(r) \/ Crash(r)
    BY <1>12, AbortKeepsLedger DEF CreditRaises, Crash, outside
  (* A request that has its credit, or found it in the status, goes on.    *)
  <1>13. ASSUME NEW q \in Known, Save(r, q) \/ End(r, q),
                UNCHANGED <<ledger, lost>>,
                q.phase \in {"settled", "revoke"}, q.refund = req[r].refund,
                q.granted = req[r].granted,
                q.status \in SettledStatus,
                \/ q.saved
                \/ ~q.granted /\ status[q.refund] \in SettledStatus
         PROVE  LedgerInv'
    <2>1. q.refund \in Refunds
      BY <1>13 DEF Known
    <2>2. Tells(q) /\ Carries(r, q)
      BY <1>0, <1>13, <2>1 DEF Tells, Carries
    <2>. QED
      BY <1>13, <2>1, <2>2, SaveKeepsLedger
  <1>14. CASE Book(r)
    <2>1. PICK q \in {[req[r] EXCEPT
                        !.phase = "settled", !.status = PaymentRefunded,
                        !.saved = TRUE, !.books = req[r].paid,
                        !.frees = FreesOffer(req[r])]} : Save(r, q)
      BY <1>14 DEF Book
    <2>2. FreesOffer(req[r]) \in BOOLEAN
      BY OrderAssumption, Zenon DEF FreesOffer
    <2>3. /\ q \in Known /\ q.phase = "settled" /\ q.refund = req[r].refund
          /\ q.saved /\ q.status \in SettledStatus /\ q.granted = req[r].granted
      BY <1>0, <1>14, <2>2 DEF Book, Request, Known, RefundStatus, SettledStatus
    <2>. QED
      BY <1>13, <1>14, <2>1, <2>3 DEF Book, outside, history
  (* What dies before the status is saved is forgotten with its credit.    *)
  <1>25. CASE BookCutShort(r)
    <2>1. PICK q \in Known :
            /\ End(r, q)
            /\ \/ /\ q = [req[r] EXCEPT !.books = req[r].paid]
                  /\ IF req[r].granted THEN Forgotten(req[r].refund) ELSE UNCHANGED lost
               \/ /\ q = [req[r] EXCEPT !.status = PaymentRefunded, !.saved = TRUE,
                                        !.books = req[r].paid]
                  /\ UNCHANGED lost
      BY <1>0, <1>25, CutShortSaves
    <2>2. PICK f \in Refunds : f = req[r].refund
      BY <1>0, <1>25 DEF BookCutShort, Known
    <2>3. /\ \A s \in Requests : req'[s] = NoRequest
          /\ \A g \in Refunds \ {f} : status'[g] = status[g]
          /\ status'[f] = IF q.saved THEN q.status ELSE status[f]
          /\ UNCHANGED ledger
      <3>1. q.refund = f
        BY <1>0, <2>1, <2>2 DEF Known, Request
      <3>2. \A s \in Requests : req'[s] = NoRequest
        BY <1>0, <2>1 DEF End, TypeInv, ReqOK
      <3>3. status' = IF q.saved THEN [status EXCEPT ![f] = q.status] ELSE status
        BY <2>1, <3>1 DEF End, Commit
      <3>4. status \in [Refunds -> RefundStatus \cup {Absent}]
        BY DEF TypeInv, DbOK
      <3>. QED
        BY <1>25, <3>2, <3>3, <3>4 DEF BookCutShort, outside
    <2>4. /\ status[f] \notin SettledStatus /\ req[r].status \notin SettledStatus
          /\ \A g \in Refunds : Pending(g) <=> req[r].granted /\ g = f
      BY <1>0, <1>25, <2>2 DEF BookCutShort, Tells, Pending
    <2>5. ASSUME NEW g \in Refunds \ {f} PROVE Accounted(g)'
      <3>1. Accounted(g) /\ ~Pending(g) /\ lost'[g] = lost[g]
        BY <1>0, <2>1, <2>2, <2>4 DEF LedgerInv, Forgotten
      <3>. QED
        BY <2>3, <3>1 DEF Accounted
    <2>6. Accounted(f)'
      <3>1. Accounted(f) /\ (req[r].granted => ledger[f] = lost[f] + 1)
        BY <1>0, <2>2 DEF LedgerInv, Tells
      <3>2. CASE q.saved /\ q.status \in SettledStatus /\ UNCHANGED lost
        BY <2>3, <3>1, <3>2 DEF Accounted
      <3>3. CASE IF req[r].granted THEN Forgotten(f) ELSE UNCHANGED lost
        <4>1. ledger[f] = lost'[f]
          BY <1>0, <2>4, <3>1, <3>3 DEF Accounted, Forgotten
        <4>. QED
          BY <2>3, <4>1 DEF Accounted
      <3>4. q = [req[r] EXCEPT !.status = PaymentRefunded, !.saved = TRUE,
                               !.books = req[r].paid]
              => q.saved /\ q.status \in SettledStatus
        BY <1>0 DEF Known, Request, SettledStatus
      <3>. QED
        BY <2>1, <2>2, <3>2, <3>3, <3>4
    <2>7. \A s \in Requests : Tells(req[s])'
      BY <2>3 DEF Tells, NoRequest
    <2>. QED
      BY <2>5, <2>6, <2>7 DEF LedgerInv
  <1>15. CASE CompleteWithoutRevoking(r)
    <2>1. CASE \A l \in Present(req[r]) : LineMayMove(LinesSeen(req[r])[l], Complete)
      <3>1. PICK q \in {[req[r] EXCEPT
                          !.status = Complete, !.saved = TRUE,
                          !.wrote = [l \in Lines |-> IF l \in Present(req[r])
                                                     THEN Complete ELSE Unwritten]]} :
              End(r, q)
        BY <1>15, <2>1 DEF CompleteWithoutRevoking
      <3>2. [l \in Lines |-> IF l \in Present(req[r]) THEN Complete ELSE Unwritten]
              \in [Lines -> LineStatus \cup {Unwritten}]
        BY DEF LineStatus
      <3>3. Complete \in RefundStatus /\ Complete \in SettledStatus
        BY DEF RefundStatus, SettledStatus
      <3>4. /\ q \in Known /\ q.phase = "settled" /\ q.refund = req[r].refund
            /\ q.saved /\ q.status \in SettledStatus /\ q.granted = req[r].granted
        BY <1>0, <1>15, <3>2, <3>3 DEF CompleteWithoutRevoking, Request, Known
      <3>5. UNCHANGED <<ledger, lost>>
        BY <1>15, <2>1 DEF CompleteWithoutRevoking, outside
      <3>. QED
        BY <1>13, <3>1, <3>4, <3>5
    <2>2. CASE ~\A l \in Present(req[r]) : LineMayMove(LinesSeen(req[r])[l], Complete)
      BY <1>15, <2>2, AbortKeepsLedger DEF CompleteWithoutRevoking, outside
    <2>. QED
      BY <2>1, <2>2
  <1>16. CASE NothingToPay(r)
    <2>1. Tells(req[r]) /\ req[r].phase = "settled" /\ req[r].refund \in Refunds
      BY <1>0, <1>16 DEF NothingToPay, Known
    <2>. QED
      BY <1>0, <1>16, <2>1, SaveKeepsLedger DEF NothingToPay, Carries, outside, history
  <1>17. ASSUME NEW q, req' = [req EXCEPT ![r] = q], UNCHANGED <<status, ledger, lost>>,
                q.phase = "revoke", q.refund = req[r].refund,
                q.granted = req[r].granted, q.status = req[r].status,
                q.saved = req[r].saved, req[r].phase \in {"settled", "revoke"}
         PROVE  LedgerInv'
    <2>1. Tells(q) /\ Carries(r, q)
      BY <1>0, <1>17 DEF Tells, Carries
    <2>. QED
      BY <1>17, <2>1, MoveKeepsLedger
  <1>18. CASE StartRevocation(r)
    <2>1. PICK q \in {[req[r] EXCEPT !.phase = "revoke", !.line = LinesSeen(req[r]),
                                     !.todo = Present(req[r])]} :
            req' = [req EXCEPT ![r] = q]
      BY <1>18 DEF StartRevocation, TypeInv, ReqOK
    <2>2. /\ q.phase = "revoke" /\ q.refund = req[r].refund /\ q.saved = req[r].saved
          /\ q.granted = req[r].granted /\ q.status = req[r].status
      BY <1>0 DEF Known, Request
    <2>. QED
      BY <1>17, <1>18, <2>1, <2>2 DEF StartRevocation, db, outside, history
  <1>19. ASSUME NEW l \in Lines, NEW s \in LineStatus, Turn(r, l), SetLine(r, l, s),
                UNCHANGED ledger
         PROVE  LedgerInv'
    <2>1. CASE LineMayMove(req[r].line[l], s)
      <3>1. PICK q \in {[req[r] EXCEPT !.wrote[l] = s, !.todo = @ \ {l},
                                       !.ok = IF s = Complete THEN @ ELSE FALSE]} :
              Save(r, q)
        BY <1>19, <2>1 DEF SetLine
      <3>2. PICK w \in [Lines -> LineStatus \cup {Unwritten}] :
              w = [req[r].wrote EXCEPT ![l] = s]
        BY <1>0 DEF Known, Request
      <3>3. PICK b \in BOOLEAN : b = IF s = Complete THEN req[r].ok ELSE FALSE
        BY <1>0 DEF Known, Request
      <3>4. q = [req[r] EXCEPT !.wrote = w, !.todo = @ \ {l}, !.ok = b]
        BY <3>1, <3>2, <3>3
      <3>5. /\ q \in Known /\ q.phase = "revoke" /\ q.refund = req[r].refund
            /\ q.saved = req[r].saved /\ q.granted = req[r].granted
            /\ q.status = req[r].status /\ q.refund \in Refunds
        BY <1>0, <1>19, <3>4 DEF Turn, Known, Request
      <3>6. Tells(q) /\ Carries(r, q)
        BY <1>0, <1>19, <3>5 DEF Turn, Tells, Carries
      <3>7. UNCHANGED lost
        BY <1>19, <2>1 DEF SetLine
      <3>. QED
        BY <1>19, <3>1, <3>5, <3>6, <3>7, SaveKeepsLedger
    <2>2. CASE ~LineMayMove(req[r].line[l], s)
      BY <1>19, <2>2, AbortKeepsLedger DEF SetLine
    <2>. QED
      BY <2>1, <2>2
  <1>20. ASSUME NEW l \in Lines,
                SkipRevocation(r, l) \/ Revoked(r, l) \/ RevocationFailed(r, l)
         PROVE  LedgerInv'
    BY <1>19, <1>20 DEF SkipRevocation, Revoked, RevocationFailed, LineStatus, outside
  <1>21. ASSUME NEW l \in Lines, RevocationNotImplemented(r, l) PROVE LedgerInv'
    BY <1>21, AbortKeepsLedger DEF RevocationNotImplemented, outside
  <1>22. ASSUME NEW l \in Lines, NoModule(r, l) PROVE LedgerInv'
    <2>1. PICK q \in {[req[r] EXCEPT !.todo = @ \ {l}]} : req' = [req EXCEPT ![r] = q]
      BY <1>22 DEF NoModule, TypeInv, ReqOK
    <2>2. /\ q.phase = "revoke" /\ q.refund = req[r].refund /\ q.saved = req[r].saved
          /\ q.granted = req[r].granted /\ q.status = req[r].status
      BY <1>0, <1>22 DEF NoModule, Turn, Known, Request
    <2>. QED
      BY <1>17, <1>22, <2>1, <2>2 DEF NoModule, Turn, db, outside, history
  <1>23. CASE FinishRevocation(r)
    <2>1. CASE req[r].store /\ ~req[r].ok
      BY <1>23, <2>1, AbortKeepsLedger DEF FinishRevocation, outside
    <2>2. CASE ~(req[r].store /\ ~req[r].ok)
      <3>1. PICK q \in {[req[r] EXCEPT !.status = Verdict(req[r]), !.saved = TRUE]} :
              End(r, q)
        BY <1>23, <2>2 DEF FinishRevocation
      <3>2. Verdict(req[r]) \in SettledStatus /\ Verdict(req[r]) \in RefundStatus
        BY DEF Verdict, RefundStatus, SettledStatus
      <3>3. /\ q \in Known /\ q.phase = "revoke" /\ q.refund = req[r].refund
            /\ q.saved /\ q.status \in SettledStatus /\ q.granted = req[r].granted
        BY <1>0, <1>23, <3>2 DEF FinishRevocation, Request, Known
      <3>4. UNCHANGED <<ledger, lost>>
        BY <1>23, <2>2 DEF FinishRevocation, outside
      <3>. QED
        BY <1>13, <3>1, <3>3, <3>4
    <2>. QED
      BY <2>1, <2>2
  <1>24. CASE Deny(r)
    <2>. DEFINE w == [l \in Lines |->
                       IF l \in Present(req[r])
                          /\ LineMayMove(LinesSeen(req[r])[l], Denied)
                       THEN Denied ELSE Unwritten]
    <2>1. PICK q \in {[req[r] EXCEPT !.status = Denied, !.saved = TRUE, !.wrote = w]} :
            End(r, q)
      BY <1>24 DEF Deny
    <2>2. w \in [Lines -> LineStatus \cup {Unwritten}] /\ Denied \in RefundStatus
      BY DEF LineStatus, RefundStatus
    <2>. HIDE DEF w
    <2>3. /\ q \in Known /\ q.refund \in Refunds /\ q.refund = req[r].refund
          /\ q.phase = "deny" /\ q.status = Denied /\ q.granted = req[r].granted
      BY <1>0, <1>24, <2>2 DEF Deny, Request, Known
    <2>4. Tells(q) /\ Carries(r, q)
      BY <1>0, <1>24, <2>3, NotSettled DEF Tells, Deny, Carries
    <2>. QED
      BY <1>24, <2>1, <2>3, <2>4, SaveKeepsLedger DEF Deny, outside, history
  <1>. QED
    BY <1>2, <1>3, <1>4, <1>5, <1>6, <1>7, <1>8, <1>9, <1>10, <1>11, <1>12, <1>14,
       <1>15, <1>16, <1>18, <1>20, <1>21, <1>22, <1>23, <1>24, <1>25 DEF Step

LEMMA LedgerInvInductive ==
  ASSUME OneAtATime
  PROVE  /\ Init => TypeInv /\ LedgerInv
         /\ TypeInv /\ LedgerInv /\ [Next]_vars => TypeInv' /\ LedgerInv'
  <1>1. ASSUME Init PROVE TypeInv /\ LedgerInv
    <2>1. \A f \in Refunds : ledger[f] = 0 /\ lost[f] = 0
      BY <1>1 DEF Init
    <2>2. \A f \in Refunds : Accounted(f)
      BY <2>1 DEF Accounted
    <2>3. \A r \in Requests : Tells(req[r])
      BY <1>1, NoRequestTells DEF Init
    <2>. QED
      BY <1>1, <2>2, <2>3, InitTypes DEF LedgerInv
  <1>2. ASSUME TypeInv, LedgerInv, [Next]_vars PROVE TypeInv' /\ LedgerInv'
    <2>1. CASE StoreGivesMoneyBack \/ UNCHANGED vars
      <3>1. UNCHANGED <<status, ledger, lost, req>>
        BY <2>1 DEF StoreGivesMoneyBack, vars, db, outside, history
      <3>. QED
        BY <1>2, <3>1, TypeInvInductive DEF LedgerInv, Accounted, Pending, Tells
    <2>. QED
      BY <1>2, <2>1, StepKeepsLedger, TypeInvInductive DEF Next
  <1>. QED
    BY <1>1, <1>2

(* A refund is credited once, but for credits whose answer or transaction  *)
(* was lost, for any order and any number of attempts.                     *)
THEOREM SerialCreditedOnce ==
  ASSUME OneAtATime
  PROVE  Spec => []CreditedOnce
  <1>1. TypeInv /\ LedgerInv => CreditedOnce
    <2>. SUFFICES ASSUME TypeInv, LedgerInv, NEW f \in Refunds
                  PROVE  ledger[f] <= 1 + lost[f]
      BY DEF CreditedOnce
    <2>1. lost[f] \in Nat
      BY DEF TypeInv, HistoryOK, LostOK
    <2>. QED
      BY <2>1 DEF LedgerInv, Accounted
  <1>. QED
    BY <1>1, LedgerInvInductive, PTL DEF Spec

(* Between attempts, a refund the database calls unpaid gave no money back *)
(* but what was lost: the next attempt may credit it.                      *)
THEOREM SerialUnsettledUncredited ==
  ASSUME OneAtATime
  PROVE  Spec => []UnsettledMeansUncredited
  <1>1. LedgerInv => UnsettledMeansUncredited
    <2>. SUFFICES ASSUME LedgerInv, Idle, NEW f \in Refunds, ~Settled(f)
                  PROVE  ledger[f] = lost[f]
      BY DEF UnsettledMeansUncredited
    <2>1. ~Pending(f)
      BY DEF Pending, LedgerInv, Tells, Idle
    <2>. QED
      BY <2>1 DEF LedgerInv, Accounted, Settled, SettledStatus
  <1>. QED
    BY <1>1, LedgerInvInductive, PTL DEF Spec

-----------------------------------------------------------------------------
(* The lines.  A line is live in a refund that may still be paid.          *)
Live(f, l) == rline[f][l] \notin {Absent, Denied}

(* No other refund has the line.                                           *)
Held(q, l) == \A f \in Refunds \ {q.refund} : ~Live(f, l)

Closed == {Complete, Denied}

(* What a request is about to commit: no closed refund or line among it,   *)
(* and no line another refund has.                                         *)
Committable(q) ==
  /\ q.refund \in Refunds
  /\ status[q.refund] \notin Closed
  /\ q.saved \/ status[q.refund] # Absent
  /\ \A l \in Lines : q.wrote[l] # Unwritten => rline[q.refund][l] \notin Closed
  /\ \A l \in Lines : q.wrote[l] \notin {Unwritten, Denied} => Held(q, l)

Steady(q) ==
  /\ q.refund \in Refunds => Committable(q)
  /\ q.refund \notin Refunds => \A l \in Lines : q.wrote[l] = Unwritten
  /\ q.phase # "idle" => q.status \notin Closed
  /\ q.phase = "insert" =>
       \A l \in q.todo :
         /\ Held(q, l) /\ q.wrote[l] = Unwritten
         /\ q.refund \in Refunds => rline[q.refund][l] = Absent
  /\ q.phase = "revoke" => \A l \in q.todo : q.line[l] = LinesSeen(q)[l]

LineInv ==
  /\ OneLiveRefundPerLine
  /\ \A f \in Refunds : status[f] = Absent => \A l \in Lines : rline[f][l] = Absent
  /\ \A r \in Requests : Steady(req[r])

(* The property FinalStatusesStay, without its box.                        *)
FinalStays ==
  \A f \in Refunds :
    /\ status[f] # Absent /\ RefundPipeline(status[f]) = {} => status'[f] = status[f]
    /\ \A l \in Lines :
         rline[f][l] # Absent /\ LinePipeline(rline[f][l]) = {} =>
           rline'[f][l] = rline[f][l]

LineStep == LineInv' /\ FinalStays

LEMMA FinalIsClosed ==
  /\ \A s \in RefundStatus : RefundPipeline(s) = {} => s \in Closed
  /\ \A s \in LineStatus : LinePipeline(s) = {} => s \in Closed
  /\ \A s \in LineStatus \cup {Absent}, t \in LineStatus :
       LineMayMove(s, t) => s \in {Open, RevocationError}
  BY DEF RefundStatus, LineStatus, RefundPipeline, LinePipeline, LineMayMove, Closed,
         Open, Denied, PaymentRefundError, PaymentRefunded, RevocationError, Complete,
         Absent

LEMMA LineStatusesDistinct ==
  /\ {Open, RevocationError} \cap (Closed \cup {Absent, Unwritten}) = {}
  /\ Closed \cap {Absent, Unwritten} = {} /\ Absent # Unwritten
  /\ Complete # Denied
  BY DEF Closed, Open, Denied, RevocationError, Complete, Absent, Unwritten

LEMMA NoRequestSteady == Steady(NoRequest)
  BY RefundAssumption DEF Steady, NoRequest

(* A line seen open by the request is open in the database, or written by  *)
(* the request itself: in no other refund either way.                      *)
LEMMA OpenSeen ==
  ASSUME TypeInv, LineInv, NEW q \in Known, Steady(q), q.refund \in Refunds,
         NEW l \in Lines, LinesSeen(q)[l] \in {Open, RevocationError}
  PROVE  rline[q.refund][l] \notin Closed /\ Held(q, l)
  <1>1. CASE q.wrote[l] # Unwritten
    <2>1. q.wrote[l] \in {Open, RevocationError}
      BY <1>1 DEF LinesSeen, Overlay
    <2>. QED
      BY <1>1, <2>1, LineStatusesDistinct DEF Steady, Committable, Closed
  <1>2. CASE q.wrote[l] = Unwritten
    <2>1. rline[q.refund][l] \in {Open, RevocationError}
      BY <1>2 DEF LinesSeen, Overlay
    <2>2. Live(q.refund, l)
      BY <2>1, LineStatusesDistinct DEF Live, Closed
    <2>. QED
      BY <2>1, <2>2, LineStatusesDistinct
      DEF LineInv, OneLiveRefundPerLine, Held, Live
  <1>. QED
    BY <1>1, <1>2

LEMMA MoveKeepsLines ==
  ASSUME OneAtATime, TypeInv, LineInv, NEW r \in Requests, NEW p,
         req' = [req EXCEPT ![r] = p], UNCHANGED <<status, rline>>, Steady(p)
  PROVE  LineStep
  <1>1. \A s \in Requests : s = r /\ req'[s] = p
    BY DEF OneAtATime, TypeInv, ReqOK
  <1>2. Steady(p)'
    BY DEF Steady, Committable, Held, Live, LinesSeen, Overlay
  <1>3. \A s \in Requests : Steady(req[s])'
    BY <1>1, <1>2
  <1>4. FinalStays
    BY DEF FinalStays
  <1>. QED
    BY <1>3, <1>4 DEF LineStep, LineInv, OneLiveRefundPerLine

LEMMA CommitKeepsLines ==
  ASSUME OneAtATime, TypeInv, LineInv, NEW r \in Requests, NEW q \in Known,
         Committable(q), Commit(q), NEW p, req' = [req EXCEPT ![r] = p],
         \/ p = NoRequest
         \/ p = Flushed(q) /\ Steady(q) /\ q.phase # "idle"
  PROVE  LineStep
  <1>. DEFINE f == q.refund
  <1>0. /\ f \in Refunds
        /\ status \in [Refunds -> RefundStatus \cup {Absent}]
        /\ rline \in [Refunds -> [Lines -> LineStatus \cup {Absent}]]
        /\ q.status \in RefundStatus /\ q.status # Absent
        /\ \A s \in Requests : s = r /\ req'[s] = p
    BY StatusesDistinct DEF OneAtATime, Committable, TypeInv, ReqOK, DbOK, Known, Request
  <1>1. /\ \A g \in Refunds \ {f} : status'[g] = status[g] /\ rline'[g] = rline[g]
        /\ rline'[f] = Overlay(q.wrote, rline[f])
        /\ status'[f] = IF q.saved THEN q.status ELSE status[f]
    BY <1>0 DEF Commit
  <1>2. \A l \in Lines :
          rline'[f][l] = IF q.wrote[l] = Unwritten THEN rline[f][l] ELSE q.wrote[l]
    BY <1>1 DEF Overlay
  <1>3. status'[f] # Absent
    BY <1>0, <1>1 DEF Committable
  <1>4. FinalStays
    <2>1. ASSUME NEW g \in Refunds, status[g] # Absent, RefundPipeline(status[g]) = {}
          PROVE  status'[g] = status[g]
      <3>1. status[g] \in Closed
        BY <1>0, <2>1, FinalIsClosed
      <3>. QED
        BY <1>1, <3>1 DEF Committable
    <2>2. ASSUME NEW g \in Refunds, NEW l \in Lines, rline[g][l] # Absent,
                 LinePipeline(rline[g][l]) = {}
          PROVE  rline'[g][l] = rline[g][l]
      <3>0. rline[g][l] \in LineStatus
        BY <1>0, <2>2
      <3>1. rline[g][l] \in Closed
        BY <2>2, <3>0, FinalIsClosed
      <3>. QED
        BY <1>1, <1>2, <3>1 DEF Committable
    <2>. QED
      BY <2>1, <2>2 DEF FinalStays
  <1>5. \A g \in Refunds, l \in Lines :
          Live(g, l)' /\ ~Live(g, l) => g = f /\ Held(q, l)
    <2>. SUFFICES ASSUME NEW g \in Refunds, NEW l \in Lines, Live(g, l)', ~Live(g, l)
                  PROVE  g = f /\ Held(q, l)
      OBVIOUS
    <2>1. g = f
      BY <1>1 DEF Live
    <2>2. rline'[f][l] \notin {Absent, Denied} /\ rline[f][l] \in {Absent, Denied}
      BY <2>1 DEF Live
    <2>3. q.wrote[l] \notin {Unwritten, Denied}
      BY <1>2, <2>2
    <2>. QED
      BY <2>1, <2>3 DEF Committable
  <1>6. \A g \in Refunds \ {f}, l \in Lines : Live(g, l)' <=> Live(g, l)
    BY <1>1 DEF Live
  <1>7. OneLiveRefundPerLine'
    <2>. SUFFICES ASSUME NEW l \in Lines, NEW g \in Refunds, NEW h \in Refunds,
                         Live(g, l)', Live(h, l)', g # h
                  PROVE  FALSE
      BY DEF OneLiveRefundPerLine, Live
    <2>1. CASE Live(g, l) /\ Live(h, l)
      BY <2>1 DEF LineInv, OneLiveRefundPerLine, Live
    <2>2. CASE ~Live(g, l)
      BY <1>5, <1>6, <2>2 DEF Held
    <2>3. CASE ~Live(h, l)
      BY <1>5, <1>6, <2>3 DEF Held
    <2>. QED
      BY <2>1, <2>2, <2>3
  <1>8. \A g \in Refunds : status'[g] = Absent => \A l \in Lines : rline'[g][l] = Absent
    BY <1>1, <1>3 DEF LineInv
  <1>9. Steady(p)'
    <2>1. CASE p = NoRequest
      BY <2>1, RefundAssumption DEF Steady, NoRequest
    <2>2. CASE p = Flushed(q) /\ Steady(q) /\ q.phase # "idle"
      <3>1. /\ p.refund = f /\ p.phase = q.phase /\ p.status = q.status
            /\ p.todo = q.todo /\ p.line = q.line
            /\ \A l \in Lines : p.wrote[l] = Unwritten
        BY <2>2 DEF Flushed, Known, Request
      <3>2. status'[f] \notin Closed
        BY <1>1, <2>2 DEF Steady, Committable
      <3>3. Committable(p)'
        BY <1>0, <1>3, <3>1, <3>2 DEF Committable
      <3>4. ASSUME q.phase = "insert", NEW l \in q.todo
            PROVE  Held(p, l)' /\ rline'[f][l] = Absent
        <4>1. l \in Lines /\ Held(q, l) /\ q.wrote[l] = Unwritten /\ rline[f][l] = Absent
          BY <1>0, <2>2, <3>4 DEF Steady, Known, Request
        <4>. QED
          BY <1>2, <1>6, <3>1, <4>1 DEF Held
      <3>5. ASSUME q.phase = "revoke", NEW l \in q.todo
            PROVE  p.line[l] = LinesSeen(p)'[l]
        <4>1. l \in Lines /\ q.line[l] = LinesSeen(q)[l]
          BY <2>2, <3>5 DEF Steady, Known, Request
        <4>. QED
          BY <1>2, <3>1, <4>1 DEF LinesSeen, Overlay
      <3>6. p.phase = "insert" =>
              \A l \in p.todo : /\ Held(p, l)' /\ p.wrote[l] = Unwritten
                                /\ rline'[p.refund][l] = Absent
        <4>. SUFFICES ASSUME p.phase = "insert", NEW l \in p.todo
                      PROVE  /\ Held(p, l)' /\ p.wrote[l] = Unwritten
                             /\ rline'[p.refund][l] = Absent
          OBVIOUS
        <4>1. l \in Lines
          BY <3>1 DEF Known, Request
        <4>. QED
          BY <3>1, <3>4, <4>1
      <3>7. p.phase = "revoke" => \A l \in p.todo : p.line[l] = LinesSeen(p)'[l]
        BY <3>1, <3>5
      <3>8. p.refund \in Refunds /\ p.status \notin Closed
        BY <1>0, <2>2, <3>1 DEF Steady
      <3>. QED
        BY <3>3, <3>6, <3>7, <3>8 DEF Steady
    <2>. QED
      BY <2>1, <2>2
  <1>10. \A s \in Requests : Steady(req[s])'
    BY <1>0, <1>9
  <1>. QED
    BY <1>4, <1>7, <1>8, <1>10 DEF LineStep, LineInv

LEMMA SaveKeepsLines ==
  ASSUME OneAtATime, TypeInv, LineInv, NEW r \in Requests, NEW q \in Known,
         \/ Save(r, q) /\ Steady(q) /\ q.phase # "idle" /\ q.refund \in Refunds
         \/ End(r, q) /\ Committable(q)
  PROVE  LineStep
  <1>1. CASE End(r, q) /\ Committable(q)
    BY <1>1, CommitKeepsLines DEF End
  <1>2. CASE Save(r, q) /\ Steady(q) /\ q.phase # "idle" /\ q.refund \in Refunds
    <2>1. CASE q.txn
      BY <1>2, <2>1, MoveKeepsLines DEF Save, db
    <2>2. CASE ~q.txn
      BY <1>2, <2>2, CommitKeepsLines DEF Save, Steady
    <2>. QED
      BY <2>1, <2>2
  <1>. QED
    BY <1>1, <1>2

LEMMA AbortKeepsLines ==
  ASSUME OneAtATime, TypeInv, LineInv, NEW r \in Requests, Abort(r)
  PROVE  LineStep
  BY NoRequestSteady, MoveKeepsLines DEF Abort, db

(* A request that writes nothing more stays committable.                   *)
LEMMA SameWrites ==
  ASSUME NEW q, NEW p, Steady(q), q.refund \in Refunds, p.refund = q.refund,
         p.wrote = q.wrote, q.saved => p.saved
  PROVE  Committable(p)
  BY DEF Steady, Committable, Held

LEMMA StepKeepsLines ==
  ASSUME OneAtATime, TypeInv, LineInv, NEW r \in Requests, Step(r)
  PROVE  LineStep
  <1>0. req[r] \in Known /\ Steady(req[r])
    BY DEF TypeInv, ReqOK, LineInv
  <1>. DEFINE wrote == req[r].wrote
  <1>n. NoRequest \in Request /\ \A l \in Lines : NoRequest.wrote[l] = Unwritten
    BY NoRequestType DEF NoRequest, Known
  (* A request that starts.                                                *)
  <1>1. CASE \/ BeginCommand(r)
             \/ \E course \in SUBSET Lines :
                  BeginCreate(r, course) \/ BeginStoreRefund(r, course)
    <2>0. Untouched \subseteq Unrefunded
      BY DEF Untouched, Unrefunded
    <2>1. PICK lines \in SUBSET Unrefunded : \E t, b : Select(r, lines, t, b)
      BY <1>1, <2>0 DEF BeginCommand, BeginCreate, BeginStoreRefund
    <2>2. PICK t, b : Select(r, lines, t, b)
      BY <2>1
    <2>3. PICK q \in {[NoRequest EXCEPT !.phase = "insert", !.txn = t, !.store = b,
                                        !.covers = lines, !.todo = lines]} :
            req' = [req EXCEPT ![r] = q]
      BY <2>2 DEF Select
    <2>w. q.wrote = NoRequest.wrote
      BY <1>n DEF Request
    <2>4. /\ q.phase = "insert" /\ q.refund = NoRefund /\ q.status = Open
          /\ q.todo = lines /\ \A l \in Lines : q.wrote[l] = Unwritten
      <3>1. q.phase = "insert" /\ q.refund = NoRefund /\ q.status = Open /\ q.todo = lines
        BY DEF NoRequest
      <3>. QED
        BY <1>n, <2>w, <3>1
    <2>5. \A l \in lines : l \in Lines /\ Held(q, l)
      BY DEF Unrefunded, Held, Live
    <2>6. Steady(q)
      BY <2>4, <2>5, RefundAssumption, LineStatusesDistinct DEF Steady
    <2>. QED
      BY <2>2, <2>3, <2>6, MoveKeepsLines DEF Select, db
  <1>2. ASSUME NEW f \in Refunds, NEW q, req' = [req EXCEPT ![r] = q],
               UNCHANGED <<status, rline>>, status[f] \notin Closed \cup {Absent},
               q.refund = f, q.phase \in {"credit", "settled", "deny"},
               q.status \notin Closed, \A l \in Lines : q.wrote[l] = Unwritten
        PROVE  LineStep
    <2>1. Steady(q)
      BY <1>2 DEF Steady, Committable
    <2>. QED
      BY <1>2, <2>1, MoveKeepsLines
  <1>3. ASSUME NEW f \in Refunds, NEW payOnly \in BOOLEAN, BeginApprove(r, f, payOnly)
        PROVE  LineStep
    <2>1. PICK q \in {[NoRequest EXCEPT
             !.phase = IF status[f] \in {Open, PaymentRefundError}
                       THEN "credit" ELSE "settled",
             !.txn = TRUE, !.payOnly = payOnly, !.refund = f, !.status = status[f],
             !.covers = covers[f], !.source = source]} : req' = [req EXCEPT ![r] = q]
      BY <1>3 DEF BeginApprove
    <2>w. q.wrote = NoRequest.wrote
      BY <1>n DEF Request
    <2>2. /\ q.refund = f /\ q.status = status[f] /\ q.phase \in {"credit", "settled"}
          /\ \A l \in Lines : q.wrote[l] = Unwritten
      <3>1. q.refund = f /\ q.status = status[f] /\ q.phase \in {"credit", "settled"}
        BY DEF NoRequest
      <3>. QED
        BY <1>n, <2>w, <3>1
    <2>3. status[f] \notin Closed \cup {Absent}
      BY <1>3, StatusesDistinct DEF BeginApprove, Closed
    <2>. QED
      BY <1>2, <1>3, <2>1, <2>2, <2>3 DEF BeginApprove, db
  <1>4. ASSUME NEW f \in Refunds, BeginDeny(r, f) PROVE LineStep
    <2>1. PICK q \in {[NoRequest EXCEPT !.phase = "deny", !.txn = TRUE, !.refund = f,
                                        !.covers = covers[f]]} :
            req' = [req EXCEPT ![r] = q]
      BY <1>4 DEF BeginDeny
    <2>w. q.wrote = NoRequest.wrote
      BY <1>n DEF Request
    <2>2. /\ q.refund = f /\ q.status = Open /\ q.phase = "deny"
          /\ \A l \in Lines : q.wrote[l] = Unwritten
      <3>1. q.refund = f /\ q.status = Open /\ q.phase = "deny"
        BY DEF NoRequest
      <3>. QED
        BY <1>n, <2>w, <3>1
    <2>3. status[f] \notin Closed \cup {Absent} /\ q.status \notin Closed
      BY <1>4, <2>2, LineStatusesDistinct DEF BeginDeny
    <2>. QED
      BY <1>2, <1>4, <2>1, <2>2, <2>3 DEF BeginDeny, db
  (* Creating: the new refund has no line yet, and no other has its lines. *)
  <1>5. CASE InsertRefund(r)
    <2>1. PICK f \in Refunds :
            /\ Free(f)
            /\ \E q \in {[req[r] EXCEPT !.refund = f, !.new = TRUE, !.saved = TRUE]} :
                 Save(r, q)
      BY <1>5 DEF InsertRefund
    <2>2. PICK q \in {[req[r] EXCEPT !.refund = f, !.new = TRUE, !.saved = TRUE]} :
            Save(r, q)
      BY <2>1
    <2>3. /\ q \in Known /\ q.refund = f /\ q.phase = "insert" /\ q.saved
          /\ q.status = req[r].status /\ q.todo = req[r].todo /\ q.wrote = wrote
      BY <1>0, <1>5 DEF InsertRefund, Request, Known
    <2>4. req[r].refund \notin Refunds /\ req[r].phase = "insert"
      BY <1>5, RefundAssumption DEF InsertRefund
    <2>5. \A l \in Lines : q.wrote[l] = Unwritten /\ rline[f][l] = Absent
      BY <1>0, <2>1, <2>3, <2>4 DEF Steady, Free, LineInv
    <2>6. status[f] \notin Closed
      BY <2>1, LineStatusesDistinct DEF Free
    <2>7. \A l \in q.todo : l \in Lines /\ Held(q, l)
      BY <1>0, <2>3, <2>4 DEF Steady, Held, Known, Request
    <2>8. Committable(q)
      BY <2>3, <2>5, <2>6 DEF Committable
    <2>9. Steady(q)
      BY <1>0, <2>3, <2>4, <2>5, <2>7, <2>8 DEF Steady
    <2>. QED
      BY <2>2, <2>3, <2>9, SaveKeepsLines
  <1>6. ASSUME NEW l \in Lines, InsertLine(r, l) PROVE LineStep
    <2>1. PICK q \in {[req[r] EXCEPT !.wrote[l] = InitialLineStatus,
                                     !.todo = @ \ {l}]} : Save(r, q)
      BY <1>6 DEF InsertLine
    <2>2. PICK w \in [Lines -> LineStatus \cup {Unwritten}] :
            w = [wrote EXCEPT ![l] = InitialLineStatus]
      BY <1>0 DEF Known, Request, InitialLineStatus, LineStatus
    <2>3. q = [req[r] EXCEPT !.wrote = w, !.todo = @ \ {l}]
      BY <2>1, <2>2
    <2>w. \A m \in Lines \ {l} : w[m] = wrote[m]
      BY <1>0, <2>2 DEF Known, Request
    <2>4. /\ q \in Known /\ q.refund = req[r].refund /\ q.phase = "insert"
          /\ q.status = req[r].status /\ q.refund \in Refunds
          /\ q.saved = req[r].saved /\ q.wrote = w /\ q.todo = req[r].todo \ {l}
          /\ req[r].todo \subseteq Lines
      BY <1>0, <1>6, <2>3 DEF InsertLine, Request, Known
    <2>5. /\ req[r].phase = "insert" /\ l \in req[r].todo
          /\ \A m \in req[r].todo : Held(q, m) /\ wrote[m] = Unwritten
                                    /\ rline[q.refund][m] = Absent
      BY <1>0, <1>6, <2>4 DEF InsertLine, Steady, Held
    <2>6. Committable(q)
      BY <1>0, <2>w, <2>4, <2>5, LineStatusesDistinct
      DEF Steady, Committable, Held
    <2>7. Steady(q)
      BY <1>0, <2>w, <2>4, <2>5, <2>6 DEF Steady
    <2>. QED
      BY <2>1, <2>4, <2>7, SaveKeepsLines
  <1>7. CASE EndCreate(r) \/ NothingToPay(r)
    <2>1. req[r].refund \in Refunds /\ End(r, req[r])
      BY <1>0, <1>7 DEF EndCreate, NothingToPay, Inserted, Known, Request
    <2>. QED
      BY <1>0, <2>1, SaveKeepsLines DEF Steady
  (* The credit touches no line.                                           *)
  <1>8. ASSUME NEW q, req' = [req EXCEPT ![r] = q], UNCHANGED <<status, rline>>,
               q.phase \in {"credit", "book"}, req[r].phase \in {"insert", "credit"},
               q.refund = req[r].refund, q.refund \in Refunds, q.saved = req[r].saved,
               q.wrote = wrote, q.status = req[r].status
        PROVE  LineStep
    <2>1. Committable(q)
      BY <1>0, <1>8, SameWrites
    <2>2. Steady(q)
      BY <1>0, <1>8, <2>1 DEF Steady
    <2>. QED
      BY <1>8, <2>2, MoveKeepsLines
  <1>9. CASE ApproveAtOnce(r)
    <2>1. PICK q \in {[req[r] EXCEPT !.phase = "credit", !.source = source]} :
            req' = [req EXCEPT ![r] = q]
      BY <1>9 DEF ApproveAtOnce, TypeInv, ReqOK
    <2>2. /\ q.refund = req[r].refund /\ q.phase = "credit" /\ q.wrote = wrote
          /\ q.status = req[r].status /\ q.saved = req[r].saved
          /\ req[r].phase = "insert" /\ q.refund \in Refunds
      BY <1>0, <1>9 DEF ApproveAtOnce, Inserted, Known, Request
    <2>. QED
      BY <1>8, <1>9, <2>1, <2>2 DEF ApproveAtOnce, db
  <1>10. CASE Credited(r)
    <2>1. PICK granted \in BOOLEAN : Paid(r, granted)
      BY <1>10 DEF Credited
    <2>2. PICK q \in {[req[r] EXCEPT !.phase = "book", !.paid = TRUE,
                                     !.granted = granted]} :
            req' = [req EXCEPT ![r] = q]
      BY <2>1 DEF Paid, TypeInv, ReqOK
    <2>3. /\ q.refund = req[r].refund /\ q.phase = "book" /\ q.wrote = wrote
          /\ q.status = req[r].status /\ q.saved = req[r].saved
          /\ req[r].phase = "credit" /\ q.refund \in Refunds
      BY <1>0, <1>10 DEF Credited, Crediting, Known, Request
    <2>. QED
      BY <1>8, <1>10, <2>2, <2>3 DEF Credited, db
  <1>11. CASE NothingToCredit(r)
    <2>1. PICK q \in {[req[r] EXCEPT !.phase = "book"]} : req' = [req EXCEPT ![r] = q]
      BY <1>11 DEF NothingToCredit, TypeInv, ReqOK
    <2>2. /\ q.refund = req[r].refund /\ q.phase = "book" /\ q.wrote = wrote
          /\ q.status = req[r].status /\ q.saved = req[r].saved
          /\ req[r].phase = "credit" /\ q.refund \in Refunds
      BY <1>0, <1>11 DEF NothingToCredit, Known, Request
    <2>. QED
      BY <1>8, <1>11, <2>1, <2>2 DEF NothingToCredit, db
  <1>12. CASE CreditFailed(r)
    <2>1. PICK q \in {[req[r] EXCEPT !.status = PaymentRefundError, !.saved = TRUE]} :
            End(r, q)
      BY <1>12 DEF CreditFailed
    <2>2. /\ q \in Known /\ q.refund = req[r].refund /\ q.refund \in Refunds
          /\ q.wrote = wrote /\ q.saved
      BY <1>0, <1>12 DEF CreditFailed, Crediting, Known, Request, RefundStatus
    <2>. QED
      BY <1>0, <2>1, <2>2, SameWrites, SaveKeepsLines
  <1>13. CASE CreditRaises(r) \/ Crash(r)
    BY <1>13, AbortKeepsLines DEF CreditRaises, Crash
  <1>14. CASE Book(r)
    <2>1. PICK q \in {[req[r] EXCEPT
                        !.phase = "settled", !.status = PaymentRefunded,
                        !.saved = TRUE, !.books = req[r].paid,
                        !.frees = FreesOffer(req[r])]} : Save(r, q)
      BY <1>14 DEF Book
    <2>2. FreesOffer(req[r]) \in BOOLEAN
      BY OrderAssumption, Zenon DEF FreesOffer
    <2>3. /\ q \in Known /\ q.phase = "settled" /\ q.refund = req[r].refund
          /\ q.saved /\ q.status = PaymentRefunded /\ q.wrote = wrote
          /\ q.refund \in Refunds
      BY <1>0, <1>14, <2>2 DEF Book, Request, Known, RefundStatus
    <2>4. PaymentRefunded \notin Closed
      BY DEF Closed, PaymentRefunded, Complete, Denied
    <2>5. Committable(q)
      BY <1>0, <2>3, SameWrites
    <2>6. Steady(q)
      BY <2>3, <2>4, <2>5 DEF Steady
    <2>. QED
      BY <2>1, <2>3, <2>6, SaveKeepsLines
  <1>25. CASE BookCutShort(r)
    <2>1. PICK q \in Known :
            /\ End(r, q)
            /\ q \in {[req[r] EXCEPT !.books = req[r].paid],
                      [req[r] EXCEPT !.status = PaymentRefunded, !.saved = TRUE,
                                     !.books = req[r].paid]}
      BY <1>0, <1>25, CutShortSaves
    <2>2. /\ q.refund = req[r].refund /\ q.refund \in Refunds
          /\ q.wrote = wrote /\ (req[r].saved => q.saved)
      BY <1>0, <1>25, <2>1 DEF BookCutShort, Known, Request
    <2>. QED
      BY <1>0, <2>1, <2>2, SameWrites, SaveKeepsLines
  (* A line moves only from Open or Revocation Error, as the request sees it.*)
  <1>15. ASSUME NEW l \in Lines, NEW s \in LineStatus, req[r].refund \in Refunds,
                LineMayMove(LinesSeen(req[r])[l], s)
         PROVE  rline[req[r].refund][l] \notin Closed /\ Held(req[r], l)
    <2>1. LinesSeen(req[r])[l] \in LineStatus \cup {Absent}
      BY <1>0, <1>15 DEF LinesSeen, Overlay, Known, Request, TypeInv, DbOK
    <2>2. LinesSeen(req[r])[l] \in {Open, RevocationError}
      BY <1>15, <2>1, FinalIsClosed
    <2>. QED
      BY <1>0, <1>15, <2>2, OpenSeen
  <1>16. CASE CompleteWithoutRevoking(r)
    <2>1. CASE \A l \in Present(req[r]) : LineMayMove(LinesSeen(req[r])[l], Complete)
      <3>. DEFINE w == [l \in Lines |-> IF l \in Present(req[r])
                                        THEN Complete ELSE Unwritten]
      <3>1. PICK q \in {[req[r] EXCEPT !.status = Complete, !.saved = TRUE,
                                       !.wrote = w]} : End(r, q)
        BY <1>16, <2>1 DEF CompleteWithoutRevoking
      <3>2. /\ w \in [Lines -> LineStatus \cup {Unwritten}]
            /\ Complete \in RefundStatus /\ Complete \in LineStatus
            /\ \A l \in Lines : w[l] # Unwritten => l \in Present(req[r])
        BY DEF LineStatus, RefundStatus
      <3>. HIDE DEF w
      <3>3. /\ q \in Known /\ q.refund = req[r].refund /\ q.saved /\ q.wrote = w
            /\ req[r].refund \in Refunds
        BY <1>0, <1>16, <3>2 DEF CompleteWithoutRevoking, Request, Known
      <3>4. \A l \in Lines : w[l] # Unwritten =>
              rline[req[r].refund][l] \notin Closed /\ Held(req[r], l)
        BY <1>15, <2>1, <3>2, <3>3
      <3>5. Committable(q)
        BY <1>0, <3>3, <3>4 DEF Steady, Committable, Held
      <3>. QED
        BY <3>1, <3>3, <3>5, SaveKeepsLines
    <2>2. CASE ~\A l \in Present(req[r]) : LineMayMove(LinesSeen(req[r])[l], Complete)
      BY <1>16, <2>2, AbortKeepsLines DEF CompleteWithoutRevoking
    <2>. QED
      BY <2>1, <2>2
  <1>17. ASSUME NEW q, req' = [req EXCEPT ![r] = q], UNCHANGED <<status, rline>>,
                q.phase = "revoke", q.refund = req[r].refund, q.wrote = wrote,
                q.status = req[r].status, q.saved = req[r].saved,
                req[r].phase \in {"settled", "revoke"},
                \A l \in q.todo : l \in Lines /\ q.line[l] = LinesSeen(req[r])[l]
         PROVE  LineStep
    <2>1. req[r].refund \in Refunds
      BY <1>0, <1>17 DEF Known
    <2>2. Committable(q)
      BY <1>0, <1>17, <2>1, SameWrites
    <2>3. LinesSeen(q) = LinesSeen(req[r])
      BY <1>17 DEF LinesSeen, Overlay
    <2>4. Steady(q)
      BY <1>0, <1>17, <2>1, <2>2, <2>3 DEF Steady
    <2>. QED
      BY <1>17, <2>4, MoveKeepsLines
  <1>18. CASE StartRevocation(r)
    <2>1. PICK q \in {[req[r] EXCEPT !.phase = "revoke", !.line = LinesSeen(req[r]),
                                     !.todo = Present(req[r])]} :
            req' = [req EXCEPT ![r] = q]
      BY <1>18 DEF StartRevocation, TypeInv, ReqOK
    <2>2. /\ q.phase = "revoke" /\ q.refund = req[r].refund /\ q.saved = req[r].saved
          /\ q.wrote = wrote /\ q.status = req[r].status
          /\ q.todo = Present(req[r]) /\ q.line = LinesSeen(req[r])
      BY <1>0 DEF Known, Request
    <2>3. Present(req[r]) \subseteq Lines
      BY DEF Present
    <2>. QED
      BY <1>17, <1>18, <2>1, <2>2, <2>3 DEF StartRevocation, db
  <1>19. ASSUME NEW l \in Lines, NEW s \in LineStatus, Turn(r, l), SetLine(r, l, s)
         PROVE  LineStep
    <2>1. CASE LineMayMove(req[r].line[l], s)
      <3>1. PICK q \in {[req[r] EXCEPT !.wrote[l] = s, !.todo = @ \ {l},
                                       !.ok = IF s = Complete THEN @ ELSE FALSE]} :
              Save(r, q)
        BY <1>19, <2>1 DEF SetLine
      <3>2. PICK w \in [Lines -> LineStatus \cup {Unwritten}] :
              w = [wrote EXCEPT ![l] = s]
        BY <1>0 DEF Known, Request
      <3>w. \A m \in Lines \ {l} : w[m] = wrote[m]
        BY <1>0, <3>2 DEF Known, Request
      <3>3. PICK b \in BOOLEAN : b = IF s = Complete THEN req[r].ok ELSE FALSE
        BY <1>0 DEF Known, Request
      <3>4. q = [req[r] EXCEPT !.wrote = w, !.todo = @ \ {l}, !.ok = b]
        BY <3>1, <3>2, <3>3
      <3>5. /\ q \in Known /\ q.phase = "revoke" /\ q.refund = req[r].refund
            /\ q.saved = req[r].saved /\ q.status = req[r].status
            /\ q.refund \in Refunds /\ q.wrote = w /\ q.line = req[r].line
            /\ q.todo = req[r].todo \ {l} /\ req[r].todo \subseteq Lines
            /\ req[r].phase = "revoke" /\ l \in req[r].todo
        BY <1>0, <1>19, <3>4 DEF Turn, Known, Request
      <3>6. \A m \in req[r].todo : req[r].line[m] = LinesSeen(req[r])[m]
        BY <1>0, <3>5 DEF Steady
      <3>7. rline[q.refund][l] \notin Closed /\ Held(req[r], l)
        BY <1>15, <2>1, <3>5, <3>6
      <3>8. Committable(q)
        BY <1>0, <3>w, <3>5, <3>7 DEF Steady, Committable, Held
      <3>9. ASSUME NEW m \in q.todo PROVE q.line[m] = LinesSeen(q)[m]
        <4>1. m \in Lines \ {l} /\ m \in req[r].todo /\ w[m] = wrote[m]
          BY <3>w, <3>5
        <4>2. LinesSeen(q)[m] = LinesSeen(req[r])[m]
          BY <3>5, <4>1 DEF LinesSeen, Overlay
        <4>. QED
          BY <3>5, <3>6, <4>1, <4>2
      <3>10. Steady(q)
        BY <1>0, <3>5, <3>8, <3>9 DEF Steady
      <3>. QED
        BY <3>1, <3>5, <3>10, SaveKeepsLines
    <2>2. CASE ~LineMayMove(req[r].line[l], s)
      BY <1>19, <2>2, AbortKeepsLines DEF SetLine
    <2>. QED
      BY <2>1, <2>2
  <1>20. ASSUME NEW l \in Lines,
                SkipRevocation(r, l) \/ Revoked(r, l) \/ RevocationFailed(r, l)
         PROVE  LineStep
    BY <1>19, <1>20 DEF SkipRevocation, Revoked, RevocationFailed, LineStatus
  <1>21. ASSUME NEW l \in Lines, RevocationNotImplemented(r, l) PROVE LineStep
    BY <1>21, AbortKeepsLines DEF RevocationNotImplemented
  <1>22. ASSUME NEW l \in Lines, NoModule(r, l) PROVE LineStep
    <2>1. PICK q \in {[req[r] EXCEPT !.todo = @ \ {l}]} : req' = [req EXCEPT ![r] = q]
      BY <1>22 DEF NoModule, TypeInv, ReqOK
    <2>2. /\ q.phase = "revoke" /\ q.refund = req[r].refund /\ q.saved = req[r].saved
          /\ q.wrote = wrote /\ q.status = req[r].status
          /\ q.line = req[r].line /\ q.todo = req[r].todo \ {l}
          /\ req[r].todo \subseteq Lines /\ req[r].phase = "revoke"
      BY <1>0, <1>22 DEF NoModule, Turn, Known, Request
    <2>3. \A m \in q.todo : m \in Lines /\ q.line[m] = LinesSeen(req[r])[m]
      BY <1>0, <2>2 DEF Steady
    <2>. QED
      BY <1>17, <1>22, <2>1, <2>2, <2>3 DEF NoModule, db
  <1>23. CASE FinishRevocation(r)
    <2>1. CASE req[r].store /\ ~req[r].ok
      BY <1>23, <2>1, AbortKeepsLines DEF FinishRevocation
    <2>2. CASE ~(req[r].store /\ ~req[r].ok)
      <3>1. PICK q \in {[req[r] EXCEPT !.status = Verdict(req[r]), !.saved = TRUE]} :
              End(r, q)
        BY <1>23, <2>2 DEF FinishRevocation
      <3>2. Verdict(req[r]) \in RefundStatus
        BY DEF Verdict, RefundStatus
      <3>3. /\ q \in Known /\ q.refund = req[r].refund /\ q.refund \in Refunds
            /\ q.saved /\ q.wrote = wrote
        BY <1>0, <1>23, <3>2 DEF FinishRevocation, Request, Known
      <3>. QED
        BY <1>0, <3>1, <3>3, SameWrites, SaveKeepsLines
    <2>. QED
      BY <2>1, <2>2
  <1>24. CASE Deny(r)
    <2>. DEFINE w == [l \in Lines |->
                       IF l \in Present(req[r])
                          /\ LineMayMove(LinesSeen(req[r])[l], Denied)
                       THEN Denied ELSE Unwritten]
    <2>1. PICK q \in {[req[r] EXCEPT !.status = Denied, !.saved = TRUE, !.wrote = w]} :
            End(r, q)
      BY <1>24 DEF Deny
    <2>2. /\ w \in [Lines -> LineStatus \cup {Unwritten}]
          /\ Denied \in RefundStatus /\ Denied \in LineStatus
          /\ \A l \in Lines : w[l] # Unwritten =>
               w[l] = Denied /\ LineMayMove(LinesSeen(req[r])[l], Denied)
      BY DEF LineStatus, RefundStatus
    <2>. HIDE DEF w
    <2>3. /\ q \in Known /\ q.refund \in Refunds /\ q.refund = req[r].refund
          /\ q.saved /\ q.wrote = w
      BY <1>0, <1>24, <2>2 DEF Deny, Request, Known
    <2>4. \A l \in Lines : w[l] # Unwritten => rline[q.refund][l] \notin Closed
      BY <1>15, <2>2, <2>3
    <2>5. Committable(q)
      BY <1>0, <2>2, <2>3, <2>4 DEF Steady, Committable
    <2>. QED
      BY <2>1, <2>3, <2>5, SaveKeepsLines
  <1>. QED
    BY <1>1, <1>3, <1>4, <1>5, <1>6, <1>7, <1>9, <1>10, <1>11, <1>12, <1>13, <1>14,
       <1>16, <1>18, <1>20, <1>21, <1>22, <1>23, <1>24, <1>25 DEF Step

LEMMA LineInvInductive ==
  ASSUME OneAtATime
  PROVE  /\ Init => TypeInv /\ LineInv
         /\ TypeInv /\ LineInv /\ [Next]_vars => TypeInv' /\ LineInv' /\ FinalStays
  <1>1. ASSUME Init PROVE TypeInv /\ LineInv
    <2>1. \A f \in Refunds, l \in Lines : rline[f][l] = Absent
      BY <1>1 DEF Init
    <2>2. \A r \in Requests : Steady(req[r])
      BY <1>1, NoRequestSteady DEF Init
    <2>. QED
      BY <1>1, <2>1, <2>2, InitTypes DEF LineInv, OneLiveRefundPerLine
  <1>2. ASSUME TypeInv, LineInv, [Next]_vars PROVE TypeInv' /\ LineInv' /\ FinalStays
    <2>1. CASE StoreGivesMoneyBack \/ UNCHANGED vars
      <3>1. UNCHANGED <<status, rline, req>>
        BY <2>1 DEF StoreGivesMoneyBack, vars, db
      <3>2. \A r \in Requests : Steady(req[r])'
        BY <1>2, <3>1 DEF LineInv, Steady, Committable, Held, Live, LinesSeen, Overlay
      <3>3. OneLiveRefundPerLine' /\ FinalStays
        BY <1>2, <3>1 DEF LineInv, OneLiveRefundPerLine, FinalStays
      <3>. QED
        BY <1>2, <3>1, <3>2, <3>3, TypeInvInductive DEF LineInv
    <2>. QED
      BY <1>2, <2>1, StepKeepsLines, TypeInvInductive DEF Next, LineStep
  <1>. QED
    BY <1>1, <1>2

(* No order line is ever in two refunds that may both be paid, for any     *)
(* order and any number of creations, denials and failed attempts.         *)
THEOREM SerialOneLiveRefund ==
  ASSUME OneAtATime
  PROVE  Spec => []OneLiveRefundPerLine
  <1>1. LineInv => OneLiveRefundPerLine
    BY DEF LineInv
  <1>. QED
    BY <1>1, LineInvInductive, PTL DEF Spec

(* A Complete or Denied refund, and a Complete or Denied refund line, keep *)
(* that status whatever is tried on them afterwards.                       *)
THEOREM SerialFinalStays ==
  ASSUME OneAtATime
  PROVE  Spec => FinalStatusesStay
  <1>1. TypeInv /\ LineInv /\ [Next]_vars => [FinalStays]_<<status, rline>>
    BY LineInvInductive
  <1>2. [FinalStays]_<<status, rline>> =>
          [\A f \in Refunds :
             /\ status[f] # Absent /\ RefundPipeline(status[f]) = {} =>
                  status'[f] = status[f]
             /\ \A l \in Lines :
                  rline[f][l] # Absent /\ LinePipeline(rline[f][l]) = {} =>
                    rline'[f][l] = rline[f][l]]_<<status, rline>>
    BY DEF FinalStays
  <1>. QED
    BY <1>1, <1>2, LineInvInductive, PTL DEF Spec, FinalStatusesStay

-----------------------------------------------------------------------------
(* What a finished refund says of its lines, and the enterprise offer.     *)

(* Every line of the refund that some module could revoke is Complete, as  *)
(* the request sees them.                                                  *)
Covered(q) ==
  \A l \in Lines : Kind[l] # "other" => LinesSeen(q)[l] \in {Absent, Complete}

(* While no revocation failed, the lines gone through are Complete.        *)
DoneSoFar(q) ==
  q.phase = "revoke" /\ q.ok =>
    \A l \in Lines \ q.todo :
      Kind[l] # "other" => LinesSeen(q)[l] \in {Absent, Complete}

(* A refund of the whole order, paid for, with none of its lines denied.   *)
Taken(f) == status[f] \in SettledStatus /\ \A l \in Lines : Live(f, l)

SeenLive(q) == \A l \in Lines : LinesSeen(q)[l] \notin {Absent, Denied}

(* A request that will take the usage back is the first, and pays for the  *)
(* whole order.                                                            *)
FreesFirst(q) ==
  q.frees => /\ freed = 0 /\ q.refund \in Refunds
             /\ q.saved /\ q.status \in SettledStatus /\ SeenLive(q)

KeepsOffer(q) ==
  /\ FreesFirst(q)
  /\ \A l \in Lines : q.wrote[l] # Denied
  /\ q.phase \notin {"settled", "revoke"} => ~q.frees

WholeInv ==
  /\ CompleteCoversItsLines
  /\ freed = 0 \/ (freed = 1 /\ \E f \in Refunds : Taken(f))
  /\ \A f \in Refunds : status[f] # Denied => \A l \in Lines : rline[f][l] # Denied
  /\ \A r \in Requests : DoneSoFar(req[r]) /\ KeepsOffer(req[r])

LEMMA NoRequestWhole == DoneSoFar(NoRequest) /\ KeepsOffer(NoRequest)
  BY LineStatusesDistinct DEF DoneSoFar, KeepsOffer, FreesFirst, NoRequest, Closed

LEMMA MoveKeepsWhole ==
  ASSUME OneAtATime, TypeInv, WholeInv, NEW r \in Requests, NEW p,
         req' = [req EXCEPT ![r] = p], UNCHANGED <<status, rline, freed>>,
         DoneSoFar(p), KeepsOffer(p)
  PROVE  WholeInv'
  <1>1. \A s \in Requests : s = r /\ req'[s] = p
    BY DEF OneAtATime, TypeInv, ReqOK
  <1>2. DoneSoFar(p)' /\ KeepsOffer(p)'
    BY DEF DoneSoFar, KeepsOffer, FreesFirst, SeenLive, LinesSeen, Overlay
  <1>3. \A s \in Requests : DoneSoFar(req[s])' /\ KeepsOffer(req[s])'
    BY <1>1, <1>2
  <1>4. freed' = 0 \/ (freed' = 1 /\ \E f \in Refunds : Taken(f)')
    BY DEF WholeInv, Taken, Live
  <1>. QED
    BY <1>3, <1>4 DEF WholeInv, CompleteCoversItsLines

LEMMA AbortKeepsWhole ==
  ASSUME OneAtATime, TypeInv, WholeInv, NEW r \in Requests, Abort(r)
  PROVE  WholeInv'
  BY NoRequestWhole, MoveKeepsWhole DEF Abort, db

(* What a commit may write: a Complete refund covers its lines, a settled  *)
(* refund stays settled, and only a denial denies lines.                   *)
Writes(q) ==
  /\ q.refund \in Refunds /\ status[q.refund] \notin Closed
  /\ q.saved /\ q.status = Complete => Covered(q)
  /\ q.saved /\ status[q.refund] \in SettledStatus => q.status \in SettledStatus
  /\ FreesFirst(q)
  /\ \/ \A l \in Lines : q.wrote[l] # Denied
     \/ /\ q.saved /\ q.status = Denied /\ status[q.refund] \notin SettledStatus
        /\ ~q.frees

LEMMA CommitKeepsWhole ==
  ASSUME OneAtATime, TypeInv, WholeInv, NEW r \in Requests, NEW q \in Known,
         Writes(q), Commit(q), NEW p, req' = [req EXCEPT ![r] = p],
         p = NoRequest \/ (p = Flushed(q) /\ DoneSoFar(q) /\ KeepsOffer(q))
  PROVE  WholeInv'
  <1>. DEFINE f == q.refund
  <1>0. /\ f \in Refunds
        /\ status \in [Refunds -> RefundStatus \cup {Absent}]
        /\ rline \in [Refunds -> [Lines -> LineStatus \cup {Absent}]]
        /\ q.wrote \in [Lines -> LineStatus \cup {Unwritten}]
        /\ q.saved \in BOOLEAN /\ q.frees \in BOOLEAN
        /\ \A s \in Requests : s = r /\ req'[s] = p
    BY DEF OneAtATime, Writes, TypeInv, ReqOK, DbOK, Known, Request
  <1>1. /\ \A g \in Refunds \ {f} : status'[g] = status[g] /\ rline'[g] = rline[g]
        /\ rline'[f] = LinesSeen(q)
        /\ status'[f] = IF q.saved THEN q.status ELSE status[f]
        /\ freed' = IF q.frees THEN freed + 1 ELSE freed
    BY <1>0 DEF Commit, LinesSeen
  <1>2. \A l \in Lines :
          rline'[f][l] = IF q.wrote[l] = Unwritten THEN rline[f][l] ELSE q.wrote[l]
    BY <1>1 DEF LinesSeen, Overlay
  <1>3. CompleteCoversItsLines'
    <2>. SUFFICES ASSUME NEW g \in Refunds, status'[g] = Complete, NEW l \in Lines,
                         Kind[l] # "other"
                  PROVE  rline'[g][l] \in {Absent, Complete}
      BY DEF CompleteCoversItsLines
    <2>1. CASE g = f
      <3>1. q.saved /\ q.status = Complete
        BY <1>1, <2>1 DEF Writes, Closed
      <3>. QED
        BY <1>1, <2>1, <3>1 DEF Writes, Covered
    <2>2. CASE g # f
      BY <1>1, <2>2 DEF WholeInv, CompleteCoversItsLines
    <2>. QED
      BY <2>1, <2>2
  <1>4. ASSUME NEW g \in Refunds, Taken(g) PROVE Taken(g)'
    <2>1. CASE g = f
      <3>1. status'[f] \in SettledStatus
        BY <1>1, <1>4, <2>1 DEF Writes, Taken
      <3>2. ASSUME NEW l \in Lines PROVE rline'[f][l] \notin {Absent, Denied}
        <4>1. q.wrote[l] # Denied /\ rline[f][l] \notin {Absent, Denied}
          BY <1>4, <2>1 DEF Writes, Taken, Live
        <4>2. q.wrote[l] \in LineStatus \cup {Unwritten}
          BY <1>0
        <4>. QED
          BY <1>2, <4>1, <4>2, StatusesDistinct
      <3>. QED
        BY <2>1, <3>1, <3>2 DEF Taken, Live
    <2>2. CASE g # f
      BY <1>1, <1>4, <2>2 DEF Taken, Live
    <2>. QED
      BY <2>1, <2>2
  <1>5. freed' = 0 \/ (freed' = 1 /\ \E g \in Refunds : Taken(g)')
    <2>1. CASE q.frees
      <3>1. freed = 0 /\ q.saved /\ q.status \in SettledStatus /\ SeenLive(q)
        BY <2>1 DEF Writes, FreesFirst
      <3>2. Taken(f)'
        BY <1>1, <3>1 DEF Taken, Live, SeenLive
      <3>3. freed' = 1
        BY <1>1, <2>1, <3>1
      <3>. QED
        BY <1>0, <3>2, <3>3
    <2>2. CASE ~q.frees
      BY <1>1, <1>4, <2>2 DEF WholeInv
    <2>. QED
      BY <2>1, <2>2
  <1>6. ASSUME NEW g \in Refunds, status'[g] # Denied, NEW l \in Lines
        PROVE  rline'[g][l] # Denied
    <2>1. CASE g # f
      BY <1>1, <1>6, <2>1 DEF WholeInv
    <2>2. CASE g = f
      <3>1. q.wrote[l] # Denied
        BY <1>1, <1>6, <2>2 DEF Writes
      <3>2. rline[f][l] # Denied
        BY <1>0 DEF WholeInv, Writes, Closed
      <3>. QED
        BY <1>2, <2>2, <3>1, <3>2
    <2>. QED
      BY <2>1, <2>2
  <1>7. DoneSoFar(p)' /\ KeepsOffer(p)'
    <2>1. CASE p = NoRequest
      BY <2>1, LineStatusesDistinct DEF DoneSoFar, KeepsOffer, FreesFirst, NoRequest, Closed
    <2>2. CASE p = Flushed(q) /\ DoneSoFar(q) /\ KeepsOffer(q)
      <3>1. /\ p.refund = f /\ p.phase = q.phase /\ p.ok = q.ok
            /\ p.todo = q.todo /\ ~p.frees
            /\ \A l \in Lines : p.wrote[l] = Unwritten
        BY <2>2 DEF Flushed, Known, Request
      <3>2. \A l \in Lines : LinesSeen(p)'[l] = LinesSeen(q)[l]
        BY <1>1, <3>1 DEF LinesSeen, Overlay
      <3>3. DoneSoFar(p)'
        BY <2>2, <3>1, <3>2 DEF DoneSoFar
      <3>. QED
        BY <3>1, <3>3, LineStatusesDistinct DEF KeepsOffer, FreesFirst, Closed
    <2>. QED
      BY <2>1, <2>2
  <1>8. \A s \in Requests : DoneSoFar(req[s])' /\ KeepsOffer(req[s])'
    BY <1>0, <1>7
  <1>. QED
    BY <1>3, <1>5, <1>6, <1>8 DEF WholeInv

LEMMA SaveKeepsWhole ==
  ASSUME OneAtATime, TypeInv, WholeInv, NEW r \in Requests, NEW q \in Known, Writes(q),
         End(r, q) \/ (Save(r, q) /\ DoneSoFar(q) /\ KeepsOffer(q))
  PROVE  WholeInv'
  <1>1. CASE Save(r, q) /\ q.txn /\ DoneSoFar(q) /\ KeepsOffer(q)
    BY <1>1, MoveKeepsWhole DEF Save, db
  <1>2. CASE Save(r, q) /\ ~q.txn /\ DoneSoFar(q) /\ KeepsOffer(q)
    BY <1>2, CommitKeepsWhole DEF Save
  <1>3. CASE End(r, q)
    BY <1>3, CommitKeepsWhole DEF End
  <1>. QED
    BY <1>1, <1>2, <1>3

LEMMA StepKeepsWhole ==
  ASSUME OneAtATime, TypeInv, LedgerInv, LineInv, WholeInv, NEW r \in Requests, Step(r)
  PROVE  WholeInv'
  <1>. DEFINE wrote == req[r].wrote
  <1>0. /\ req[r] \in Known /\ Tells(req[r]) /\ Steady(req[r])
        /\ DoneSoFar(req[r]) /\ KeepsOffer(req[r])
        /\ \A s \in Requests : s = r
        /\ \A l \in Lines : wrote[l] # Denied
        /\ wrote \in [Lines -> LineStatus \cup {Unwritten}]
    BY DEF TypeInv, ReqOK, LedgerInv, LineInv, WholeInv, KeepsOffer, OneAtATime,
           Known, Request
  (* A request that starts, or moves on before its refund is paid for.     *)
  <1>1. ASSUME NEW q, req' = [req EXCEPT ![r] = q], UNCHANGED db,
               q.phase # "revoke", ~q.frees, \A l \in Lines : q.wrote[l] # Denied
        PROVE  WholeInv'
    BY <1>1, MoveKeepsWhole DEF DoneSoFar, KeepsOffer, FreesFirst, db
  <1>2. \A l \in Lines : NoRequest.wrote[l] # Denied
    BY LineStatusesDistinct DEF NoRequest, Closed
  <1>3. CASE \/ BeginCommand(r)
             \/ \E course \in SUBSET Lines :
                  BeginCreate(r, course) \/ BeginStoreRefund(r, course)
    <2>1. PICK lines, t, b : Select(r, lines, t, b)
      BY <1>3 DEF BeginCommand, BeginCreate, BeginStoreRefund
    <2>2. PICK q \in {[NoRequest EXCEPT !.phase = "insert", !.txn = t, !.store = b,
                                        !.covers = lines, !.todo = lines]} :
            req' = [req EXCEPT ![r] = q]
      BY <2>1 DEF Select
    <2>3. q.phase = "insert" /\ ~q.frees /\ q.wrote = NoRequest.wrote
      BY DEF NoRequest
    <2>4. (\A l \in Lines : q.wrote[l] # Denied) /\ UNCHANGED db
      BY <1>2, <2>1, <2>3 DEF Select
    <2>. QED
      BY <1>1, <2>2, <2>3, <2>4
  <1>4. ASSUME NEW f \in Refunds, NEW payOnly \in BOOLEAN, BeginApprove(r, f, payOnly)
        PROVE  WholeInv'
    <2>1. PICK q \in {[NoRequest EXCEPT
             !.phase = IF status[f] \in {Open, PaymentRefundError}
                       THEN "credit" ELSE "settled",
             !.txn = TRUE, !.payOnly = payOnly, !.refund = f, !.status = status[f],
             !.covers = covers[f], !.source = source]} : req' = [req EXCEPT ![r] = q]
      BY <1>4 DEF BeginApprove
    <2>2. q.phase # "revoke" /\ ~q.frees /\ q.wrote = NoRequest.wrote
      BY DEF NoRequest
    <2>3. (\A l \in Lines : q.wrote[l] # Denied) /\ UNCHANGED db
      BY <1>2, <1>4, <2>2 DEF BeginApprove
    <2>. QED
      BY <1>1, <2>1, <2>2, <2>3
  <1>5. ASSUME NEW f \in Refunds, BeginDeny(r, f) PROVE WholeInv'
    <2>1. PICK q \in {[NoRequest EXCEPT !.phase = "deny", !.txn = TRUE, !.refund = f,
                                        !.covers = covers[f]]} :
            req' = [req EXCEPT ![r] = q]
      BY <1>5 DEF BeginDeny
    <2>2. q.phase = "deny" /\ ~q.frees /\ q.wrote = NoRequest.wrote
      BY DEF NoRequest
    <2>3. (\A l \in Lines : q.wrote[l] # Denied) /\ UNCHANGED db
      BY <1>2, <1>5, <2>2 DEF BeginDeny
    <2>. QED
      BY <1>1, <2>1, <2>2, <2>3
  <1>6. ASSUME NEW q, req' = [req EXCEPT ![r] = q], UNCHANGED db,
               q.phase \in {"credit", "book"}, req[r].phase \in {"insert", "credit"},
               q.frees = req[r].frees, q.wrote = wrote
        PROVE  WholeInv'
    BY <1>0, <1>1, <1>6 DEF KeepsOffer
  <1>7. CASE ApproveAtOnce(r)
    <2>1. PICK q \in {[req[r] EXCEPT !.phase = "credit", !.source = source]} :
            req' = [req EXCEPT ![r] = q]
      BY <1>7 DEF ApproveAtOnce, TypeInv, ReqOK
    <2>2. q.phase = "credit" /\ q.frees = req[r].frees /\ q.wrote = wrote
      BY <1>0 DEF Known, Request
    <2>. QED
      BY <1>6, <1>7, <2>1, <2>2 DEF ApproveAtOnce, Inserted
  <1>8. CASE Credited(r)
    <2>1. PICK granted \in BOOLEAN : Paid(r, granted)
      BY <1>8 DEF Credited
    <2>2. PICK q \in {[req[r] EXCEPT !.phase = "book", !.paid = TRUE,
                                     !.granted = granted]} :
            req' = [req EXCEPT ![r] = q]
      BY <2>1 DEF Paid, TypeInv, ReqOK
    <2>3. q.phase = "book" /\ q.frees = req[r].frees /\ q.wrote = wrote
      BY <1>0 DEF Known, Request
    <2>. QED
      BY <1>6, <1>8, <2>2, <2>3 DEF Credited, Crediting
  <1>9. CASE NothingToCredit(r)
    <2>1. PICK q \in {[req[r] EXCEPT !.phase = "book"]} : req' = [req EXCEPT ![r] = q]
      BY <1>9 DEF NothingToCredit, TypeInv, ReqOK
    <2>2. q.phase = "book" /\ q.frees = req[r].frees /\ q.wrote = wrote
      BY <1>0 DEF Known, Request
    <2>. QED
      BY <1>6, <1>9, <2>1, <2>2 DEF NothingToCredit
  <1>10. CASE CreditRaises(r) \/ Crash(r)
    BY <1>10, AbortKeepsWhole DEF CreditRaises, Crash
  (* The refund a request writes is its own, and not closed.               *)
  <1>11. req[r].refund \in Refunds => status[req[r].refund] \notin Closed
    BY <1>0 DEF Steady, Committable
  <1>12. ASSUME NEW q \in Known, Save(r, q) \/ End(r, q), q.refund \in Refunds,
                status[q.refund] \notin SettledStatus \cup Closed,
                q.status # Complete \/ ~q.saved,
                q.phase # "revoke", ~q.frees, \A l \in Lines : q.wrote[l] # Denied
         PROVE  WholeInv'
    <2>1. Writes(q)
      BY <1>12 DEF Writes, FreesFirst
    <2>2. DoneSoFar(q) /\ KeepsOffer(q)
      BY <1>12 DEF DoneSoFar, KeepsOffer, FreesFirst
    <2>. QED
      BY <1>12, <2>1, <2>2, SaveKeepsWhole
  <1>13. CASE InsertRefund(r)
    <2>1. PICK f \in Refunds :
            /\ Free(f)
            /\ \E q \in {[req[r] EXCEPT !.refund = f, !.new = TRUE, !.saved = TRUE]} :
                 Save(r, q)
      BY <1>13 DEF InsertRefund
    <2>2. PICK q \in {[req[r] EXCEPT !.refund = f, !.new = TRUE, !.saved = TRUE]} :
            Save(r, q)
      BY <2>1
    <2>3. /\ q \in Known /\ q.refund = f /\ q.phase = "insert"
          /\ q.status = req[r].status /\ q.wrote = wrote /\ q.frees = req[r].frees
      BY <1>0, <1>13 DEF InsertRefund, Request, Known
    <2>4. status[f] \notin SettledStatus \cup Closed
      BY <2>1, NotSettled, LineStatusesDistinct DEF Free
    <2>5. q.status # Complete /\ ~q.frees
      BY <1>0, <1>13, <2>3 DEF InsertRefund, Steady, KeepsOffer, Closed
    <2>. QED
      BY <1>0, <1>12, <2>2, <2>3, <2>4, <2>5
  <1>14. ASSUME NEW l \in Lines, InsertLine(r, l) PROVE WholeInv'
    <2>1. PICK q \in {[req[r] EXCEPT !.wrote[l] = InitialLineStatus,
                                     !.todo = @ \ {l}]} : Save(r, q)
      BY <1>14 DEF InsertLine
    <2>2. PICK w \in [Lines -> LineStatus \cup {Unwritten}] :
            w = [wrote EXCEPT ![l] = InitialLineStatus]
      BY <1>0 DEF InitialLineStatus, LineStatus
    <2>3. \A m \in Lines : w[m] # Denied
      BY <1>0, <2>2, LineStatusesDistinct DEF InitialLineStatus, Closed
    <2>4. q = [req[r] EXCEPT !.wrote = w, !.todo = @ \ {l}]
      BY <2>1, <2>2
    <2>5. /\ q \in Known /\ q.refund = req[r].refund /\ q.phase = "insert"
          /\ q.status = req[r].status /\ q.wrote = w /\ q.frees = req[r].frees
          /\ q.refund \in Refunds
      BY <1>0, <1>14, <2>4 DEF InsertLine, Request, Known
    <2>6. q.status # Complete /\ ~q.frees /\ status[q.refund] \notin SettledStatus
      BY <1>0, <1>14, <2>5 DEF InsertLine, Steady, KeepsOffer, Closed, Tells
    <2>. QED
      BY <1>11, <1>12, <2>1, <2>3, <2>5, <2>6
  <1>15. CASE EndCreate(r)
    <2>1. req[r].phase = "insert" /\ req[r].refund \in Refunds
      BY <1>0, <1>15 DEF EndCreate, Inserted, Known, Request
    <2>2. req[r].status # Complete /\ ~req[r].frees
          /\ status[req[r].refund] \notin SettledStatus
      BY <1>0, <2>1 DEF Steady, KeepsOffer, Closed, Tells
    <2>. QED
      BY <1>0, <1>11, <1>12, <1>15, <2>1, <2>2 DEF EndCreate
  <1>16. CASE CreditFailed(r)
    <2>1. PICK q \in {[req[r] EXCEPT !.status = PaymentRefundError, !.saved = TRUE]} :
            End(r, q)
      BY <1>16 DEF CreditFailed
    <2>2. /\ q \in Known /\ q.refund = req[r].refund /\ q.refund \in Refunds
          /\ q.wrote = wrote /\ q.phase = "credit" /\ q.frees = req[r].frees
          /\ q.status = PaymentRefundError
      BY <1>0, <1>16 DEF CreditFailed, Crediting, Known, Request, RefundStatus
    <2>3. /\ q.status # Complete /\ ~q.frees
          /\ status[q.refund] \notin SettledStatus
      BY <1>0, <1>16, <2>2
      DEF CreditFailed, Crediting, KeepsOffer, Tells, PaymentRefundError, Complete
    <2>. QED
      BY <1>0, <1>11, <1>12, <2>1, <2>2, <2>3
  <1>28. CASE BookCutShort(r)
    <2>1. PICK q \in Known :
            /\ End(r, q)
            /\ q \in {[req[r] EXCEPT !.books = req[r].paid],
                      [req[r] EXCEPT !.status = PaymentRefunded, !.saved = TRUE,
                                     !.books = req[r].paid]}
      BY <1>0, <1>28, CutShortSaves
    <2>2. /\ q.refund = req[r].refund /\ q.refund \in Refunds
          /\ q.wrote = wrote /\ q.frees = req[r].frees
          /\ q.status = req[r].status \/ q.status = PaymentRefunded
          /\ req[r].phase = "book" /\ q.phase = "book"
      BY <1>0, <1>28, <2>1 DEF BookCutShort, Known, Request
    <2>3. /\ q.status # Complete /\ ~q.frees
          /\ status[q.refund] \notin SettledStatus
      BY <1>0, <2>2
      DEF KeepsOffer, Tells, SettledStatus, PaymentRefunded, Complete
    <2>. QED
      BY <1>0, <1>11, <1>12, <2>1, <2>2, <2>3
  (* No refund of the whole order was paid for before: none but this one   *)
  (* has live lines.                                                       *)
  <1>17. CASE Book(r)
    <2>1. PICK q \in {[req[r] EXCEPT
                        !.phase = "settled", !.status = PaymentRefunded,
                        !.saved = TRUE, !.books = req[r].paid,
                        !.frees = FreesOffer(req[r])]} : Save(r, q)
      BY <1>17 DEF Book
    <2>2. FreesOffer(req[r]) \in BOOLEAN
      BY OrderAssumption, Zenon DEF FreesOffer
    <2>3. /\ q \in Known /\ q.phase = "settled" /\ q.refund = req[r].refund
          /\ q.saved /\ q.status = PaymentRefunded /\ q.wrote = wrote
          /\ q.refund \in Refunds /\ q.frees = FreesOffer(req[r])
      BY <1>0, <1>17, <2>2 DEF Book, Request, Known, RefundStatus
    <2>4. LinesSeen(q) = LinesSeen(req[r])
      BY <2>3 DEF LinesSeen, Overlay
    <2>5. status[q.refund] \notin SettledStatus
      BY <1>0, <1>17, <2>3 DEF Book, Tells
    <2>6. ASSUME FreesOffer(req[r]) PROVE freed = 0 /\ SeenLive(q)
      <3>1. \A l \in Lines : LinesSeen(q)[l] # Absent
        BY <2>4, <2>6 DEF FreesOffer, Present
      <3>2. \A l \in Lines : rline[q.refund][l] # Denied
        BY <1>11, <2>3 DEF WholeInv, Closed
      <3>3. SeenLive(q)
        BY <1>0, <2>3, <3>1, <3>2 DEF SeenLive, LinesSeen, Overlay
      <3>4. \A f \in Refunds : ~Taken(f)
        <4>0. Cost[Lines] # Cost[{}]
          BY OrderAssumption
        <4>1. PICK l \in Lines : TRUE
          BY <4>0, Zenon
        <4>2. ASSUME NEW f \in Refunds, Taken(f) PROVE FALSE
          <5>1. f # q.refund /\ Live(f, l)
            BY <2>5, <4>2 DEF Taken
          <5>2. CASE wrote[l] = Unwritten
            <6>1. Live(q.refund, l)
              BY <2>3, <3>3, <5>2 DEF SeenLive, LinesSeen, Overlay, Live
            <6>. QED
              BY <2>3, <5>1, <6>1 DEF LineInv, OneLiveRefundPerLine, Live
          <5>3. CASE wrote[l] # Unwritten
            <6>1. Held(req[r], l)
              BY <1>0, <2>3, <5>3 DEF Steady, Committable
            <6>. QED
              BY <2>3, <5>1, <6>1 DEF Held
          <5>. QED
            BY <5>2, <5>3
        <4>. QED
          BY <4>2
      <3>. QED
        BY <3>3, <3>4 DEF WholeInv
    <2>7. PaymentRefunded \in SettledStatus /\ PaymentRefunded # Complete
      BY DEF SettledStatus, PaymentRefunded, Complete
    <2>8. FreesFirst(q)
      BY <2>3, <2>6, <2>7 DEF FreesFirst
    <2>9. Writes(q)
      BY <1>0, <1>11, <2>3, <2>5, <2>7, <2>8 DEF Writes
    <2>10. DoneSoFar(q) /\ KeepsOffer(q)
      BY <1>0, <2>3, <2>8 DEF DoneSoFar, KeepsOffer
    <2>. QED
      BY <2>1, <2>3, <2>9, <2>10, SaveKeepsWhole
  <1>18. CASE CompleteWithoutRevoking(r)
    <2>1. CASE \A l \in Present(req[r]) : LineMayMove(LinesSeen(req[r])[l], Complete)
      <3>. DEFINE w == [l \in Lines |-> IF l \in Present(req[r])
                                        THEN Complete ELSE Unwritten]
      <3>1. PICK q \in {[req[r] EXCEPT !.status = Complete, !.saved = TRUE,
                                       !.wrote = w]} : End(r, q)
        BY <1>18, <2>1 DEF CompleteWithoutRevoking
      <3>2. /\ w \in [Lines -> LineStatus \cup {Unwritten}]
            /\ Complete \in RefundStatus /\ Complete \in SettledStatus
            /\ \A l \in Lines : w[l] = IF l \in Present(req[r]) THEN Complete ELSE Unwritten
        BY DEF LineStatus, RefundStatus, SettledStatus
      <3>. HIDE DEF w
      <3>3. /\ q \in Known /\ q.refund = req[r].refund /\ q.saved /\ q.wrote = w
            /\ req[r].refund \in Refunds /\ q.status = Complete
            /\ q.frees = req[r].frees
        BY <1>0, <1>18, <3>2 DEF CompleteWithoutRevoking, Request, Known
      <3>4. ASSUME NEW l \in Lines
            PROVE  LinesSeen(q)[l] = IF l \in Present(req[r]) THEN Complete ELSE Absent
        <4>1. CASE l \in Present(req[r])
          <5>1. LinesSeen(q)[l] = w[l]
            BY <3>2, <3>3, <4>1, LineStatusesDistinct DEF LinesSeen, Overlay, Closed
          <5>. QED
            BY <3>2, <4>1, <5>1
        <4>2. CASE l \notin Present(req[r])
          <5>1. LinesSeen(req[r])[l] = Absent
            BY <4>2 DEF Present
          <5>2. wrote[l] = Unwritten
            BY <1>0, <5>1, StatusesDistinct DEF LinesSeen, Overlay
          <5>3. LinesSeen(q)[l] = rline[req[r].refund][l]
            BY <3>2, <3>3, <4>2 DEF LinesSeen, Overlay
          <5>. QED
            BY <4>2, <5>1, <5>2, <5>3 DEF LinesSeen, Overlay
        <4>. QED
          BY <4>1, <4>2
      <3>5. Covered(q)
        BY <3>4 DEF Covered
      <3>6. FreesFirst(q)
        <4>1. SUFFICES ASSUME q.frees PROVE freed = 0 /\ SeenLive(q)
          BY <3>2, <3>3 DEF FreesFirst
        <4>2. freed = 0 /\ SeenLive(req[r])
          BY <1>0, <3>3, <4>1 DEF KeepsOffer, FreesFirst
        <4>3. \A l \in Lines : l \in Present(req[r])
          BY <4>2 DEF SeenLive, Present
        <4>. QED
          BY <3>4, <4>2, <4>3, LineStatusesDistinct DEF SeenLive, Closed
      <3>7. \A l \in Lines : q.wrote[l] # Denied
        BY <3>2, <3>3, LineStatusesDistinct DEF Closed
      <3>8. Writes(q)
        BY <1>11, <3>2, <3>3, <3>5, <3>6, <3>7 DEF Writes
      <3>. QED
        BY <3>1, <3>3, <3>8, SaveKeepsWhole
    <2>2. CASE ~\A l \in Present(req[r]) : LineMayMove(LinesSeen(req[r])[l], Complete)
      BY <1>18, <2>2, AbortKeepsWhole DEF CompleteWithoutRevoking
    <2>. QED
      BY <2>1, <2>2
  (* A request past its credit saves a status that is settled too.         *)
  <1>19. ASSUME req[r].phase \in {"settled", "revoke"}
         PROVE  /\ req[r].refund \in Refunds /\ req[r].status \in SettledStatus
                /\ req[r].status # Complete
    BY <1>0, <1>19 DEF Tells, Steady, Known, Closed
  <1>20. CASE NothingToPay(r)
    <2>1. req[r].phase = "settled"
      BY <1>20 DEF NothingToPay
    <2>2. Writes(req[r])
      BY <1>0, <1>11, <1>19, <2>1 DEF Writes, KeepsOffer
    <2>. QED
      BY <1>0, <1>20, <2>2, SaveKeepsWhole DEF NothingToPay
  <1>21. CASE StartRevocation(r)
    <2>1. PICK q \in {[req[r] EXCEPT !.phase = "revoke", !.line = LinesSeen(req[r]),
                                     !.todo = Present(req[r])]} :
            req' = [req EXCEPT ![r] = q]
      BY <1>21 DEF StartRevocation, TypeInv, ReqOK
    <2>2. /\ q.phase = "revoke" /\ q.refund = req[r].refund /\ q.saved = req[r].saved
          /\ q.wrote = wrote /\ q.status = req[r].status
          /\ q.todo = Present(req[r]) /\ q.frees = req[r].frees
      BY <1>0 DEF Known, Request
    <2>3. LinesSeen(q) = LinesSeen(req[r])
      BY <2>2 DEF LinesSeen, Overlay
    <2>4. DoneSoFar(q)
      BY <2>2, <2>3 DEF DoneSoFar, Present
    <2>5. KeepsOffer(q)
      BY <1>0, <2>2, <2>3 DEF KeepsOffer, FreesFirst, SeenLive
    <2>. QED
      BY <1>21, <2>1, <2>4, <2>5, MoveKeepsWhole DEF StartRevocation, db
  <1>22. ASSUME NEW l \in Lines, NEW s \in {Complete, RevocationError},
                Turn(r, l), SetLine(r, l, s)
         PROVE  WholeInv'
    <2>1. CASE LineMayMove(req[r].line[l], s)
      <3>1. PICK q \in {[req[r] EXCEPT !.wrote[l] = s, !.todo = @ \ {l},
                                       !.ok = IF s = Complete THEN @ ELSE FALSE]} :
              Save(r, q)
        BY <1>22, <2>1 DEF SetLine
      <3>2. PICK w \in [Lines -> LineStatus \cup {Unwritten}] :
              w = [wrote EXCEPT ![l] = s]
        BY <1>0 DEF LineStatus
      <3>w. w[l] = s /\ \A m \in Lines \ {l} : w[m] = wrote[m]
        BY <1>0, <3>2
      <3>3. PICK b \in BOOLEAN : b = IF s = Complete THEN req[r].ok ELSE FALSE
        BY <1>0 DEF Known, Request
      <3>4. q = [req[r] EXCEPT !.wrote = w, !.todo = @ \ {l}, !.ok = b]
        BY <3>1, <3>2, <3>3
      <3>5. /\ q \in Known /\ q.phase = "revoke" /\ q.refund = req[r].refund
            /\ q.saved = req[r].saved /\ q.status = req[r].status /\ q.ok = b
            /\ q.wrote = w /\ q.frees = req[r].frees
            /\ q.todo = req[r].todo \ {l} /\ req[r].phase = "revoke"
        BY <1>0, <1>22, <3>4 DEF Turn, Known, Request
      <3>6. /\ LinesSeen(q)[l] = s
            /\ \A m \in Lines \ {l} : LinesSeen(q)[m] = LinesSeen(req[r])[m]
        BY <3>w, <3>5, LineStatusesDistinct DEF LinesSeen, Overlay, Closed
      <3>7. DoneSoFar(q)
        BY <1>0, <3>3, <3>5, <3>6 DEF DoneSoFar
      <3>8. s \notin {Absent, Denied, Unwritten}
        BY LineStatusesDistinct DEF Closed
      <3>9. FreesFirst(q)
        BY <1>0, <3>5, <3>6, <3>8 DEF KeepsOffer, FreesFirst, SeenLive
      <3>10. \A m \in Lines : q.wrote[m] # Denied
        BY <1>0, <3>w, <3>5, <3>8
      <3>11. KeepsOffer(q)
        BY <3>5, <3>9, <3>10 DEF KeepsOffer
      <3>12. Writes(q)
        BY <1>11, <1>19, <3>5, <3>9, <3>10 DEF Writes
      <3>. QED
        BY <3>1, <3>5, <3>7, <3>11, <3>12, SaveKeepsWhole
    <2>2. CASE ~LineMayMove(req[r].line[l], s)
      BY <1>22, <2>2, AbortKeepsWhole DEF SetLine
    <2>. QED
      BY <2>1, <2>2
  <1>23. ASSUME NEW l \in Lines,
                SkipRevocation(r, l) \/ Revoked(r, l) \/ RevocationFailed(r, l)
         PROVE  WholeInv'
    BY <1>22, <1>23 DEF SkipRevocation, Revoked, RevocationFailed
  <1>24. ASSUME NEW l \in Lines, RevocationNotImplemented(r, l) PROVE WholeInv'
    BY <1>24, AbortKeepsWhole DEF RevocationNotImplemented
  <1>25. ASSUME NEW l \in Lines, NoModule(r, l) PROVE WholeInv'
    <2>1. PICK q \in {[req[r] EXCEPT !.todo = @ \ {l}]} : req' = [req EXCEPT ![r] = q]
      BY <1>25 DEF NoModule, TypeInv, ReqOK
    <2>2. /\ q.phase = "revoke" /\ q.refund = req[r].refund /\ q.saved = req[r].saved
          /\ q.wrote = wrote /\ q.status = req[r].status /\ q.ok = req[r].ok
          /\ q.todo = req[r].todo \ {l} /\ q.frees = req[r].frees
          /\ req[r].phase = "revoke" /\ Kind[l] = "other"
      BY <1>0, <1>25 DEF NoModule, Turn, Known, Request
    <2>3. LinesSeen(q) = LinesSeen(req[r])
      BY <2>2 DEF LinesSeen, Overlay
    <2>4. DoneSoFar(q)
      BY <1>0, <2>2, <2>3 DEF DoneSoFar
    <2>5. KeepsOffer(q)
      BY <1>0, <2>2, <2>3 DEF KeepsOffer, FreesFirst, SeenLive
    <2>. QED
      BY <1>25, <2>1, <2>4, <2>5, MoveKeepsWhole DEF NoModule, db
  <1>26. CASE FinishRevocation(r)
    <2>1. CASE req[r].store /\ ~req[r].ok
      BY <1>26, <2>1, AbortKeepsWhole DEF FinishRevocation
    <2>2. CASE ~(req[r].store /\ ~req[r].ok)
      <3>1. PICK q \in {[req[r] EXCEPT !.status = Verdict(req[r]), !.saved = TRUE]} :
              End(r, q)
        BY <1>26, <2>2 DEF FinishRevocation
      <3>2. /\ Verdict(req[r]) \in RefundStatus /\ Verdict(req[r]) \in SettledStatus
            /\ Verdict(req[r]) = Complete => req[r].ok
        BY DEF Verdict, RefundStatus, SettledStatus, RevocationError, Complete
      <3>3. /\ q \in Known /\ q.refund = req[r].refund /\ q.refund \in Refunds
            /\ q.saved /\ q.wrote = wrote /\ q.status = Verdict(req[r])
            /\ q.frees = req[r].frees /\ req[r].phase = "revoke" /\ req[r].todo = {}
        BY <1>0, <1>26, <3>2 DEF FinishRevocation, Request, Known
      <3>4. LinesSeen(q) = LinesSeen(req[r])
        BY <3>3 DEF LinesSeen, Overlay
      <3>5. q.status = Complete => Covered(q)
        BY <1>0, <3>2, <3>3, <3>4 DEF Covered, DoneSoFar
      <3>6. FreesFirst(q)
        BY <1>0, <3>2, <3>3, <3>4 DEF KeepsOffer, FreesFirst, SeenLive
      <3>7. Writes(q)
        BY <1>0, <1>11, <3>2, <3>3, <3>5, <3>6 DEF Writes
      <3>. QED
        BY <3>1, <3>3, <3>7, SaveKeepsWhole
    <2>. QED
      BY <2>1, <2>2
  <1>27. CASE Deny(r)
    <2>. DEFINE w == [l \in Lines |->
                       IF l \in Present(req[r])
                          /\ LineMayMove(LinesSeen(req[r])[l], Denied)
                       THEN Denied ELSE Unwritten]
    <2>1. PICK q \in {[req[r] EXCEPT !.status = Denied, !.saved = TRUE, !.wrote = w]} :
            End(r, q)
      BY <1>27 DEF Deny
    <2>2. w \in [Lines -> LineStatus \cup {Unwritten}] /\ Denied \in RefundStatus
      BY DEF LineStatus, RefundStatus
    <2>. HIDE DEF w
    <2>3. /\ q \in Known /\ q.refund \in Refunds /\ q.refund = req[r].refund
          /\ q.saved /\ q.status = Denied /\ q.frees = req[r].frees
      BY <1>0, <1>27, <2>2 DEF Deny, Request, Known
    <2>4. ~q.frees /\ status[q.refund] \notin SettledStatus
      BY <1>0, <1>27, <2>3 DEF Deny, KeepsOffer, Tells
    <2>5. Writes(q)
      BY <1>11, <2>3, <2>4, LineStatusesDistinct DEF Writes, FreesFirst
    <2>. QED
      BY <2>1, <2>3, <2>5, SaveKeepsWhole
  <1>. QED
    BY <1>3, <1>4, <1>5, <1>7, <1>8, <1>9, <1>10, <1>13, <1>14, <1>15, <1>16, <1>17,
       <1>18, <1>20, <1>21, <1>23, <1>24, <1>25, <1>26, <1>27, <1>28 DEF Step

LEMMA WholeInvInductive ==
  ASSUME OneAtATime
  PROVE  /\ Init => WholeInv
         /\ TypeInv /\ LedgerInv /\ LineInv /\ WholeInv /\ [Next]_vars => WholeInv'
  <1>1. ASSUME Init PROVE WholeInv
    <2>1. /\ \A f \in Refunds : status[f] = Absent
          /\ \A f \in Refunds, l \in Lines : rline[f][l] = Absent
          /\ freed = 0
      BY <1>1 DEF Init
    <2>2. \A r \in Requests : DoneSoFar(req[r]) /\ KeepsOffer(req[r])
      BY <1>1, NoRequestWhole DEF Init
    <2>. QED
      BY <2>1, <2>2, LineStatusesDistinct DEF WholeInv, CompleteCoversItsLines, Closed
  <1>2. ASSUME TypeInv, LedgerInv, LineInv, WholeInv, [Next]_vars PROVE WholeInv'
    <2>1. CASE StoreGivesMoneyBack \/ UNCHANGED vars
      <3>1. UNCHANGED <<status, rline, freed, req>>
        BY <2>1 DEF StoreGivesMoneyBack, vars, db
      <3>2. \A r \in Requests : DoneSoFar(req[r])' /\ KeepsOffer(req[r])'
        BY <1>2, <3>1
        DEF WholeInv, DoneSoFar, KeepsOffer, FreesFirst, SeenLive, LinesSeen, Overlay
      <3>3. freed' = 0 \/ (freed' = 1 /\ \E f \in Refunds : Taken(f)')
        BY <1>2, <3>1 DEF WholeInv, Taken, Live
      <3>. QED
        BY <1>2, <3>1, <3>2, <3>3 DEF WholeInv, CompleteCoversItsLines
    <2>. QED
      BY <1>2, <2>1, StepKeepsWhole DEF Next
  <1>. QED
    BY <1>1, <1>2

(* A Complete refund has completed every line some module could revoke,    *)
(* for any order, however many revocations failed and were tried again.    *)
THEOREM SerialCompleteCovers ==
  ASSUME OneAtATime
  PROVE  Spec => []CompleteCoversItsLines
  <1>1. WholeInv => CompleteCoversItsLines
    BY DEF WholeInv
  <1>. QED
    BY <1>1, LedgerInvInductive, LineInvInductive, WholeInvInductive, PTL DEF Spec

(* The enterprise offer gets its usage back at most once, for any number   *)
(* of refunds of the order's lines: two refunds of all of them cannot both *)
(* be paid.                                                                *)
THEOREM SerialOfferFreedOnce ==
  ASSUME OneAtATime
  PROVE  Spec => []OfferFreedOnce
  <1>1. WholeInv => OfferFreedOnce
    BY DEF WholeInv, OfferFreedOnce
  <1>. QED
    BY <1>1, LedgerInvInductive, LineInvInductive, WholeInvInductive, PTL DEF Spec

-----------------------------------------------------------------------------
(* The books.  What the payment source should have given back.             *)
BookSum == MapThenSumSet(LAMBDA f : booked[f] * Worth(covers[f]), Refunds)

Booking == [f \in Refunds |-> booked[f] * Worth(covers[f])]

LEMMA BookSumIs ==
  ASSUME IsFiniteSet(Refunds)
  PROVE  BookSum = SumOver(Booking, Refunds)
  <1>. DEFINE Eq(it) == it = [s \in SUBSET Refunds |->
                 IF s = {} THEN 0
                 ELSE booked[CHOOSE x \in s : TRUE] * Worth(covers[CHOOSE x \in s : TRUE])
                        + it[s \ {CHOOSE x \in s : TRUE}]]
  <1>1. BookSum = (CHOOSE it : Eq(it))[Refunds]
    BY DEF BookSum, MapThenSumSet, MapThenFoldSet
  <1>2. ASSUME NEW it, NEW s \in SUBSET Refunds
        PROVE  (IF s = {} THEN 0
                ELSE booked[CHOOSE x \in s : TRUE] * Worth(covers[CHOOSE x \in s : TRUE])
                       + it[s \ {CHOOSE x \in s : TRUE}])
                 = IF s = {} THEN 0 ELSE Booking[Pick(s)] + it[s \ {Pick(s)}]
    <2>1. s # {} => Pick(s) \in Refunds
      BY PickIn
    <2>2. s # {} => Booking[Pick(s)] = booked[Pick(s)] * Worth(covers[Pick(s)])
      BY <2>1 DEF Booking
    <2>. QED
      BY <2>2 DEF Pick
  <1>3. ASSUME NEW it PROVE Eq(it) <=> Adds(it, Booking, Refunds)
    BY <1>2 DEF Adds
  <1>. HIDE DEF Eq
  <1>4. \E it : Eq(it)
    BY <1>3, AddsExist
  <1>5. Eq(CHOOSE it : Eq(it))
    BY <1>4
  <1>. QED
    BY <1>1, <1>3, <1>5, SumIs

(* A refund that is booked n times at the worth of its lines.              *)
LEMMA BookingNat ==
  TypeInv => Booking \in [Refunds -> Nat]
  <1>. SUFFICES ASSUME TypeInv, NEW f \in Refunds PROVE booked[f] * Worth(covers[f]) \in Nat
    BY DEF Booking
  <1>1. booked[f] \in Nat /\ Worth(covers[f]) \in Nat
    BY OrderAssumption DEF TypeInv, DbOK, Worth
  <1>. QED
    BY <1>1

LEMMA BookSumNext ==
  ASSUME IsFiniteSet(Refunds)
  PROVE  BookSum' = SumOver(Booking', Refunds)
  <1>1. (BookSum = SumOver(Booking, Refunds))'
    BY BookSumIs, PTL
  <1>. QED
    BY <1>1

(* What a request that has not committed yet will book: the payment source *)
(* is as it read it, the refund's lines as it knows them, and with a       *)
(* gateway it books what it was granted.  Outside a transaction only a     *)
(* refund of nothing is approved.                                          *)
Keeps(q) ==
  /\ q.phase \in {"idle", "insert", "credit", "book", "deny"} => ~q.books
  /\ q.phase \in {"idle", "insert", "credit", "deny"} => ~q.paid
  /\ q.phase \in {"credit", "book"} \/ q.books => q.source = source
  /\ q.books => q.saved
  /\ q.refund \in Refunds =>
       IF q.new THEN q.saved /\ status[q.refund] = Absent
                ELSE status[q.refund] # Absent /\ covers[q.refund] = q.covers
  /\ q.store => q.txn
  /\ ~q.txn /\ q.phase \in {"credit", "book"} => Worth(q.covers) = 0
  /\ processor = "gateway" =>
       /\ q.phase = "book" => q.granted /\ q.paid
       /\ q.phase \in {"settled", "revoke"} => (q.books <=> q.granted)

Balanced(f) ==
  ledger[f] = lost[f] + booked[f] + (IF Pending(f) THEN 1 ELSE 0)

ForNothing(f) == status[f] # Absent /\ Worth(covers[f]) = 0

BookInv ==
  /\ processor = "gateway" => \A f \in Refunds : Balanced(f) \/ ForNothing(f)
  /\ source = BookSum
  /\ \A f \in Refunds : status[f] = Absent => booked[f] = 0
  /\ \A r \in Requests : Keeps(req[r])

(* No credit is granted, or as many as are lost.                           *)
SameNet == \A f \in Refunds : ledger'[f] + lost[f] = ledger[f] + lost'[f]

(* q holds the credit r holds, and no other.                               *)
SameCredit(r, q) ==
  /\ q.granted <=> req[r].granted
  /\ q.granted => q.refund = req[r].refund

LEMMA NoRequestKeeps == Keeps(NoRequest)
  BY RefundAssumption DEF Keeps, NoRequest

LEMMA Ledgers ==
  ASSUME TypeInv
  PROVE  /\ \A f \in Refunds : ledger[f] \in Nat /\ lost[f] \in Nat /\ booked[f] \in Nat
         /\ lost \in [Refunds -> Nat] /\ booked \in [Refunds -> Nat]
  BY DEF TypeInv, OutsideOK, HistoryOK, LostOK, DbOK

(* A request that neither wins nor loses a credit, and commits nothing.    *)
LEMMA MoveKeepsBooks ==
  ASSUME OneAtATime, IsFiniteSet(Refunds), TypeInv, BookInv, NEW r \in Requests, NEW p,
         req' = [req EXCEPT ![r] = p],
         UNCHANGED <<processor, status, covers, booked, source, ledger, lost>>,
         Keeps(p), SameCredit(r, p)
  PROVE  BookInv'
  <1>1. \A s \in Requests : s = r /\ req'[s] = p
    BY DEF OneAtATime, TypeInv, ReqOK
  <1>2. \A f \in Refunds : Pending(f)' <=> Pending(f)
    BY <1>1 DEF Pending, SameCredit
  <1>3. BookSum' = BookSum
    BY BookSumIs, BookSumNext DEF Booking, Worth
  <1>4. Keeps(p)'
    BY DEF Keeps, Worth
  <1>5. processor' = "gateway" => \A f \in Refunds : Balanced(f)' \/ ForNothing(f)'
    BY <1>2 DEF BookInv, Balanced, ForNothing, Worth
  <1>. QED
    BY <1>1, <1>3, <1>4, <1>5 DEF BookInv

(* A rollback forgets the credit that would have been booked.              *)
LEMMA AbortKeepsBooks ==
  ASSUME OneAtATime, IsFiniteSet(Refunds), TypeInv, LedgerInv, BookInv,
         NEW r \in Requests, Abort(r), UNCHANGED ledger
  PROVE  BookInv'
  <1>1. /\ \A s \in Requests : s = r /\ req'[s] = NoRequest
        /\ UNCHANGED <<processor, status, covers, booked, source>>
    BY DEF OneAtATime, TypeInv, ReqOK, Abort, db
  <1>2. BookSum' = BookSum
    BY <1>1, BookSumIs, BookSumNext DEF Booking, Worth
  <1>3. Keeps(NoRequest)'
    BY RefundAssumption DEF Keeps, NoRequest
  <1>4. ASSUME NEW f \in Refunds, Balanced(f) PROVE Balanced(f)'
    <2>1. ~Pending(f)'
      BY <1>1, NoRequestTells DEF Pending
    <2>2. Pending(f) <=> req[r].granted /\ req[r].refund = f
      BY <1>1 DEF Pending
    <2>3. lost'[f] = lost[f] + (IF Pending(f) THEN 1 ELSE 0)
      <3>1. CASE Pending(f)
        BY <2>2, <3>1, Ledgers DEF Abort, Forgotten
      <3>2. CASE ~Pending(f)
        BY <2>2, <3>2, Ledgers DEF Abort, Forgotten
      <3>. QED
        BY <3>1, <3>2
    <2>. QED
      BY <1>1, <1>4, <2>1, <2>3, Ledgers DEF Balanced
  <1>5. \A f \in Refunds : ForNothing(f) => ForNothing(f)'
    BY <1>1 DEF ForNothing, Worth
  <1>. QED
    BY <1>1, <1>2, <1>3, <1>4, <1>5 DEF BookInv

(* What the payment source gives back grows by what is booked.             *)
LEMMA CommitKeepsSum ==
  ASSUME IsFiniteSet(Refunds), TypeInv, TypeInv', BookInv, NEW q \in Known,
         q.refund \in Refunds, Commit(q),
         q.books => q.source = source,
         IF q.new THEN status[q.refund] = Absent ELSE covers[q.refund] = q.covers
  PROVE  source' = BookSum'
  <1>. DEFINE f == q.refund
  <1>1. /\ processor' = processor
        /\ booked'[f] = IF q.books THEN booked[f] + 1 ELSE booked[f]
        /\ \A g \in Refunds \ {f} : booked'[g] = booked[g] /\ covers'[g] = covers[g]
        /\ covers'[f] = IF q.new THEN q.covers ELSE covers[f]
        /\ source' = IF q.books THEN q.source + Worth(q.covers) ELSE source
    BY DEF Commit, TypeInv, DbOK
  <1>2. PICK w \in Nat : w = Worth(q.covers)
    BY WorthType DEF Known
  <1>3. /\ Booking \in [Refunds -> Nat] /\ Booking' \in [Refunds -> Nat]
        /\ booked[f] \in Nat
    <2>1. (TypeInv => Booking \in [Refunds -> Nat])'
      BY BookingNat, PTL
    <2>. QED
      BY <2>1, BookingNat, Ledgers
  <1>4. \A g \in Refunds \ {f} : Booking'[g] = Booking[g]
    BY <1>1 DEF Booking, Worth
  <1>5. Booking[f] = booked[f] * w
    <2>1. CASE q.new
      <3>1. booked[f] = 0
        BY <2>1 DEF BookInv
      <3>2. PICK n \in Nat : n = Worth(covers[f])
        BY OrderAssumption DEF TypeInv, DbOK, Worth
      <3>. QED
        BY <1>2, <3>1, <3>2 DEF Booking
    <2>2. CASE ~q.new
      BY <1>2, <2>2 DEF Booking
    <2>. QED
      BY <2>1, <2>2
  <1>6. Booking'[f] = booked'[f] * w
    BY <1>1, <1>2 DEF Booking, Worth
  <1>7. Booking'[f] = Booking[f] + (IF q.books THEN w ELSE 0)
    BY <1>1, <1>2, <1>3, <1>5, <1>6
  <1>8. SumOver(Booking', Refunds) = SumOver(Booking, Refunds) + Booking'[f] - Booking[f]
    BY <1>3, <1>4, SumChange
  <1>9. SumOver(Booking, Refunds) \in Nat /\ Booking[f] \in Nat
    BY <1>3, SumNat
  <1>10. source = SumOver(Booking, Refunds) /\ BookSum' = SumOver(Booking', Refunds)
    BY BookSumIs, BookSumNext DEF BookInv
  <1>11. source' = source + (IF q.books THEN w ELSE 0)
    BY <1>1, <1>2, <1>9, <1>10
  <1>. QED
    BY <1>7, <1>8, <1>9, <1>10, <1>11

(* A commit books the credit it carries.                                   *)
LEMMA SaveKeepsBooks ==
  ASSUME OneAtATime, IsFiniteSet(Refunds), TypeInv, TypeInv', LedgerInv, BookInv,
         NEW r \in Requests, NEW q \in Known, q.refund \in Refunds,
         \/ Save(r, q) /\ UNCHANGED <<ledger, lost>>
         \/ End(r, q) /\ SameNet,
         Keeps(q), SameCredit(r, q), q.phase \notin {"idle", "book"},
         q.phase \in {"insert", "credit", "deny"} => ~q.granted
  PROVE  BookInv'
  <1>1. CASE Save(r, q) /\ q.txn /\ UNCHANGED <<ledger, lost>>
    BY <1>1, MoveKeepsBooks DEF Save, db
  <1>2. ASSUME NEW p \in {Flushed(q), NoRequest}, req' = [req EXCEPT ![r] = p], Commit(q),
               SameNet
        PROVE  BookInv'
    <2>. DEFINE f == q.refund
    <2>0. /\ \A s \in Requests : s = r /\ req'[s] = p
          /\ q.phase \in {"insert", "credit", "settled", "revoke", "deny"}
          /\ q.status \in RefundStatus /\ q.books \in BOOLEAN
          /\ processor' = processor
      BY <1>2 DEF OneAtATime, TypeInv, ReqOK, Known, Request, Commit
    <2>1. /\ booked'[f] = IF q.books THEN booked[f] + 1 ELSE booked[f]
          /\ \A g \in Refunds \ {f} :
               booked'[g] = booked[g] /\ covers'[g] = covers[g] /\ status'[g] = status[g]
          /\ covers'[f] = IF q.new THEN q.covers ELSE covers[f]
          /\ status'[f] = IF q.saved THEN q.status ELSE status[f]
      BY <1>2 DEF Commit, TypeInv, DbOK
    <2>2. source' = BookSum'
      BY <1>2, CommitKeepsSum DEF Keeps
    <2>3. ASSUME NEW g \in Refunds, status'[g] = Absent PROVE booked'[g] = 0
      <3>1. CASE g = f
        BY <2>0, <2>1, <2>3, <3>1, StatusesDistinct DEF Keeps, BookInv
      <3>2. CASE g # f
        BY <2>1, <2>3, <3>2 DEF BookInv
      <3>. QED
        BY <3>1, <3>2
    <2>p. ~Flushed(q).granted
      BY DEF Flushed, Known, Request
    <2>4. ~p.granted /\ \A g \in Refunds : ~Pending(g)'
      BY <1>2, <2>0, <2>p, NoRequestTells DEF Pending
    <2>5. ASSUME processor = "gateway", NEW g \in Refunds, Balanced(g) PROVE Balanced(g)'
      <3>1. q.books <=> q.granted
        BY <2>0, <2>5 DEF Keeps
      <3>2. Pending(g) <=> g = f /\ q.books
        BY <2>0, <3>1 DEF Pending, SameCredit
      <3>3. booked'[g] = booked[g] + (IF Pending(g) THEN 1 ELSE 0)
        BY <2>0, <2>1, <3>2, Ledgers
      <3>4. /\ ledger'[g] \in Nat /\ lost'[g] \in Nat /\ booked[g] \in Nat
            /\ ledger[g] \in Nat /\ lost[g] \in Nat
            /\ ledger'[g] + lost[g] = ledger[g] + lost'[g]
        BY <1>2, Ledgers DEF SameNet, TypeInv, OutsideOK, HistoryOK, LostOK
      <3>. QED
        BY <2>4, <2>5, <3>3, <3>4 DEF Balanced
    <2>n. ASSUME NEW g \in Refunds, ForNothing(g) PROVE ForNothing(g)'
      <3>1. status[g] # Absent /\ Worth(covers[g]) = 0
        BY <2>n DEF ForNothing
      <3>2. CASE g = f
        BY <2>0, <2>1, <3>1, <3>2, StatusesDistinct DEF ForNothing, Keeps, Worth
      <3>3. CASE g # f
        BY <2>0, <2>1, <3>1, <3>3 DEF ForNothing, Worth
      <3>. QED
        BY <3>2, <3>3
    <2>a. status'[f] # Absent /\ covers'[f] = q.covers
      BY <2>0, <2>1, StatusesDistinct DEF Keeps
    <2>6. Keeps(p)'
      <3>1. CASE p = NoRequest
        BY <3>1, RefundAssumption DEF Keeps, NoRequest
      <3>2. CASE p = Flushed(q)
        <4>1. /\ p.phase = q.phase /\ p.refund = f /\ p.source = q.source
              /\ p.covers = q.covers /\ p.paid = q.paid
              /\ p.txn = q.txn /\ p.store = q.store
              /\ ~p.granted /\ ~p.books /\ ~p.new
          BY <3>2 DEF Flushed, Known, Request
        <4>2. q.phase = "credit" => source' = q.source
          BY <1>2 DEF Commit, Keeps
        <4>. QED
          BY <2>0, <2>a, <4>1, <4>2 DEF Keeps, Worth
      <3>. QED
        BY <1>2, <3>1, <3>2
    <2>. QED
      BY <2>0, <2>2, <2>3, <2>5, <2>n, <2>6 DEF BookInv
  <1>3. CASE Save(r, q) /\ ~q.txn /\ UNCHANGED <<ledger, lost>>
    BY <1>2, <1>3, Ledgers DEF Save, SameNet
  <1>4. CASE End(r, q) /\ SameNet
    BY <1>2, <1>4 DEF End
  <1>. QED
    BY <1>1, <1>3, <1>4

LEMMA StepKeepsBooks ==
  ASSUME OneAtATime, IsFiniteSet(Refunds), TypeInv, TypeInv', LedgerInv, BookInv,
         NEW r \in Requests, Step(r)
  PROVE  BookInv'
  <1>. DEFINE Alike(q) ==
         /\ q.refund = req[r].refund /\ q.covers = req[r].covers
         /\ q.new = req[r].new /\ q.books = req[r].books
         /\ q.source = req[r].source /\ q.paid = req[r].paid
         /\ q.granted = req[r].granted /\ (req[r].saved => q.saved)
         /\ q.txn = req[r].txn /\ q.store = req[r].store
  <1>0. /\ req[r] \in Known /\ Tells(req[r]) /\ Keeps(req[r])
        /\ \A s \in Requests : s = r
    BY DEF TypeInv, ReqOK, LedgerInv, BookInv, OneAtATime
  <1>p. processor' = processor
    BY ProcessorStays
  (* A request that starts.                                                *)
  <1>1. ASSUME NEW q, req' = [req EXCEPT ![r] = q], UNCHANGED <<db, ledger, lost>>,
               req[r].phase = "idle", ~q.granted, Keeps(q)
        PROVE  BookInv'
    <2>1. SameCredit(r, q)
      BY <1>0, <1>1 DEF SameCredit, Tells
    <2>. QED
      BY <1>1, <2>1, MoveKeepsBooks DEF db
  <1>2. CASE \/ BeginCommand(r)
             \/ \E course \in SUBSET Lines :
                  BeginCreate(r, course) \/ BeginStoreRefund(r, course)
    <2>1. PICK lines, t, b : Select(r, lines, t, b) /\ (b => t)
      BY <1>2 DEF BeginCommand, BeginCreate, BeginStoreRefund
    <2>2. PICK q \in {[NoRequest EXCEPT !.phase = "insert", !.txn = t, !.store = b,
                                        !.covers = lines, !.todo = lines]} :
            req' = [req EXCEPT ![r] = q]
      BY <2>1 DEF Select
    <2>3. /\ q.phase = "insert" /\ ~q.granted /\ q.refund = NoRefund
          /\ ~q.books /\ ~q.paid /\ q.store = b /\ q.txn = t
      BY DEF NoRequest
    <2>4. Keeps(q)
      BY <2>1, <2>3, RefundAssumption DEF Keeps
    <2>. QED
      BY <1>1, <2>1, <2>2, <2>3, <2>4 DEF Select, outside, history
  <1>3. ASSUME NEW f \in Refunds, NEW payOnly \in BOOLEAN, BeginApprove(r, f, payOnly)
        PROVE  BookInv'
    <2>1. PICK q \in {[NoRequest EXCEPT
             !.phase = IF status[f] \in {Open, PaymentRefundError}
                       THEN "credit" ELSE "settled",
             !.txn = TRUE, !.payOnly = payOnly, !.refund = f, !.status = status[f],
             !.covers = covers[f], !.source = source]} : req' = [req EXCEPT ![r] = q]
      BY <1>3 DEF BeginApprove
    <2>2. /\ ~q.granted /\ q.refund = f /\ q.covers = covers[f] /\ q.source = source
          /\ ~q.new /\ ~q.books /\ ~q.paid /\ q.phase \in {"credit", "settled"}
          /\ q.txn /\ ~q.store
      BY DEF NoRequest
    <2>3. Keeps(q)
      BY <1>3, <2>2, StatusesDistinct DEF BeginApprove, Keeps
    <2>. QED
      BY <1>1, <1>3, <2>1, <2>2, <2>3 DEF BeginApprove, outside, history
  <1>4. ASSUME NEW f \in Refunds, BeginDeny(r, f) PROVE BookInv'
    <2>1. PICK q \in {[NoRequest EXCEPT !.phase = "deny", !.txn = TRUE, !.refund = f,
                                        !.covers = covers[f]]} :
            req' = [req EXCEPT ![r] = q]
      BY <1>4 DEF BeginDeny
    <2>2. /\ ~q.granted /\ q.refund = f /\ q.covers = covers[f]
          /\ ~q.new /\ ~q.books /\ ~q.paid /\ q.phase = "deny"
          /\ q.txn /\ ~q.store
      BY DEF NoRequest
    <2>3. Keeps(q)
      BY <1>4, <2>2 DEF BeginDeny, Keeps, Open, Absent
    <2>. QED
      BY <1>1, <1>4, <2>1, <2>2, <2>3 DEF BeginDeny, outside, history
  (* A request that saves what says nothing of the money.                  *)
  <1>5. ASSUME NEW q \in Known, q.refund \in Refunds, Alike(q), q.phase = req[r].phase,
               q.phase \in {"insert", "credit", "settled", "revoke", "deny"},
               \/ (Save(r, q) /\ UNCHANGED <<ledger, lost>>)
               \/ (End(r, q) /\ SameNet)
        PROVE  BookInv'
    <2>1. Keeps(q) /\ SameCredit(r, q)
      BY <1>0, <1>5 DEF Keeps, SameCredit
    <2>2. q.phase \in {"insert", "credit", "deny"} => ~q.granted
      BY <1>0, <1>5 DEF Tells
    <2>. QED
      BY <1>5, <2>1, <2>2, SaveKeepsBooks
  <1>6. UNCHANGED <<ledger, lost>> => SameNet
    BY Ledgers DEF SameNet
  <1>7. CASE InsertRefund(r)
    <2>1. PICK f \in Refunds :
            /\ Free(f)
            /\ \E q \in {[req[r] EXCEPT !.refund = f, !.new = TRUE, !.saved = TRUE]} :
                 Save(r, q)
      BY <1>7 DEF InsertRefund
    <2>2. PICK q \in {[req[r] EXCEPT !.refund = f, !.new = TRUE, !.saved = TRUE]} :
            Save(r, q)
      BY <2>1
    <2>3. /\ q \in Known /\ q.refund = f /\ q.phase = "insert" /\ q.new /\ q.saved
          /\ q.books = req[r].books /\ q.paid = req[r].paid
          /\ q.store = req[r].store /\ q.txn = req[r].txn
          /\ q.granted = req[r].granted
      BY <1>0, <1>7 DEF InsertRefund, Request, Known
    <2>4. ~q.books /\ ~q.paid /\ ~q.granted /\ ~req[r].granted /\ status[f] = Absent
      BY <1>0, <1>7, <2>1, <2>3 DEF Keeps, Tells, InsertRefund, Free
    <2>5. Keeps(q) /\ SameCredit(r, q)
      BY <1>0, <2>3, <2>4 DEF Keeps, SameCredit
    <2>. QED
      BY <1>7, <2>2, <2>3, <2>4, <2>5, SaveKeepsBooks DEF InsertRefund, outside, history
  <1>8. ASSUME NEW l \in Lines, InsertLine(r, l) PROVE BookInv'
    <2>1. PICK q \in {[req[r] EXCEPT !.wrote[l] = InitialLineStatus,
                                     !.todo = @ \ {l}]} : Save(r, q)
      BY <1>8 DEF InsertLine
    <2>2. PICK w \in [Lines -> LineStatus \cup {Unwritten}] :
            w = [req[r].wrote EXCEPT ![l] = InitialLineStatus]
      BY <1>0 DEF Known, Request, InitialLineStatus, LineStatus
    <2>3. q = [req[r] EXCEPT !.wrote = w, !.todo = @ \ {l}]
      BY <2>1, <2>2
    <2>4. /\ q \in Known /\ q.phase = req[r].phase /\ q.phase = "insert"
          /\ q.refund \in Refunds /\ Alike(q)
      BY <1>0, <1>8, <2>3 DEF InsertLine, Request, Known
    <2>. QED
      BY <1>5, <1>8, <2>1, <2>4 DEF InsertLine, outside, history
  <1>9. CASE EndCreate(r)
    <2>1. req[r].phase = "insert" /\ req[r].refund \in Refunds
      BY <1>0, <1>9 DEF EndCreate, Inserted, Known, Request
    <2>. QED
      BY <1>0, <1>5, <1>6, <1>9, <2>1 DEF EndCreate, outside, history
  <1>10. CASE ApproveAtOnce(r)
    <2>1. PICK q \in {[req[r] EXCEPT !.phase = "credit", !.source = source]} :
            req' = [req EXCEPT ![r] = q]
      BY <1>10 DEF ApproveAtOnce, TypeInv, ReqOK
    <2>2. /\ q.phase = "credit" /\ q.source = source /\ q.refund = req[r].refund
          /\ q.covers = req[r].covers /\ q.new = req[r].new
          /\ q.books = req[r].books /\ q.paid = req[r].paid
          /\ q.granted = req[r].granted /\ q.saved = req[r].saved
          /\ q.store = req[r].store /\ q.txn = req[r].txn
      BY <1>0 DEF Known, Request
    <2>3. Keeps(q) /\ SameCredit(r, q)
      BY <1>0, <1>10, <2>2
      DEF ApproveAtOnce, ApprovedAtOnce, Inserted, Keeps, SameCredit
    <2>. QED
      BY <1>10, <2>1, <2>3, MoveKeepsBooks DEF ApproveAtOnce, db, outside, history
  (* A gateway's credit is held until it is booked.                        *)
  <1>11. CASE Credited(r)
    <2>0. req[r].phase = "credit" /\ ~req[r].granted
      BY <1>0, <1>11 DEF Credited, Crediting, Tells
    <2>1. PICK granted \in BOOLEAN :
            /\ Paid(r, granted)
            /\ IF granted THEN Grants(req[r].refund, Amount(r))
                          ELSE UNCHANGED <<ledger, credited>>
            /\ processor = "gateway" => granted
      BY <1>11 DEF Credited
    <2>2. PICK q \in {[req[r] EXCEPT !.phase = "book", !.paid = TRUE,
                                     !.granted = granted]} :
            req' = [req EXCEPT ![r] = q]
      BY <2>1 DEF Paid, TypeInv, ReqOK
    <2>3. PICK f \in Refunds : f = req[r].refund
      BY <1>0, <2>0 DEF Known
    <2>4. /\ q.phase = "book" /\ q.paid /\ q.granted = granted /\ q.refund = f
          /\ q.source = req[r].source /\ q.covers = req[r].covers
          /\ q.new = req[r].new /\ q.books = req[r].books /\ q.saved = req[r].saved
          /\ q.store = req[r].store /\ q.txn = req[r].txn
      BY <1>0, <2>3 DEF Known, Request
    <2>5. Keeps(q)
      BY <1>0, <2>0, <2>1, <2>3, <2>4 DEF Keeps
    <2>6. UNCHANGED <<processor, status, covers, booked, source, lost>>
      BY <1>11 DEF Credited, db, history
    <2>7. \A s \in Requests : req'[s] = q
      BY <1>0, <2>2 DEF TypeInv, ReqOK
    <2>8. CASE ~granted
      <3>1. SameCredit(r, q) /\ UNCHANGED ledger
        BY <2>0, <2>1, <2>4, <2>8 DEF SameCredit
      <3>. QED
        BY <2>2, <2>5, <2>6, <3>1, MoveKeepsBooks
    <2>9. CASE granted
      <3>1. /\ ledger'[f] = ledger[f] + 1
            /\ \A g \in Refunds \ {f} : ledger'[g] = ledger[g]
        BY <2>1, <2>3, <2>9, GrantedOne
      <3>2. \A g \in Refunds : ~Pending(g) /\ (Pending(g)' <=> g = f)
        BY <1>0, <2>0, <2>4, <2>7, <2>9 DEF Pending
      <3>3. ASSUME NEW g \in Refunds, Balanced(g) PROVE Balanced(g)'
        BY <2>6, <3>1, <3>2, <3>3, Ledgers DEF Balanced
      <3>4. BookSum' = BookSum
        BY <2>6, BookSumIs, BookSumNext DEF Booking, Worth
      <3>5. Keeps(q)'
        BY <2>5, <2>6 DEF Keeps, Worth
      <3>6. \A g \in Refunds : ForNothing(g) => ForNothing(g)'
        BY <2>6 DEF ForNothing, Worth
      <3>. QED
        BY <2>6, <2>7, <3>3, <3>4, <3>5, <3>6 DEF BookInv
    <2>. QED
      BY <2>8, <2>9
  <1>12. CASE NothingToCredit(r)
    <2>1. PICK q \in {[req[r] EXCEPT !.phase = "book"]} : req' = [req EXCEPT ![r] = q]
      BY <1>12 DEF NothingToCredit, TypeInv, ReqOK
    <2>2. Alike(q) /\ q.phase = "book" /\ q.saved = req[r].saved
      BY <1>0 DEF Known, Request
    <2>3. processor # "gateway" /\ req[r].phase = "credit"
      BY <1>12 DEF NothingToCredit, HasSource
    <2>4. Keeps(q) /\ SameCredit(r, q)
      BY <1>0, <2>2, <2>3 DEF Keeps, SameCredit
    <2>. QED
      BY <1>12, <2>1, <2>4, MoveKeepsBooks DEF NothingToCredit, db, outside, history
  (* The answer may be lost with the credit: both accounts grow.           *)
  <1>13. CASE CreditFailed(r)
    <2>1. PICK q \in {[req[r] EXCEPT !.status = PaymentRefundError, !.saved = TRUE]} :
            End(r, q)
      BY <1>13 DEF CreditFailed
    <2>2. /\ q \in Known /\ q.refund \in Refunds /\ q.phase = req[r].phase
          /\ q.phase = "credit" /\ Alike(q)
      BY <1>0, <1>13 DEF CreditFailed, Crediting, Known, Request, RefundStatus
    <2>3. CASE Grants(req[r].refund, Amount(r)) /\ Forgotten(req[r].refund)
      <3>1. PICK f \in Refunds : f = req[r].refund
        BY <2>2
      <3>2. /\ ledger'[f] = ledger[f] + 1 /\ lost'[f] = lost[f] + 1
            /\ \A g \in Refunds \ {f} : ledger'[g] = ledger[g] /\ lost'[g] = lost[g]
        BY <2>3, <3>1, GrantedOne, Ledgers DEF Forgotten
      <3>3. SameNet
        BY <3>2, Ledgers DEF SameNet
      <3>. QED
        BY <1>5, <2>1, <2>2, <3>3
    <2>. QED
      BY <1>5, <1>6, <1>13, <2>1, <2>2, <2>3 DEF CreditFailed
  <1>14. CASE CreditRaises(r) \/ Crash(r)
    BY <1>14, AbortKeepsBooks DEF CreditRaises, Crash, outside
  (* With a gateway, what is booked is what was granted.                   *)
  <1>15. CASE Book(r)
    <2>1. PICK q \in {[req[r] EXCEPT
                        !.phase = "settled", !.status = PaymentRefunded,
                        !.saved = TRUE, !.books = req[r].paid,
                        !.frees = FreesOffer(req[r])]} : Save(r, q)
      BY <1>15 DEF Book
    <2>2. FreesOffer(req[r]) \in BOOLEAN
      BY OrderAssumption, Zenon DEF FreesOffer
    <2>3. /\ q \in Known /\ q.phase = "settled" /\ q.refund = req[r].refund
          /\ q.refund \in Refunds /\ q.saved /\ q.books = req[r].paid
          /\ q.granted = req[r].granted /\ q.source = req[r].source
          /\ q.covers = req[r].covers /\ q.new = req[r].new
          /\ q.store = req[r].store /\ q.txn = req[r].txn
      BY <1>0, <1>15, <2>2 DEF Book, Request, Known, RefundStatus
    <2>4. Keeps(q) /\ SameCredit(r, q)
      BY <1>0, <1>15, <2>3 DEF Book, Keeps, SameCredit
    <2>. QED
      BY <1>15, <2>1, <2>3, <2>4, SaveKeepsBooks DEF Book, outside, history
  (* The command that dies while it books had a refund of nothing.         *)
  <1>26. CASE BookCutShort(r)
    <2>1. PICK q \in Known :
            /\ End(r, q)
            /\ q \in {[req[r] EXCEPT !.books = req[r].paid],
                      [req[r] EXCEPT !.status = PaymentRefunded, !.saved = TRUE,
                                     !.books = req[r].paid]}
      BY <1>0, <1>26, CutShortSaves
    <2>2. PICK f \in Refunds : f = req[r].refund
      BY <1>0, <1>26 DEF BookCutShort, Known
    <2>3. /\ q.refund = f /\ q.covers = req[r].covers /\ q.new = req[r].new
          /\ q.source = req[r].source /\ q.books = req[r].paid
          /\ req[r].saved => q.saved
          /\ req[r].phase = "book" /\ ~req[r].txn
      BY <1>0, <1>26, <2>1, <2>2 DEF BookCutShort, Known, Request
    <2>4. /\ q.source = source /\ Worth(q.covers) = 0
          /\ IF q.new THEN q.saved /\ status[f] = Absent
                      ELSE status[f] # Absent /\ covers[f] = q.covers
      BY <1>0, <2>2, <2>3 DEF Keeps
    <2>5. /\ \A s \in Requests : req'[s] = NoRequest
          /\ \A g \in Refunds \ {f} : /\ status'[g] = status[g] /\ covers'[g] = covers[g]
                                       /\ booked'[g] = booked[g]
          /\ status'[f] = IF q.saved THEN q.status ELSE status[f]
          /\ covers'[f] = IF q.new THEN q.covers ELSE covers[f]
      <3>1. \A s \in Requests : req'[s] = NoRequest
        BY <1>0, <2>1 DEF End, TypeInv, ReqOK
      <3>2. Commit(q)
        BY <2>1 DEF End
      <3>. QED
        BY <2>3, <3>1, <3>2 DEF Commit, TypeInv, DbOK
    <2>6. source' = BookSum'
      BY <2>1, <2>3, <2>4, CommitKeepsSum DEF End
    <2>7. status'[f] # Absent /\ ForNothing(f)'
      <3>1. q.status # Absent
        BY StatusesDistinct DEF Known, Request
      <3>. QED
        BY <1>p, <2>4, <2>5, <3>1 DEF ForNothing, Worth
    <2>8. ASSUME NEW g \in Refunds \ {f}, Balanced(g) \/ ForNothing(g)
          PROVE  Balanced(g)' \/ ForNothing(g)'
      <3>1. ~Pending(g) /\ ~Pending(g)'
        BY <1>0, <2>2, <2>5, NoRequestTells DEF Pending
      <3>2. ledger'[g] = ledger[g] /\ lost'[g] = lost[g]
        BY <1>26, <2>2, Ledgers DEF BookCutShort, Forgotten, outside
      <3>. QED
        BY <1>p, <2>5, <2>8, <3>1, <3>2 DEF Balanced, ForNothing, Worth
    <2>9. Keeps(NoRequest)'
      BY RefundAssumption DEF Keeps, NoRequest
    <2>10. \A g \in Refunds : status'[g] = Absent => booked'[g] = 0
      BY <2>5, <2>7 DEF BookInv
    <2>. QED
      BY <1>p, <2>5, <2>6, <2>7, <2>8, <2>9, <2>10 DEF BookInv
  <1>16. CASE CompleteWithoutRevoking(r)
    <2>1. CASE \A l \in Present(req[r]) : LineMayMove(LinesSeen(req[r])[l], Complete)
      <3>1. PICK q \in {[req[r] EXCEPT
                          !.status = Complete, !.saved = TRUE,
                          !.wrote = [l \in Lines |-> IF l \in Present(req[r])
                                                     THEN Complete ELSE Unwritten]]} :
              End(r, q)
        BY <1>16, <2>1 DEF CompleteWithoutRevoking
      <3>2. /\ [l \in Lines |-> IF l \in Present(req[r]) THEN Complete ELSE Unwritten]
                 \in [Lines -> LineStatus \cup {Unwritten}]
            /\ Complete \in RefundStatus
        BY DEF LineStatus, RefundStatus
      <3>3. /\ q \in Known /\ q.refund \in Refunds /\ q.phase = req[r].phase
            /\ q.phase = "settled" /\ Alike(q)
        BY <1>0, <1>16, <3>2 DEF CompleteWithoutRevoking, Request, Known
      <3>4. SameNet
        BY <1>6, <1>16, <2>1 DEF CompleteWithoutRevoking, outside
      <3>. QED
        BY <1>5, <3>1, <3>3, <3>4
    <2>2. CASE ~\A l \in Present(req[r]) : LineMayMove(LinesSeen(req[r])[l], Complete)
      BY <1>16, <2>2, AbortKeepsBooks DEF CompleteWithoutRevoking, outside
    <2>. QED
      BY <2>1, <2>2
  <1>17. CASE NothingToPay(r)
    <2>1. req[r].phase = "settled" /\ req[r].refund \in Refunds
      BY <1>0, <1>17 DEF NothingToPay, Known
    <2>. QED
      BY <1>0, <1>5, <1>6, <1>17, <2>1 DEF NothingToPay, outside, history
  <1>18. ASSUME NEW q, req' = [req EXCEPT ![r] = q], UNCHANGED <<db, ledger, lost>>,
                q.phase = "revoke", req[r].phase \in {"settled", "revoke"}, Alike(q)
         PROVE  BookInv'
    <2>1. Keeps(q) /\ SameCredit(r, q)
      BY <1>0, <1>18 DEF Keeps, SameCredit
    <2>. QED
      BY <1>18, <2>1, MoveKeepsBooks DEF db
  <1>19. CASE StartRevocation(r)
    <2>1. PICK q \in {[req[r] EXCEPT !.phase = "revoke", !.line = LinesSeen(req[r]),
                                     !.todo = Present(req[r])]} :
            req' = [req EXCEPT ![r] = q]
      BY <1>19 DEF StartRevocation, TypeInv, ReqOK
    <2>2. q.phase = "revoke" /\ Alike(q)
      BY <1>0 DEF Known, Request
    <2>. QED
      BY <1>18, <1>19, <2>1, <2>2 DEF StartRevocation, outside, history
  <1>20. ASSUME NEW l \in Lines, NEW s \in LineStatus, Turn(r, l), SetLine(r, l, s),
                UNCHANGED ledger
         PROVE  BookInv'
    <2>1. CASE LineMayMove(req[r].line[l], s)
      <3>1. PICK q \in {[req[r] EXCEPT !.wrote[l] = s, !.todo = @ \ {l},
                                       !.ok = IF s = Complete THEN @ ELSE FALSE]} :
              Save(r, q)
        BY <1>20, <2>1 DEF SetLine
      <3>2. PICK w \in [Lines -> LineStatus \cup {Unwritten}] :
              w = [req[r].wrote EXCEPT ![l] = s]
        BY <1>0 DEF Known, Request
      <3>3. PICK b \in BOOLEAN : b = IF s = Complete THEN req[r].ok ELSE FALSE
        BY <1>0 DEF Known, Request
      <3>4. q = [req[r] EXCEPT !.wrote = w, !.todo = @ \ {l}, !.ok = b]
        BY <3>1, <3>2, <3>3
      <3>5. /\ q \in Known /\ q.refund \in Refunds /\ q.phase = req[r].phase
            /\ q.phase = "revoke" /\ Alike(q)
        BY <1>0, <1>20, <3>4 DEF Turn, Known, Request
      <3>6. UNCHANGED lost
        BY <1>20, <2>1 DEF SetLine
      <3>. QED
        BY <1>5, <1>20, <3>1, <3>5, <3>6
    <2>2. CASE ~LineMayMove(req[r].line[l], s)
      BY <1>20, <2>2, AbortKeepsBooks DEF SetLine
    <2>. QED
      BY <2>1, <2>2
  <1>21. ASSUME NEW l \in Lines,
                SkipRevocation(r, l) \/ Revoked(r, l) \/ RevocationFailed(r, l)
         PROVE  BookInv'
    BY <1>20, <1>21 DEF SkipRevocation, Revoked, RevocationFailed, LineStatus, outside
  <1>22. ASSUME NEW l \in Lines, RevocationNotImplemented(r, l) PROVE BookInv'
    BY <1>22, AbortKeepsBooks DEF RevocationNotImplemented, outside
  <1>23. ASSUME NEW l \in Lines, NoModule(r, l) PROVE BookInv'
    <2>1. PICK q \in {[req[r] EXCEPT !.todo = @ \ {l}]} : req' = [req EXCEPT ![r] = q]
      BY <1>23 DEF NoModule, TypeInv, ReqOK
    <2>2. q.phase = "revoke" /\ Alike(q) /\ req[r].phase = "revoke"
      BY <1>0, <1>23 DEF NoModule, Turn, Known, Request
    <2>. QED
      BY <1>18, <1>23, <2>1, <2>2 DEF NoModule, outside, history
  <1>24. CASE FinishRevocation(r)
    <2>1. CASE req[r].store /\ ~req[r].ok
      BY <1>24, <2>1, AbortKeepsBooks DEF FinishRevocation, outside
    <2>2. CASE ~(req[r].store /\ ~req[r].ok)
      <3>1. PICK q \in {[req[r] EXCEPT !.status = Verdict(req[r]), !.saved = TRUE]} :
              End(r, q)
        BY <1>24, <2>2 DEF FinishRevocation
      <3>2. Verdict(req[r]) \in RefundStatus
        BY DEF Verdict, RefundStatus
      <3>3. /\ q \in Known /\ q.refund \in Refunds /\ q.phase = req[r].phase
            /\ q.phase = "revoke" /\ Alike(q)
        BY <1>0, <1>24, <3>2 DEF FinishRevocation, Request, Known
      <3>4. SameNet
        BY <1>6, <1>24, <2>2 DEF FinishRevocation, outside
      <3>. QED
        BY <1>5, <3>1, <3>3, <3>4
    <2>. QED
      BY <2>1, <2>2
  <1>25. CASE Deny(r)
    <2>. DEFINE w == [l \in Lines |->
                       IF l \in Present(req[r])
                          /\ LineMayMove(LinesSeen(req[r])[l], Denied)
                       THEN Denied ELSE Unwritten]
    <2>1. PICK q \in {[req[r] EXCEPT !.status = Denied, !.saved = TRUE, !.wrote = w]} :
            End(r, q)
      BY <1>25 DEF Deny
    <2>2. w \in [Lines -> LineStatus \cup {Unwritten}] /\ Denied \in RefundStatus
      BY DEF LineStatus, RefundStatus
    <2>. HIDE DEF w
    <2>3. /\ q \in Known /\ q.refund \in Refunds /\ q.phase = req[r].phase
          /\ q.phase = "deny" /\ Alike(q)
      BY <1>0, <1>25, <2>2 DEF Deny, Request, Known
    <2>. QED
      BY <1>5, <1>6, <1>25, <2>1, <2>3 DEF Deny, outside, history
  <1>. QED
    BY <1>2, <1>3, <1>4, <1>7, <1>8, <1>9, <1>10, <1>11, <1>12, <1>13, <1>14, <1>15,
       <1>16, <1>17, <1>19, <1>21, <1>22, <1>23, <1>24, <1>25, <1>26 DEF Step

LEMMA BookInvInductive ==
  ASSUME OneAtATime, IsFiniteSet(Refunds)
  PROVE  /\ Init => BookInv
         /\ TypeInv /\ LedgerInv /\ BookInv /\ [Next]_vars => BookInv'
  <1>1. ASSUME Init PROVE BookInv
    <2>1. /\ \A f \in Refunds : booked[f] = 0 /\ ledger[f] = 0 /\ lost[f] = 0
          /\ source = 0 /\ \A r \in Requests : req[r] = NoRequest
      BY <1>1 DEF Init
    <2>2. /\ Booking \in [Refunds -> Nat]
          /\ \A f \in Refunds : Booking[f] = 0
      <3>1. ASSUME NEW f \in Refunds PROVE booked[f] * Worth(covers[f]) = 0
        <4>1. Worth(covers[f]) \in Nat /\ booked[f] = 0
          BY <1>1, <2>1, InitTypes, OrderAssumption DEF TypeInv, DbOK, Worth
        <4>. QED
          BY <4>1
      <3>. QED
        BY <3>1 DEF Booking
    <2>3. source = BookSum
      BY <2>1, <2>2, BookSumIs, SumZero
    <2>4. \A f \in Refunds : Balanced(f)
      BY <2>1, NoRequestTells DEF Balanced, Pending
    <2>. QED
      BY <2>1, <2>3, <2>4, NoRequestKeeps DEF BookInv
  <1>2. ASSUME TypeInv, LedgerInv, BookInv, [Next]_vars PROVE BookInv'
    <2>1. CASE StoreGivesMoneyBack \/ UNCHANGED vars
      <3>1. UNCHANGED <<processor, status, covers, booked, source, ledger, lost, req>>
        BY <2>1 DEF StoreGivesMoneyBack, vars, db, outside, history
      <3>2. BookSum' = BookSum
        BY <3>1, BookSumIs, BookSumNext DEF Booking, Worth
      <3>. QED
        BY <1>2, <3>1, <3>2 DEF BookInv, Balanced, ForNothing, Pending, Keeps, Worth
    <2>. QED
      BY <1>2, <2>1, StepKeepsBooks, TypeInvInductive DEF Next
  <1>. QED
    BY <1>1, <1>2

(* Between requests the payment events are the credits the processor       *)
(* granted and nobody forgot, credits of nothing aside, and the payment    *)
(* source is their sum: for any finite number of refunds, and whatever     *)
(* failed before.                                                          *)
THEOREM SerialBooksMatch ==
  ASSUME OneAtATime, IsFiniteSet(Refunds)
  PROVE  Spec => []BooksMatchLedger
  <1>1. TypeInv /\ LedgerInv /\ BookInv => BooksMatchLedger
    <2>. SUFFICES ASSUME TypeInv, LedgerInv, BookInv, Idle PROVE BooksMatchLedger
      BY DEF BooksMatchLedger
    <2>1. ASSUME processor = "gateway", NEW f \in Refunds, Worth(covers[f]) > 0
          PROVE  booked[f] = ledger[f] - lost[f]
      <3>1. ~Pending(f)
        BY DEF Pending, LedgerInv, Tells, Idle
      <3>2. ledger[f] = lost[f] + booked[f] + 0
        BY <2>1, <3>1 DEF BookInv, Balanced, ForNothing
      <3>. QED
        BY <3>2, Ledgers
    <2>2. source = BookSum
      BY DEF BookInv
    <2>. QED
      BY <2>1, <2>2 DEF BooksMatchLedger, BookSum
  <1>. QED
    BY <1>1, LedgerInvInductive, BookInvInductive, PTL DEF Spec

=============================================================================
