----------------------------- MODULE RefundProofs -----------------------------
(***************************************************************************)
(* What holds of Refund for every order, any number of refunds of it and   *)
(* any number of requests creating, approving and denying them at once.    *)
(***************************************************************************)
EXTENDS Refund, TLAPS

(* The part of the type invariant that speaks of the database.             *)
DbOK ==
  /\ processor \in Processors
  /\ status \in [Refunds -> RefundStatus \cup {Absent}]
  /\ covers \in [Refunds -> SUBSET Lines]
  /\ rline \in [Refunds -> [Lines -> LineStatus \cup {Absent}]]
  /\ booked \in [Refunds -> Nat]
  /\ source \in Nat
  /\ freed \in Nat

OutsideOK ==
  /\ ledger \in [Refunds -> 0..MaxCredits]
  /\ credited \in Nat
  /\ access \in [Lines -> BOOLEAN]

(* Past the insertion a request always works on some refund.  TypeOK does  *)
(* not say so, and is not inductive without it.                            *)
Known == {q \in Request : q.phase \notin {"idle", "insert"} => q.refund \in Refunds}

ReqOK == req \in [Requests -> Known]

LostOK == lost \in [Refunds -> Nat]

HistoryOK == paidOnly \in [Refunds -> BOOLEAN] /\ rejected \in BOOLEAN /\ LostOK

TypeInv == DbOK /\ OutsideOK /\ ReqOK /\ HistoryOK

LEMMA TypeInvSuffices == TypeInv => TypeOK
  BY DEF TypeInv, TypeOK, DbOK, OutsideOK, ReqOK, HistoryOK, LostOK, Known

LEMMA StatusesDistinct ==
  /\ RefundStatus \cap {Absent, Unwritten} = {}
  /\ LineStatus \cap {Absent, Unwritten} = {}
  BY DEF RefundStatus, LineStatus, Open, Denied, PaymentRefundError,
         PaymentRefunded, RevocationError, Complete, Absent, Unwritten

LEMMA NoRequestType == NoRequest \in Known
  BY DEF NoRequest, Request, RefundStatus, Known

LEMMA FlushedType ==
  ASSUME NEW q \in Known
  PROVE  Flushed(q) \in Known
  BY DEF Flushed, Request, Known

LEMMA WorthType ==
  ASSUME NEW q \in Request
  PROVE  Worth(q.covers) \in Nat
  BY OrderAssumption DEF Worth, Request

LEMMA OverlayType ==
  ASSUME NEW w \in [Lines -> LineStatus \cup {Unwritten}],
         NEW b \in [Lines -> LineStatus \cup {Absent}]
  PROVE  Overlay(w, b) \in [Lines -> LineStatus \cup {Absent}]
  BY DEF Overlay

(* A commit, and every way a request can save, keep the types.             *)
LEMMA CommitType ==
  ASSUME DbOK, NEW q \in Request, Commit(q)
  PROVE  DbOK'
  <1>1. /\ q.status \in RefundStatus /\ q.covers \in SUBSET Lines
        /\ q.wrote \in [Lines -> LineStatus \cup {Unwritten}]
        /\ q.source \in Nat
    BY DEF Request
  <1>2. status' \in [Refunds -> RefundStatus \cup {Absent}]
    BY <1>1 DEF Commit, DbOK
  <1>3. covers' \in [Refunds -> SUBSET Lines]
    BY <1>1 DEF Commit, DbOK
  <1>4. rline' \in [Refunds -> [Lines -> LineStatus \cup {Absent}]]
    BY <1>1, OverlayType DEF Commit, DbOK
  <1>5. booked' \in [Refunds -> Nat]
    <2>1. booked \in [Refunds -> Nat]
      BY DEF DbOK
    <2>2. booked' = [f \in Refunds |-> IF f = q.refund
                                      THEN (IF q.books THEN booked[f] + 1 ELSE booked[f])
                                      ELSE booked[f]]
      BY <2>1 DEF Commit
    <2>3. \A f \in Refunds : booked[f] \in Nat /\ booked[f] + 1 \in Nat
      BY <2>1
    <2>. QED
      BY <2>2, <2>3
  <1>6. source' \in Nat /\ freed' \in Nat
    <2>1. q.source + Worth(q.covers) \in Nat /\ freed + 1 \in Nat
      BY <1>1, WorthType DEF DbOK
    <2>. QED
      BY <2>1 DEF Commit, DbOK
  <1>. QED
    BY <1>2, <1>3, <1>4, <1>5, <1>6 DEF Commit, DbOK

LEMMA SaveType ==
  ASSUME DbOK, ReqOK, NEW r \in Requests, NEW q \in Known,
         Save(r, q) \/ End(r, q)
  PROVE  DbOK' /\ ReqOK'
  <1>1. CASE Save(r, q) /\ q.txn
    BY <1>1 DEF Save, DbOK, ReqOK, db
  <1>2. CASE Save(r, q) /\ ~q.txn
    BY <1>2, CommitType, FlushedType DEF Save, ReqOK, Known
  <1>3. CASE End(r, q)
    BY <1>3, CommitType, NoRequestType DEF End, ReqOK, Known
  <1>. QED
    BY <1>1, <1>2, <1>3

LEMMA ForgottenType ==
  ASSUME LostOK, NEW f, Forgotten(f)
  PROVE  LostOK'
  <1>1. lost' = [g \in Refunds |-> IF g = f THEN lost[g] + 1 ELSE lost[g]]
    BY DEF LostOK, Forgotten
  <1>2. \A g \in Refunds : lost[g] \in Nat /\ lost[g] + 1 \in Nat
    BY DEF LostOK
  <1>. QED
    BY <1>1, <1>2 DEF LostOK

LEMMA AbortType ==
  ASSUME DbOK, ReqOK, LostOK, NEW r \in Requests, Abort(r)
  PROVE  DbOK' /\ ReqOK' /\ LostOK'
  <1>1. LostOK'
    BY ForgottenType DEF Abort, LostOK
  <1>. QED
    BY <1>1, NoRequestType DEF Abort, DbOK, ReqOK, db

(* What the command leaves behind when it dies while it books a credit:    *)
(* the payment event alone, or the status too, and no offer.               *)
LEMMA CutShortSaves ==
  ASSUME NEW r \in Requests, req[r] \in Known, BookCutShort(r)
  PROVE  \E q \in Known :
           /\ End(r, q)
           /\ \/ /\ q = [req[r] EXCEPT !.books = req[r].paid]
                 /\ IF req[r].granted THEN Forgotten(req[r].refund) ELSE UNCHANGED lost
              \/ /\ q = [req[r] EXCEPT !.status = PaymentRefunded, !.saved = TRUE,
                                       !.books = req[r].paid]
                 /\ UNCHANGED lost
  <1>1. req[r].paid \in BOOLEAN /\ PaymentRefunded \in RefundStatus
        /\ req[r].phase = "book"
    BY DEF BookCutShort, Known, Request, RefundStatus
  <1>2. [req[r] EXCEPT !.books = req[r].paid] \in Known
    BY <1>1 DEF Known, Request
  <1>3. [req[r] EXCEPT !.status = PaymentRefunded, !.saved = TRUE,
                       !.books = req[r].paid] \in Known
    BY <1>1 DEF Known, Request
  <1>. QED
    BY <1>2, <1>3 DEF BookCutShort

(* A request that only goes on to another local state q.                   *)
LEMMA MoveType ==
  ASSUME DbOK, ReqOK, NEW r \in Requests, NEW q \in Known,
         req' = [req EXCEPT ![r] = q], UNCHANGED db
  PROVE  DbOK' /\ ReqOK'
  BY DEF DbOK, ReqOK, db

LEMMA LinesSeenType ==
  ASSUME DbOK, NEW q \in Known, q.refund \in Refunds
  PROVE  LinesSeen(q) \in [Lines -> LineStatus \cup {Absent}]
  BY OverlayType DEF LinesSeen, DbOK, Request, Known

LEMMA GrantsType ==
  ASSUME OutsideOK, NEW f, NEW a \in Nat, Grants(f, a)
  PROVE  ledger' \in [Refunds -> 0..MaxCredits] /\ credited' \in Nat
  <1>1. ledger \in [Refunds -> 0..MaxCredits] /\ credited \in Nat /\ MaxCredits \in Nat
    BY SettingAssumption DEF OutsideOK
  <1>2. ledger' = [g \in Refunds |-> IF g = f THEN ledger[g] + 1 ELSE ledger[g]]
    BY <1>1 DEF Grants
  <1>3. \A g \in Refunds : g = f => ledger[g] + 1 \in 0..MaxCredits
    <2>1. \A g \in Refunds : ledger[g] \in Nat
      BY <1>1
    <2>. QED
      BY <1>1, <2>1 DEF Grants
  <1>4. \A g \in Refunds : ledger[g] \in 0..MaxCredits
    BY <1>1
  <1>5. ledger' \in [Refunds -> 0..MaxCredits]
    BY <1>2, <1>3, <1>4
  <1>. QED
    BY <1>1, <1>5 DEF Grants

LEMMA SetLineType ==
  ASSUME DbOK, ReqOK, LostOK, rejected \in BOOLEAN, NEW r \in Requests,
         NEW l \in Lines, NEW s \in LineStatus, SetLine(r, l, s)
  PROVE  DbOK' /\ ReqOK' /\ LostOK' /\ rejected' \in BOOLEAN
  <1>1. CASE LineMayMove(req[r].line[l], s)
    <2>1. PICK q \in {[req[r] EXCEPT !.wrote[l] = s, !.todo = @ \ {l},
                                     !.ok = IF s = Complete THEN @ ELSE FALSE]} : Save(r, q)
      BY <1>1 DEF SetLine
    <2>2. q \in Known
      <3>1. req[r] \in Known
        BY DEF ReqOK
      <3>2. [req[r].wrote EXCEPT ![l] = s] \in [Lines -> LineStatus \cup {Unwritten}]
        BY <3>1 DEF Known, Request
      <3>3. PICK w \in [Lines -> LineStatus \cup {Unwritten}] :
              w = [req[r].wrote EXCEPT ![l] = s]
        BY <3>2
      <3>4. PICK b \in BOOLEAN : b = IF s = Complete THEN req[r].ok ELSE FALSE
        BY <3>1 DEF Known, Request
      <3>5. q = [req[r] EXCEPT !.wrote = w, !.todo = @ \ {l}, !.ok = b]
        BY <2>1, <3>3, <3>4
      <3>. QED
        BY <3>1, <3>5 DEF Known, Request
    <2>. QED
      BY <1>1, <2>1, <2>2, SaveType DEF SetLine, LostOK
  <1>2. CASE ~LineMayMove(req[r].line[l], s)
    BY <1>2, AbortType DEF SetLine
  <1>. QED
    BY <1>1, <1>2

LEMMA TypeInvInductive == TypeInv /\ [Next]_vars => TypeInv'
  <1>. SUFFICES ASSUME TypeInv, [Next]_vars PROVE TypeInv'
    OBVIOUS
  <1>0. DbOK /\ OutsideOK /\ ReqOK /\ HistoryOK
    BY DEF TypeInv
  <1>1. CASE StoreGivesMoneyBack
    BY <1>0, <1>1, OrderAssumption
    DEF StoreGivesMoneyBack, Total, Worth, TypeInv, DbOK, OutsideOK, ReqOK,
        HistoryOK, LostOK, db, history
  <1>2. ASSUME NEW r \in Requests, Step(r)
        PROVE  TypeInv'
    <2>0. req[r] \in Known
      BY <1>0 DEF ReqOK
    <2>1. ASSUME NEW lines \in SUBSET Lines, NEW t \in BOOLEAN, NEW b \in BOOLEAN,
                 Select(r, lines, t, b)
          PROVE  TypeInv'
      <3>1. [NoRequest EXCEPT !.phase = "insert", !.txn = t, !.store = b,
                              !.covers = lines, !.todo = lines] \in Known
        BY NoRequestType DEF Request, Known
      <3>. QED
        BY <1>0, <2>1, <3>1, MoveType DEF Select, outside, history, TypeInv, OutsideOK, HistoryOK, LostOK
    <2>2. CASE \/ BeginCommand(r)
               \/ \E course \in SUBSET Lines :
                    BeginCreate(r, course) \/ BeginStoreRefund(r, course)
      <3>1. PICK lines \in SUBSET Lines, t \in BOOLEAN, b \in BOOLEAN :
              Select(r, lines, t, b)
        BY <2>2 DEF BeginCommand, BeginCreate, BeginStoreRefund, Unrefunded, Untouched
      <3>. QED
        BY <2>1, <3>1
    <2>3. CASE InsertRefund(r)
      <3>0. PICK f \in Refunds :
              \E q \in {[req[r] EXCEPT !.refund = f, !.new = TRUE, !.saved = TRUE]} :
                Save(r, q)
        BY <2>3 DEF InsertRefund
      <3>1. PICK q \in {[req[r] EXCEPT !.refund = f, !.new = TRUE, !.saved = TRUE]} :
              Save(r, q)
        BY <3>0
      <3>2. q \in Known
        BY <2>0 DEF Request, Known
      <3>. QED
        BY <1>0, <2>3, <3>1, <3>2, SaveType DEF InsertRefund, outside, history, TypeInv, OutsideOK, HistoryOK, LostOK
    <2>4. ASSUME NEW l \in Lines, InsertLine(r, l)
          PROVE  TypeInv'
      <3>1. PICK q \in {[req[r] EXCEPT !.wrote[l] = InitialLineStatus,
                                       !.todo = @ \ {l}]} : Save(r, q)
        BY <2>4 DEF InsertLine
      <3>2. q \in Known
        <4>1. InitialLineStatus \in LineStatus
          BY DEF InitialLineStatus, LineStatus
        <4>2. [req[r].wrote EXCEPT ![l] = InitialLineStatus]
                \in [Lines -> LineStatus \cup {Unwritten}]
          BY <2>0, <4>1 DEF Known, Request
        <4>. QED
          BY <2>0, <4>2 DEF Known, Request
      <3>. QED
        BY <1>0, <2>4, <3>1, <3>2, SaveType DEF InsertLine, outside, history, TypeInv, OutsideOK, HistoryOK, LostOK
    <2>5. CASE EndCreate(r) \/ NothingToPay(r)
      <3>. QED
        BY <1>0, <2>0, <2>5, SaveType DEF EndCreate, NothingToPay, outside, history, TypeInv, OutsideOK, HistoryOK, LostOK
    <2>6. CASE ApproveAtOnce(r)
      <3>1. [req[r] EXCEPT !.phase = "credit", !.source = source] \in Known
        BY <1>0, <2>0, <2>6 DEF ApproveAtOnce, Inserted, DbOK, Request, Known
      <3>2. req' = [req EXCEPT ![r] = [req[r] EXCEPT !.phase = "credit", !.source = source]]
        BY <1>0, <2>6 DEF ApproveAtOnce, ReqOK
      <3>. QED
        BY <1>0, <2>6, <3>1, <3>2, MoveType DEF ApproveAtOnce, outside, history, TypeInv, OutsideOK, HistoryOK, LostOK
    <2>7. ASSUME NEW f \in Refunds, NEW payOnly \in BOOLEAN, BeginApprove(r, f, payOnly)
          PROVE  TypeInv'
      <3>1. PICK q \in {[NoRequest EXCEPT
               !.phase = IF status[f] \in {Open, PaymentRefundError}
                         THEN "credit" ELSE "settled",
               !.txn = TRUE, !.payOnly = payOnly, !.refund = f, !.status = status[f],
               !.covers = covers[f], !.source = source]} : req' = [req EXCEPT ![r] = q]
        BY <2>7 DEF BeginApprove
      <3>2. q \in Known
        <4>1. /\ status[f] \in RefundStatus /\ covers[f] \in SUBSET Lines
              /\ source \in Nat
          BY <1>0, <2>7 DEF BeginApprove, DbOK
        <4>2. (IF status[f] \in {Open, PaymentRefundError} THEN "credit" ELSE "settled")
                \in {"credit", "settled"}
          OBVIOUS
        <4>. QED
          BY <4>1, <4>2, NoRequestType DEF Request, Known
      <3>. QED
        BY <1>0, <2>7, <3>1, <3>2, MoveType DEF BeginApprove, outside, history, TypeInv, OutsideOK, HistoryOK, LostOK
    <2>8. ASSUME NEW f \in Refunds, BeginDeny(r, f)
          PROVE  TypeInv'
      <3>1. PICK q \in {[NoRequest EXCEPT !.phase = "deny", !.txn = TRUE, !.refund = f,
                                          !.covers = covers[f]]} :
              req' = [req EXCEPT ![r] = q]
        BY <2>8 DEF BeginDeny
      <3>2. q \in Known
        <4>1. covers[f] \in SUBSET Lines /\ "deny" \notin {"idle", "insert"}
          BY <1>0 DEF DbOK
        <4>. QED
          BY <4>1, NoRequestType DEF Request, Known
      <3>. QED
        BY <1>0, <2>8, <3>1, <3>2, MoveType DEF BeginDeny, outside, history, TypeInv, OutsideOK, HistoryOK, LostOK
    <2>9. CASE Credited(r)
      <3>1. PICK granted \in BOOLEAN : Paid(r, granted)
        BY <2>9 DEF Credited
      <3>2. PICK q \in {[req[r] EXCEPT !.phase = "book", !.paid = TRUE,
                                       !.granted = granted]} :
              req' = [req EXCEPT ![r] = q]
        BY <1>0, <3>1 DEF Paid, ReqOK
      <3>5. q \in Known
        BY <2>0, <2>9, <3>2 DEF Credited, Crediting, Request, Known
      <3>3. Amount(r) \in Nat
        BY <2>0, WorthType DEF Amount, Known
      <3>4. ledger' \in [Refunds -> 0..MaxCredits] /\ credited' \in Nat
        BY <1>0, <2>9, <3>3, GrantsType DEF Credited, OutsideOK
      <3>. QED
        BY <1>0, <2>9, <3>2, <3>4, <3>5, MoveType
        DEF Credited, history, TypeInv, OutsideOK, HistoryOK, LostOK
    <2>10. CASE NothingToCredit(r)
      <3>1. [req[r] EXCEPT !.phase = "book"] \in Known
        BY <2>0, <2>10 DEF NothingToCredit, Request, Known
      <3>2. req' = [req EXCEPT ![r] = [req[r] EXCEPT !.phase = "book"]]
        BY <1>0, <2>10 DEF NothingToCredit, ReqOK
      <3>. QED
        BY <1>0, <2>10, <3>1, <3>2, MoveType DEF NothingToCredit, outside, history, TypeInv, OutsideOK, HistoryOK, LostOK
    <2>11. CASE CreditFailed(r)
      <3>1. PICK q \in {[req[r] EXCEPT !.status = PaymentRefundError, !.saved = TRUE]} :
              End(r, q)
        BY <2>11 DEF CreditFailed
      <3>2. q \in Known
        BY <2>0 DEF Request, Known, RefundStatus
      <3>3. Amount(r) \in Nat
        BY <2>0, WorthType DEF Amount, Known
      <3>4. ledger' \in [Refunds -> 0..MaxCredits] /\ credited' \in Nat
        BY <1>0, <2>11, <3>3, GrantsType DEF CreditFailed, OutsideOK
      <3>5. LostOK'
        BY <1>0, <2>11, ForgottenType DEF CreditFailed, HistoryOK, LostOK
      <3>. QED
        BY <1>0, <2>11, <3>1, <3>2, <3>4, <3>5, SaveType
        DEF CreditFailed, TypeInv, OutsideOK, HistoryOK
    <2>12. CASE CreditRaises(r) \/ Crash(r)
      BY <1>0, <2>12, AbortType DEF CreditRaises, Crash, outside, history, TypeInv, OutsideOK, HistoryOK, LostOK
    <2>13. CASE Book(r)
      <3>1. PICK q \in {[req[r] EXCEPT
                          !.phase = "settled", !.status = PaymentRefunded,
                          !.saved = TRUE, !.books = req[r].paid,
                          !.frees = FreesOffer(req[r])]} : Save(r, q)
        BY <2>13 DEF Book
      <3>2. FreesOffer(req[r]) \in BOOLEAN
        BY OrderAssumption, Zenon DEF FreesOffer
      <3>3. q \in Known
        BY <2>0, <2>13, <3>2 DEF Book, Request, Known, RefundStatus
      <3>. QED
        BY <1>0, <2>13, <3>1, <3>3, SaveType DEF Book, outside, history, TypeInv, OutsideOK, HistoryOK, LostOK
    <2>21. CASE BookCutShort(r)
      <3>1. PICK q \in Known : End(r, q)
        BY <2>0, <2>21, CutShortSaves
      <3>2. LostOK'
        BY <1>0, <2>21, ForgottenType DEF BookCutShort, HistoryOK, LostOK
      <3>. QED
        BY <1>0, <2>21, <3>1, <3>2, SaveType
        DEF BookCutShort, outside, TypeInv, OutsideOK, HistoryOK
    <2>14. CASE CompleteWithoutRevoking(r)
      <3>1. CASE \A l \in Present(req[r]) : LineMayMove(LinesSeen(req[r])[l], Complete)
        <4>1. PICK q \in {[req[r] EXCEPT
                            !.status = Complete, !.saved = TRUE,
                            !.wrote = [l \in Lines |-> IF l \in Present(req[r])
                                                       THEN Complete ELSE Unwritten]]} :
                End(r, q)
          BY <2>14, <3>1 DEF CompleteWithoutRevoking
        <4>2. q \in Known
          <5>1. [l \in Lines |-> IF l \in Present(req[r]) THEN Complete ELSE Unwritten]
                  \in [Lines -> LineStatus \cup {Unwritten}]
            BY DEF LineStatus
          <5>2. Complete \in RefundStatus
            BY DEF RefundStatus
          <5>. QED
            BY <2>0, <5>1, <5>2 DEF Request, Known
        <4>3. paidOnly' \in [Refunds -> BOOLEAN]
          BY <1>0, <2>14, <3>1 DEF CompleteWithoutRevoking, HistoryOK
        <4>. QED
          BY <1>0, <2>14, <3>1, <4>1, <4>2, <4>3, SaveType
          DEF CompleteWithoutRevoking, outside, history, TypeInv, OutsideOK, HistoryOK, LostOK
      <3>2. CASE ~\A l \in Present(req[r]) : LineMayMove(LinesSeen(req[r])[l], Complete)
        BY <1>0, <2>14, <3>2, AbortType DEF CompleteWithoutRevoking, outside, history, TypeInv, OutsideOK, HistoryOK, LostOK
      <3>. QED
        BY <3>1, <3>2
    <2>15. CASE StartRevocation(r)
      <3>1. PICK q \in {[req[r] EXCEPT !.phase = "revoke", !.line = LinesSeen(req[r]),
                                       !.todo = Present(req[r])]} :
              req' = [req EXCEPT ![r] = q]
        BY <1>0, <2>15 DEF StartRevocation, ReqOK
      <3>2. LinesSeen(req[r]) \in [Lines -> LineStatus \cup {Absent}]
        BY <1>0, <2>0, <2>15, LinesSeenType DEF StartRevocation, Known
      <3>3. q \in Known
        <4>1. Present(req[r]) \in SUBSET Lines
          BY DEF Present
        <4>. QED
          BY <2>0, <2>15, <3>2, <4>1 DEF StartRevocation, Request, Known
      <3>. QED
        BY <1>0, <2>15, <3>1, <3>3, MoveType DEF StartRevocation, outside, history, TypeInv, OutsideOK, HistoryOK, LostOK
    <2>16. ASSUME NEW l \in Lines,
                  SkipRevocation(r, l) \/ Revoked(r, l) \/ RevocationFailed(r, l)
           PROVE  TypeInv'
      <3>1. PICK s \in {Complete, RevocationError} : SetLine(r, l, s)
        BY <2>16 DEF SkipRevocation, Revoked, RevocationFailed
      <3>2. s \in LineStatus
        BY DEF LineStatus
      <3>3. DbOK' /\ ReqOK' /\ LostOK' /\ rejected' \in BOOLEAN
        BY <1>0, <3>1, <3>2, SetLineType DEF HistoryOK
      <3>4. OutsideOK' /\ paidOnly' \in [Refunds -> BOOLEAN]
        BY <1>0, <2>16
        DEF SkipRevocation, Revoked, RevocationFailed, outside, OutsideOK, HistoryOK
      <3>. QED
        BY <3>3, <3>4 DEF TypeInv, HistoryOK
    <2>17. ASSUME NEW l \in Lines, RevocationNotImplemented(r, l)
           PROVE  TypeInv'
      BY <1>0, <2>17, AbortType DEF RevocationNotImplemented, outside, history, TypeInv, OutsideOK, HistoryOK, LostOK
    <2>18. ASSUME NEW l \in Lines, NoModule(r, l)
           PROVE  TypeInv'
      <3>1. PICK q \in {[req[r] EXCEPT !.todo = @ \ {l}]} : req' = [req EXCEPT ![r] = q]
        BY <1>0, <2>18 DEF NoModule, ReqOK
      <3>2. q \in Known
        BY <2>0 DEF Request, Known
      <3>. QED
        BY <1>0, <2>18, <3>1, <3>2, MoveType DEF NoModule, outside, history, TypeInv, OutsideOK, HistoryOK, LostOK
    <2>19. CASE FinishRevocation(r)
      <3>1. CASE req[r].store /\ ~req[r].ok
        BY <1>0, <2>19, <3>1, AbortType DEF FinishRevocation, outside, history, TypeInv, OutsideOK, HistoryOK, LostOK
      <3>2. CASE ~(req[r].store /\ ~req[r].ok)
        <4>1. PICK q \in {[req[r] EXCEPT !.status = Verdict(req[r]), !.saved = TRUE]} :
                End(r, q)
          BY <2>19, <3>2 DEF FinishRevocation
        <4>2. q \in Known
          <5>1. Verdict(req[r]) \in RefundStatus
            BY DEF Verdict, RefundStatus
          <5>. QED
            BY <2>0, <5>1 DEF Request, Known
        <4>. QED
          BY <1>0, <2>19, <3>2, <4>1, <4>2, SaveType DEF FinishRevocation, outside, history, TypeInv, OutsideOK, HistoryOK, LostOK
      <3>. QED
        BY <3>1, <3>2
    <2>20. CASE Deny(r)
      <3>1. PICK q \in {[req[r] EXCEPT
                          !.status = Denied, !.saved = TRUE,
                          !.wrote = [l \in Lines |->
                            IF l \in Present(req[r])
                               /\ LineMayMove(LinesSeen(req[r])[l], Denied)
                            THEN Denied ELSE Unwritten]]} : End(r, q)
        BY <2>20 DEF Deny
      <3>2. q \in Known
        <4>1. [l \in Lines |->
                IF l \in Present(req[r]) /\ LineMayMove(LinesSeen(req[r])[l], Denied)
                THEN Denied ELSE Unwritten] \in [Lines -> LineStatus \cup {Unwritten}]
          BY DEF LineStatus
        <4>2. Denied \in RefundStatus
          BY DEF RefundStatus
        <4>. QED
          BY <2>0, <4>1, <4>2 DEF Request, Known
      <3>. QED
        BY <1>0, <2>20, <3>1, <3>2, SaveType DEF Deny, outside, history, TypeInv, OutsideOK, HistoryOK, LostOK
    <2>. QED
      BY <1>2, <2>2, <2>3, <2>4, <2>5, <2>6, <2>7, <2>8, <2>9, <2>10, <2>11, <2>12,
         <2>13, <2>14, <2>15, <2>16, <2>17, <2>18, <2>19, <2>20, <2>21 DEF Step
  <1>3. CASE UNCHANGED vars
    BY <1>0, <1>3
    DEF vars, db, outside, history, TypeInv, DbOK, OutsideOK, ReqOK, HistoryOK, LostOK
  <1>. QED
    BY <1>1, <1>2, <1>3 DEF Next

LEMMA InitTypes == Init => TypeInv
  <1>. SUFFICES ASSUME Init PROVE TypeInv
    OBVIOUS
  <1>1. DbOK
    BY DEF Init, DbOK
  <1>2. OutsideOK
    <2>1. MaxCredits \in Nat
      BY SettingAssumption
    <2>2. 0 \in 0..MaxCredits
      BY <2>1
    <2>3. ledger \in [Refunds -> 0..MaxCredits]
      BY <2>2 DEF Init
    <2>. QED
      BY <2>3 DEF Init, OutsideOK
  <1>3. ReqOK /\ HistoryOK
    BY NoRequestType DEF Init, ReqOK, HistoryOK, LostOK
  <1>. QED
    BY <1>1, <1>2, <1>3 DEF TypeInv

(* Every variable keeps its type, however the requests interleave.         *)
THEOREM TypeCorrect == Spec => []TypeOK
  BY InitTypes, TypeInvInductive, TypeInvSuffices, PTL DEF Spec

-----------------------------------------------------------------------------
(* The status never runs ahead of the money.                               *)

Backed(f) == HasSource /\ processor # "store" => GivenBack(f)

SettledStatus == {PaymentRefunded, RevocationError, Complete}

RequestBacked(q) ==
  /\ q.phase \in {"insert", "credit"} => q.status \in {Open, PaymentRefundError}
  /\ q.phase \in {"book", "settled", "revoke"} => Backed(q.refund)

(* SettledMeansCredited, with what requests in progress have established.  *)
CreditInv ==
  /\ \A f \in Refunds : status[f] \in SettledStatus => Backed(f)
  /\ \A r \in Requests : RequestBacked(req[r])

(* Nothing takes a credit back.                                            *)
BackedStays == \A f \in Refunds : Backed(f) => Backed(f)'

LEMMA UnchangedBacks ==
  ASSUME UNCHANGED <<processor, ledger, credited>>
  PROVE  BackedStays
  BY DEF BackedStays, Backed, GivenBack, HasSource, Total, Worth

LEMMA GrantsBacks ==
  ASSUME OutsideOK, NEW f \in Refunds, NEW a \in Nat, Grants(f, a),
         UNCHANGED processor,
         processor = "stripe" => a > 0 /\ credited + a <= Total
  PROVE  BackedStays /\ Backed(f)'
  <1>1. ledger \in [Refunds -> 0..MaxCredits] /\ credited \in Nat /\ Total \in Nat
    BY OrderAssumption DEF OutsideOK, Total, Worth
  <1>2. \A g \in Refunds : ledger[g] \in Nat
    BY <1>1
  <1>3. \A g \in Refunds : ledger'[g] = IF g = f THEN ledger[g] + 1 ELSE ledger[g]
    BY <1>1 DEF Grants
  <1>4. processor = "stripe" => credited # Total
    BY <1>1
  <1>. QED
    BY <1>2, <1>3, <1>4 DEF BackedStays, Backed, GivenBack, HasSource, Total, Worth

(* What is left to show of a step of r that gives it the local state p and *)
(* writes at most one refund's status.                                     *)
LEMMA CreditKept ==
  ASSUME TypeInv, CreditInv, BackedStays, NEW r \in Requests, NEW p, NEW g, NEW s,
         req' = [req EXCEPT ![r] = p], RequestBacked(p)',
         \/ status' = status
         \/ status' = [status EXCEPT ![g] = s] /\ (s \in SettledStatus => Backed(g)')
  PROVE  CreditInv'
  <1>0. req \in [Requests -> Known] /\ status \in [Refunds -> RefundStatus \cup {Absent}]
    BY DEF TypeInv, ReqOK, DbOK
  <1>1. ASSUME NEW f \in Refunds, status'[f] \in SettledStatus PROVE Backed(f)'
    <2>1. CASE status'[f] = status[f]
      BY <1>1, <2>1 DEF CreditInv, BackedStays
    <2>2. CASE status'[f] # status[f]
      <3>1. f = g /\ status'[f] = s /\ (s \in SettledStatus => Backed(g)')
        BY <1>0, <2>2
      <3>. QED
        BY <1>1, <3>1
    <2>. QED
      BY <2>1, <2>2
  <1>2. ASSUME NEW t \in Requests PROVE RequestBacked(req[t])'
    <2>1. CASE t = r
      BY <1>0, <2>1
    <2>2. CASE t # r
      <3>1. req'[t] = req[t] /\ req[t] \in Known
        BY <1>0, <2>2
      <3>2. RequestBacked(req[t])
        BY DEF CreditInv
      <3>3. CASE req[t].phase \in {"book", "settled", "revoke"}
        <4>1. req[t].refund \in Refunds
          BY <3>1, <3>3 DEF Known
        <4>2. PICK f \in Refunds : f = req[t].refund
          BY <4>1
        <4>3. Backed(f) /\ Backed(f)'
          BY <3>2, <3>3, <4>2 DEF RequestBacked, BackedStays
        <4>. QED
          BY <3>1, <3>3, <4>2, <4>3 DEF RequestBacked, Backed, GivenBack
      <3>4. CASE req[t].phase \notin {"book", "settled", "revoke"}
        BY <3>1, <3>2, <3>4 DEF RequestBacked
      <3>. QED
        BY <3>3, <3>4
    <2>. QED
      BY <2>1, <2>2
  <1>. QED
    BY <1>1, <1>2 DEF CreditInv

LEMMA MoveKeepsCredit ==
  ASSUME TypeInv, CreditInv, BackedStays, NEW r \in Requests, NEW p,
         req' = [req EXCEPT ![r] = p], RequestBacked(p)', UNCHANGED db
  PROVE  CreditInv'
  BY CreditKept DEF db

LEMMA AbortKeepsCredit ==
  ASSUME TypeInv, CreditInv, BackedStays, NEW r \in Requests, Abort(r)
  PROVE  CreditInv'
  <1>1. RequestBacked(NoRequest)'
    BY DEF RequestBacked, NoRequest
  <1>. QED
    BY <1>1, MoveKeepsCredit DEF Abort

LEMMA SaveKeepsCredit ==
  ASSUME TypeInv, CreditInv, BackedStays, NEW r \in Requests, NEW q \in Known,
         Save(r, q) \/ End(r, q), RequestBacked(q)',
         q.status \in SettledStatus => Backed(q.refund)'
  PROVE  CreditInv'
  <1>1. RequestBacked(NoRequest)'
    BY DEF RequestBacked, NoRequest
  <1>2. RequestBacked(Flushed(q))'
    BY DEF RequestBacked, Flushed, Known, Request, Backed, GivenBack
  <1>3. ASSUME Commit(q)
        PROVE  \/ status' = status
               \/ /\ status' = [status EXCEPT ![q.refund] = q.status]
                  /\ q.status \in SettledStatus => Backed(q.refund)'
    BY <1>3 DEF Commit
  <1>4. CASE Save(r, q) /\ q.txn
    BY <1>4, MoveKeepsCredit DEF Save
  <1>5. CASE Save(r, q) /\ ~q.txn
    BY <1>2, <1>3, <1>5, CreditKept DEF Save
  <1>6. CASE End(r, q)
    BY <1>1, <1>3, <1>6, CreditKept DEF End
  <1>. QED
    BY <1>4, <1>5, <1>6

LEMMA SetLineKeepsCredit ==
  ASSUME TypeInv, CreditInv, BackedStays, NEW r \in Requests, NEW l \in Lines,
         NEW s \in LineStatus, Turn(r, l), SetLine(r, l, s)
  PROVE  CreditInv'
  <1>1. CASE LineMayMove(req[r].line[l], s)
    <2>1. PICK q \in {[req[r] EXCEPT !.wrote[l] = s, !.todo = @ \ {l},
                                     !.ok = IF s = Complete THEN @ ELSE FALSE]} : Save(r, q)
      BY <1>1 DEF SetLine
    <2>2. req[r] \in Known /\ req[r].phase = "revoke"
      BY DEF TypeInv, ReqOK, Turn
    <2>3. q \in Known
      <3>1. [req[r].wrote EXCEPT ![l] = s] \in [Lines -> LineStatus \cup {Unwritten}]
        BY <2>2 DEF Known, Request
      <3>2. PICK w \in [Lines -> LineStatus \cup {Unwritten}] :
              w = [req[r].wrote EXCEPT ![l] = s]
        BY <3>1
      <3>3. PICK b \in BOOLEAN : b = IF s = Complete THEN req[r].ok ELSE FALSE
        BY <2>2 DEF Known, Request
      <3>4. q = [req[r] EXCEPT !.wrote = w, !.todo = @ \ {l}, !.ok = b]
        BY <2>1, <3>2, <3>3
      <3>. QED
        BY <2>2, <3>4 DEF Known, Request
    <2>4. q.phase = "revoke" /\ q.refund = req[r].refund /\ q.refund \in Refunds
      BY <2>2 DEF Known, Request
    <2>5. Backed(q.refund)
      BY <2>2, <2>4 DEF CreditInv, RequestBacked
    <2>6. PICK f \in Refunds : f = q.refund
      BY <2>4
    <2>7. Backed(q.refund)'
      BY <2>5, <2>6 DEF BackedStays, Backed, GivenBack
    <2>8. RequestBacked(q)'
      BY <2>4, <2>7 DEF RequestBacked
    <2>. QED
      BY <2>1, <2>3, <2>7, <2>8, SaveKeepsCredit
  <1>2. CASE ~LineMayMove(req[r].line[l], s)
    BY <1>2, AbortKeepsCredit DEF SetLine
  <1>. QED
    BY <1>1, <1>2

(* A request never changes who took the money.                             *)
LEMMA ProcessorStays ==
  ASSUME NEW r \in Requests, Step(r)
  PROVE  processor' = processor
  <1>1. ASSUME NEW q, Save(r, q) \/ End(r, q) \/ UNCHANGED db \/ Abort(r)
        PROVE  processor' = processor
    BY <1>1 DEF Save, End, Abort, Commit, db
  <1>2. ASSUME NEW l \in Lines, NEW s, SetLine(r, l, s) PROVE processor' = processor
    BY <1>1, <1>2 DEF SetLine
  <1>3. CASE \/ BeginCommand(r)
             \/ \E course \in SUBSET Lines :
                  BeginCreate(r, course) \/ BeginStoreRefund(r, course)
             \/ InsertRefund(r) \/ EndCreate(r) \/ ApproveAtOnce(r)
    BY <1>1, <1>3
    DEF BeginCommand, BeginCreate, BeginStoreRefund, Select, InsertRefund, EndCreate,
        ApproveAtOnce
  <1>4. CASE \/ \E f \in Refunds :
                  \/ \E payOnly \in BOOLEAN : BeginApprove(r, f, payOnly)
                  \/ BeginDeny(r, f)
             \/ Credited(r) \/ NothingToCredit(r) \/ CreditFailed(r) \/ CreditRaises(r)
    BY <1>1, <1>4
    DEF BeginApprove, BeginDeny, Credited, NothingToCredit, CreditFailed, CreditRaises
  <1>5. CASE \/ Book(r) \/ BookCutShort(r) \/ CompleteWithoutRevoking(r)
             \/ NothingToPay(r) \/ StartRevocation(r) \/ FinishRevocation(r) \/ Deny(r) \/ Crash(r)
    BY <1>1, <1>5
    DEF Book, BookCutShort, CompleteWithoutRevoking, NothingToPay, StartRevocation,
        FinishRevocation, Deny, Crash
  <1>6. CASE \E l \in Lines :
               \/ InsertLine(r, l)
               \/ SkipRevocation(r, l) \/ Revoked(r, l) \/ RevocationFailed(r, l)
               \/ RevocationNotImplemented(r, l) \/ NoModule(r, l)
    BY <1>1, <1>2, <1>6
    DEF InsertLine, SkipRevocation, Revoked, RevocationFailed, RevocationNotImplemented,
        NoModule
  <1>. QED
    BY <1>3, <1>4, <1>5, <1>6 DEF Step

LEMMA StepKeepsCredit ==
  ASSUME TypeInv, CreditInv, NEW r \in Requests, Step(r)
  PROVE  CreditInv'
  <1>0. req[r] \in Known /\ DbOK /\ OutsideOK /\ RequestBacked(req[r])
    BY DEF TypeInv, ReqOK, CreditInv
  <1>p. processor' = processor
    BY ProcessorStays
  <1>q. UNCHANGED <<ledger, credited>> => BackedStays
    BY <1>p, UnchangedBacks
  <1>s. UNCHANGED <<HasSource, Total>>
    BY <1>p DEF HasSource, Total, Worth
  <1>1. ASSUME NEW lines \in SUBSET Lines, NEW t \in BOOLEAN, NEW b \in BOOLEAN,
               Select(r, lines, t, b)
        PROVE  CreditInv'
    <2>1. PICK q \in {[NoRequest EXCEPT !.phase = "insert", !.txn = t, !.store = b,
                                        !.covers = lines, !.todo = lines]} :
            req' = [req EXCEPT ![r] = q]
      BY <1>1 DEF Select
    <2>2. RequestBacked(q)'
      BY DEF RequestBacked, NoRequest
    <2>. QED
      BY <1>1, <2>1, <2>2, <1>q, MoveKeepsCredit DEF Select, outside
  <1>2. CASE \/ BeginCommand(r)
             \/ \E course \in SUBSET Lines :
                  BeginCreate(r, course) \/ BeginStoreRefund(r, course)
    <2>1. PICK lines \in SUBSET Lines, t \in BOOLEAN, b \in BOOLEAN :
            Select(r, lines, t, b)
      BY <1>2 DEF BeginCommand, BeginCreate, BeginStoreRefund, Unrefunded, Untouched
    <2>. QED
      BY <1>1, <2>1
  <1>3. ASSUME NEW q \in Known, Save(r, q) \/ End(r, q), UNCHANGED outside,
               q.phase = "insert", req[r].phase = "insert", q.status = req[r].status
        PROVE  CreditInv'
    <2>1. RequestBacked(q)' /\ q.status \notin SettledStatus
      BY <1>0, <1>3
      DEF RequestBacked, SettledStatus, Open, PaymentRefundError, PaymentRefunded,
          RevocationError, Complete
    <2>. QED
      BY <1>3, <2>1, <1>q, SaveKeepsCredit DEF outside
  <1>4. CASE InsertRefund(r)
    <2>1. PICK f \in Refunds :
            \E q \in {[req[r] EXCEPT !.refund = f, !.new = TRUE, !.saved = TRUE]} :
              Save(r, q)
      BY <1>4 DEF InsertRefund
    <2>2. PICK q \in {[req[r] EXCEPT !.refund = f, !.new = TRUE, !.saved = TRUE]} :
            Save(r, q)
      BY <2>1
    <2>3. q \in Known /\ q.phase = "insert" /\ q.status = req[r].status
      BY <1>0, <1>4 DEF InsertRefund, Request, Known
    <2>. QED
      BY <1>3, <1>4, <2>2, <2>3 DEF InsertRefund
  <1>5. ASSUME NEW l \in Lines, InsertLine(r, l) PROVE CreditInv'
    <2>1. PICK q \in {[req[r] EXCEPT !.wrote[l] = InitialLineStatus,
                                     !.todo = @ \ {l}]} : Save(r, q)
      BY <1>5 DEF InsertLine
    <2>2. [req[r].wrote EXCEPT ![l] = InitialLineStatus]
            \in [Lines -> LineStatus \cup {Unwritten}]
      BY <1>0 DEF Known, Request, InitialLineStatus, LineStatus
    <2>3. PICK w \in [Lines -> LineStatus \cup {Unwritten}] :
            w = [req[r].wrote EXCEPT ![l] = InitialLineStatus]
      BY <2>2
    <2>4. q = [req[r] EXCEPT !.wrote = w, !.todo = @ \ {l}]
      BY <2>1, <2>3
    <2>5. q \in Known /\ q.phase = "insert" /\ q.status = req[r].status
      BY <1>0, <1>5, <2>4 DEF InsertLine, Request, Known
    <2>. QED
      BY <1>3, <1>5, <2>1, <2>5 DEF InsertLine
  <1>6. CASE EndCreate(r)
    BY <1>0, <1>3, <1>6 DEF EndCreate, Inserted
  <1>7. CASE ApproveAtOnce(r)
    <2>1. PICK q \in {[req[r] EXCEPT !.phase = "credit", !.source = source]} :
            req' = [req EXCEPT ![r] = q]
      BY <1>7 DEF ApproveAtOnce, TypeInv, ReqOK
    <2>2. RequestBacked(q)'
      BY <1>0, <1>7 DEF ApproveAtOnce, Inserted, RequestBacked, Known, Request
    <2>. QED
      BY <1>7, <2>1, <2>2, <1>q, MoveKeepsCredit DEF ApproveAtOnce, outside
  <1>8. ASSUME NEW f \in Refunds, NEW payOnly \in BOOLEAN, BeginApprove(r, f, payOnly)
        PROVE  CreditInv'
    <2>1. PICK q \in {[NoRequest EXCEPT
             !.phase = IF status[f] \in {Open, PaymentRefundError}
                       THEN "credit" ELSE "settled",
             !.txn = TRUE, !.payOnly = payOnly, !.refund = f, !.status = status[f],
             !.covers = covers[f], !.source = source]} : req' = [req EXCEPT ![r] = q]
      BY <1>8 DEF BeginApprove
    <2>2. q.status = status[f] /\ q.refund = f
          /\ q.phase = IF status[f] \in {Open, PaymentRefundError}
                       THEN "credit" ELSE "settled"
      BY DEF NoRequest
    <2>3. status[f] \notin {Open, PaymentRefundError} => Backed(f)
      BY <1>8 DEF BeginApprove, RefundStatus, SettledStatus, CreditInv
    <2>4. UNCHANGED <<ledger, credited>>
      BY <1>8 DEF BeginApprove, outside
    <2>5. RequestBacked(q)'
      BY <1>p, <1>s, <2>2, <2>3, <2>4 DEF RequestBacked, Backed, GivenBack
    <2>. QED
      BY <1>8, <2>1, <2>4, <2>5, <1>q, MoveKeepsCredit DEF BeginApprove
  <1>9. ASSUME NEW f \in Refunds, BeginDeny(r, f) PROVE CreditInv'
    <2>1. PICK q \in {[NoRequest EXCEPT !.phase = "deny", !.txn = TRUE, !.refund = f,
                                        !.covers = covers[f]]} :
            req' = [req EXCEPT ![r] = q]
      BY <1>9 DEF BeginDeny
    <2>2. RequestBacked(q)'
      BY DEF RequestBacked, NoRequest
    <2>. QED
      BY <1>9, <2>1, <2>2, <1>q, MoveKeepsCredit DEF BeginDeny, outside
  <1>10. Amount(r) \in Nat
    BY <1>0, WorthType DEF Amount, Known
  <1>11. ASSUME Crediting(r) PROVE req[r].refund \in Refunds
    BY <1>0, <1>11 DEF Crediting, Known
  <1>12. CASE Credited(r)
    <2>0. PICK granted \in BOOLEAN : Paid(r, granted)
      BY <1>12 DEF Credited
    <2>1. PICK q \in {[req[r] EXCEPT !.phase = "book", !.paid = TRUE,
                                     !.granted = granted]} :
            req' = [req EXCEPT ![r] = q]
      BY <2>0 DEF Paid, TypeInv, ReqOK
    <2>2. PICK f \in Refunds : f = req[r].refund
      BY <1>11, <1>12 DEF Credited
    <2>3. q.phase = "book" /\ q.refund = f
      BY <1>0, <2>2 DEF Known, Request
    <2>4. BackedStays /\ Backed(f)'
      <3>1. CASE processor # "store" /\ WithinCharge(r) /\ Grants(req[r].refund, Amount(r))
        BY <1>0, <1>10, <2>2, <3>1, <1>p, GrantsBacks DEF WithinCharge
      <3>2. CASE processor = "stripe" /\ credited = Total /\ UNCHANGED <<ledger, credited>>
        BY <1>p, <1>s, <1>q, <3>2 DEF Backed, GivenBack
      <3>3. CASE processor = "store" /\ UNCHANGED <<ledger, credited>>
        BY <1>p, <1>s, <1>q, <3>3 DEF Backed
      <3>. QED
        BY <1>12, <3>1, <3>2, <3>3 DEF Credited
    <2>5. RequestBacked(q)'
      BY <2>3, <2>4 DEF RequestBacked, Backed, GivenBack, HasSource, Total, Worth
    <2>. QED
      BY <1>12, <2>1, <2>4, <2>5, MoveKeepsCredit DEF Credited
  <1>13. CASE NothingToCredit(r)
    <2>1. PICK q \in {[req[r] EXCEPT !.phase = "book"]} : req' = [req EXCEPT ![r] = q]
      BY <1>13 DEF NothingToCredit, TypeInv, ReqOK
    <2>2. q.phase = "book"
      BY <1>0 DEF Known, Request
    <2>3. RequestBacked(q)'
      BY <1>s, <1>13, <2>2 DEF NothingToCredit, RequestBacked, Backed
    <2>. QED
      BY <1>13, <2>1, <2>3, <1>q, MoveKeepsCredit DEF NothingToCredit, outside
  <1>14. CASE CreditFailed(r)
    <2>1. PICK q \in {[req[r] EXCEPT !.status = PaymentRefundError, !.saved = TRUE]} :
            End(r, q)
      BY <1>14 DEF CreditFailed
    <2>2. /\ q \in Known /\ q.phase = "credit"
          /\ q.status = PaymentRefundError /\ q.status \notin SettledStatus
      BY <1>0, <1>14
      DEF CreditFailed, Crediting, Known, Request, RefundStatus, SettledStatus,
          PaymentRefundError, PaymentRefunded, RevocationError, Complete
    <2>3. RequestBacked(q)'
      BY <2>2 DEF RequestBacked
    <2>4. PICK f \in Refunds : f = req[r].refund
      BY <1>11, <1>14 DEF CreditFailed
    <2>5. BackedStays
      BY <1>0, <1>10, <1>14, <2>4, <1>q, <1>p, GrantsBacks DEF CreditFailed, WithinCharge
    <2>. QED
      BY <2>1, <2>2, <2>3, <2>5, SaveKeepsCredit
  <1>15. CASE CreditRaises(r) \/ Crash(r)
    BY <1>15, <1>q, AbortKeepsCredit DEF CreditRaises, Crash, outside
  <1>16. ASSUME NEW q \in Known, Save(r, q) \/ End(r, q), UNCHANGED outside,
                q.phase \in {"book", "settled", "revoke"}, q.refund = req[r].refund,
                req[r].phase \in {"book", "settled", "revoke"}
         PROVE  CreditInv'
    <2>1. Backed(q.refund)
      BY <1>0, <1>16 DEF RequestBacked
    <2>2. Backed(q.refund)' /\ RequestBacked(q)'
      BY <1>p, <1>s, <1>16, <2>1 DEF RequestBacked, Backed, GivenBack, outside
    <2>. QED
      BY <1>16, <2>2, <1>q, SaveKeepsCredit DEF outside
  <1>17. CASE Book(r)
    <2>1. PICK q \in {[req[r] EXCEPT
                        !.phase = "settled", !.status = PaymentRefunded,
                        !.saved = TRUE, !.books = req[r].paid,
                        !.frees = FreesOffer(req[r])]} : Save(r, q)
      BY <1>17 DEF Book
    <2>2. FreesOffer(req[r]) \in BOOLEAN
      BY OrderAssumption, Zenon DEF FreesOffer
    <2>3. q \in Known /\ q.phase = "settled" /\ q.refund = req[r].refund
      BY <1>0, <1>17, <2>2 DEF Book, Request, Known, RefundStatus
    <2>. QED
      BY <1>16, <1>17, <2>1, <2>3 DEF Book
  <1>27. CASE BookCutShort(r)
    <2>1. PICK q \in Known :
            /\ End(r, q)
            /\ q \in {[req[r] EXCEPT !.books = req[r].paid],
                      [req[r] EXCEPT !.status = PaymentRefunded, !.saved = TRUE,
                                     !.books = req[r].paid]}
      BY <1>0, <1>27, CutShortSaves
    <2>2. q.phase = "book" /\ q.refund = req[r].refund
      BY <1>0, <1>27, <2>1 DEF BookCutShort, Known, Request
    <2>. QED
      BY <1>16, <1>27, <2>1, <2>2 DEF BookCutShort
  <1>18. CASE CompleteWithoutRevoking(r)
    <2>1. CASE \A l \in Present(req[r]) : LineMayMove(LinesSeen(req[r])[l], Complete)
      <3>1. PICK q \in {[req[r] EXCEPT
                          !.status = Complete, !.saved = TRUE,
                          !.wrote = [l \in Lines |-> IF l \in Present(req[r])
                                                     THEN Complete ELSE Unwritten]]} :
              End(r, q)
        BY <1>18, <2>1 DEF CompleteWithoutRevoking
      <3>2. [l \in Lines |-> IF l \in Present(req[r]) THEN Complete ELSE Unwritten]
              \in [Lines -> LineStatus \cup {Unwritten}]
        BY DEF LineStatus
      <3>3. q \in Known /\ q.phase = "settled" /\ q.refund = req[r].refund
        <4>1. Complete \in RefundStatus
          BY DEF RefundStatus
        <4>. QED
          BY <1>0, <1>18, <3>2, <4>1 DEF CompleteWithoutRevoking, Request, Known
      <3>. QED
        BY <1>16, <1>18, <3>1, <3>3 DEF CompleteWithoutRevoking
    <2>2. CASE ~\A l \in Present(req[r]) : LineMayMove(LinesSeen(req[r])[l], Complete)
      BY <1>18, <2>2, <1>q, AbortKeepsCredit DEF CompleteWithoutRevoking, outside
    <2>. QED
      BY <2>1, <2>2
  <1>19. CASE NothingToPay(r)
    BY <1>0, <1>16, <1>19 DEF NothingToPay
  <1>20. ASSUME NEW q, req' = [req EXCEPT ![r] = q], UNCHANGED db, UNCHANGED outside,
                q.phase = "revoke", q.refund = req[r].refund,
                req[r].phase \in {"settled", "revoke"}
         PROVE  CreditInv'
    <2>1. Backed(q.refund)
      BY <1>0, <1>20 DEF RequestBacked
    <2>2. RequestBacked(q)'
      BY <1>p, <1>s, <1>20, <2>1 DEF RequestBacked, Backed, GivenBack, outside
    <2>. QED
      BY <1>20, <2>2, <1>q, MoveKeepsCredit DEF outside
  <1>21. CASE StartRevocation(r)
    <2>1. PICK q \in {[req[r] EXCEPT !.phase = "revoke", !.line = LinesSeen(req[r]),
                                     !.todo = Present(req[r])]} :
            req' = [req EXCEPT ![r] = q]
      BY <1>21 DEF StartRevocation, TypeInv, ReqOK
    <2>2. q.phase = "revoke" /\ q.refund = req[r].refund
      BY <1>0 DEF Known, Request
    <2>. QED
      BY <1>20, <1>21, <2>1, <2>2 DEF StartRevocation
  <1>22. ASSUME NEW l \in Lines,
                SkipRevocation(r, l) \/ Revoked(r, l) \/ RevocationFailed(r, l)
         PROVE  CreditInv'
    <2>1. PICK s \in {Complete, RevocationError} : SetLine(r, l, s)
      BY <1>22 DEF SkipRevocation, Revoked, RevocationFailed
    <2>2. s \in LineStatus
      BY DEF LineStatus
    <2>3. Turn(r, l) /\ UNCHANGED <<ledger, credited>>
      BY <1>22 DEF SkipRevocation, Revoked, RevocationFailed, outside
    <2>. QED
      BY <2>1, <2>2, <2>3, <1>q, SetLineKeepsCredit
  <1>23. ASSUME NEW l \in Lines, RevocationNotImplemented(r, l) PROVE CreditInv'
    BY <1>23, <1>q, AbortKeepsCredit DEF RevocationNotImplemented, outside
  <1>24. ASSUME NEW l \in Lines, NoModule(r, l) PROVE CreditInv'
    <2>1. PICK q \in {[req[r] EXCEPT !.todo = @ \ {l}]} : req' = [req EXCEPT ![r] = q]
      BY <1>24 DEF NoModule, TypeInv, ReqOK
    <2>2. q.phase = "revoke" /\ q.refund = req[r].refund
      BY <1>0, <1>24 DEF NoModule, Turn, Known, Request
    <2>. QED
      BY <1>20, <1>24, <2>1, <2>2 DEF NoModule, Turn
  <1>25. CASE FinishRevocation(r)
    <2>1. CASE req[r].store /\ ~req[r].ok
      BY <1>25, <2>1, <1>q, AbortKeepsCredit DEF FinishRevocation, outside
    <2>2. CASE ~(req[r].store /\ ~req[r].ok)
      <3>1. PICK q \in {[req[r] EXCEPT !.status = Verdict(req[r]), !.saved = TRUE]} :
              End(r, q)
        BY <1>25, <2>2 DEF FinishRevocation
      <3>2. Verdict(req[r]) \in RefundStatus
        BY DEF Verdict, RefundStatus
      <3>3. q \in Known /\ q.phase = "revoke" /\ q.refund = req[r].refund
        BY <1>0, <1>25, <3>2 DEF FinishRevocation, Request, Known
      <3>. QED
        BY <1>16, <1>25, <3>1, <3>3 DEF FinishRevocation
    <2>. QED
      BY <2>1, <2>2
  <1>26. CASE Deny(r)
    <2>1. PICK q \in {[req[r] EXCEPT
                        !.status = Denied, !.saved = TRUE,
                        !.wrote = [l \in Lines |->
                          IF l \in Present(req[r])
                             /\ LineMayMove(LinesSeen(req[r])[l], Denied)
                          THEN Denied ELSE Unwritten]]} : End(r, q)
      BY <1>26 DEF Deny
    <2>2. [l \in Lines |->
            IF l \in Present(req[r]) /\ LineMayMove(LinesSeen(req[r])[l], Denied)
            THEN Denied ELSE Unwritten] \in [Lines -> LineStatus \cup {Unwritten}]
      BY DEF LineStatus
    <2>3. Denied \in RefundStatus \ SettledStatus
      BY DEF RefundStatus, SettledStatus, Denied, PaymentRefunded, RevocationError, Complete
    <2>4. q \in Known /\ q.phase = "deny" /\ q.status = Denied
      BY <1>0, <1>26, <2>2, <2>3 DEF Deny, Request, Known
    <2>5. RequestBacked(q)'
      BY <2>4 DEF RequestBacked
    <2>. QED
      BY <1>26, <2>1, <2>3, <2>4, <2>5, <1>q, SaveKeepsCredit DEF Deny, outside
  <1>. QED
    BY <1>2, <1>4, <1>5, <1>6, <1>7, <1>8, <1>9, <1>12, <1>13, <1>14, <1>15, <1>17,
       <1>18, <1>19, <1>21, <1>22, <1>23, <1>24, <1>25, <1>26, <1>27 DEF Step

(* A refund whose status says that the customer was paid back: the         *)
(* processor did grant it, for any interleaving, crash and lost answer.    *)
THEOREM SettledCredited == Spec => []SettledMeansCredited
  <1>1. Init => TypeInv /\ CreditInv
    <2>. SUFFICES ASSUME Init PROVE TypeInv /\ CreditInv
      OBVIOUS
    <2>1. CreditInv
      BY DEF Init, CreditInv, SettledStatus, Absent, PaymentRefunded, RevocationError,
             Complete, RequestBacked, NoRequest
    <2>. QED
      BY <2>1, InitTypes
  <1>2. TypeInv /\ CreditInv /\ [Next]_vars => TypeInv' /\ CreditInv'
    <2>. SUFFICES ASSUME TypeInv, CreditInv, [Next]_vars PROVE CreditInv'
      BY TypeInvInductive
    <2>1. CASE StoreGivesMoneyBack
      BY <2>1 DEF StoreGivesMoneyBack, CreditInv, RequestBacked, Backed, GivenBack, db
    <2>2. CASE UNCHANGED vars
      BY <2>2
      DEF vars, db, outside, CreditInv, RequestBacked, Backed, GivenBack, HasSource,
          Total, Worth
    <2>. QED
      BY <2>1, <2>2, StepKeepsCredit DEF Next
  <1>3. CreditInv => SettledMeansCredited
    BY DEF CreditInv, SettledMeansCredited, Settled, SettledStatus, Backed
  <1>. QED
    BY <1>1, <1>2, <1>3, PTL DEF Spec

=============================================================================
