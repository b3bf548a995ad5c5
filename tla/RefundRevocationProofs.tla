------------------------ MODULE RefundRevocationProofs ------------------------
(***************************************************************************)
(* What holds of the end of a refund, for every order and any number of    *)
(* requests at once: a Complete line has lost its access, and a store's    *)
(* notification commits all of its refund or nothing.                      *)
(***************************************************************************)
EXTENDS RefundProofs

(* What a request has written but not committed, and what it believes of   *)
(* its refund: a row it inserted itself, or a committed one whose credited *)
(* lines it knows.                                                         *)
Own(q) ==
  /\ q.new => q.saved /\ q.refund \in Refunds
  /\ q.refund \in Refunds =>
       IF q.new THEN status[q.refund] = Absent
       ELSE status[q.refund] # Absent /\ q.covers = covers[q.refund]

Earned(q) ==
  \A l \in Lines : q.wrote[l] = Complete => Worth(q.covers) = 0 \/ ~access[l]

(* No other request works on a refund that is not committed yet.           *)
Alone(r, q) ==
  \A s \in Requests \ {r} :
    q.refund \in Refunds /\ req[s].refund = q.refund => ~q.new /\ ~req[s].new

RevocationInv ==
  /\ \A f \in Refunds : status[f] = Absent => \A l \in Lines : rline[f][l] # Complete
  /\ \A f \in Refunds, l \in Lines :
       rline[f][l] = Complete => paidOnly[f] \/ Worth(covers[f]) = 0 \/ ~access[l]
  /\ \A r \in Requests : Own(req[r]) /\ Earned(req[r]) /\ Alone(r, req[r])

(* Access is never granted again, nor is an approval forgotten.            *)
Revoking ==
  /\ processor' = processor
  /\ \A l \in Lines : ~access[l] => ~access'[l]
  /\ \A f \in Refunds : paidOnly[f] => paidOnly'[f]

LEMMA NoRequestSound ==
  /\ Own(NoRequest) /\ Earned(NoRequest)
  /\ NoRequest.refund \notin Refunds /\ ~NoRequest.new
  BY RefundAssumption DEF NoRequest, Own, Earned, Unwritten, Complete

LEMMA EarnedStays ==
  ASSUME Revoking, NEW q, Earned(q)
  PROVE  Earned(q)'
  BY DEF Revoking, Earned, Worth

(* A step that leaves the refunds' rows alone.                             *)
LEMMA MoveKeepsRevocation ==
  ASSUME TypeInv, RevocationInv, Revoking, NEW r \in Requests, NEW p,
         req' = [req EXCEPT ![r] = p], UNCHANGED <<status, covers, rline>>,
         Own(p), Earned(p)', Alone(r, p)
  PROVE  RevocationInv'
  <1>1. \A s \in Requests : req'[s] = IF s = r THEN p ELSE req[s]
    BY DEF TypeInv, ReqOK
  <1>2. ASSUME NEW f \in Refunds, NEW l \in Lines, rline'[f][l] = Complete
        PROVE  paidOnly'[f] \/ Worth(covers[f])' = 0 \/ ~access'[l]
    BY <1>2 DEF RevocationInv, Revoking, Worth
  <1>3. ASSUME NEW s \in Requests PROVE Own(req[s])'
    BY <1>1 DEF RevocationInv, Own
  <1>4. ASSUME NEW s \in Requests PROVE Earned(req[s])'
    <2>1. CASE s = r
      BY <1>1, <2>1 DEF Earned, Worth
    <2>2. CASE s # r
      <3>1. Earned(req[s])
        BY DEF RevocationInv
      <3>. QED
        BY <1>1, <2>2, <3>1, EarnedStays DEF Earned, Worth
    <2>. QED
      BY <2>1, <2>2
  <1>5. ASSUME NEW s \in Requests PROVE Alone(s, req[s])'
    BY <1>1 DEF RevocationInv, Alone
  <1>6. \A f \in Refunds : status'[f] = Absent => \A l \in Lines : rline'[f][l] # Complete
    BY DEF RevocationInv
  <1>. QED
    BY <1>2, <1>3, <1>4, <1>5, <1>6 DEF RevocationInv

(* A commit.  What it makes Complete was earned, or staff asked for the    *)
(* payment only.                                                           *)
LEMMA CommitKeepsRevocation ==
  ASSUME TypeInv, RevocationInv, Revoking, NEW r \in Requests, NEW q \in Known,
         q.refund \in Refunds, Own(q), Alone(r, q),
         Earned(q)' \/ paidOnly'[q.refund],
         NEW p \in {Flushed(q), NoRequest}, req' = [req EXCEPT ![r] = p], Commit(q)
  PROVE  RevocationInv'
  <1>. DEFINE f == q.refund
  <1>0. /\ status \in [Refunds -> RefundStatus \cup {Absent}]
        /\ covers \in [Refunds -> SUBSET Lines]
        /\ rline \in [Refunds -> [Lines -> LineStatus \cup {Absent}]]
        /\ q.status \in RefundStatus /\ q.status # Absent
    BY StatusesDistinct DEF TypeInv, DbOK, Known, Request
  <1>1. \A s \in Requests : req'[s] = IF s = r THEN p ELSE req[s]
    BY DEF TypeInv, ReqOK
  <1>2. /\ \A g \in Refunds \ {f} : /\ status'[g] = status[g]
                                    /\ covers'[g] = covers[g]
                                    /\ rline'[g] = rline[g]
        /\ rline'[f] = Overlay(q.wrote, rline[f])
        /\ status'[f] = IF q.saved THEN q.status ELSE status[f]
        /\ covers'[f] = IF q.new THEN q.covers ELSE covers[f]
    BY <1>0 DEF Commit
  <1>3. status'[f] # Absent /\ covers'[f] = q.covers
    BY <1>0, <1>2 DEF Own
  <1>4. ASSUME NEW l \in Lines, rline'[f][l] = Complete
        PROVE  paidOnly'[f] \/ Worth(covers'[f]) = 0 \/ ~access'[l]
    <2>1. CASE q.wrote[l] = Complete
      BY <1>3, <2>1 DEF Earned, Revoking, Worth
    <2>2. CASE q.wrote[l] # Complete
      <3>1. rline[f][l] = Complete
        BY <1>2, <1>4, <2>2 DEF Overlay
      <3>2. ~q.new /\ covers'[f] = covers[f]
        BY <1>2, <3>1 DEF Own, RevocationInv
      <3>. QED
        BY <3>1, <3>2 DEF RevocationInv, Revoking
    <2>. QED
      BY <2>1, <2>2
  <1>5. ASSUME NEW g \in Refunds, NEW l \in Lines, rline'[g][l] = Complete
        PROVE  paidOnly'[g] \/ Worth(covers'[g]) = 0 \/ ~access'[l]
    <2>1. CASE g = f
      BY <1>4, <1>5, <2>1
    <2>2. CASE g # f
      BY <1>2, <1>5, <2>2 DEF RevocationInv, Revoking
    <2>. QED
      BY <2>1, <2>2
  <1>6. \A g \in Refunds : status'[g] = Absent => \A l \in Lines : rline'[g][l] # Complete
    BY <1>2, <1>3 DEF RevocationInv
  <1>7. /\ Own(p)' /\ Earned(p)
        /\ ~p.new /\ (p.refund = f \/ p.refund \notin Refunds)
    <2>1. CASE p = NoRequest
      BY <2>1, NoRequestSound DEF Own
    <2>2. CASE p = Flushed(q)
      <3>1. /\ p.refund = f /\ p.covers = q.covers /\ ~p.new
            /\ \A l \in Lines : p.wrote[l] # Complete
        BY <2>2 DEF Flushed, Known, Request, Unwritten, Complete
      <3>. QED
        BY <1>3, <3>1 DEF Own, Earned
    <2>. QED
      BY <2>1, <2>2
  <1>8. ASSUME NEW s \in Requests PROVE Own(req[s])'
    <2>1. CASE s = r
      BY <1>1, <1>7, <2>1 DEF Own
    <2>2. CASE s # r
      <3>1. Own(req[s]) /\ req'[s] = req[s]
        BY <1>1, <2>2 DEF RevocationInv
      <3>2. CASE req[s].refund = f
        <4>1. ~q.new /\ ~req[s].new
          BY <2>2, <3>2 DEF Alone
        <4>2. covers'[f] = covers[f]
          BY <1>2, <4>1
        <4>. QED
          BY <1>3, <3>1, <3>2, <4>1, <4>2 DEF Own
      <3>3. CASE req[s].refund # f
        BY <1>2, <3>1, <3>3 DEF Own
      <3>. QED
        BY <3>2, <3>3
    <2>. QED
      BY <2>1, <2>2
  <1>9. ASSUME NEW s \in Requests PROVE Earned(req[s])'
    <2>1. CASE s = r
      <3>1. Earned(p)'
        BY <1>7, EarnedStays
      <3>. QED
        BY <1>1, <2>1, <3>1 DEF Earned, Worth
    <2>2. CASE s # r
      <3>1. Earned(req[s])
        BY DEF RevocationInv
      <3>. QED
        BY <1>1, <2>2, <3>1, EarnedStays DEF Earned, Worth
    <2>. QED
      BY <2>1, <2>2
  <1>10. ASSUME NEW s \in Requests PROVE Alone(s, req[s])'
    BY <1>1, <1>7 DEF RevocationInv, Alone
  <1>11. \A g \in Refunds, l \in Lines :
           rline'[g][l] = Complete => paidOnly'[g] \/ Worth(covers[g])' = 0 \/ ~access'[l]
    <2>1. \A g \in Refunds : Worth(covers[g])' = Worth(covers'[g])
      BY DEF Revoking, Worth
    <2>. QED
      BY <1>5, <2>1
  <1>. QED
    BY <1>6, <1>8, <1>9, <1>10, <1>11 DEF RevocationInv

LEMMA SaveKeepsRevocation ==
  ASSUME TypeInv, RevocationInv, Revoking, NEW r \in Requests, NEW q \in Known,
         q.refund \in Refunds, Own(q), Alone(r, q),
         \/ (Save(r, q) \/ End(r, q)) /\ Earned(q)'
         \/ End(r, q) /\ paidOnly'[q.refund]
  PROVE  RevocationInv'
  <1>1. CASE Save(r, q) /\ q.txn /\ Earned(q)'
    BY <1>1, MoveKeepsRevocation DEF Save, db
  <1>2. CASE Save(r, q) /\ ~q.txn /\ Earned(q)'
    BY <1>2, CommitKeepsRevocation DEF Save
  <1>3. CASE End(r, q)
    BY <1>3, CommitKeepsRevocation DEF End
  <1>. QED
    BY <1>1, <1>2, <1>3

LEMMA AbortKeepsRevocation ==
  ASSUME TypeInv, RevocationInv, Revoking, NEW r \in Requests, Abort(r)
  PROVE  RevocationInv'
  <1>1. Earned(NoRequest)'
    BY NoRequestSound, EarnedStays
  <1>. QED
    BY <1>1, NoRequestSound, MoveKeepsRevocation DEF Abort, db, Alone

(* A request that only goes on: it keeps its refund and what it wrote.     *)
GoesOn(p, q) ==
  /\ p.refund = q.refund /\ p.new = q.new /\ p.saved = q.saved
  /\ p.covers = q.covers /\ p.wrote = q.wrote

LEMMA GoesOnSound ==
  ASSUME RevocationInv, NEW r \in Requests, NEW p, GoesOn(p, req[r])
  PROVE  Own(p) /\ Earned(p) /\ Alone(r, p)
  BY DEF RevocationInv, GoesOn, Own, Earned, Alone

LEMMA GoingOnKeepsRevocation ==
  ASSUME TypeInv, RevocationInv, Revoking, NEW r \in Requests, NEW p,
         req' = [req EXCEPT ![r] = p], UNCHANGED db, GoesOn(p, req[r])
  PROVE  RevocationInv'
  BY GoesOnSound, EarnedStays, MoveKeepsRevocation DEF db

(* A line's new status is saved on the line as it was loaded.              *)
LEMMA SetLineKeepsRevocation ==
  ASSUME TypeInv, RevocationInv, Revoking, NEW r \in Requests, NEW l \in Lines,
         NEW s \in LineStatus, Turn(r, l), SetLine(r, l, s),
         s = Complete => Worth(req[r].covers) = 0 \/ ~access'[l]
  PROVE  RevocationInv'
  <1>1. CASE LineMayMove(req[r].line[l], s)
    <2>1. PICK q \in {[req[r] EXCEPT !.wrote[l] = s, !.todo = @ \ {l},
                                     !.ok = IF s = Complete THEN @ ELSE FALSE]} : Save(r, q)
      BY <1>1 DEF SetLine
    <2>2. req[r] \in Known /\ req[r].refund \in Refunds
      BY DEF TypeInv, ReqOK, Turn, Known
    <2>3. PICK w \in [Lines -> LineStatus \cup {Unwritten}] :
            w = [req[r].wrote EXCEPT ![l] = s]
      BY <2>2 DEF Known, Request
    <2>4. PICK b \in BOOLEAN : b = IF s = Complete THEN req[r].ok ELSE FALSE
      BY <2>2 DEF Known, Request
    <2>5. q = [req[r] EXCEPT !.wrote = w, !.todo = @ \ {l}, !.ok = b]
      BY <2>1, <2>3, <2>4
    <2>6. /\ q \in Known /\ q.wrote = w
          /\ q.refund = req[r].refund /\ q.new = req[r].new
          /\ q.saved = req[r].saved /\ q.covers = req[r].covers
      BY <2>2, <2>5 DEF Known, Request
    <2>7. Own(q) /\ Alone(r, q)
      BY <2>6 DEF RevocationInv, Own, Alone
    <2>8. Earned(q)'
      <3>1. ASSUME NEW m \in Lines, w[m] = Complete
            PROVE  Worth(req[r].covers) = 0 \/ ~access'[m]
        <4>1. CASE m = l
          BY <2>2, <2>3, <3>1, <4>1 DEF Known, Request
        <4>2. CASE m # l
          <5>1. req[r].wrote[m] = Complete
            BY <2>2, <2>3, <3>1, <4>2 DEF Known, Request
          <5>. QED
            BY <5>1 DEF RevocationInv, Earned, Revoking
        <4>. QED
          BY <4>1, <4>2
      <3>. QED
        BY <2>6, <3>1 DEF Earned, Revoking, Worth
    <2>. QED
      BY <2>1, <2>2, <2>6, <2>7, <2>8, SaveKeepsRevocation
  <1>2. CASE ~LineMayMove(req[r].line[l], s)
    BY <1>2, AbortKeepsRevocation DEF SetLine
  <1>. QED
    BY <1>1, <1>2

(* Creating a refund.                                                      *)
LEMMA CreationKeepsRevocation ==
  ASSUME TypeInv, RevocationInv, Revoking, NEW r \in Requests,
         \/ BeginCommand(r)
         \/ \E course \in SUBSET Lines : BeginCreate(r, course) \/ BeginStoreRefund(r, course)
         \/ InsertRefund(r) \/ EndCreate(r) \/ ApproveAtOnce(r)
         \/ \E l \in Lines : InsertLine(r, l)
  PROVE  RevocationInv'
  <1>0. /\ req[r] \in Known
        /\ Own(req[r]) /\ Earned(req[r]) /\ Alone(r, req[r])
    BY DEF TypeInv, ReqOK, RevocationInv
  <1>1. CASE \/ BeginCommand(r)
             \/ \E course \in SUBSET Lines :
                  BeginCreate(r, course) \/ BeginStoreRefund(r, course)
    <2>1. PICK lines \in SUBSET Lines, t \in BOOLEAN, b \in BOOLEAN :
            Select(r, lines, t, b)
      BY <1>1 DEF BeginCommand, BeginCreate, BeginStoreRefund, Unrefunded, Untouched
    <2>2. PICK q \in {[NoRequest EXCEPT !.phase = "insert", !.txn = t, !.store = b,
                                        !.covers = lines, !.todo = lines]} :
            req' = [req EXCEPT ![r] = q]
      BY <2>1 DEF Select
    <2>3. /\ q.refund = NoRequest.refund /\ q.new = NoRequest.new
          /\ q.wrote = NoRequest.wrote
      BY DEF NoRequest
    <2>4. Own(q) /\ Alone(r, q)
      BY <2>3, NoRequestSound DEF Own, Alone
    <2>5. Earned(q)'
      BY <2>3 DEF Earned, NoRequest, Unwritten, Complete
    <2>. QED
      BY <2>1, <2>2, <2>4, <2>5, MoveKeepsRevocation DEF Select, db
  <1>2. CASE InsertRefund(r)
    <2>1. PICK f \in Refunds :
            /\ Free(f)
            /\ \E q \in {[req[r] EXCEPT !.refund = f, !.new = TRUE, !.saved = TRUE]} :
                 Save(r, q)
      BY <1>2 DEF InsertRefund
    <2>2. PICK q \in {[req[r] EXCEPT !.refund = f, !.new = TRUE, !.saved = TRUE]} :
            Save(r, q)
      BY <2>1
    <2>3. /\ q \in Known /\ q.refund = f /\ q.new /\ q.saved
          /\ q.covers = req[r].covers /\ q.wrote = req[r].wrote
      BY <1>0, <1>2 DEF InsertRefund, Request, Known
    <2>4. Own(q) /\ Alone(r, q)
      BY <2>1, <2>3 DEF Free, Own, Alone
    <2>5. Earned(q)
      BY <1>0, <2>3 DEF Earned
    <2>. QED
      BY <2>2, <2>3, <2>4, <2>5, EarnedStays, SaveKeepsRevocation
  <1>3. ASSUME NEW l \in Lines, InsertLine(r, l) PROVE RevocationInv'
    <2>1. PICK q \in {[req[r] EXCEPT !.wrote[l] = InitialLineStatus,
                                     !.todo = @ \ {l}]} : Save(r, q)
      BY <1>3 DEF InsertLine
    <2>2. PICK w \in [Lines -> LineStatus \cup {Unwritten}] :
            w = [req[r].wrote EXCEPT ![l] = InitialLineStatus]
      BY <1>0 DEF Known, Request, InitialLineStatus, LineStatus
    <2>3. q = [req[r] EXCEPT !.wrote = w, !.todo = @ \ {l}]
      BY <2>1, <2>2
    <2>4. /\ q \in Known /\ q.refund = req[r].refund /\ q.new = req[r].new
          /\ q.saved = req[r].saved /\ q.covers = req[r].covers /\ q.wrote = w
      BY <1>0, <1>3, <2>3 DEF InsertLine, Request, Known
    <2>5. req[r].refund \in Refunds
      BY <1>0, <1>3 DEF InsertLine, Known, Request
    <2>6. \A m \in Lines : w[m] = Complete => req[r].wrote[m] = Complete
      BY <1>0, <2>2 DEF Known, Request, InitialLineStatus, Open, Complete
    <2>7. Own(q) /\ Alone(r, q) /\ Earned(q)
      BY <1>0, <2>4, <2>6 DEF Own, Alone, Earned
    <2>. QED
      BY <2>1, <2>4, <2>5, <2>7, EarnedStays, SaveKeepsRevocation
  <1>4. CASE EndCreate(r)
    <2>1. PICK q \in Known : q = req[r] /\ End(r, q)
      BY <1>0, <1>4 DEF EndCreate
    <2>2. q.refund \in Refunds
      BY <1>4, <2>1 DEF EndCreate, Inserted, Known, Request
    <2>3. Own(q) /\ Earned(q)' /\ Alone(r, q)
      BY <1>0, <2>1, EarnedStays
    <2>. QED
      BY <2>1, <2>2, <2>3, SaveKeepsRevocation
  <1>5. CASE ApproveAtOnce(r)
    <2>1. PICK q \in {[req[r] EXCEPT !.phase = "credit", !.source = source]} :
            req' = [req EXCEPT ![r] = q]
      BY <1>5 DEF ApproveAtOnce, TypeInv, ReqOK
    <2>2. GoesOn(q, req[r])
      BY <1>0 DEF GoesOn, Known, Request
    <2>. QED
      BY <1>5, <2>1, <2>2, GoingOnKeepsRevocation DEF ApproveAtOnce
  <1>. QED
    BY <1>1, <1>2, <1>3, <1>4, <1>5

(* Approving: the credit.                                                  *)
LEMMA CreditKeepsRevocation ==
  ASSUME TypeInv, RevocationInv, Revoking, NEW r \in Requests,
         \/ \E f \in Refunds :
              \/ \E payOnly \in BOOLEAN : BeginApprove(r, f, payOnly)
              \/ BeginDeny(r, f)
         \/ Credited(r) \/ NothingToCredit(r) \/ CreditFailed(r) \/ CreditRaises(r)
         \/ Book(r)
  PROVE  RevocationInv'
  <1>0. /\ req[r] \in Known
        /\ Own(req[r]) /\ Earned(req[r]) /\ Alone(r, req[r])
    BY DEF TypeInv, ReqOK, RevocationInv
  (* A request that takes up a committed refund.                           *)
  <1>1. ASSUME NEW f \in Refunds, status[f] # Absent, NEW q,
               req' = [req EXCEPT ![r] = q], UNCHANGED db,
               q.refund = f, q.covers = covers[f], ~q.new, q.wrote = NoRequest.wrote
        PROVE  RevocationInv'
    <2>1. Own(q)
      BY <1>1 DEF Own
    <2>2. Alone(r, q)
      <3>1. ASSUME NEW s \in Requests \ {r}, req[s].refund = f PROVE ~req[s].new
        BY <1>1, <3>1 DEF RevocationInv, Own
      <3>. QED
        BY <1>1, <3>1 DEF Alone
    <2>3. Earned(q)'
      BY <1>1 DEF Earned, NoRequest, Unwritten, Complete
    <2>. QED
      BY <1>1, <2>1, <2>2, <2>3, MoveKeepsRevocation DEF db
  <1>2. ASSUME NEW f \in Refunds, NEW payOnly \in BOOLEAN, BeginApprove(r, f, payOnly)
        PROVE  RevocationInv'
    <2>1. PICK q \in {[NoRequest EXCEPT
             !.phase = IF status[f] \in {Open, PaymentRefundError}
                       THEN "credit" ELSE "settled",
             !.txn = TRUE, !.payOnly = payOnly, !.refund = f, !.status = status[f],
             !.covers = covers[f], !.source = source]} : req' = [req EXCEPT ![r] = q]
      BY <1>2 DEF BeginApprove
    <2>2. /\ q.refund = f /\ q.covers = covers[f] /\ ~q.new
          /\ q.wrote = NoRequest.wrote
      BY DEF NoRequest
    <2>. QED
      BY <1>1, <1>2, <2>1, <2>2, StatusesDistinct DEF BeginApprove
  <1>3. ASSUME NEW f \in Refunds, BeginDeny(r, f) PROVE RevocationInv'
    <2>1. PICK q \in {[NoRequest EXCEPT !.phase = "deny", !.txn = TRUE, !.refund = f,
                                        !.covers = covers[f]]} :
            req' = [req EXCEPT ![r] = q]
      BY <1>3 DEF BeginDeny
    <2>2. /\ q.refund = f /\ q.covers = covers[f] /\ ~q.new
          /\ q.wrote = NoRequest.wrote
      BY DEF NoRequest
    <2>. QED
      BY <1>1, <1>3, <2>1, <2>2 DEF BeginDeny, Open, Absent
  <1>4. CASE Credited(r)
    <2>1. PICK granted \in BOOLEAN : Paid(r, granted)
      BY <1>4 DEF Credited
    <2>2. PICK q \in {[req[r] EXCEPT !.phase = "book", !.paid = TRUE,
                                     !.granted = granted]} :
            req' = [req EXCEPT ![r] = q]
      BY <2>1 DEF Paid, TypeInv, ReqOK
    <2>3. GoesOn(q, req[r])
      BY <1>0 DEF GoesOn, Known, Request
    <2>. QED
      BY <1>4, <2>2, <2>3, GoingOnKeepsRevocation DEF Credited
  <1>5. CASE NothingToCredit(r)
    <2>1. PICK q \in {[req[r] EXCEPT !.phase = "book"]} : req' = [req EXCEPT ![r] = q]
      BY <1>5 DEF NothingToCredit, TypeInv, ReqOK
    <2>2. GoesOn(q, req[r])
      BY <1>0 DEF GoesOn, Known, Request
    <2>. QED
      BY <1>5, <2>1, <2>2, GoingOnKeepsRevocation DEF NothingToCredit
  (* A request that writes its refund's status with the rest.              *)
  <1>6. ASSUME NEW q \in Known, Save(r, q) \/ End(r, q), q.refund \in Refunds, q.saved,
               q.refund = req[r].refund, q.new = req[r].new,
               q.covers = req[r].covers, q.wrote = req[r].wrote
        PROVE  RevocationInv'
    <2>1. Own(q) /\ Earned(q) /\ Alone(r, q)
      BY <1>0, <1>6 DEF Own, Earned, Alone
    <2>. QED
      BY <1>6, <2>1, EarnedStays, SaveKeepsRevocation
  <1>7. CASE CreditFailed(r)
    <2>1. PICK q \in {[req[r] EXCEPT !.status = PaymentRefundError, !.saved = TRUE]} :
            End(r, q)
      BY <1>7 DEF CreditFailed
    <2>2. /\ q \in Known /\ q.refund \in Refunds /\ q.saved
          /\ q.refund = req[r].refund /\ q.new = req[r].new
          /\ q.covers = req[r].covers /\ q.wrote = req[r].wrote
      BY <1>0, <1>7 DEF CreditFailed, Crediting, Known, Request, RefundStatus
    <2>. QED
      BY <1>6, <2>1, <2>2
  <1>8. CASE CreditRaises(r)
    BY <1>8, AbortKeepsRevocation DEF CreditRaises
  <1>9. CASE Book(r)
    <2>1. PICK q \in {[req[r] EXCEPT
                        !.phase = "settled", !.status = PaymentRefunded,
                        !.saved = TRUE, !.books = req[r].paid,
                        !.frees = FreesOffer(req[r])]} : Save(r, q)
      BY <1>9 DEF Book
    <2>2. FreesOffer(req[r]) \in BOOLEAN
      BY OrderAssumption, Zenon DEF FreesOffer
    <2>3. /\ q \in Known /\ q.refund \in Refunds /\ q.saved
          /\ q.refund = req[r].refund /\ q.new = req[r].new
          /\ q.covers = req[r].covers /\ q.wrote = req[r].wrote
      BY <1>0, <1>9, <2>2 DEF Book, Request, Known, RefundStatus
    <2>. QED
      BY <1>6, <2>1, <2>3
  <1>. QED
    BY <1>2, <1>3, <1>4, <1>5, <1>7, <1>8, <1>9

(* Approving: the revocation; denying; the process dying.                  *)
LEMMA EndKeepsRevocation ==
  ASSUME TypeInv, RevocationInv, Revoking, NEW r \in Requests,
         \/ BookCutShort(r) \/ CompleteWithoutRevoking(r) \/ NothingToPay(r)
         \/ StartRevocation(r)
         \/ \E l \in Lines :
              \/ SkipRevocation(r, l) \/ Revoked(r, l) \/ RevocationFailed(r, l)
              \/ RevocationNotImplemented(r, l) \/ NoModule(r, l)
         \/ FinishRevocation(r) \/ Deny(r) \/ Crash(r)
  PROVE  RevocationInv'
  <1>0. /\ req[r] \in Known /\ access \in [Lines -> BOOLEAN]
        /\ paidOnly \in [Refunds -> BOOLEAN]
        /\ Own(req[r]) /\ Earned(req[r]) /\ Alone(r, req[r])
    BY DEF TypeInv, ReqOK, OutsideOK, HistoryOK, RevocationInv
  (* A request that ends, whatever lines it writes.                        *)
  <1>1. ASSUME NEW q \in Known, End(r, q), q.refund \in Refunds,
               q.new => q.saved,
               q.refund = req[r].refund, q.new = req[r].new, q.covers = req[r].covers,
               Earned(q) \/ paidOnly'[q.refund]
        PROVE  RevocationInv'
    <2>1. Own(q) /\ Alone(r, q)
      BY <1>0, <1>1 DEF Own, Alone
    <2>. QED
      BY <1>1, <2>1, EarnedStays, SaveKeepsRevocation
  <1>2. CASE CompleteWithoutRevoking(r)
    <2>1. CASE \A l \in Present(req[r]) : LineMayMove(LinesSeen(req[r])[l], Complete)
      <3>1. PICK q \in {[req[r] EXCEPT
                          !.status = Complete, !.saved = TRUE,
                          !.wrote = [l \in Lines |-> IF l \in Present(req[r])
                                                     THEN Complete ELSE Unwritten]]} :
              End(r, q)
        BY <1>2, <2>1 DEF CompleteWithoutRevoking
      <3>2. [l \in Lines |-> IF l \in Present(req[r]) THEN Complete ELSE Unwritten]
              \in [Lines -> LineStatus \cup {Unwritten}]
        BY DEF LineStatus
      <3>3. Complete \in RefundStatus
        BY DEF RefundStatus
      <3>4. /\ q \in Known /\ q.refund \in Refunds /\ q.saved
            /\ q.refund = req[r].refund /\ q.new = req[r].new /\ q.covers = req[r].covers
        BY <1>0, <1>2, <3>2, <3>3 DEF CompleteWithoutRevoking, Request, Known
      <3>5. paidOnly'[q.refund]
        BY <1>0, <1>2, <2>1, <3>4 DEF CompleteWithoutRevoking
      <3>. QED
        BY <1>1, <3>1, <3>4, <3>5
    <2>2. CASE ~\A l \in Present(req[r]) : LineMayMove(LinesSeen(req[r])[l], Complete)
      BY <1>2, <2>2, AbortKeepsRevocation DEF CompleteWithoutRevoking
    <2>. QED
      BY <2>1, <2>2
  <1>3. CASE NothingToPay(r)
    BY <1>0, <1>1, <1>3 DEF NothingToPay, Known, Own
  <1>4. CASE StartRevocation(r)
    <2>1. PICK q \in {[req[r] EXCEPT !.phase = "revoke", !.line = LinesSeen(req[r]),
                                     !.todo = Present(req[r])]} :
            req' = [req EXCEPT ![r] = q]
      BY <1>4 DEF StartRevocation, TypeInv, ReqOK
    <2>2. GoesOn(q, req[r])
      BY <1>0 DEF GoesOn, Known, Request
    <2>. QED
      BY <1>4, <2>1, <2>2, GoingOnKeepsRevocation DEF StartRevocation
  <1>5. ASSUME NEW l \in Lines, SkipRevocation(r, l) PROVE RevocationInv'
    BY <1>5, SetLineKeepsRevocation DEF SkipRevocation, FreeRefund, Amount, LineStatus
  <1>6. ASSUME NEW l \in Lines, Revoked(r, l) PROVE RevocationInv'
    <2>1. ~access'[l]
      BY <1>0, <1>6 DEF Revoked
    <2>. QED
      BY <1>6, <2>1, SetLineKeepsRevocation DEF Revoked, LineStatus
  <1>7. ASSUME NEW l \in Lines, RevocationFailed(r, l) PROVE RevocationInv'
    BY <1>7, SetLineKeepsRevocation
    DEF RevocationFailed, LineStatus, RevocationError, Complete
  <1>8. ASSUME NEW l \in Lines, RevocationNotImplemented(r, l) PROVE RevocationInv'
    BY <1>8, AbortKeepsRevocation DEF RevocationNotImplemented
  <1>9. ASSUME NEW l \in Lines, NoModule(r, l) PROVE RevocationInv'
    <2>1. PICK q \in {[req[r] EXCEPT !.todo = @ \ {l}]} : req' = [req EXCEPT ![r] = q]
      BY <1>9 DEF NoModule, TypeInv, ReqOK
    <2>2. GoesOn(q, req[r])
      BY <1>0 DEF GoesOn, Known, Request
    <2>. QED
      BY <1>9, <2>1, <2>2, GoingOnKeepsRevocation DEF NoModule
  <1>10. CASE FinishRevocation(r)
    <2>1. CASE req[r].store /\ ~req[r].ok
      BY <1>10, <2>1, AbortKeepsRevocation DEF FinishRevocation
    <2>2. CASE ~(req[r].store /\ ~req[r].ok)
      <3>1. PICK q \in {[req[r] EXCEPT !.status = Verdict(req[r]), !.saved = TRUE]} :
              End(r, q)
        BY <1>10, <2>2 DEF FinishRevocation
      <3>2. Verdict(req[r]) \in RefundStatus
        BY DEF Verdict, RefundStatus
      <3>3. /\ q \in Known /\ q.refund \in Refunds /\ q.saved
            /\ q.refund = req[r].refund /\ q.new = req[r].new
            /\ q.covers = req[r].covers /\ q.wrote = req[r].wrote
        BY <1>0, <1>10, <3>2 DEF FinishRevocation, Request, Known
      <3>4. Earned(q)
        BY <1>0, <3>3 DEF Earned
      <3>. QED
        BY <1>1, <3>1, <3>3, <3>4
    <2>. QED
      BY <2>1, <2>2
  <1>11. CASE Deny(r)
    <2>. DEFINE w == [l \in Lines |->
                       IF l \in Present(req[r])
                          /\ LineMayMove(LinesSeen(req[r])[l], Denied)
                       THEN Denied ELSE Unwritten]
    <2>1. PICK q \in {[req[r] EXCEPT !.status = Denied, !.saved = TRUE, !.wrote = w]} :
            End(r, q)
      BY <1>11 DEF Deny
    <2>2. w \in [Lines -> LineStatus \cup {Unwritten}] /\ Denied \in RefundStatus
      BY DEF LineStatus, RefundStatus
    <2>3. \A l \in Lines : w[l] # Complete
      BY DEF Denied, Unwritten, Complete
    <2>. HIDE DEF w
    <2>4. /\ q \in Known /\ q.refund \in Refunds /\ q.saved /\ q.wrote = w
          /\ q.refund = req[r].refund /\ q.new = req[r].new /\ q.covers = req[r].covers
      BY <1>0, <1>11, <2>2 DEF Deny, Request, Known
    <2>5. Earned(q)
      BY <2>3, <2>4 DEF Earned
    <2>. QED
      BY <1>1, <2>1, <2>4, <2>5
  <1>12. CASE Crash(r)
    BY <1>12, AbortKeepsRevocation DEF Crash
  <1>13. CASE BookCutShort(r)
    <2>1. PICK q \in Known :
            /\ End(r, q)
            /\ q \in {[req[r] EXCEPT !.books = req[r].paid],
                      [req[r] EXCEPT !.status = PaymentRefunded, !.saved = TRUE,
                                     !.books = req[r].paid]}
      BY <1>0, <1>13, CutShortSaves
    <2>2. /\ q.refund \in Refunds /\ q.refund = req[r].refund /\ q.new = req[r].new
          /\ q.covers = req[r].covers /\ q.wrote = req[r].wrote
          /\ req[r].saved => q.saved
      BY <1>0, <1>13, <2>1 DEF BookCutShort, Known, Request
    <2>3. Earned(q) /\ (q.new => q.saved)
      BY <1>0, <2>2 DEF Own, Earned
    <2>. QED
      BY <1>1, <2>1, <2>2, <2>3
  <1>. QED
    BY <1>13, <1>2, <1>3, <1>4, <1>5, <1>6, <1>7, <1>8, <1>9, <1>10, <1>11, <1>12

(* No step grants access or forgets an approval.                           *)
LEMMA StepsRevoke ==
  ASSUME TypeInv, NEW r \in Requests, Step(r)
  PROVE  Revoking
  <1>1. processor' = processor
    BY ProcessorStays
  <1>2. \A l \in Lines : ~access[l] => ~access'[l]
    <2>1. access \in [Lines -> BOOLEAN]
      BY DEF TypeInv, OutsideOK
    <2>2. \/ access' = access
          \/ \E l \in Lines : access' = [access EXCEPT ![l] = FALSE]
      BY DEF Step, BeginCommand, BeginCreate, BeginStoreRefund, Select, InsertRefund,
           EndCreate, ApproveAtOnce, BeginApprove, BeginDeny, Credited, NothingToCredit,
           CreditFailed, CreditRaises, Book, BookCutShort, CompleteWithoutRevoking,
           NothingToPay, StartRevocation, InsertLine, SkipRevocation, Revoked, RevocationFailed,
           RevocationNotImplemented, NoModule, FinishRevocation, Deny, Crash, outside
    <2>. QED
      BY <2>1, <2>2
  <1>3. \A f \in Refunds : paidOnly[f] => paidOnly'[f]
    <2>1. paidOnly \in [Refunds -> BOOLEAN]
      BY DEF TypeInv, HistoryOK
    <2>2. \/ paidOnly' = paidOnly
          \/ paidOnly' = [paidOnly EXCEPT ![req[r].refund] = TRUE]
      BY DEF Step, BeginCommand, BeginCreate, BeginStoreRefund, Select, InsertRefund,
           EndCreate, ApproveAtOnce, BeginApprove, BeginDeny, Credited, NothingToCredit,
           CreditFailed, CreditRaises, Book, BookCutShort, CompleteWithoutRevoking,
           NothingToPay, StartRevocation, InsertLine, SkipRevocation, Revoked, RevocationFailed,
           RevocationNotImplemented, NoModule, FinishRevocation, Deny, Crash, history
    <2>. QED
      BY <2>1, <2>2
  <1>. QED
    BY <1>1, <1>2, <1>3 DEF Revoking

(* A customer does not keep the access of a line whose refund is Complete, *)
(* whichever requests approved, retried, denied or died around it: unless  *)
(* the line cost nothing or staff asked for the payment only.              *)
THEOREM CompleteRevoked == Spec => []CompleteMeansRevoked
  <1>1. Init => TypeInv /\ RevocationInv
    <2>. SUFFICES ASSUME Init PROVE TypeInv /\ RevocationInv
      OBVIOUS
    <2>1. \A f \in Refunds, l \in Lines : rline[f][l] # Complete
      BY DEF Init, Absent, Complete
    <2>2. \A r \in Requests : req[r] = NoRequest
      BY DEF Init
    <2>3. \A r \in Requests : Own(req[r]) /\ Earned(req[r]) /\ Alone(r, req[r])
      BY <2>2, NoRequestSound DEF Alone
    <2>. QED
      BY <2>1, <2>3, InitTypes DEF RevocationInv
  <1>2. TypeInv /\ RevocationInv /\ [Next]_vars => TypeInv' /\ RevocationInv'
    <2>. SUFFICES ASSUME TypeInv, RevocationInv, [Next]_vars PROVE RevocationInv'
      BY TypeInvInductive
    <2>1. CASE StoreGivesMoneyBack \/ UNCHANGED vars
      <3>1. UNCHANGED <<status, covers, rline, processor, access, paidOnly, req>>
        BY <2>1 DEF StoreGivesMoneyBack, vars, db, outside, history
      <3>. QED
        BY <3>1 DEF RevocationInv, Own, Earned, Alone, Worth
    <2>2. ASSUME NEW r \in Requests, Step(r) PROVE RevocationInv'
      BY <2>2, StepsRevoke, CreationKeepsRevocation, CreditKeepsRevocation,
         EndKeepsRevocation DEF Step
    <2>. QED
      BY <2>1, <2>2 DEF Next
  <1>3. TypeInv /\ RevocationInv => CompleteMeansRevoked
    <2>. SUFFICES ASSUME TypeInv, RevocationInv, NEW f \in Refunds, NEW l \in Lines,
                         rline[f][l] = Complete, ~paidOnly[f], Worth(covers[f]) > 0
                  PROVE  ~access[l]
      BY DEF CompleteMeansRevoked
    <2>. QED
      BY DEF RevocationInv
  <1>. QED
    BY <1>1, <1>2, <1>3, PTL DEF Spec

-----------------------------------------------------------------------------
(* A store's notification stays inside one transaction from the creation   *)
(* of its refund to the verdict: only the last step writes a status others *)
(* can see.                                                                *)
StoreSafe(q) ==
  q.store => q.txn /\ ~q.payOnly /\ q.phase # "deny" /\ processor = "store"

StoreInv == \A r \in Requests : StoreSafe(req[r])

(* What a step of r must keep, and may do to the statuses.                 *)
StoreStep(r) ==
  /\ StoreInv'
  /\ \A s \in Requests \ {r} : req'[s] = req[s]
  /\ req[r].store => \A f \in Refunds : status'[f] # status[f] => status'[f] = Complete

LEMMA StoreMoves ==
  ASSUME TypeInv, StoreInv, processor' = processor, NEW r \in Requests, NEW p,
         req' = [req EXCEPT ![r] = p], StoreSafe(p),
         req[r].store => \A f \in Refunds : status'[f] # status[f] => status'[f] = Complete
  PROVE  StoreStep(r)
  <1>1. \A s \in Requests : req'[s] = IF s = r THEN p ELSE req[s]
    BY DEF TypeInv, ReqOK
  <1>2. \A s \in Requests : StoreSafe(req[s])'
    BY <1>1 DEF StoreInv, StoreSafe
  <1>. QED
    BY <1>1, <1>2 DEF StoreStep, StoreInv

LEMMA StoreSaves ==
  ASSUME TypeInv, StoreInv, processor' = processor, NEW r \in Requests, NEW q \in Known,
         Save(r, q), q.store = req[r].store, q.txn = req[r].txn,
         q.payOnly = req[r].payOnly, q.phase # "deny"
  PROVE  StoreStep(r)
  <1>1. StoreSafe(q) /\ (q.store => q.txn)
    BY DEF StoreInv, StoreSafe
  <1>2. CASE q.txn
    BY <1>1, <1>2, StoreMoves DEF Save, db
  <1>3. CASE ~q.txn
    <2>1. ~Flushed(q).store
      BY <1>1, <1>3 DEF Flushed, Known, Request
    <2>. QED
      BY <1>1, <1>3, <2>1, StoreMoves DEF Save, StoreSafe
  <1>. QED
    BY <1>2, <1>3

LEMMA StoreEnds ==
  ASSUME TypeInv, StoreInv, processor' = processor, NEW r \in Requests, NEW q,
         \/ End(r, q) /\ (req[r].store => q.status = Complete)
         \/ Abort(r)
  PROVE  StoreStep(r)
  <1>1. StoreSafe(NoRequest)
    BY DEF StoreSafe, NoRequest
  <1>2. CASE End(r, q) /\ (req[r].store => q.status = Complete)
    <2>1. req[r].store =>
            \A f \in Refunds : status'[f] # status[f] => status'[f] = Complete
      BY <1>2 DEF End, Commit, TypeInv, DbOK
    <2>. QED
      BY <1>1, <1>2, <2>1, StoreMoves DEF End
  <1>3. CASE Abort(r)
    BY <1>1, <1>3, StoreMoves DEF Abort, db
  <1>. QED
    BY <1>2, <1>3

LEMMA StepsOfStore ==
  ASSUME TypeInv, StoreInv, NEW r \in Requests, Step(r)
  PROVE  StoreStep(r)
  <1>p. processor' = processor
    BY ProcessorStays
  <1>0. req[r] \in Known /\ StoreSafe(req[r])
    BY DEF TypeInv, ReqOK, StoreInv
  <1>1. ASSUME NEW p, req' = [req EXCEPT ![r] = p], UNCHANGED db, StoreSafe(p)
        PROVE  StoreStep(r)
    BY <1>p, <1>1, StoreMoves DEF db
  (* A step that changes neither the transaction nor what asked for it.    *)
  <1>2. ASSUME NEW p, req' = [req EXCEPT ![r] = p], UNCHANGED db, p.phase # "deny",
               p.store = req[r].store, p.txn = req[r].txn, p.payOnly = req[r].payOnly
        PROVE  StoreStep(r)
    BY <1>0, <1>1, <1>2 DEF StoreSafe
  <1>3. CASE \/ BeginCommand(r)
             \/ \E course \in SUBSET Lines :
                  BeginCreate(r, course) \/ BeginStoreRefund(r, course)
    <2>1. PICK lines, t, b :
            /\ Select(r, lines, t, b)
            /\ b => t /\ processor = "store"
      BY <1>3 DEF BeginCommand, BeginCreate, BeginStoreRefund
    <2>2. PICK q \in {[NoRequest EXCEPT !.phase = "insert", !.txn = t, !.store = b,
                                        !.covers = lines, !.todo = lines]} :
            req' = [req EXCEPT ![r] = q]
      BY <2>1 DEF Select
    <2>3. q.store = b /\ q.txn = t /\ q.payOnly = FALSE /\ q.phase = "insert"
      BY DEF NoRequest
    <2>. QED
      BY <1>1, <2>1, <2>2, <2>3 DEF Select, StoreSafe
  <1>4. CASE InsertRefund(r)
    <2>1. PICK f \in Refunds :
            \E q \in {[req[r] EXCEPT !.refund = f, !.new = TRUE, !.saved = TRUE]} :
              Save(r, q)
      BY <1>4 DEF InsertRefund
    <2>2. PICK q \in {[req[r] EXCEPT !.refund = f, !.new = TRUE, !.saved = TRUE]} :
            Save(r, q)
      BY <2>1
    <2>3. /\ q \in Known /\ q.phase # "deny" /\ q.store = req[r].store
          /\ q.txn = req[r].txn /\ q.payOnly = req[r].payOnly
      BY <1>0, <1>4 DEF InsertRefund, Request, Known
    <2>. QED
      BY <1>p, <2>2, <2>3, StoreSaves
  <1>5. ASSUME NEW l \in Lines, InsertLine(r, l) PROVE StoreStep(r)
    <2>1. PICK q \in {[req[r] EXCEPT !.wrote[l] = InitialLineStatus,
                                     !.todo = @ \ {l}]} : Save(r, q)
      BY <1>5 DEF InsertLine
    <2>2. PICK w \in [Lines -> LineStatus \cup {Unwritten}] :
            w = [req[r].wrote EXCEPT ![l] = InitialLineStatus]
      BY <1>0 DEF Known, Request, InitialLineStatus, LineStatus
    <2>3. q = [req[r] EXCEPT !.wrote = w, !.todo = @ \ {l}]
      BY <2>1, <2>2
    <2>4. /\ q \in Known /\ q.phase # "deny" /\ q.store = req[r].store
          /\ q.txn = req[r].txn /\ q.payOnly = req[r].payOnly
      BY <1>0, <1>5, <2>3 DEF InsertLine, Request, Known
    <2>. QED
      BY <1>p, <2>1, <2>4, StoreSaves
  <1>6. CASE EndCreate(r)
    BY <1>p, <1>6, StoreEnds DEF EndCreate, ApprovedAtOnce
  <1>7. CASE ApproveAtOnce(r)
    <2>1. PICK q \in {[req[r] EXCEPT !.phase = "credit", !.source = source]} :
            req' = [req EXCEPT ![r] = q]
      BY <1>7 DEF ApproveAtOnce, TypeInv, ReqOK
    <2>2. /\ q.phase # "deny" /\ q.store = req[r].store
          /\ q.txn = req[r].txn /\ q.payOnly = req[r].payOnly
      BY <1>0 DEF Known, Request
    <2>. QED
      BY <1>2, <1>7, <2>1, <2>2 DEF ApproveAtOnce
  <1>8. ASSUME NEW f \in Refunds, NEW payOnly \in BOOLEAN,
               BeginApprove(r, f, payOnly) \/ BeginDeny(r, f)
        PROVE  StoreStep(r)
    <2>1. PICK q : /\ req' = [req EXCEPT ![r] = q]
                   /\ ~q.store
      <3>1. CASE BeginApprove(r, f, payOnly)
        <4>1. PICK q \in {[NoRequest EXCEPT
                 !.phase = IF status[f] \in {Open, PaymentRefundError}
                           THEN "credit" ELSE "settled",
                 !.txn = TRUE, !.payOnly = payOnly, !.refund = f, !.status = status[f],
                 !.covers = covers[f], !.source = source]} : req' = [req EXCEPT ![r] = q]
          BY <3>1 DEF BeginApprove
        <4>2. ~q.store
          BY DEF NoRequest
        <4>. QED
          BY <4>1, <4>2
      <3>2. CASE BeginDeny(r, f)
        <4>1. PICK q \in {[NoRequest EXCEPT !.phase = "deny", !.txn = TRUE, !.refund = f,
                                            !.covers = covers[f]]} :
                req' = [req EXCEPT ![r] = q]
          BY <3>2 DEF BeginDeny
        <4>2. ~q.store
          BY DEF NoRequest
        <4>. QED
          BY <4>1, <4>2
      <3>. QED
        BY <1>8, <3>1, <3>2
    <2>. QED
      BY <1>1, <1>8, <2>1 DEF BeginApprove, BeginDeny, StoreSafe
  <1>9. CASE Credited(r)
    <2>1. PICK granted \in BOOLEAN : Paid(r, granted)
      BY <1>9 DEF Credited
    <2>2. PICK q \in {[req[r] EXCEPT !.phase = "book", !.paid = TRUE,
                                     !.granted = granted]} :
            req' = [req EXCEPT ![r] = q]
      BY <2>1 DEF Paid, TypeInv, ReqOK
    <2>3. /\ q.phase # "deny" /\ q.store = req[r].store
          /\ q.txn = req[r].txn /\ q.payOnly = req[r].payOnly
      BY <1>0 DEF Known, Request
    <2>. QED
      BY <1>2, <1>9, <2>2, <2>3 DEF Credited
  <1>10. CASE NothingToCredit(r)
    <2>1. PICK q \in {[req[r] EXCEPT !.phase = "book"]} : req' = [req EXCEPT ![r] = q]
      BY <1>10 DEF NothingToCredit, TypeInv, ReqOK
    <2>2. /\ q.phase # "deny" /\ q.store = req[r].store
          /\ q.txn = req[r].txn /\ q.payOnly = req[r].payOnly
      BY <1>0 DEF Known, Request
    <2>. QED
      BY <1>2, <1>10, <2>1, <2>2 DEF NothingToCredit
  (* The store gave the money back itself: its credit cannot fail.         *)
  <1>11. CASE CreditFailed(r)
    <2>1. PICK q : End(r, q)
      BY <1>11 DEF CreditFailed
    <2>2. ~req[r].store
      BY <1>0, <1>11 DEF CreditFailed, StoreSafe
    <2>. QED
      BY <1>p, <2>1, <2>2, StoreEnds
  <1>12. CASE CreditRaises(r) \/ Crash(r)
    BY <1>p, <1>12, StoreEnds DEF CreditRaises, Crash
  <1>13. CASE Book(r)
    <2>1. PICK q \in {[req[r] EXCEPT
                        !.phase = "settled", !.status = PaymentRefunded,
                        !.saved = TRUE, !.books = req[r].paid,
                        !.frees = FreesOffer(req[r])]} : Save(r, q)
      BY <1>13 DEF Book
    <2>2. FreesOffer(req[r]) \in BOOLEAN
      BY OrderAssumption, Zenon DEF FreesOffer
    <2>3. /\ q \in Known /\ q.phase # "deny" /\ q.store = req[r].store
          /\ q.txn = req[r].txn /\ q.payOnly = req[r].payOnly
      BY <1>0, <1>13, <2>2 DEF Book, Request, Known, RefundStatus
    <2>. QED
      BY <1>p, <2>1, <2>3, StoreSaves
  (* The command dies outside a transaction, a notification inside one.    *)
  <1>22. CASE BookCutShort(r)
    <2>1. PICK q : End(r, q)
      BY <1>22 DEF BookCutShort
    <2>2. ~req[r].store
      BY <1>0, <1>22 DEF BookCutShort, StoreSafe
    <2>. QED
      BY <1>p, <2>1, <2>2, StoreEnds
  <1>14. CASE CompleteWithoutRevoking(r) \/ NothingToPay(r)
    <2>1. ~req[r].store
      BY <1>0, <1>14 DEF CompleteWithoutRevoking, NothingToPay, StoreSafe
    <2>2. Abort(r) \/ \E q : End(r, q)
      BY <1>14 DEF CompleteWithoutRevoking, NothingToPay
    <2>. QED
      BY <1>p, <2>1, <2>2, StoreEnds
  <1>15. CASE StartRevocation(r)
    <2>1. PICK q \in {[req[r] EXCEPT !.phase = "revoke", !.line = LinesSeen(req[r]),
                                     !.todo = Present(req[r])]} :
            req' = [req EXCEPT ![r] = q]
      BY <1>15 DEF StartRevocation, TypeInv, ReqOK
    <2>2. /\ q.phase # "deny" /\ q.store = req[r].store
          /\ q.txn = req[r].txn /\ q.payOnly = req[r].payOnly
      BY <1>0 DEF Known, Request
    <2>. QED
      BY <1>2, <1>15, <2>1, <2>2 DEF StartRevocation
  <1>16. ASSUME NEW l \in Lines, NEW s \in LineStatus, Turn(r, l), SetLine(r, l, s)
         PROVE  StoreStep(r)
    <2>1. CASE LineMayMove(req[r].line[l], s)
      <3>1. PICK q \in {[req[r] EXCEPT !.wrote[l] = s, !.todo = @ \ {l},
                                       !.ok = IF s = Complete THEN @ ELSE FALSE]} :
              Save(r, q)
        BY <1>16, <2>1 DEF SetLine
      <3>2. PICK w \in [Lines -> LineStatus \cup {Unwritten}] :
              w = [req[r].wrote EXCEPT ![l] = s]
        BY <1>0 DEF Known, Request
      <3>3. PICK b \in BOOLEAN : b = IF s = Complete THEN req[r].ok ELSE FALSE
        BY <1>0 DEF Known, Request
      <3>4. q = [req[r] EXCEPT !.wrote = w, !.todo = @ \ {l}, !.ok = b]
        BY <3>1, <3>2, <3>3
      <3>5. /\ q \in Known /\ q.phase # "deny" /\ q.store = req[r].store
            /\ q.txn = req[r].txn /\ q.payOnly = req[r].payOnly
        BY <1>0, <1>16, <3>4 DEF Turn, Known, Request
      <3>. QED
        BY <1>p, <3>1, <3>5, StoreSaves
    <2>2. CASE ~LineMayMove(req[r].line[l], s)
      BY <1>p, <1>16, <2>2, StoreEnds DEF SetLine
    <2>. QED
      BY <2>1, <2>2
  <1>17. ASSUME NEW l \in Lines,
                SkipRevocation(r, l) \/ Revoked(r, l) \/ RevocationFailed(r, l)
         PROVE  StoreStep(r)
    BY <1>16, <1>17 DEF SkipRevocation, Revoked, RevocationFailed, LineStatus
  <1>18. ASSUME NEW l \in Lines, RevocationNotImplemented(r, l) PROVE StoreStep(r)
    BY <1>p, <1>18, StoreEnds DEF RevocationNotImplemented
  <1>19. ASSUME NEW l \in Lines, NoModule(r, l) PROVE StoreStep(r)
    <2>1. PICK q \in {[req[r] EXCEPT !.todo = @ \ {l}]} : req' = [req EXCEPT ![r] = q]
      BY <1>19 DEF NoModule, TypeInv, ReqOK
    <2>2. /\ q.phase # "deny" /\ q.store = req[r].store
          /\ q.txn = req[r].txn /\ q.payOnly = req[r].payOnly
      BY <1>0, <1>19 DEF NoModule, Turn, Known, Request
    <2>. QED
      BY <1>2, <1>19, <2>1, <2>2 DEF NoModule
  <1>20. CASE FinishRevocation(r)
    <2>1. CASE req[r].store /\ ~req[r].ok
      BY <1>p, <1>20, <2>1, StoreEnds DEF FinishRevocation
    <2>2. CASE ~(req[r].store /\ ~req[r].ok)
      <3>1. PICK q \in {[req[r] EXCEPT !.status = Verdict(req[r]), !.saved = TRUE]} :
              End(r, q)
        BY <1>20, <2>2 DEF FinishRevocation
      <3>2. req[r].store => q.status = Complete
        BY <1>0, <2>2 DEF Verdict, Known, Request
      <3>. QED
        BY <1>p, <3>1, <3>2, StoreEnds
    <2>. QED
      BY <2>1, <2>2
  <1>21. CASE Deny(r)
    <2>1. PICK q : End(r, q)
      BY <1>21 DEF Deny
    <2>2. ~req[r].store
      BY <1>0, <1>21 DEF Deny, StoreSafe
    <2>. QED
      BY <1>p, <2>1, <2>2, StoreEnds
  <1>. QED
    BY <1>3, <1>4, <1>5, <1>6, <1>7, <1>8, <1>9, <1>10, <1>11, <1>12, <1>13, <1>14,
       <1>15, <1>17, <1>18, <1>19, <1>20, <1>21, <1>22 DEF Step

(* The notification of an app store leaves a Complete refund behind it or  *)
(* nothing, for any interleaving and wherever its process dies.            *)
THEOREM StoreAllOrNothing == Spec => StoreRefundAllOrNothing
  <1>. DEFINE AllOrNothing ==
         \A r \in Requests : req[r].store /\ req'[r] # req[r] =>
           \A f \in Refunds : status'[f] # status[f] => status'[f] = Complete
  <1>1. Init => TypeInv /\ StoreInv
    BY InitTypes DEF Init, StoreInv, StoreSafe, NoRequest
  <1>2. TypeInv /\ StoreInv /\ [Next]_vars =>
          TypeInv' /\ StoreInv' /\ [AllOrNothing]_<<req, status>>
    <2>. SUFFICES ASSUME TypeInv, StoreInv, [Next]_vars
                  PROVE  StoreInv' /\ [AllOrNothing]_<<req, status>>
      BY TypeInvInductive
    <2>1. CASE StoreGivesMoneyBack \/ UNCHANGED vars
      <3>1. UNCHANGED <<req, status, processor>>
        BY <2>1 DEF StoreGivesMoneyBack, vars, db, history
      <3>. QED
        BY <3>1 DEF StoreInv, StoreSafe
    <2>2. ASSUME NEW r \in Requests, Step(r)
          PROVE  StoreInv' /\ AllOrNothing
      <3>1. StoreStep(r)
        BY <2>2, StepsOfStore
      <3>. QED
        BY <3>1 DEF StoreStep
    <2>. QED
      BY <2>1, <2>2 DEF Next
  <1>. QED
    BY <1>1, <1>2, PTL DEF Spec, StoreRefundAllOrNothing

=============================================================================
