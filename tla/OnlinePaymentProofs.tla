------------------------ MODULE OnlinePaymentProofs ------------------------
(***************************************************************************)
(* Proofs about OnlinePayment, for every number of requests, rows and      *)
(* attempts and every set of handlers: IInv is an inductive invariant, the *)
(* safety properties follow from it, and the order's two columns implement *)
(* PaymentPromise.  At the end, the choice among the attempts of a list,   *)
(* for a list of any length.                                               *)
(***************************************************************************)
EXTENDS MC_PaymentAttempts, WellFoundedInduction, SequenceTheorems, TLAPS

(* The labels at which FrameSound asks nothing of a frame. *)
Harmless ==
    {"idle", "markMismatch", "markFailed", "failOrder", "markStarted",
      "syncRead", "syncNext", "release", "returnPoints",
     "returnBenefit", "cancelRead", "cancelMark", "supersedeCheck", "createCheck",
     "findRow", "createRow", "cancelTx", "eventProcessed", "eventFailed"}

(* Money that moved has moved for good and a cancelled order stays cancelled:  *)
(* all that another request's frame relies on.                                 *)
Forward ==
    /\ \A m \in Attempts : attempt[m] \in MoneyStatuses => attempt'[m] \in MoneyStatuses
    /\ orderStatus = "CANCELLED" => orderStatus' = "CANCELLED"

-----------------------------------------------------------------------------
(* Frames. *)

LEMMA IdleFrame == Idle \in Frame /\ Idle.pc = "idle"
  BY DEF Frame, Idle, Labels, Ops, NoRows, RowStatuses

(* The frame a worker returns to after a sync or a release is a harmless one. *)
LEMMA AfterSyncFrame ==
    ASSUME NEW f \in Frame
    PROVE  AfterSync(f) \in Frame /\ AfterSync(f).pc \in Harmless
  <1>1. f.op \in Ops /\ f.target \in Rows \cup {0}
    BY DEF Frame
  <1>3. {"cancelRead", "supersedeCheck", "createCheck"} \subseteq Labels \cap Harmless
    BY DEF Labels, Harmless
  <1>4. "idle" \in Harmless
    BY DEF Harmless
  <1>a. CASE f.op = "cancelCheckout"
    <2>1. AfterSync(f) =
             [Idle EXCEPT !.op = f.op, !.target = f.target, !.pc = "cancelRead"]
      BY <1>a DEF AfterSync
    <2> QED BY <2>1, <1>1, <1>3, IdleFrame DEF Frame
  <1>b. CASE f.op = "supersede"
    <2>1. AfterSync(f) = [Idle EXCEPT !.op = f.op, !.pc = "supersedeCheck"]
      BY <1>b DEF AfterSync
    <2> QED BY <2>1, <1>1, <1>3, IdleFrame DEF Frame
  <1>c. CASE f.op = "createCheckout"
    <2>1. AfterSync(f) = [Idle EXCEPT !.op = f.op, !.pc = "createCheck"]
      BY <1>c DEF AfterSync
    <2> QED BY <2>1, <1>1, <1>3, IdleFrame DEF Frame
  <1>d. CASE f.op \notin {"cancelCheckout", "supersede", "createCheckout"}
    <2>1. AfterSync(f) = Idle
      BY <1>d DEF AfterSync
    <2> QED BY <2>1, <1>4, IdleFrame
  <1> QED BY <1>a, <1>b, <1>c, <1>d

(* So is the one it returns to after a row. *)
LEMMA AfterRowFrame ==
    ASSUME NEW f \in Frame
    PROVE  AfterRow(f) \in Frame /\ AfterRow(f).pc \in Harmless
  <1>1. {"eventProcessed", "syncNext", "idle"} \subseteq Labels \cap Harmless
    BY DEF Labels, Harmless
  <1>2. "NONE" \in RowStatuses
    BY DEF RowStatuses
  <1>a. CASE f.op = "verify"
    <2>1. AfterRow(f) = Idle
      BY <1>a DEF AfterRow
    <2> QED BY <2>1, <1>1, IdleFrame
  <1>b. CASE f.op = "webhook"
    <2>1. AfterRow(f) = [f EXCEPT !.pc = "eventProcessed", !.row = 0, !.seen = "none",
                                  !.from = "NONE"]
      BY <1>b DEF AfterRow
    <2> QED BY <2>1, <1>1, <1>2 DEF Frame
  <1>c. CASE f.op \notin {"verify", "webhook"}
    <2>1. AfterRow(f) = [f EXCEPT !.pc = "syncNext", !.row = 0, !.pay = 0,
                                  !.seen = "none", !.from = "NONE",
                                  !.todo = [@ EXCEPT ![f.row] = "NONE"]]
      BY <1>c DEF AfterRow
    <2>2. [f.todo EXCEPT ![f.row] = "NONE"] \in [Rows -> RowStatuses]
      BY <1>2 DEF Frame
    <2> QED BY <2>1, <2>2, <1>1, <1>2 DEF Frame
  <1> QED BY <1>a, <1>b, <1>c

(* And the one at which an exception is caught. *)
LEMMA OnErrorFrame ==
    ASSUME NEW f \in Frame
    PROVE  OnError(f) \in Frame /\ OnError(f).pc \in Harmless
  <1>1. {"eventFailed", "idle"} \subseteq Labels \cap Harmless
    BY DEF Labels, Harmless
  <1>a. CASE f.op = "cancelCheckout"
    BY <1>a, AfterSyncFrame DEF OnError
  <1>b. CASE f.op = "webhook"
    <2>1. OnError(f) = [f EXCEPT !.pc = "eventFailed", !.row = 0, !.seen = "none",
                                 !.from = "NONE"]
      BY <1>b DEF OnError
    <2>2. "NONE" \in RowStatuses
      BY DEF RowStatuses
    <2> QED BY <2>1, <2>2, <1>1 DEF Frame
  <1>c. CASE f.op \notin {"cancelCheckout", "webhook"}
    <2>1. OnError(f) = Idle
      BY <1>c DEF OnError
    <2> QED BY <2>1, <1>1, IdleFrame
  <1> QED BY <1>a, <1>b, <1>c

-----------------------------------------------------------------------------
(* What a step leaves alone. *)

(* A worker that moves on replaces its own frame and no other. *)
LEMMA GotoFrame ==
    ASSUME TypeOK, NEW w \in Workers, NEW g \in Frame, Goto(w, g)
    PROVE  /\ request' \in [Workers -> Frame]
           /\ request'[w] = g
           /\ \A v \in Workers \ {w} : request'[v] = request[v]
  BY DEF TypeOK, Goto

(* Money that a row holds stays with it. *)
LEMMA MovedStays ==
    ASSUME Forward
    PROVE  \A r \in Rows : Moved(r) => Moved(r)'
  BY DEF Forward, Moved

LEMMA HarmlessIsSound ==
    ASSUME NEW g, g.pc \in Harmless
    PROVE  FrameSound(g)
  BY DEF FrameSound, Harmless

(* The frames of the workers that do not move stay sound: they rely on facts   *)
(* that no step takes back.                                                    *)
LEMMA FramesStaySound ==
    ASSUME IInv, Forward, NEW w \in Workers,
           \A v \in Workers \ {w} : request'[v] = request[v],
           FrameSound(request[w])'
    PROVE  \A v \in Workers : FrameSound(request[v])'
  <1> TAKE v \in Workers
  <1>1. CASE v = w
    BY <1>1
  <1>2. CASE v # w
    <2>1. request'[v] = request[v] /\ FrameSound(request[v])
      BY <1>2 DEF IInv
    <2>2. \A r \in Rows : Moved(r) => Moved(r)'
      BY MovedStays
    <2>3. request[v] \in Frame
      BY DEF IInv, TypeOK
    <2> QED BY <2>1, <2>2, <2>3 DEF FrameSound, Forward, Frame
  <1> QED BY <1>1, <1>2

(* A step that only moves a worker to a sound frame. *)
LEMMA QuietStep ==
    ASSUME IInv, NEW w \in Workers, NEW g \in Frame, FrameSound(g), Goto(w, g),
           UNCHANGED <<orderVars, rowVars, gatewayVars, event, returned>>
    PROVE  IInv'
  <1> USE DEF orderVars, rowVars, gatewayVars
  <1>1. TypeOK /\ TypeOK'
    BY GotoFrame DEF IInv, TypeOK
  <1>2. Forward
    BY DEF Forward
  <1>3. FrameSound(request[w])'
    BY <1>1, GotoFrame DEF FrameSound, Moved
  <1>4. \A v \in Workers : FrameSound(request[v])'
    BY <1>1, <1>2, <1>3, GotoFrame, FramesStaySound
  <1>5. (RowsBacked /\ PaidImpliesMoneyMoved /\ StatusesAgree /\ RefundOnlyWhenDue)'
    BY DEF IInv, RowsBacked, PaidImpliesMoneyMoved, StatusesAgree, RefundOnlyWhenDue,
           Moved
  <1> QED BY <1>1, <1>4, <1>5 DEF IInv

(* The types of the variables a step of a request may write. *)
WritesOK ==
    /\ orderStatus' \in OrderStatuses
    /\ paymentStatus' \in PaymentStatuses
    /\ status' \in [Rows -> RowStatuses]
    /\ providerPaymentId' \in [Rows -> Attempts \cup {0}]
    /\ refundRequired' \in [Rows -> BOOLEAN]
    /\ event' \in [Attempts \X EventTypes -> EventStatuses]
    /\ returned' \subseteq {"points", "freeDelivery"}

(* A step that writes and moves the worker to a sound frame. *)
LEMMA WriteStep ==
    ASSUME IInv, NEW w \in Workers, NEW g \in Frame, FrameSound(g), Goto(w, g),
           UNCHANGED gatewayVars, WritesOK,
           orderStatus = "CANCELLED" => orderStatus' = "CANCELLED",
           \A r \in Rows : status'[r] \in InFlight => Moved(r),
           paymentStatus' = "PAID" => \E r \in Rows : Moved(r),
           StatusesAgree',
           \A r \in Rows : refundRequired'[r] => orderStatus' = "CANCELLED" /\ Moved(r)
    PROVE  IInv'
  <1>1. TypeOK /\ TypeOK'
    BY GotoFrame DEF IInv, TypeOK, WritesOK, gatewayVars
  <1>2. Forward
    BY DEF Forward, gatewayVars
  <1>3. FrameSound(request[w])'
    BY <1>1, GotoFrame DEF FrameSound, Moved, gatewayVars
  <1>4. \A v \in Workers : FrameSound(request[v])'
    BY <1>1, <1>2, <1>3, GotoFrame, FramesStaySound
  <1>5. (RowsBacked /\ PaidImpliesMoneyMoved /\ RefundOnlyWhenDue)'
    BY DEF RowsBacked, PaidImpliesMoneyMoved, RefundOnlyWhenDue, Moved, gatewayVars
  <1> QED BY <1>1, <1>4, <1>5 DEF IInv

(* transitionPayment writes at most the row at hand. *)
LEMMA TransitionWrites ==
    ASSUME TypeOK, NEW w \in Workers, NEW to \in GatewayStatuses,
           NEW pay \in Attempts \cup {0}, Transition(w, to, pay)
    PROVE  /\ status' \in [Rows -> RowStatuses]
           /\ providerPaymentId' \in [Rows -> Attempts \cup {0}]
           /\ \A r \in Rows : \/ status'[r] = status[r]
                              \/ r = request[w].row /\ status'[r] = to
  <1>1. CASE CanTransition(request[w].from, to)
    BY <1>1 DEF Transition, TypeOK, RowStatuses
  <1>2. CASE ~CanTransition(request[w].from, to)
    BY <1>2 DEF Transition, TypeOK
  <1> QED BY <1>1, <1>2

(* A step that only moves a worker to a harmless frame. *)
LEMMA HarmlessStep ==
    ASSUME IInv, NEW w \in Workers, NEW g \in Frame, g.pc \in Harmless, Goto(w, g),
           UNCHANGED <<orderVars, rowVars, gatewayVars, event, returned>>
    PROVE  IInv'
  <1>1. FrameSound(g)
    BY HarmlessIsSound
  <1> QED BY <1>1, QuietStep

(* What IInv says about the frame of one worker. *)
LEMMA FrameOf ==
    ASSUME IInv, NEW w \in Workers
    PROVE  request[w] \in Frame /\ FrameSound(request[w])
  BY DEF IInv, TypeOK

-----------------------------------------------------------------------------
(* Choices. *)

(* A set of rows that is not empty has a newest one. *)
LEMMA NewestInSet ==
    ASSUME NEW S \in SUBSET Rows, S # {}
    PROVE  Newest(S) \in S
  <1> DEFINE Ages == {MaxRows - r : r \in S}
             Less == OpToRel(<, Nat)
  <1>1. MaxRows \in Nat /\ Rows \subseteq Nat /\ \A r \in Rows : MaxRows - r \in Nat
    BY ConstantsAssumption DEF Rows
  <1>2. Ages \subseteq Nat /\ Ages # {}
    BY <1>1
  <1>3. \E x \in Ages : \A y \in Ages : ~ (<<y, x>> \in Less)
    <2> HIDE DEF Ages, Less
    <2>1. IsWellFoundedOn(Less, Nat)
      BY NatLessThanWellFounded DEF Less
    <2> QED BY <2>1, <1>2, WFMin
  <1>4. PICK x \in Ages : \A y \in Ages : ~ (y < x)
    BY <1>2, <1>3 DEF OpToRel
  <1>5. PICK r \in S : x = MaxRows - r
    BY <1>4
  <1>6. \A q \in S : q =< r
    BY <1>1, <1>4, <1>5
  <1> QED BY <1>5, <1>6 DEF Newest

(* The authoritative attempts are some of those listed. *)
LEMMA AuthoritativeListed ==
    ASSUME NEW S
    PROVE  Authoritative(S) \subseteq S
  BY DEF Authoritative

-----------------------------------------------------------------------------
(* One lemma per handler: its steps preserve IInv. *)

(* Steps that only pass control from one harmless label to the next. *)
LEMMA ContinueStep ==
    ASSUME IInv, NEW w \in Workers, NEW pc \in Labels \cap Harmless, Continue(w, pc),
           UNCHANGED <<orderVars, rowVars, gatewayVars, event, returned>>
    PROVE  IInv'
  <1> DEFINE g == [request[w] EXCEPT !.pc = pc]
  <1>1. g \in Frame /\ g.pc \in Harmless
    BY FrameOf DEF Frame
  <1>2. Goto(w, g)
    BY DEF Continue
  <1> QED BY <1>1, <1>2, HarmlessStep

(* A handler starts at a harmless label. *)
LEMMA StartStep ==
    ASSUME IInv, NEW w \in Workers, NEW op \in Ops, NEW pc \in Labels \cap Harmless,
           Start(w, op, pc),
           UNCHANGED <<orderVars, rowVars, gatewayVars, event, returned>>
    PROVE  IInv'
  <1> DEFINE g == [Idle EXCEPT !.op = op, !.pc = pc]
  <1>1. g \in Frame /\ g.pc \in Harmless
    BY IdleFrame DEF Frame
  <1>2. Goto(w, g)
    BY DEF Start
  <1> QED BY <1>1, <1>2, HarmlessStep

(* A handler ends, or returns to its caller. *)
LEMMA ReturnStep ==
    ASSUME IInv, NEW w \in Workers,
           \/ Goto(w, Idle)
           \/ Goto(w, AfterRow(request[w]))
           \/ Goto(w, AfterSync(request[w]))
           \/ Goto(w, OnError(request[w])),
           UNCHANGED <<orderVars, rowVars, gatewayVars, event, returned>>
    PROVE  IInv'
  <1> DEFINE f == request[w]
  <1>1. "idle" \in Harmless
    BY DEF Harmless
  <1>2. f \in Frame
    BY FrameOf
  <1>3. Idle \in Frame /\ Idle.pc \in Harmless
    BY <1>1, IdleFrame
  <1>4. AfterRow(f) \in Frame /\ AfterRow(f).pc \in Harmless
    BY <1>2, AfterRowFrame
  <1>5. AfterSync(f) \in Frame /\ AfterSync(f).pc \in Harmless
    BY <1>2, AfterSyncFrame
  <1>6. OnError(f) \in Frame /\ OnError(f).pc \in Harmless
    BY <1>2, OnErrorFrame
  <1> QED BY <1>3, <1>4, <1>5, <1>6, HarmlessStep

LEMMA VerifyBeginStep ==
    ASSUME IInv, NEW w \in Workers, NEW m \in Attempts, VerifyBegin(w, m)
    PROVE  IInv'
  <1> DEFINE g == [Idle EXCEPT !.op = "verify", !.pc = "recordPayment",
                               !.row = RowOf[m], !.pay = m, !.from = status[RowOf[m]]]
  <1>1. RowOf[m] \in Rows /\ status[RowOf[m]] \in RowStatuses
    BY ConstantsAssumption DEF IInv, TypeOK
  <1>2. "verify" \in Ops /\ "recordPayment" \in Labels
    BY DEF Ops, AllHandlers, Labels
  <1>3. g \in Frame
    BY <1>1, <1>2, IdleFrame DEF Frame
  <1>4. FrameSound(g)
    BY IdleFrame DEF FrameSound, Frame
  <1>5. Goto(w, g)
    BY DEF VerifyBegin
  <1> QED BY <1>3, <1>4, <1>5, QuietStep DEF VerifyBegin

(* A step of a worker to the next label at which its frame is still sound. *)
LEMMA FetchPaymentStep ==
    ASSUME IInv, NEW w \in Workers, FetchPayment(w)
    PROVE  IInv'
  <1> DEFINE f == request[w]
             g == [f EXCEPT !.seen = attempt[f.pay],
                            !.pc = IF f.pay \in Mismatched THEN "mismatch" ELSE "apply"]
  <1>1. f \in Frame /\ FrameSound(f) /\ f.pc = "fetchPayment"
    BY FrameOf DEF FetchPayment, At
  <1>2. f.pay \in Attempts /\ RowOf[f.pay] = f.row /\ f.row \in Rows
    BY <1>1, ConstantsAssumption DEF FrameSound
  <1>3. attempt[f.pay] \in AttemptStatuses \cup {"none"}
    BY <1>2 DEF IInv, TypeOK
  <1>4. g \in Frame
    <2>1. (IF f.pay \in Mismatched THEN "mismatch" ELSE "apply") \in Labels
      BY DEF Labels
    <2> QED BY <2>1, <1>1, <1>3 DEF Frame
  <1>5. FrameSound(g)
    <2>1. /\ g.pc \in {"mismatch", "apply"}
          /\ g.pc = "apply" => f.pay \notin Mismatched
          /\ g.pay = f.pay /\ g.row = f.row /\ g.seen = attempt[f.pay]
      BY <1>1 DEF Frame
    <2> HIDE DEF g
    <2> QED BY <1>2, <2>1 DEF FrameSound
  <1>6. Goto(w, g)
    BY DEF FetchPayment
  <1> QED BY <1>4, <1>5, <1>6, QuietStep DEF FetchPayment

LEMMA ApplyStep ==
    ASSUME IInv, NEW w \in Workers, Apply(w)
    PROVE  IInv'
  <1> DEFINE f == request[w]
  <1>1. f \in Frame /\ FrameSound(f) /\ f.pc = "apply"
    BY FrameOf DEF Apply, At
  <1>2. UNCHANGED <<orderVars, rowVars, gatewayVars, event, returned>>
    BY DEF Apply
  <1>3. f.row \in Rows
    BY <1>1, ConstantsAssumption DEF FrameSound
  <1>a. CASE Goto(w, AfterRow(f))
    BY <1>a, <1>2, ReturnStep
  <1>b. CASE f.seen \in MoneyStatuses /\ Goto(w, [f EXCEPT !.pc = "ensure"])
    <2> DEFINE g == [f EXCEPT !.pc = "ensure"]
    <2>1. g \in Frame
      BY <1>1 DEF Frame, Labels
    <2>2. FrameSound(g)
      BY <1>1, <1>b DEF FrameSound, Frame
    <2> QED BY <1>b, <1>2, <2>1, <2>2, QuietStep
  <1>c. CASE Goto(w, [f EXCEPT !.pc = "markFailed", !.from = status[f.row]])
    <2> DEFINE g == [f EXCEPT !.pc = "markFailed", !.from = status[f.row]]
    <2>1. status[f.row] \in RowStatuses
      BY <1>3 DEF IInv, TypeOK
    <2>2. "markFailed" \in Labels \cap Harmless
      BY DEF Labels, Harmless
    <2>3. g \in Frame /\ g.pc \in Harmless
      BY <1>1, <2>1, <2>2 DEF Frame
    <2> QED BY <1>c, <1>2, <2>3, HarmlessStep
  <1>d. CASE Goto(w, [f EXCEPT !.pc = "markStarted", !.from = "CREATED"])
    <2> DEFINE g == [f EXCEPT !.pc = "markStarted", !.from = "CREATED"]
    <2>1. "CREATED" \in RowStatuses
      BY DEF RowStatuses, GatewayStatuses
    <2>2. "markStarted" \in Labels \cap Harmless
      BY DEF Labels, Harmless
    <2>3. g \in Frame /\ g.pc \in Harmless
      BY <1>1, <2>1, <2>2 DEF Frame
    <2> QED BY <1>d, <1>2, <2>3, HarmlessStep
  <1> QED BY <1>a, <1>b, <1>c, <1>d DEF Apply

LEMMA EnsureStep ==
    ASSUME IInv, NEW w \in Workers, Ensure(w)
    PROVE  IInv'
  <1> DEFINE f == request[w]
             g == [f EXCEPT !.from = status[f.row],
                            !.pc = IF f.seen = "authorized" THEN "capture"
                                                            ELSE "markCaptured"]
  <1>1. f \in Frame /\ FrameSound(f) /\ f.pc = "ensure"
    BY FrameOf DEF Ensure, At
  <1>2. status[f.row] \in RowStatuses
    BY <1>1, ConstantsAssumption DEF FrameSound, IInv, TypeOK
  <1>3. g \in Frame
    <2>1. {"capture", "markCaptured"} \subseteq Labels
      BY DEF Labels
    <2> QED BY <1>1, <1>2, <2>1 DEF Frame
  <1>4. FrameSound(g)
    BY <1>1 DEF FrameSound, Frame
  <1>5. Goto(w, g)
    BY DEF Ensure
  <1> QED BY <1>3, <1>4, <1>5, QuietStep DEF Ensure

(* What IInv says of the tables that a step leaves alone, for WriteStep. *)
LEMMA Tables ==
    ASSUME IInv
    PROVE  /\ orderStatus \in OrderStatuses
           /\ paymentStatus \in PaymentStatuses
           /\ status \in [Rows -> RowStatuses]
           /\ providerPaymentId \in [Rows -> Attempts \cup {0}]
           /\ refundRequired \in [Rows -> BOOLEAN]
           /\ event \in [Attempts \X EventTypes -> EventStatuses]
           /\ returned \subseteq {"points", "freeDelivery"}
           /\ \A r \in Rows : status[r] \in InFlight => Moved(r)
           /\ paymentStatus = "PAID" => \E r \in Rows : Moved(r)
           /\ StatusesAgree
           /\ \A r \in Rows : refundRequired[r] => orderStatus = "CANCELLED" /\ Moved(r)
  BY DEF IInv, TypeOK, RowsBacked, PaidImpliesMoneyMoved, RefundOnlyWhenDue

(* A step that moves the row at hand to a status in which no money is claimed, *)
(* or to one that is backed, and may clear the row's refund flag.              *)
LEMMA RowStep ==
    ASSUME IInv, NEW w \in Workers, NEW g \in Frame, FrameSound(g), Goto(w, g),
           NEW to \in GatewayStatuses, NEW pay \in Attempts \cup {0},
           Transition(w, to, pay),
           to \in InFlight => Moved(request[w].row),
           refundRequired' \in [Rows -> BOOLEAN],
           \A r \in Rows : refundRequired'[r] => refundRequired[r],
           UNCHANGED <<orderVars, gatewayVars, event, returned>>
    PROVE  IInv'
  <1>1. TypeOK
    BY DEF IInv
  <1>2. /\ status' \in [Rows -> RowStatuses]
        /\ providerPaymentId' \in [Rows -> Attempts \cup {0}]
        /\ \A r \in Rows : \/ status'[r] = status[r]
                           \/ r = request[w].row /\ status'[r] = to
    BY <1>1, TransitionWrites
  <1>3. WritesOK
    BY <1>2, Tables DEF WritesOK, orderVars
  <1>4. \A r \in Rows : status'[r] \in InFlight => Moved(r)
    BY <1>2, Tables
  <1>5. StatusesAgree'
    BY Tables DEF StatusesAgree, orderVars
  <1>6. /\ paymentStatus' = "PAID" => \E r \in Rows : Moved(r)
        /\ \A r \in Rows : refundRequired'[r] => orderStatus' = "CANCELLED" /\ Moved(r)
        /\ orderStatus = "CANCELLED" => orderStatus' = "CANCELLED"
    BY Tables DEF orderVars
  <1> QED BY <1>3, <1>4, <1>5, <1>6, WriteStep DEF gatewayVars

LEMMA RecordPaymentStep ==
    ASSUME IInv, NEW w \in Workers, RecordPayment(w)
    PROVE  IInv'
  <1> DEFINE f == request[w]
             g == [f EXCEPT !.pc = "markPending"]
  <1>1. f \in Frame /\ FrameSound(f) /\ f.pc = "recordPayment"
    BY FrameOf DEF RecordPayment, At
  <1>2. g \in Frame
    BY <1>1 DEF Frame, Labels
  <1>3. FrameSound(g)
    BY <1>1 DEF FrameSound, Frame
  <1>4. Goto(w, g) /\ f.pay \in Attempts
    BY <1>1 DEF RecordPayment, Continue, FrameSound
  <1>5. WritesOK
    BY <1>4, Tables DEF WritesOK, RecordPayment, orderVars
  <1>6. StatusesAgree'
    BY Tables DEF StatusesAgree, RecordPayment, orderVars
  <1>7. UNCHANGED <<orderStatus, paymentStatus, status, refundRequired, gatewayVars>>
    BY DEF RecordPayment, orderVars
  <1> QED BY <1>2, <1>3, <1>4, <1>5, <1>6, <1>7, Tables, WriteStep

LEMMA MarkPendingStep ==
    ASSUME IInv, NEW w \in Workers, MarkPending(w)
    PROVE  IInv'
  <1> DEFINE f == request[w]
             g == [f EXCEPT !.pc = "fetchPayment", !.from = "NONE"]
  <1>1. f \in Frame /\ FrameSound(f) /\ f.pc = "markPending"
    BY FrameOf DEF MarkPending, At
  <1>2. g \in Frame
    BY <1>1 DEF Frame, Labels, RowStatuses
  <1>3. FrameSound(g)
    BY <1>1 DEF FrameSound, Frame
  <1>4. "PENDING" \in GatewayStatuses /\ "PENDING" \notin InFlight
    BY DEF GatewayStatuses, InFlight
  <1>5. /\ Goto(w, g) /\ Transition(w, "PENDING", 0)
        /\ UNCHANGED <<orderVars, refundRequired, gatewayVars, event, returned>>
    BY DEF MarkPending
  <1> QED BY <1>2, <1>3, <1>4, <1>5, Tables, RowStep

LEMMA VerifyRejectedStep ==
    ASSUME IInv, NEW w \in Workers, NEW r \in Rows, VerifyRejected(w, r)
    PROVE  IInv'
  <1> DEFINE g == request[w]
  <1>1. g \in Frame /\ FrameSound(g)
    BY FrameOf
  <1>2. Goto(w, g)
    BY DEF VerifyRejected, Goto, IInv, TypeOK
  <1>3. WritesOK
    BY Tables DEF WritesOK, VerifyRejected, orderVars
  <1>4. StatusesAgree'
    BY Tables DEF StatusesAgree, VerifyRejected, orderVars
  <1>5. UNCHANGED <<orderStatus, paymentStatus, status, gatewayVars>>
    BY DEF VerifyRejected, orderVars
  <1>6. \A q \in Rows : refundRequired'[q] => refundRequired[q]
    BY Tables DEF VerifyRejected
  <1> QED BY <1>1, <1>2, <1>3, <1>4, <1>5, <1>6, Tables, WriteStep

(* The four updates of a row in which no money is claimed. *)
LEMMA RowUpdateStep ==
    ASSUME IInv, NEW w \in Workers,
           MarkMismatch(w) \/ MarkFailed(w) \/ MarkStarted(w) \/ CancelMark(w)
    PROVE  IInv'
  <1> DEFINE f == request[w]
  <1>1. f \in Frame /\ FrameSound(f) /\ f.pay \in Attempts \cup {0} /\ 0 \in Attempts \cup {0}
    BY FrameOf DEF Frame
  <1>2. {"VERIFICATION_FAILED", "FAILED", "PENDING", "CANCELLED"}
            \subseteq GatewayStatuses \ InFlight
    BY DEF GatewayStatuses, InFlight
  <1>a. CASE MarkMismatch(w)
    <2>1. OnError(f) \in Frame /\ FrameSound(OnError(f))
      BY <1>1, OnErrorFrame, HarmlessIsSound
    <2>2. /\ Goto(w, OnError(f)) /\ Transition(w, "VERIFICATION_FAILED", 0)
          /\ UNCHANGED <<orderVars, gatewayVars, event, returned>>
      BY <1>a DEF MarkMismatch
    <2>3. /\ refundRequired' \in [Rows -> BOOLEAN]
          /\ \A r \in Rows : refundRequired'[r] => refundRequired[r]
      BY <1>a, Tables DEF MarkMismatch
    <2> QED BY <1>1, <1>2, <2>1, <2>2, <2>3, RowStep
  <1>b. CASE MarkFailed(w)
    <2> DEFINE g == [f EXCEPT !.pc = "failOrder"]
    <2>1. g \in Frame /\ g.pc \in Harmless
      BY <1>1 DEF Frame, Labels, Harmless
    <2>2. /\ Goto(w, g) /\ Transition(w, "FAILED", f.pay)
          /\ UNCHANGED <<orderVars, gatewayVars, event, returned>>
      BY <1>b DEF MarkFailed, Continue
    <2>3. /\ refundRequired' \in [Rows -> BOOLEAN]
          /\ \A r \in Rows : refundRequired'[r] => refundRequired[r]
      BY <1>b, Tables DEF MarkFailed
    <2>4. FrameSound(g)
      BY <2>1, HarmlessIsSound
    <2> QED BY <1>1, <1>2, <2>1, <2>2, <2>3, <2>4, RowStep
  <1>c. CASE MarkStarted(w)
    <2>1. AfterRow(f) \in Frame /\ FrameSound(AfterRow(f))
      BY <1>1, AfterRowFrame, HarmlessIsSound
    <2>2. /\ Goto(w, AfterRow(f)) /\ Transition(w, "PENDING", f.pay)
          /\ UNCHANGED <<orderVars, refundRequired, gatewayVars, event, returned>>
      BY <1>c DEF MarkStarted
    <2> QED BY <1>1, <1>2, <2>1, <2>2, Tables, RowStep
  <1>d. CASE CancelMark(w)
    <2>1. Idle \in Frame /\ FrameSound(Idle)
      BY IdleFrame, HarmlessIsSound DEF Harmless
    <2>2. /\ Goto(w, Idle) /\ Transition(w, "CANCELLED", 0)
          /\ UNCHANGED <<orderVars, refundRequired, gatewayVars, event, returned>>
      BY <1>d DEF CancelMark
    <2> QED BY <1>1, <1>2, <2>1, <2>2, Tables, RowStep
  <1> QED BY <1>a, <1>b, <1>c, <1>d

(* The row is marked AUTHORIZED or CAPTURED: what was seen at Razorpay backs it. *)
LEMMA MarkCapturedStep ==
    ASSUME IInv, NEW w \in Workers, MarkCaptured(w)
    PROVE  IInv'
  <1> DEFINE f == request[w]
             g == [f EXCEPT !.pc = "confirmPayment", !.seen = "none", !.from = "NONE"]
             to == IF f.seen = "captured" THEN "CAPTURED" ELSE "AUTHORIZED"
  <1>1. f \in Frame /\ FrameSound(f) /\ f.pc = "markCaptured"
    BY FrameOf DEF MarkCaptured, At
  <1>2. g \in Frame
    BY <1>1 DEF Frame, Labels, RowStatuses
  <1>4. f.pay \in Attempts /\ Moved(f.row) /\ f.row \in Rows
    BY <1>1, ConstantsAssumption DEF FrameSound, Moved
  <1>3. FrameSound(g)
    BY <1>1, <1>4 DEF FrameSound, Frame
  <1>5. to \in GatewayStatuses
    BY DEF GatewayStatuses
  <1>6. /\ Goto(w, g) /\ Transition(w, to, f.pay)
        /\ UNCHANGED <<orderVars, refundRequired, gatewayVars, event, returned>>
    BY DEF MarkCaptured
  <1> HIDE DEF g, to
  <1> QED BY <1>2, <1>3, <1>4, <1>5, <1>6, Tables, RowStep

(* capturePayment moves the attempt forward: no frame loses its backing. *)
LEMMA CaptureStep ==
    ASSUME IInv, NEW w \in Workers, Capture(w)
    PROVE  IInv'
  <1> DEFINE f == request[w]
  <1>1. f \in Frame /\ FrameSound(f) /\ f.pc = "capture"
    BY FrameOf DEF Capture, At
  <1>2. /\ f.pay \in Attempts /\ RowOf[f.pay] = f.row /\ f.pay \notin Mismatched
        /\ attempt[f.pay] \in MoneyStatuses /\ f.seen \in MoneyStatuses
    BY <1>1 DEF FrameSound
  <1>3. TypeOK
    BY DEF IInv
  <1>4. /\ attempt' \in [Attempts -> AttemptStatuses \cup {"none"}]
        /\ \A m \in Attempts : attempt[m] \in MoneyStatuses => attempt'[m] \in MoneyStatuses
    BY <1>2, <1>3 DEF Capture, TypeOK, AttemptStatuses, MoneyStatuses
  <1>5. PICK g \in Frame : /\ Goto(w, g)
                           /\ g.pc = "markCaptured" /\ g.pay = f.pay /\ g.row = f.row
                           /\ g.seen \in MoneyStatuses
    <2>1. \A answer \in MoneyStatuses :
             LET h == [f EXCEPT !.seen = answer, !.pc = "markCaptured"]
             IN  h \in Frame /\ h.pc = "markCaptured" /\ h.pay = f.pay /\ h.row = f.row
                 /\ h.seen \in MoneyStatuses
      <3>1. "markCaptured" \in Labels /\ MoneyStatuses \subseteq AttemptStatuses
        BY DEF Labels, AttemptStatuses, MoneyStatuses
      <3> QED BY <1>1, <3>1 DEF Frame
    <2>2. \E answer \in MoneyStatuses : Goto(w, [f EXCEPT !.seen = answer, !.pc = "markCaptured"])
      <3>1. CASE Continue(w, "markCaptured")
        <4>1. [f EXCEPT !.pc = "markCaptured"] = [f EXCEPT !.seen = f.seen, !.pc = "markCaptured"]
          BY <1>1 DEF Frame
        <4> QED BY <3>1, <4>1, <1>2 DEF Continue
      <3>2. CASE \E answer \in {"captured", "authorized"} :
                    Goto(w, [f EXCEPT !.seen = answer, !.pc = "markCaptured"])
        BY <3>2 DEF MoneyStatuses
      <3> QED BY <3>1, <3>2 DEF Capture
    <2> QED BY <2>1, <2>2
  <1>6. TypeOK'
    BY <1>3, <1>4, <1>5, GotoFrame DEF Capture, TypeOK, orderVars, rowVars
  <1>7. Forward
    BY <1>4 DEF Forward, Capture, orderVars
  <1>8. \A r \in Rows : Moved(r) => Moved(r)'
    BY <1>7, MovedStays
  <1>9. FrameSound(request[w])'
    BY <1>2, <1>3, <1>4, <1>5, GotoFrame DEF FrameSound
  <1>10. \A v \in Workers : FrameSound(request[v])'
    BY <1>3, <1>5, <1>7, <1>9, GotoFrame, FramesStaySound
  <1>11. (RowsBacked /\ PaidImpliesMoneyMoved /\ StatusesAgree /\ RefundOnlyWhenDue)'
    BY <1>8 DEF Capture, IInv, RowsBacked, PaidImpliesMoneyMoved, StatusesAgree,
                RefundOnlyWhenDue, orderVars, rowVars
  <1> QED BY <1>6, <1>10, <1>11 DEF IInv

(* confirmOrderForPayment: a row that is backed confirms the order, or is      *)
(* flagged when the order is cancelled.                                        *)
LEMMA ConfirmPaymentStep ==
    ASSUME IInv, NEW w \in Workers, ConfirmPayment(w)
    PROVE  IInv'
  <1> DEFINE f == request[w]
             g == [f EXCEPT !.pc = "confirmOrder"]
  <1>1. f \in Frame /\ FrameSound(f) /\ f.pc = "confirmPayment"
    BY FrameOf DEF ConfirmPayment, At
  <1>2. UNCHANGED <<orderVars, rowVars, gatewayVars, event, returned>>
    BY DEF ConfirmPayment
  <1>a. CASE Goto(w, AfterRow(f))
    BY <1>a, <1>2, ReturnStep
  <1>b. CASE status[f.row] \in InFlight /\ Goto(w, g)
    <2>1. g \in Frame
      BY <1>1 DEF Frame, Labels
    <2>2. f.row \in Rows /\ Moved(f.row)
      BY <1>1, <1>b, Tables DEF FrameSound
    <2>3. FrameSound(g)
      BY <1>1, <2>2 DEF FrameSound, Frame
    <2> QED BY <1>2, <1>b, <2>1, <2>3, QuietStep
  <1> QED BY <1>a, <1>b DEF ConfirmPayment, Continue

LEMMA ConfirmOrderStep ==
    ASSUME IInv, NEW w \in Workers, ConfirmOrder(w)
    PROVE  IInv'
  <1> DEFINE f == request[w]
             g(pc) == [f EXCEPT !.pc = pc]
  <1>1. f \in Frame /\ FrameSound(f) /\ f.pc = "confirmOrder"
    BY FrameOf DEF ConfirmOrder, At
  <1>2. UNCHANGED <<orderVars, rowVars, gatewayVars, event, returned>>
    BY DEF ConfirmOrder
  <1>3. f.row \in Rows /\ Moved(f.row)
    BY <1>1 DEF FrameSound
  <1>4. g("flagRefund") \in Frame /\ g("confirmTx") \in Frame
    BY <1>1 DEF Frame, Labels
  <1>a. CASE Goto(w, AfterRow(f))
    BY <1>a, <1>2, ReturnStep
  <1>b. CASE orderStatus = "CANCELLED" /\ Goto(w, g("flagRefund"))
    <2>1. FrameSound(g("flagRefund"))
      BY <1>1, <1>3, <1>b DEF FrameSound, Frame
    <2> QED BY <1>2, <1>4, <1>b, <2>1, QuietStep
  <1>c. CASE Goto(w, g("confirmTx"))
    <2>1. FrameSound(g("confirmTx"))
      BY <1>1, <1>3 DEF FrameSound, Frame
    <2> QED BY <1>2, <1>4, <1>c, <2>1, QuietStep
  <1> QED BY <1>a, <1>b, <1>c DEF ConfirmOrder, Continue

LEMMA ConfirmTxStep ==
    ASSUME IInv, NEW w \in Workers, ConfirmTx(w)
    PROVE  IInv'
  <1> DEFINE f == request[w]
  <1>1. f \in Frame /\ FrameSound(f) /\ f.pc = "confirmTx"
    BY FrameOf DEF ConfirmTx, At
  <1>2. AfterRow(f) \in Frame /\ FrameSound(AfterRow(f)) /\ Goto(w, AfterRow(f))
    BY <1>1, AfterRowFrame, HarmlessIsSound DEF ConfirmTx
  <1>3. f.row \in Rows /\ Moved(f.row)
    BY <1>1 DEF FrameSound
  <1>4. UNCHANGED <<rowVars, gatewayVars, event, returned>>
    BY DEF ConfirmTx
  <1>a. CASE Confirmable
    <2>1. orderStatus' = NextStatus /\ paymentStatus' = "PAID"
      BY <1>a DEF ConfirmTx
    <2>2. orderStatus # "CANCELLED" /\ NextStatus # "PENDING"
      BY <1>a DEF Confirmable, NextStatus
    <2>3. WritesOK
      BY <1>4, <2>1, Tables DEF WritesOK, OrderStatuses, PaymentStatuses, rowVars
    <2>4. StatusesAgree'
      BY <2>1, <2>2 DEF StatusesAgree
    <2>5. \A r \in Rows : ~refundRequired'[r] /\ status'[r] = status[r]
      BY <1>4, <2>2, Tables DEF rowVars
    <2> QED BY <1>2, <1>3, <1>4, <2>2, <2>3, <2>4, <2>5, Tables, WriteStep
  <1>b. CASE ~Confirmable
    <2>1. Goto(w, AfterRow(request[w]))
      BY <1>2
    <2>2. UNCHANGED <<orderVars, rowVars, gatewayVars, event, returned>>
      BY <1>b DEF ConfirmTx
    <2> QED BY <2>1, <2>2, ReturnStep
  <1> QED BY <1>a, <1>b

LEMMA FlagRefundStep ==
    ASSUME IInv, NEW w \in Workers, FlagRefund(w)
    PROVE  IInv'
  <1> DEFINE f == request[w]
  <1>1. f \in Frame /\ FrameSound(f) /\ f.pc = "flagRefund"
    BY FrameOf DEF FlagRefund, At
  <1>2. AfterRow(f) \in Frame /\ FrameSound(AfterRow(f)) /\ Goto(w, AfterRow(f))
    BY <1>1, AfterRowFrame, HarmlessIsSound DEF FlagRefund
  <1>3. f.row \in Rows /\ Moved(f.row) /\ orderStatus = "CANCELLED"
    BY <1>1 DEF FrameSound
  <1>4. UNCHANGED <<orderVars, status, providerPaymentId, gatewayVars, event, returned>>
    BY DEF FlagRefund
  <1>5. WritesOK
    BY <1>4, Tables DEF WritesOK, FlagRefund, orderVars
  <1>6. StatusesAgree'
    BY <1>4, Tables DEF StatusesAgree, orderVars
  <1>7. \A r \in Rows : refundRequired'[r] => refundRequired[r] \/ r = f.row
    BY Tables DEF FlagRefund
  <1> QED BY <1>2, <1>3, <1>4, <1>5, <1>6, <1>7, Tables, WriteStep DEF orderVars

LEMMA FailOrderStep ==
    ASSUME IInv, NEW w \in Workers, FailOrder(w)
    PROVE  IInv'
  <1> DEFINE f == request[w]
  <1>1. AfterRow(f) \in Frame /\ FrameSound(AfterRow(f)) /\ Goto(w, AfterRow(f))
    BY FrameOf, AfterRowFrame, HarmlessIsSound DEF FailOrder
  <1>2. UNCHANGED <<orderStatus, rowVars, gatewayVars, event, returned>>
    BY DEF FailOrder
  <1>3. \/ paymentStatus' = paymentStatus
        \/ paymentStatus' = "FAILED" /\ paymentStatus # "PAID"
    BY DEF FailOrder
  <1>4. WritesOK
    BY <1>2, <1>3, Tables DEF WritesOK, PaymentStatuses, Unpaid, rowVars
  <1>5. StatusesAgree'
    BY <1>2, <1>3, Tables DEF StatusesAgree
  <1> QED BY <1>1, <1>2, <1>3, <1>4, <1>5, Tables, WriteStep DEF rowVars

(* Releases and cancellations take the order out of the hub's sight and claim *)
(* no money.                                                                   *)
LEMMA ReleaseStep ==
    ASSUME IInv, NEW w \in Workers, ReleaseTx(w)
    PROVE  IInv'
  <1> DEFINE f == request[w]
             g == [f EXCEPT !.pc = "returnPoints"]
  <1>1. f \in Frame
    BY FrameOf
  <1>2. g \in Frame /\ g.pc \in Harmless
    BY <1>1 DEF Frame, Labels, Harmless
  <1>3. UNCHANGED <<providerPaymentId, refundRequired, gatewayVars, event, returned>>
    BY DEF ReleaseTx
  <1>a. CASE Releasable
    <2>1. /\ orderStatus' = "CANCELLED" /\ paymentStatus' = "CANCELLED"
          /\ status' = [r \in Rows |-> IF status[r] \in {"CREATED", "PENDING", "FAILED"}
                                       THEN "CANCELLED" ELSE status[r]]
          /\ Goto(w, g)
      BY <1>a DEF ReleaseTx, Continue
    <2>2. WritesOK
      BY <1>3, <2>1, Tables
         DEF WritesOK, OrderStatuses, PaymentStatuses, Unpaid, RowStatuses, GatewayStatuses
    <2>3. StatusesAgree'
      BY <2>1 DEF StatusesAgree, NextStatus
    <2>4. \A r \in Rows : status'[r] \in InFlight => Moved(r)
      BY <2>1, Tables DEF InFlight
    <2>5. FrameSound(g)
      BY <1>2, HarmlessIsSound
    <2> QED BY <1>2, <1>3, <2>1, <2>2, <2>3, <2>4, <2>5, Tables, WriteStep
  <1>b. CASE ~Releasable
    <2>1. /\ Goto(w, AfterSync(request[w]))
          /\ UNCHANGED <<orderVars, rowVars, gatewayVars, event, returned>>
      BY <1>b DEF ReleaseTx, rowVars
    <2> QED BY <2>1, ReturnStep
  <1> QED BY <1>a, <1>b

LEMMA CancelTxStep ==
    ASSUME IInv, NEW w \in Workers, CancelTx(w)
    PROVE  IInv'
  <1> DEFINE g == [request[w] EXCEPT !.pc = "returnPoints"]
  <1>1. g \in Frame /\ g.pc \in Harmless
    BY FrameOf DEF Frame, Labels, Harmless
  <1>2. FrameSound(g) /\ Goto(w, g)
    BY <1>1, HarmlessIsSound DEF CancelTx, Continue
  <1>3. /\ orderStatus' = "CANCELLED"
        /\ UNCHANGED <<paymentStatus, rowVars, gatewayVars, event, returned>>
    BY DEF CancelTx
  <1>4. WritesOK
    BY <1>3, Tables DEF WritesOK, OrderStatuses, rowVars
  <1>5. StatusesAgree'
    BY <1>3 DEF StatusesAgree, NextStatus
  <1> QED BY <1>1, <1>2, <1>3, <1>4, <1>5, Tables, WriteStep DEF rowVars

(* Steps that write only the events or what has been returned. *)
LEMMA LedgerStep ==
    ASSUME IInv, NEW w \in Workers, NEW g \in Frame, FrameSound(g), Goto(w, g),
           event' \in [Attempts \X EventTypes -> EventStatuses],
           returned' \subseteq {"points", "freeDelivery"},
           UNCHANGED <<orderVars, rowVars, gatewayVars>>
    PROVE  IInv'
  <1>1. WritesOK
    BY Tables DEF WritesOK, orderVars, rowVars
  <1>2. StatusesAgree'
    BY Tables DEF StatusesAgree, orderVars
  <1> QED BY <1>1, <1>2, Tables, WriteStep DEF orderVars, rowVars

LEMMA ReturnBenefitsStep ==
    ASSUME IInv, NEW w \in Workers, ReturnPoints(w) \/ ReturnBenefit(w)
    PROVE  IInv'
  <1> DEFINE f == request[w]
             g == [f EXCEPT !.pc = "returnBenefit"]
  <1>1. f \in Frame
    BY FrameOf
  <1>2. g \in Frame /\ g.pc \in Harmless
    BY <1>1 DEF Frame, Labels, Harmless
  <1>3. FrameSound(g) /\ AfterSync(f) \in Frame /\ FrameSound(AfterSync(f))
    BY <1>1, <1>2, AfterSyncFrame, HarmlessIsSound
  <1>4. returned \subseteq {"points", "freeDelivery"}
    BY Tables
  <1>a. CASE ReturnPoints(w)
    <2>1. /\ Goto(w, g) /\ event' = event
          /\ UNCHANGED <<orderVars, rowVars, gatewayVars>>
      BY <1>a DEF ReturnPoints, Continue
    <2>2. returned' \subseteq {"points", "freeDelivery"}
      BY <1>a, <1>4 DEF ReturnPoints
    <2> QED BY <1>2, <1>3, <2>1, <2>2, Tables, LedgerStep
  <1>b. CASE ReturnBenefit(w)
    <2>1. /\ Goto(w, AfterSync(f)) /\ event' = event
          /\ UNCHANGED <<orderVars, rowVars, gatewayVars>>
      BY <1>b DEF ReturnBenefit
    <2>2. returned' \subseteq {"points", "freeDelivery"}
      BY <1>b, <1>4 DEF ReturnBenefit
    <2> QED BY <1>3, <2>1, <2>2, Tables, LedgerStep
  <1> QED BY <1>a, <1>b

LEMMA CreateRowStep ==
    ASSUME IInv, NEW w \in Workers, CreateRow(w)
    PROVE  IInv'
  <1>1. Idle \in Frame /\ FrameSound(Idle) /\ Goto(w, Idle)
    BY IdleFrame, HarmlessIsSound DEF Harmless, CreateRow
  <1>2. UNCHANGED <<orderVars, providerPaymentId, refundRequired, gatewayVars, event,
                    returned>>
    BY DEF CreateRow
  <1>3. PICK r \in Rows : status' = [status EXCEPT ![r] = "CREATED"]
    BY DEF CreateRow
  <1>4. WritesOK
    BY <1>2, <1>3, Tables DEF WritesOK, RowStatuses, GatewayStatuses, orderVars
  <1>5. StatusesAgree'
    BY <1>2, Tables DEF StatusesAgree, orderVars
  <1>6. \A q \in Rows : status'[q] \in InFlight => Moved(q)
    BY <1>3, Tables DEF InFlight
  <1> QED BY <1>1, <1>2, <1>4, <1>5, <1>6, Tables, WriteStep DEF orderVars

(* handleWebhook. *)
LEMMA EventStep ==
    ASSUME IInv, NEW w \in Workers,
           CreateEvent(w) \/ EventProcessed(w) \/ EventFailed(w)
    PROVE  IInv'
  <1> DEFINE f == request[w]
             g == [f EXCEPT !.pc = "processEvent"]
  <1>1. f \in Frame /\ FrameSound(f)
    BY FrameOf
  <1>2. Idle \in Frame /\ FrameSound(Idle)
    BY IdleFrame, HarmlessIsSound DEF Harmless
  <1>3. event \in [Attempts \X EventTypes -> EventStatuses]
    BY Tables
  <1>4. returned' = returned /\ UNCHANGED <<orderVars, rowVars, gatewayVars>>
    BY DEF CreateEvent, EventProcessed, EventFailed
  <1>5. \A e, s : s \in EventStatuses =>
            [event EXCEPT ![e] = s] \in [Attempts \X EventTypes -> EventStatuses]
    BY <1>3
  <1>6. event' \in [Attempts \X EventTypes -> EventStatuses]
    <2>1. {"RECEIVED", "PROCESSED", "FAILED"} \subseteq EventStatuses
      BY DEF EventStatuses
    <2> QED BY <1>3, <1>5, <2>1 DEF CreateEvent, EventProcessed, EventFailed
  <1>a. CASE Goto(w, Idle)
    BY <1>a, <1>2, <1>4, <1>6, Tables, LedgerStep
  <1>b. CASE f.pc = "createEvent" /\ Goto(w, g)
    <2>1. g \in Frame
      BY <1>1 DEF Frame, Labels
    <2>2. FrameSound(g)
      BY <1>1, <1>b DEF FrameSound, Frame
    <2> QED BY <1>b, <1>4, <1>6, <2>1, <2>2, Tables, LedgerStep
  <1> QED BY <1>a, <1>b DEF CreateEvent, EventProcessed, EventFailed, Continue, At

LEMMA WebhookStep ==
    ASSUME IInv, NEW w \in Workers, NEW m \in Attempts, NEW type \in EventTypes,
           Webhook(w, m, type)
    PROVE  IInv'
  <1> DEFINE pc == IF event[<<m, type>>] = "none" THEN "createEvent" ELSE "processEvent"
             g == [Idle EXCEPT !.op = "webhook", !.pay = m, !.type = type, !.pc = pc]
  <1>1. pc \in Labels /\ "webhook" \in Ops /\ pc \in {"createEvent", "processEvent"}
    BY DEF Labels, Ops, AllHandlers
  <1>2. Goto(w, g)
    BY DEF Webhook
  <1> HIDE DEF pc
  <1>3. g \in Frame /\ g.pc = pc /\ g.pay = m
    BY <1>1, IdleFrame DEF Frame
  <1>4. FrameSound(g)
    BY <1>1, <1>3 DEF FrameSound
  <1> QED BY <1>2, <1>3, <1>4, QuietStep DEF Webhook

LEMMA ProcessEventStep ==
    ASSUME IInv, NEW w \in Workers, ProcessEvent(w)
    PROVE  IInv'
  <1> DEFINE f == request[w]
             seen == IF f.type = "failed" THEN "failed" ELSE "none"
             pc == IF f.type = "failed" THEN "apply" ELSE "fetchPayment"
             g == [f EXCEPT !.row = RowOf[f.pay], !.seen = seen, !.pc = pc]
  <1>1. f \in Frame /\ FrameSound(f) /\ f.pc = "processEvent"
    BY FrameOf DEF ProcessEvent, At
  <1>2. f.pay \in Attempts /\ RowOf[f.pay] \in Rows
    BY <1>1, ConstantsAssumption DEF FrameSound
  <1>3. /\ pc \in Labels /\ pc \in {"apply", "fetchPayment"}
        /\ seen \in AttemptStatuses \cup {"none"} /\ seen \notin MoneyStatuses
    BY DEF Labels, AttemptStatuses, MoneyStatuses
  <1>4. Goto(w, g)
    BY DEF ProcessEvent
  <1> HIDE DEF pc, seen
  <1>5. /\ g \in Frame /\ g.pc = pc /\ g.pay = f.pay /\ g.row = RowOf[f.pay]
        /\ g.seen = seen
    BY <1>1, <1>2, <1>3 DEF Frame
  <1>6. FrameSound(g)
    BY <1>2, <1>3, <1>5 DEF FrameSound
  <1> QED BY <1>4, <1>5, <1>6, QuietStep DEF ProcessEvent

(* reconcilePayment on one row of the snapshot. *)
LEMMA SyncNextStep ==
    ASSUME IInv, NEW w \in Workers, SyncNext(w)
    PROVE  IInv'
  <1> DEFINE f == request[w]
             r == NextRow(f)
             listed == {[status |-> attempt[m], createdAt |-> m] :
                          m \in {x \in Attempts : RowOf[x] = r /\ attempt[x] # "none"}}
  <1>1. f \in Frame /\ FrameSound(f) /\ f.pc = "syncNext" /\ f.todo # NoRows
    BY FrameOf DEF SyncNext, At
  <1>2. r \in Rows
    <2> DEFINE S == {q \in Rows : f.todo[q] # "NONE"}
    <2>1. f.todo \in [Rows -> RowStatuses]
      BY <1>1 DEF Frame
    <2>2. S # {} /\ S \in SUBSET Rows
      BY <1>1, <2>1 DEF NoRows
    <2>3. Newest(S) \in S
      BY <2>2, NewestInSet
    <2> QED BY <2>3 DEF NextRow
  <1>3. UNCHANGED <<orderVars, rowVars, gatewayVars, event, returned>>
    BY DEF SyncNext
  <1> HIDE DEF r
  <1>a. CASE Goto(w, [f EXCEPT !.pc = "confirmPayment", !.row = r])
    <2> DEFINE g == [f EXCEPT !.pc = "confirmPayment", !.row = r]
    <2>1. g \in Frame /\ g.pc = "confirmPayment" /\ g.row = r
      BY <1>1, <1>2 DEF Frame, Labels
    <2>2. FrameSound(g)
      BY <1>2, <2>1 DEF FrameSound
    <2> QED BY <1>a, <1>3, <2>1, <2>2, QuietStep
  <1>b. CASE Goto(w, AfterRow([f EXCEPT !.row = r]))
    <2>1. [f EXCEPT !.row = r] \in Frame
      BY <1>1, <1>2 DEF Frame
    <2> QED BY <1>b, <1>3, <2>1, AfterRowFrame, HarmlessStep
  <1>c. ASSUME NEW a \in Authoritative(listed),
               Goto(w, [f EXCEPT
                  !.row = r, !.pay = a.createdAt, !.seen = a.status,
                  !.pc = IF a.status \in MoneyStatuses /\ a.createdAt \in Mismatched
                         THEN "mismatch" ELSE "apply"])
        PROVE  IInv'
    <2> DEFINE pc == IF a.status \in MoneyStatuses /\ a.createdAt \in Mismatched
                     THEN "mismatch" ELSE "apply"
               g == [f EXCEPT !.row = r, !.pay = a.createdAt, !.seen = a.status, !.pc = pc]
    <2>1. a \in listed
      BY <1>c, AuthoritativeListed
    <2>2. /\ a.createdAt \in Attempts /\ RowOf[a.createdAt] = r
          /\ a.status = attempt[a.createdAt]
      BY <2>1
    <2>3. a.status \in AttemptStatuses \cup {"none"}
      BY <2>2 DEF IInv, TypeOK
    <2>4. /\ pc \in Labels /\ pc \in {"mismatch", "apply"}
          /\ pc = "apply" /\ a.status \in MoneyStatuses => a.createdAt \notin Mismatched
      BY DEF Labels
    <2> HIDE DEF pc
    <2>5. /\ g \in Frame /\ g.pc = pc /\ g.pay = a.createdAt /\ g.row = r
          /\ g.seen = a.status
      BY <1>1, <1>2, <2>2, <2>3, <2>4 DEF Frame
    <2>6. FrameSound(g)
      BY <1>2, <2>2, <2>4, <2>5 DEF FrameSound
    <2>7. Goto(w, g)
      BY <1>c DEF pc
    <2> QED BY <1>3, <2>5, <2>6, <2>7, QuietStep
  <1> QED BY <1>a, <1>b, <1>c DEF SyncNext, r

(* The steps that read, decide and pass control on. *)
LEMMA ReadStep ==
    ASSUME IInv, NEW w \in Workers,
           \/ ReadMismatch(w) \/ SyncRead(w) \/ SyncDecide(w) \/ CancelRead(w)
           \/ SupersedeCheck(w) \/ CreateCheck(w) \/ FindRow(w)
    PROVE  IInv'
  <1> DEFINE f == request[w]
  <1>1. f \in Frame /\ FrameSound(f)
    BY FrameOf
  <1>2. UNCHANGED <<orderVars, rowVars, gatewayVars, event, returned>>
    BY DEF ReadMismatch, SyncRead, SyncDecide, CancelRead, SupersedeCheck, CreateCheck,
           FindRow
  <1>3. {"markMismatch", "syncNext", "release", "cancelMark", "findRow", "createRow"}
            \subseteq Labels \cap Harmless
    BY DEF Labels, Harmless
  <1>4. status \in [Rows -> RowStatuses]
    BY Tables
  <1>a. CASE ReadMismatch(w)
    <2> DEFINE g == [f EXCEPT !.pc = "markMismatch", !.from = status[f.row]]
    <2>1. f.row \in Rows
      BY <1>a, <1>1 DEF ReadMismatch, At, FrameSound
    <2>2. g \in Frame /\ g.pc \in Harmless
      BY <1>1, <1>3, <1>4, <2>1 DEF Frame
    <2> QED BY <1>a, <1>2, <2>2, HarmlessStep DEF ReadMismatch
  <1>b. CASE SyncRead(w)
    <2> DEFINE g == [f EXCEPT !.pc = "syncNext", !.todo = status]
    <2>1. g \in Frame /\ g.pc \in Harmless
      BY <1>1, <1>3, <1>4 DEF Frame
    <2> QED BY <1>b, <1>2, <2>1, HarmlessStep DEF SyncRead
  <1>c. CASE SyncDecide(w)
    BY <1>c, <1>2, <1>3, ContinueStep, ReturnStep DEF SyncDecide
  <1>d. CASE CancelRead(w)
    <2> DEFINE g == [f EXCEPT !.pc = "cancelMark", !.row = f.target,
                              !.from = status[f.target]]
    <2>1. CASE status[f.target] \in {"CREATED", "PENDING"}
      <3>1. status[f.target] \in RowStatuses
        BY <2>1 DEF RowStatuses, GatewayStatuses
      <3>2. g \in Frame /\ g.pc \in Harmless
        BY <1>1, <1>3, <3>1 DEF Frame
      <3> QED BY <1>d, <1>2, <2>1, <3>2, HarmlessStep DEF CancelRead
    <2>2. CASE status[f.target] \notin {"CREATED", "PENDING"}
      BY <1>d, <1>2, <2>2, ReturnStep DEF CancelRead
    <2> QED BY <2>1, <2>2
  <1>e. CASE SupersedeCheck(w)
    <2>1. "replace" \in Ops
      BY DEF Ops
    <2> QED BY <1>e, <1>2, <1>3, <2>1, StartStep, ReturnStep DEF SupersedeCheck
  <1>f. CASE CreateCheck(w)
    BY <1>f, <1>2, <1>3, ContinueStep, ReturnStep DEF CreateCheck
  <1>g. CASE FindRow(w)
    BY <1>g, <1>2, <1>3, ContinueStep, ReturnStep DEF FindRow
  <1> QED BY <1>a, <1>b, <1>c, <1>d, <1>e, <1>f, <1>g

(* A handler starts. *)
LEMMA ArrivalStep ==
    ASSUME IInv, NEW w \in Workers, Arrival(w)
    PROVE  IInv'
  <1>1. {"syncRead", "createCheck", "release", "cancelTx"} \subseteq Labels \cap Harmless
    BY DEF Labels, Harmless
  <1>2. AllHandlers \subseteq Ops
    BY DEF Ops
  <1>a. ASSUME NEW m \in Attempts, VerifyBegin(w, m) PROVE IInv'
    BY <1>a, VerifyBeginStep
  <1>b. ASSUME NEW r \in Rows, VerifyRejected(w, r) PROVE IInv'
    BY <1>b, VerifyRejectedStep
  <1>c. ASSUME NEW m \in Attempts, NEW type \in EventTypes, Webhook(w, m, type)
        PROVE  IInv'
    BY <1>c, WebhookStep
  <1>d. CASE Poll(w)
    BY <1>d, <1>1, <1>2, StartStep DEF Poll, AllHandlers
  <1>e. CASE CancelCheckout(w)
    <2> DEFINE made == {r \in Rows : status[r] # "NONE"}
               g == [Idle EXCEPT !.op = "cancelCheckout", !.pc = "syncRead",
                                 !.target = Newest(made)]
    <2>1. made \in SUBSET Rows /\ made # {}
      BY <1>e DEF CancelCheckout
    <2>2. Newest(made) \in Rows
      BY <2>1, NewestInSet
    <2>3. Goto(w, g) /\ UNCHANGED <<orderVars, rowVars, gatewayVars, event, returned>>
      BY <1>e DEF CancelCheckout
    <2> HIDE DEF made
    <2>4. g \in Frame /\ g.pc \in Harmless
      BY <1>1, <1>2, <2>2, IdleFrame DEF Frame, AllHandlers
    <2> QED BY <2>3, <2>4, HarmlessStep
  <1>f. CASE Supersede(w)
    BY <1>f, <1>1, <1>2, StartStep DEF Supersede, AllHandlers
  <1>g. CASE CreateCheckout(w)
    BY <1>g, <1>1, <1>2, StartStep DEF CreateCheckout, AllHandlers
  <1>h. CASE PayCash(w)
    BY <1>h, <1>1, <1>2, StartStep DEF PayCash, AllHandlers
  <1>i. CASE CustomerCancel(w)
    BY <1>i, <1>1, <1>2, StartStep DEF CustomerCancel, AllHandlers
  <1> QED BY <1>a, <1>b, <1>c, <1>d, <1>e, <1>f, <1>g, <1>h, <1>i DEF Arrival

(* The customer, Razorpay and the clock only move the world forward. *)
LEMMA EnvironmentStep ==
    ASSUME IInv, Environment
    PROVE  IInv'
  <1>1. TypeOK
    BY DEF IInv
  <1>2. UNCHANGED <<orderVars, rowVars, event, returned, request>>
    BY DEF Environment, CustomerPays, AttemptAdvances, Expire
  <1>3. /\ attempt' \in [Attempts -> AttemptStatuses \cup {"none"}]
        /\ expired' \in BOOLEAN
        /\ \A m \in Attempts : attempt[m] \in MoneyStatuses => attempt'[m] \in MoneyStatuses
    BY <1>1 DEF Environment, CustomerPays, AttemptAdvances, Expire, TypeOK, AttemptStatuses,
                MoneyStatuses
  <1>4. TypeOK'
    BY <1>1, <1>2, <1>3 DEF TypeOK, orderVars, rowVars
  <1>5. Forward
    BY <1>2, <1>3 DEF Forward, orderVars
  <1>6. \A r \in Rows : Moved(r) => Moved(r)'
    BY <1>5, MovedStays
  <1>7. \A v \in Workers : FrameSound(request[v])'
    BY <1>1, <1>2, <1>3, <1>6 DEF IInv, TypeOK, Frame, FrameSound, orderVars
  <1>8. (RowsBacked /\ PaidImpliesMoneyMoved /\ StatusesAgree /\ RefundOnlyWhenDue)'
    BY <1>2, <1>6 DEF IInv, RowsBacked, PaidImpliesMoneyMoved, StatusesAgree,
                      RefundOnlyWhenDue, orderVars, rowVars
  <1> QED BY <1>4, <1>7, <1>8 DEF IInv

-----------------------------------------------------------------------------
(* The invariant. *)

LEMMA InitIInv == Init => IInv
  <1> SUFFICES ASSUME Init PROVE IInv
    OBVIOUS
  <1>1. TypeOK
    BY IdleFrame DEF Init, TypeOK, OrderStatuses, PaymentStatuses, Unpaid, NoRows,
                     RowStatuses, EventStatuses
  <1>2. \A w \in Workers : FrameSound(request[w])
    BY IdleFrame, HarmlessIsSound DEF Init, Harmless
  <1>3. RowsBacked /\ PaidImpliesMoneyMoved /\ StatusesAgree /\ RefundOnlyWhenDue
    BY DEF Init, RowsBacked, NoRows, InFlight, PaidImpliesMoneyMoved, StatusesAgree,
           NextStatus, RefundOnlyWhenDue
  <1> QED BY <1>1, <1>2, <1>3 DEF IInv

LEMMA LocalStepIInv ==
    ASSUME IInv, NEW w \in Workers, LocalStep(w)
    PROVE  IInv'
  BY RecordPaymentStep, MarkPendingStep, ReadStep, RowUpdateStep, ApplyStep, EnsureStep,
     MarkCapturedStep, FailOrderStep, ConfirmPaymentStep, ConfirmOrderStep, ConfirmTxStep,
     FlagRefundStep, ReleaseStep, ReturnBenefitsStep, CancelTxStep, EventStep,
     ProcessEventStep
     DEF LocalStep

LEMMA NextIInv == IInv /\ [Next]_vars => IInv'
  <1> SUFFICES ASSUME IInv, [Next]_vars PROVE IInv'
    OBVIOUS
  <1>a. ASSUME NEW w \in Workers, GatewayStep(w) PROVE IInv'
    BY <1>a, FetchPaymentStep, SyncNextStep, CaptureStep, CreateRowStep DEF GatewayStep
  <1>b. ASSUME NEW w \in Workers, GatewayFails(w) PROVE IInv'
    BY <1>b, ReturnStep DEF GatewayFails
  <1>c. ASSUME NEW w \in Workers, Crash(w) PROVE IInv'
    BY <1>c, ReturnStep DEF Crash
  <1>d. CASE Reconcile
    <2>1. "syncRead" \in Labels \cap Harmless /\ "reconcile" \in Ops /\ Timer \in Workers
      BY DEF Labels, Harmless, Ops, AllHandlers, Workers
    <2> QED BY <1>d, <2>1, StartStep DEF Reconcile
  <1>e. CASE UNCHANGED vars
    BY <1>e DEF vars, orderVars, rowVars, gatewayVars, IInv, TypeOK, RowsBacked,
                PaidImpliesMoneyMoved, StatusesAgree, RefundOnlyWhenDue, Moved, FrameSound
  <1> QED
    BY <1>a, <1>b, <1>c, <1>d, <1>e, LocalStepIInv, ArrivalStep, EnvironmentStep DEF Next

(* IInv holds in every state the requests, the timer, the customer and        *)
(* Razorpay can reach, whatever their number and their order.                 *)
THEOREM Invariance == Spec => []IInv
  BY InitIInv, NextIInv, PTL DEF Spec

(* Every variable and every frame keeps its type. *)
THEOREM TypeCorrect == Spec => []TypeOK
  <1>1. IInv => TypeOK
    BY DEF IInv
  <1> QED BY <1>1, Invariance, PTL

(* No order is shown as paid unless Razorpay holds a matching payment for it. *)
THEOREM PaidIsBacked == Spec => []PaidImpliesMoneyMoved
  <1>1. IInv => PaidImpliesMoneyMoved
    BY DEF IInv
  <1> QED BY <1>1, Invariance, PTL

(* The hub sees an online order only when it is paid, and every paid one. *)
THEOREM ColumnsAgree == Spec => []StatusesAgree
  <1>1. IInv => StatusesAgree
    BY DEF IInv
  <1> QED BY <1>1, Invariance, PTL

(* A refund is demanded only for a cancelled order and money that moved. *)
THEOREM RefundsAreDue == Spec => []RefundOnlyWhenDue
  <1>1. IInv => RefundOnlyWhenDue
    BY DEF IInv
  <1> QED BY <1>1, Invariance, PTL

-----------------------------------------------------------------------------
(* What a cancelled order gives back, as long as the server does not die.    *)

(* The statements that follow the commit of a release or a cancellation.     *)
Compensating == {"returnPoints", "returnBenefit"}

(* What a cancelled order has not given back yet, a request is about to give *)
(* back: the invariant behind CancelledIsReturned.                           *)
ReturnsUnderWay ==
    orderStatus = "CANCELLED"
    => /\ "points" \in returned \/ \E w \in Workers : At(w, "returnPoints")
       /\ "freeDelivery" \in returned \/ \E w \in Workers : request[w].pc \in Compensating

(* A step that cancels nothing, by a worker that is not giving back.         *)
Bystander(w) ==
    /\ ~At(w, "returnPoints") /\ ~At(w, "returnBenefit")
    /\ \A v \in Workers \ {w} : request'[v] = request[v]
    /\ returned' = returned
    /\ orderStatus' = "CANCELLED" => orderStatus = "CANCELLED"

LEMMA BystanderStep ==
    ASSUME ReturnsUnderWay, NEW w \in Workers, Bystander(w)
    PROVE  ReturnsUnderWay'
  BY DEF ReturnsUnderWay, Bystander, At, Compensating

(* Only the two statements themselves leave their labels.                    *)
LEMMA OthersStandBy ==
    ASSUME IInv, ~Crashes, NEW w \in Workers,
           LocalStep(w) \/ GatewayStep(w) \/ GatewayFails(w) \/ Arrival(w) \/ Crash(w),
           ~ReleaseTx(w), ~ReturnPoints(w), ~ReturnBenefit(w), ~CancelTx(w)
    PROVE  Bystander(w)
  <1> USE DEF orderVars, rowVars, gatewayVars, Bystander
  <1>1. request \in [Workers -> Frame]
    BY DEF IInv, TypeOK
  <1>2. ASSUME NEW g, Goto(w, g)
        PROVE  \A v \in Workers \ {w} : request'[v] = request[v]
    BY <1>1, <1>2 DEF Goto
  <1>a. CASE LocalStep(w)
    <2>1. CASE \/ RecordPayment(w) \/ MarkPending(w) \/ ReadMismatch(w) \/ MarkMismatch(w)
               \/ Apply(w) \/ Ensure(w) \/ MarkCaptured(w) \/ MarkFailed(w) \/ FailOrder(w)
               \/ MarkStarted(w)
      BY <2>1, <1>2
         DEF RecordPayment, MarkPending, ReadMismatch, MarkMismatch, Apply, Ensure,
             MarkCaptured, MarkFailed, FailOrder, MarkStarted, Continue, At
    <2>2. CASE ConfirmPayment(w) \/ ConfirmOrder(w) \/ FlagRefund(w)
      BY <2>2, <1>2 DEF ConfirmPayment, ConfirmOrder, FlagRefund, Continue, At
    <2>3. CASE SyncRead(w) \/ SyncDecide(w) \/ CancelRead(w) \/ CancelMark(w)
               \/ SupersedeCheck(w) \/ CreateCheck(w) \/ FindRow(w)
      BY <2>3, <1>2 DEF SyncRead, SyncDecide, CancelRead, CancelMark, SupersedeCheck,
                        CreateCheck, FindRow, Continue, Start, At
    <2>4. CASE CreateEvent(w) \/ ProcessEvent(w) \/ EventProcessed(w) \/ EventFailed(w)
      BY <2>4, <1>2 DEF CreateEvent, ProcessEvent, EventProcessed, EventFailed, Continue, At
    <2>5. CASE ConfirmTx(w)
      <3>1. /\ ~At(w, "returnPoints") /\ ~At(w, "returnBenefit")
            /\ \A v \in Workers \ {w} : request'[v] = request[v]
            /\ returned' = returned
        BY <2>5, <1>2 DEF ConfirmTx, At
      <3>2. orderStatus' = "CANCELLED" => orderStatus = "CANCELLED"
        BY <2>5 DEF ConfirmTx, NextStatus
      <3> QED BY <3>1, <3>2
    <2> QED BY <1>a, <2>1, <2>2, <2>3, <2>4, <2>5 DEF LocalStep
  <1>b. CASE GatewayStep(w)
    BY <1>b, <1>2 DEF GatewayStep, FetchPayment, SyncNext, Capture, CreateRow, Continue, At
  <1>c. CASE GatewayFails(w)
    BY <1>c, <1>2 DEF GatewayFails, At
  <1>d. CASE Arrival(w)
    BY <1>d, <1>2 DEF Arrival, VerifyBegin, VerifyRejected, Webhook, Poll, CancelCheckout,
                      Supersede, CreateCheckout, PayCash, CustomerCancel, Free, Start, At
  <1>e. CASE Crash(w)
    BY <1>e DEF Crash
  <1> QED BY <1>a, <1>b, <1>c, <1>d, <1>e

(* A cancellation or release leaves the worker about to give back; each of   *)
(* the two statements that follow gives back one thing and goes on.          *)
LEMMA NextReturns ==
    ASSUME IInv, ~Crashes, ReturnsUnderWay, [Next]_vars
    PROVE  ReturnsUnderWay'
  <1> USE DEF orderVars, rowVars, gatewayVars
  <1>1. request \in [Workers -> Frame]
    BY DEF IInv, TypeOK
  <1>2. ASSUME NEW w \in Workers, NEW pc, Continue(w, pc)
        PROVE  /\ request'[w].pc = pc
               /\ \A v \in Workers \ {w} : request'[v] = request[v]
    <2>1. request[w] \in Frame
      BY <1>1
    <2> QED BY <1>1, <1>2, <2>1 DEF Continue, Goto, Frame
  <1>3. ASSUME NEW w \in Workers, NEW g, Goto(w, g)
        PROVE  \A v \in Workers \ {w} : request'[v] = request[v]
    BY <1>1, <1>3 DEF Goto
  <1>a. ASSUME NEW w \in Workers, ReleaseTx(w)
        PROVE  ReturnsUnderWay'
    <2>1. CASE Releasable
      <3>1. request'[w].pc = "returnPoints"
        BY <1>a, <2>1, <1>2 DEF ReleaseTx
      <3> QED BY <3>1 DEF ReturnsUnderWay, At, Compensating
    <2>2. CASE ~Releasable
      <3>1. Bystander(w)
        BY <1>a, <2>2, <1>3 DEF ReleaseTx, Bystander, At
      <3> QED BY <3>1, BystanderStep
    <2> QED BY <2>1, <2>2
  <1>b. ASSUME NEW w \in Workers, CancelTx(w)
        PROVE  ReturnsUnderWay'
    <2>1. request'[w].pc = "returnPoints"
      BY <1>b, <1>2 DEF CancelTx
    <2> QED BY <2>1 DEF ReturnsUnderWay, At, Compensating
  <1>c. ASSUME NEW w \in Workers, ReturnPoints(w)
        PROVE  ReturnsUnderWay'
    <2>1. request'[w].pc = "returnBenefit" /\ "points" \in returned'
      BY <1>c, <1>2 DEF ReturnPoints
    <2> QED BY <2>1 DEF ReturnsUnderWay, Compensating
  <1>d. ASSUME NEW w \in Workers, ReturnBenefit(w)
        PROVE  ReturnsUnderWay'
    <2>1. /\ request[w].pc = "returnBenefit" /\ orderStatus' = orderStatus
          /\ returned' = returned \cup {"freeDelivery"}
          /\ \A v \in Workers \ {w} : request'[v] = request[v]
      BY <1>d, <1>3 DEF ReturnBenefit, At
    <2> QED BY <2>1 DEF ReturnsUnderWay, At
  <1>e. ASSUME NEW w \in Workers,
               LocalStep(w) \/ GatewayStep(w) \/ GatewayFails(w) \/ Arrival(w) \/ Crash(w)
        PROVE  ReturnsUnderWay'
    <2>1. CASE ReleaseTx(w) \/ CancelTx(w) \/ ReturnPoints(w) \/ ReturnBenefit(w)
      BY <2>1, <1>a, <1>b, <1>c, <1>d
    <2>2. CASE ~(ReleaseTx(w) \/ CancelTx(w) \/ ReturnPoints(w) \/ ReturnBenefit(w))
      <3>1. Bystander(w)
        BY <1>e, <2>2, OthersStandBy
      <3> QED BY <3>1, BystanderStep
    <2> QED BY <2>1, <2>2
  <1>f. CASE Reconcile
    <2>1. Timer \in Workers
      BY DEF Workers
    <2>2. Bystander(Timer)
      BY <1>f, <1>3, <2>1 DEF Reconcile, Start, Bystander, At
    <2> QED BY <2>1, <2>2, BystanderStep
  <1>g. CASE Environment \/ UNCHANGED vars
    <2>1. UNCHANGED <<orderStatus, returned, request>>
      BY <1>g DEF Environment, CustomerPays, AttemptAdvances, Expire, vars
    <2> QED BY <2>1 DEF ReturnsUnderWay, At
  <1> QED BY <1>e, <1>f, <1>g DEF Next

(* Whatever releases and cancellations race, a cancelled order has given     *)
(* back its points and its free delivery when the last request has ended     *)
(* (the statements after the commit in releaseUnpaidOnlineOrder and cancel). *)
(* The server must live that long: nothing repeats those statements.         *)
THEOREM NothingIsKept ==
    ASSUME ~Crashes
    PROVE  Spec => []CancelledIsReturned
  <1>1. Init => ReturnsUnderWay
    BY DEF Init, ReturnsUnderWay
  <1>2. IInv /\ ReturnsUnderWay /\ [Next]_vars => ReturnsUnderWay'
    BY NextReturns
  <1>3. IInv /\ ReturnsUnderWay => CancelledIsReturned
    BY DEF IInv, TypeOK, ReturnsUnderWay, CancelledIsReturned, Quiet, At, Compensating
  <1> QED BY <1>1, <1>2, <1>3, Invariance, PTL DEF Spec

-----------------------------------------------------------------------------
(* OnlinePayment implements PaymentPromise. *)

Funded == \E r \in Rows : Moved(r)

(* What the steps do to the order's two columns: nothing, or one of the four   *)
(* updates of the code.                                                        *)
ColumnStep ==
    \/ UNCHANGED orderVars
    \/ /\ orderStatus = "PENDING" /\ paymentStatus \in Unpaid /\ Funded     \* confirm
       /\ orderStatus' = NextStatus /\ paymentStatus' = "PAID"
    \/ /\ orderStatus = "PENDING" /\ paymentStatus \in Unpaid               \* release
       /\ orderStatus' = "CANCELLED" /\ paymentStatus' = "CANCELLED"
    \/ /\ orderStatus' = "CANCELLED" /\ paymentStatus' = paymentStatus      \* cancel
    \/ /\ orderStatus # "CANCELLED" /\ paymentStatus # "PAID"               \* fail
       /\ orderStatus' = orderStatus /\ paymentStatus' = "FAILED"

(* Only Razorpay and the capture move attempts. *)
LEMMA NextColumns ==
    ASSUME IInv, [Next]_vars
    PROVE  /\ ColumnStep
           /\ UNCHANGED orderVars \/ UNCHANGED attempt
  <1> USE DEF orderVars, gatewayVars
  <1>a. ASSUME NEW w \in Workers, ConfirmTx(w)
        PROVE  ColumnStep /\ UNCHANGED attempt
    <2>1. At(w, "confirmTx") /\ UNCHANGED attempt
      BY <1>a DEF ConfirmTx
    <2>2. Funded
      BY <2>1, FrameOf DEF FrameSound, At, Funded
    <2>3. CASE Confirmable
      <3>1. orderStatus' = NextStatus /\ paymentStatus' = "PAID"
        BY <1>a, <2>3 DEF ConfirmTx
      <3>2. orderStatus = "PENDING" /\ paymentStatus \in Unpaid
        BY <2>3, Tables DEF Confirmable, StatusesAgree, OrderStatuses, PaymentStatuses
      <3> QED BY <2>1, <2>2, <3>1, <3>2 DEF ColumnStep
    <2>4. CASE ~Confirmable
      BY <1>a, <2>1, <2>4 DEF ConfirmTx, ColumnStep
    <2> QED BY <2>3, <2>4
  <1>b. ASSUME NEW w \in Workers, ReleaseTx(w)
        PROVE  ColumnStep /\ UNCHANGED attempt
    BY <1>b DEF ReleaseTx, Releasable, AwaitsPayment, ColumnStep
  <1>c. ASSUME NEW w \in Workers, CancelTx(w)
        PROVE  ColumnStep /\ UNCHANGED attempt
    BY <1>c DEF CancelTx, ColumnStep
  <1>d. ASSUME NEW w \in Workers, FailOrder(w)
        PROVE  ColumnStep /\ UNCHANGED attempt
    BY <1>d DEF FailOrder, ColumnStep
  <1>e. ASSUME NEW w \in Workers, LocalStep(w)
        PROVE  ColumnStep /\ (UNCHANGED orderVars \/ UNCHANGED attempt)
    <2>1. CASE ConfirmTx(w) \/ ReleaseTx(w) \/ CancelTx(w) \/ FailOrder(w)
      BY <2>1, <1>a, <1>b, <1>c, <1>d
    <2>2. CASE ~(ConfirmTx(w) \/ ReleaseTx(w) \/ CancelTx(w) \/ FailOrder(w))
      <3>1. UNCHANGED orderVars
        BY <1>e, <2>2
           DEF LocalStep, RecordPayment, MarkPending, ReadMismatch, MarkMismatch, Apply,
               Ensure, MarkCaptured, MarkFailed, MarkStarted, ConfirmPayment, ConfirmOrder,
               FlagRefund, SyncRead, SyncDecide, CancelRead, CancelMark, SupersedeCheck,
               CreateCheck, FindRow, ReturnPoints, ReturnBenefit, CreateEvent,
               ProcessEvent, EventProcessed, EventFailed
      <3> QED BY <3>1 DEF ColumnStep
    <2> QED BY <2>1, <2>2
  <1>f. ASSUME NEW w \in Workers, GatewayStep(w) \/ GatewayFails(w) \/ Arrival(w) \/ Crash(w)
        PROVE  UNCHANGED orderVars
    BY <1>f DEF GatewayStep, FetchPayment, SyncNext, Capture, CreateRow, GatewayFails,
                Arrival, VerifyBegin, VerifyRejected, Webhook, Poll, CancelCheckout,
                Supersede, CreateCheckout, PayCash, CustomerCancel, Crash
  <1>g. CASE Reconcile \/ Environment \/ UNCHANGED vars
    BY <1>g DEF Reconcile, Environment, CustomerPays, AttemptAdvances, Expire, vars,
                ColumnStep
  <1> QED BY <1>e, <1>f, <1>g DEF Next, ColumnStep

(* Money stays where it is, so the abstract "funded" never turns false. *)
LEMMA NextFunded ==
    ASSUME IInv, [Next]_vars
    PROVE  Funded => Funded'
  <1>1. TypeOK
    BY DEF IInv
  <1>2. \A m \in Attempts : attempt[m] \in MoneyStatuses => attempt'[m] \in MoneyStatuses
    <2>a. CASE UNCHANGED attempt
      BY <2>a
    <2>b. ASSUME NEW w \in Workers, Capture(w)
          PROVE  \A m \in Attempts : attempt[m] \in MoneyStatuses => attempt'[m] \in MoneyStatuses
      BY <2>b, <1>1 DEF Capture, TypeOK, MoneyStatuses
    <2>c. CASE Environment
      BY <2>c, <1>1 DEF Environment, CustomerPays, AttemptAdvances, Expire, TypeOK,
                        MoneyStatuses
    <2>d. ASSUME NEW w \in Workers, LocalStep(w) PROVE UNCHANGED attempt
      BY <2>d DEF LocalStep, RecordPayment, MarkPending, ReadMismatch, MarkMismatch, Apply,
             Ensure, MarkCaptured, MarkFailed, FailOrder, MarkStarted, ConfirmPayment,
             ConfirmOrder, ConfirmTx, FlagRefund, SyncRead, SyncDecide, CancelRead,
             CancelMark, SupersedeCheck, CreateCheck, FindRow, ReleaseTx, ReturnPoints,
             ReturnBenefit, CancelTx, CreateEvent, ProcessEvent, EventProcessed,
             EventFailed, gatewayVars
    <2>e. ASSUME NEW w \in Workers,
                 FetchPayment(w) \/ SyncNext(w) \/ CreateRow(w) \/ GatewayFails(w)
                     \/ Arrival(w) \/ Crash(w)
          PROVE  UNCHANGED attempt
      BY <2>e DEF FetchPayment, SyncNext, CreateRow, GatewayFails, Arrival, VerifyBegin,
             VerifyRejected, Webhook, Poll, CancelCheckout, Supersede, CreateCheckout,
             PayCash, CustomerCancel, Crash, gatewayVars
    <2>f. CASE Reconcile \/ UNCHANGED vars
      BY <2>f DEF Reconcile, vars, gatewayVars
    <2> QED BY <2>a, <2>b, <2>c, <2>d, <2>e, <2>f DEF Next, GatewayStep
  <1> QED BY <1>2 DEF Funded, Moved

(* Every step of OnlinePayment is a step of PaymentPromise or leaves it alone. *)
LEMMA StepRefines ==
    ASSUME IInv, [Next]_vars
    PROVE  [Promise!Next]_<<Outcome, Funded>>
  <1>1. ColumnStep /\ (UNCHANGED orderVars \/ UNCHANGED attempt) /\ (Funded => Funded')
    BY NextColumns, NextFunded
  <1>2. /\ orderStatus \in OrderStatuses /\ paymentStatus \in PaymentStatuses
        /\ StatusesAgree
    BY Tables
  <1>3. NextStatus \notin {"PENDING", "CANCELLED"}
    BY DEF NextStatus
  <1>4. UNCHANGED attempt => Funded' = Funded
    BY DEF Funded, Moved
  <1>a. CASE UNCHANGED orderVars
    <2>1. Outcome' = Outcome
      BY <1>a DEF Outcome, orderVars
    <2>2. Funded' = Funded \/ Funded' = TRUE
      BY <1>1 DEF Funded
    <2> QED BY <2>1, <2>2 DEF Promise!Next, Promise!Fund, Funded
  <1>b. CASE ~ UNCHANGED orderVars
    <2>1. Funded' = Funded
      BY <1>b, <1>1, <1>4
    <2>2. CASE /\ orderStatus = "PENDING" /\ paymentStatus \in Unpaid /\ Funded
               /\ orderStatus' = NextStatus /\ paymentStatus' = "PAID"
      <3>1. Outcome = "OPEN" /\ Outcome' = "CONFIRMED"
        BY <2>2, <1>3 DEF Outcome, Unpaid
      <3> QED BY <2>1, <2>2, <3>1 DEF Promise!Next, Promise!Confirm, Promise!Decide, Funded
    <2>3. CASE /\ orderStatus = "PENDING" /\ paymentStatus \in Unpaid
               /\ orderStatus' = "CANCELLED" /\ paymentStatus' = "CANCELLED"
      <3>1. Outcome = "OPEN" /\ Outcome' = "RELEASED"
        BY <2>3, <1>3 DEF Outcome, Unpaid
      <3> QED BY <2>1, <3>1 DEF Promise!Next, Promise!Release, Promise!Decide, Funded
    <2>4. CASE orderStatus' = "CANCELLED" /\ paymentStatus' = paymentStatus
      <3>1. \/ Outcome = "OPEN" /\ Outcome' = "RELEASED"
            \/ Outcome = "CONFIRMED" /\ Outcome' = "CANCELLED_PAID"
            \/ Outcome' = Outcome
        BY <2>4, <1>2, <1>3
           DEF Outcome, StatusesAgree, OrderStatuses, PaymentStatuses, Unpaid
      <3> QED BY <2>1, <3>1 DEF Promise!Next, Promise!Release, Promise!CancelPaid,
                                Promise!Decide, Funded
    <2>5. CASE /\ orderStatus # "CANCELLED" /\ paymentStatus # "PAID"
               /\ orderStatus' = orderStatus /\ paymentStatus' = "FAILED"
      <3>1. Outcome' = Outcome
        BY <2>5, <1>2, <1>3
           DEF Outcome, StatusesAgree, OrderStatuses, PaymentStatuses, Unpaid
      <3> QED BY <2>1, <3>1
    <2> QED BY <1>1, <1>b, <2>2, <2>3, <2>4, <2>5 DEF ColumnStep
  <1> QED BY <1>a, <1>b

(* The order is decided once, is confirmed only with money, and a cancelled    *)
(* order is not revived: OnlinePayment implements PaymentPromise.              *)
THEOREM Refinement == Spec => KeepsPromise
  <1>1. Init => Promise!Init
    BY DEF Init, NoRows, Promise!Init, Outcome, Unpaid, Moved, MoneyStatuses
  <1>2. IInv /\ [Next]_vars => [Promise!Next]_<<Outcome, \E r \in Rows : Moved(r)>>
    BY StepRefines DEF Funded
  <1> QED BY <1>1, <1>2, Invariance, PTL
          DEF Spec, KeepsPromise, Promise!Spec, Promise!vars

-----------------------------------------------------------------------------
(* The choice among the attempts Razorpay lists. *)

(* The loop over the list: the best attempt so far is one that may be chosen. *)
ChoiceSound ==
    /\ attempts \in Seq(Choice!Attempt)
    /\ attempts = <<>> => best = <<>>
    /\ attempts # <<>> =>
         \E held \in Choice!Attempt :
            /\ best = <<held>>
            /\ held \in Authoritative(Choice!ToSet(attempts))

LEMMA ListGrows ==
    ASSUME NEW s \in Seq(Choice!Attempt), NEW a \in Choice!Attempt
    PROVE  /\ Append(s, a) \in Seq(Choice!Attempt)
           /\ Append(s, a) # <<>>
           /\ Choice!ToSet(Append(s, a)) = Choice!ToSet(s) \cup {a}
           /\ Choice!ToSet(s) \subseteq Choice!Attempt
<1>1. Append(s, a) \in Seq(Choice!Attempt) /\ Append(s, a) # <<>>
  BY AppendProperties
<1>2. /\ DOMAIN s = 1 .. Len(s) /\ DOMAIN Append(s, a) = 1 .. Len(s) + 1
      /\ Append(s, a)[Len(s) + 1] = a
      /\ \A i \in 1 .. Len(s) : Append(s, a)[i] = s[i]
      /\ Len(s) \in Nat
  BY AppendProperties, LenProperties
<1>3. 1 .. Len(s) + 1 = (1 .. Len(s)) \cup {Len(s) + 1}
  BY <1>2
<1>4. Choice!ToSet(Append(s, a)) = Choice!ToSet(s) \cup {a}
  BY <1>2, <1>3 DEF Choice!ToSet
<1>5. Choice!ToSet(s) \subseteq Choice!Attempt
  BY <1>2, ElementOfSeq DEF Choice!ToSet
<1> QED BY <1>1, <1>4, <1>5

\* The rank of an attempt tells whether money moved.
RankIs(s) ==
    /\ StatusPriority[s] \in 1 .. 4
    /\ s \in MoneyStatuses <=> StatusPriority[s] >= 3

LEMMA StatusesRank == \A s \in AttemptStatuses : RankIs(s)
<1>1. RankIs("created") /\ RankIs("failed")
  BY DEF RankIs, StatusPriority, MoneyStatuses
<1>2. RankIs("authorized") /\ RankIs("captured")
  BY DEF RankIs, StatusPriority, MoneyStatuses
<1> QED BY <1>1, <1>2 DEF AttemptStatuses

(* One attempt more: the test of the loop keeps one that may be chosen. *)
LEMMA ReplacesByRank ==
    ASSUME NEW S \in SUBSET Choice!Attempt, NEW a \in Choice!Attempt,
           NEW held \in Choice!Attempt, held \in Authoritative(S)
    PROVE  /\ Choice!Replaces(a, held) => a \in Authoritative(S \cup {a})
           /\ ~Choice!Replaces(a, held) => held \in Authoritative(S \cup {a})
<1> DEFINE Moved1(x) == x.status \in MoneyStatuses
           Rank(x) == StatusPriority[x.status]
<1>1. \A x \in Choice!Attempt :
         /\ Rank(x) \in 1 .. 4
         /\ Moved1(x) <=> Rank(x) >= 3
         /\ x.createdAt \in Nat
  <2> SUFFICES ASSUME NEW x \in Choice!Attempt
               PROVE  /\ Rank(x) \in 1 .. 4
                      /\ Moved1(x) <=> Rank(x) >= 3
                      /\ x.createdAt \in Nat
    OBVIOUS
  <2>1. RankIs(x.status) /\ x.createdAt \in 0 .. MaxTime
    BY StatusesRank DEF Choice!Attempt, Choice!AttemptStatuses, AttemptStatuses
  <2>2. x.createdAt \in Nat
    BY <2>1, ListAssumption
  <2> QED BY <2>1, <2>2 DEF RankIs
<1>2. \A T \in SUBSET Choice!Attempt : \A x \in Choice!Attempt :
         x \in Authoritative(T) <=>
            /\ x \in T
            /\ \/ Moved1(x) /\ \A y \in T : Moved1(y) => Rank(y) =< Rank(x)
               \/ \A y \in T : ~Moved1(y) /\ y.createdAt =< x.createdAt
  BY DEF Authoritative
<1>3. Choice!Replaces(a, held) <=>
         IF Rank(a) >= 3 \/ Rank(held) >= 3 THEN Rank(a) > Rank(held)
         ELSE a.createdAt > held.createdAt
  BY DEF Choice!Replaces, Choice!StatusPriority, StatusPriority
<1>4. /\ held \in S
      /\ \/ Moved1(held) /\ \A y \in S : Moved1(y) => Rank(y) =< Rank(held)
         \/ \A y \in S : ~Moved1(y) /\ y.createdAt =< held.createdAt
  BY <1>2
<1>5. S \cup {a} \in SUBSET Choice!Attempt
  OBVIOUS
<1> HIDE DEF Moved1, Rank
<1>6. ASSUME Choice!Replaces(a, held)
      PROVE  \/ Moved1(a) /\ \A y \in S \cup {a} : Moved1(y) => Rank(y) =< Rank(a)
             \/ \A y \in S \cup {a} : ~Moved1(y) /\ y.createdAt =< a.createdAt
  BY <1>1, <1>3, <1>4, <1>6
<1>7. ASSUME ~Choice!Replaces(a, held)
      PROVE  \/ Moved1(held) /\ \A y \in S \cup {a} : Moved1(y) => Rank(y) =< Rank(held)
             \/ \A y \in S \cup {a} : ~Moved1(y) /\ y.createdAt =< held.createdAt
  BY <1>1, <1>3, <1>4, <1>7
<1> QED BY <1>2, <1>4, <1>5, <1>6, <1>7

LEMMA FirstIsAuthoritative ==
    ASSUME NEW a \in Choice!Attempt
    PROVE  a \in Authoritative({a})
<1>1. RankIs(a.status) /\ a.createdAt \in 0 .. MaxTime
  BY StatusesRank DEF Choice!Attempt, Choice!AttemptStatuses, AttemptStatuses
<1>2. a.createdAt \in Int /\ StatusPriority[a.status] \in Int
  BY <1>1, ListAssumption DEF RankIs
<1> QED BY <1>2 DEF Authoritative

LEMMA ChoiceStep ==
    ASSUME ChoiceSound, Choice!Next
    PROVE  ChoiceSound'
<1> PICK a \in Choice!Attempt : Choice!NextAttempt(a)
  BY DEF Choice!Next
<1>1. /\ attempts' = Append(attempts, a)
      /\ best' = IF best = <<>> \/ Choice!Replaces(a, best[1]) THEN <<a>> ELSE best
  BY DEF Choice!NextAttempt
<1>2. /\ attempts' \in Seq(Choice!Attempt) /\ attempts' # <<>>
      /\ Choice!ToSet(attempts)' = Choice!ToSet(attempts) \cup {a}
      /\ Choice!ToSet(attempts) \subseteq Choice!Attempt
  <2>1. Choice!ToSet(attempts)' = Choice!ToSet(Append(attempts, a))
    BY <1>1 DEF Choice!ToSet
  <2> QED BY <1>1, <2>1, ListGrows DEF ChoiceSound
<1>3. CASE attempts = <<>>
  <2>1. best' = <<a>>
    BY <1>1, <1>3 DEF ChoiceSound
  <2>2. Choice!ToSet(attempts)' = {a}
    BY <1>2, <1>3 DEF Choice!ToSet
  <2>3. a \in Authoritative(Choice!ToSet(attempts)')
    BY <2>2, FirstIsAuthoritative
  <2> QED BY <1>2, <2>1, <2>3 DEF ChoiceSound
<1>4. CASE attempts # <<>>
  <2> PICK held \in Choice!Attempt :
              best = <<held>> /\ held \in Authoritative(Choice!ToSet(attempts))
    BY <1>4 DEF ChoiceSound
  <2>1. best' = IF Choice!Replaces(a, held) THEN <<a>> ELSE <<held>>
    BY <1>1
  <2>2. CASE Choice!Replaces(a, held)
    <3>1. a \in Authoritative(Choice!ToSet(attempts)')
      BY <1>2, <2>2, ReplacesByRank
    <3> QED BY <1>2, <2>1, <2>2, <3>1 DEF ChoiceSound
  <2>3. CASE ~Choice!Replaces(a, held)
    <3>1. held \in Authoritative(Choice!ToSet(attempts)')
      BY <1>2, <2>3, ReplacesByRank
    <3> QED BY <1>2, <2>1, <2>3, <3>1 DEF ChoiceSound
  <2> QED BY <2>2, <2>3
<1> QED BY <1>3, <1>4

(* However long the list and in whatever order Razorpay gives it, the loop of  *)
(* pickAuthoritativePayment ends with an attempt where the most money moved    *)
(* or, if none moved any, a newest one.                                        *)
THEOREM BestAttemptDecides == PartsSpec => []BestIsAuthoritative
<1>1. PartsInit => ChoiceSound
  BY DEF PartsInit, Choice!Init, ChoiceSound
<1>2. ChoiceSound /\ [PartsNext]_<<part, vars, attempts, best>> => ChoiceSound'
  <2> SUFFICES ASSUME ChoiceSound, [PartsNext]_<<part, vars, attempts, best>>
               PROVE  ChoiceSound'
    OBVIOUS
  <2>1. CASE Choice!Next
    BY <2>1, ChoiceStep
  <2>2. CASE UNCHANGED <<attempts, best>>
    BY <2>2 DEF ChoiceSound, Choice!ToSet
  <2> QED BY <2>1, <2>2 DEF PartsNext
<1>3. ChoiceSound => BestIsAuthoritative
  <2> SUFFICES ASSUME ChoiceSound, attempts # <<>>
               PROVE  best # <<>> /\ best[1] \in Authoritative(Choice!ToSet(attempts))
    BY DEF BestIsAuthoritative, Choice!BestIsAuthoritative, Choice!Authoritative,
           Authoritative, Choice!MoneyStatuses, MoneyStatuses, Choice!StatusPriority,
           StatusPriority
  <2> PICK held : best = <<held>> /\ held \in Authoritative(Choice!ToSet(attempts))
    BY DEF ChoiceSound
  <2> QED OBVIOUS
<1> QED BY <1>1, <1>2, <1>3, PTL DEF PartsSpec

=============================================================================
