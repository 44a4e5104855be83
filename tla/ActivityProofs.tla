---------------------------- MODULE ActivityProofs ----------------------------
(***************************************************************************)
(* Proofs about ActivityGroup, for any users, capacity and minimum.  What  *)
(* bounds the active participants is a count that also includes every      *)
(* order which may still become a seat (Holders), the lapsed ones as well: *)
(* a seat not paid in time is offered again, but only by an operation that *)
(* first closes the order that could still take it.                        *)
(***************************************************************************)
EXTENDS ActivityGroup, FiniteSetTheorems, TLAPS

\* Those who are in, and those whose order may still bring them in, lapsed or not.
HeldBy(s, o) == {u \in Users : s[u] = "active" \/ o[u] = "pending"}

HoldersWithinCapacity == Cardinality(HeldBy(seat, order)) <= Capacity

OrderHasSeat == \A u \in Users : order[u] = "pending" => seat[u] = "pending"

NobodyBeforeReview ==
  status = "pending_review" => \A u \in Users : seat[u] = "none" /\ order[u] = "none"

\* What holds of seats and orders, whatever becomes of the activity
SeatsFit == ActiveIsPaid /\ OrderHasSeat /\ HoldersWithinCapacity

\* How the status fits the seats
StatusFits == NobodyBeforeReview /\ OverLeavesNobody /\ FormationInSync

Inv == TypeOK /\ SeatsFit /\ StatusFits

-----------------------------------------------------------------------------
(* Counting *)

LEMMA Finite ==
  ASSUME NEW S \in SUBSET Users
  PROVE  IsFiniteSet(S) /\ Cardinality(S) \in Nat
BY GroupAssumption, FS_Subset, FS_CardinalityType

LEMMA Fewer ==
  ASSUME NEW S \in SUBSET Users, NEW T \in SUBSET S
  PROVE  Cardinality(T) <= Cardinality(S)
BY Finite, FS_Subset

\* The holders are within the capacity, so the active participants are.
LEMMA CapacityHolds == SeatsFit => ActiveWithinCapacity
<1> SUFFICES ASSUME SeatsFit PROVE ActiveWithinCapacity
  OBVIOUS
<1>1. Active(seat) \in SUBSET HeldBy(seat, order) /\ HeldBy(seat, order) \in SUBSET Users
  BY DEF Active, HeldBy
<1>2. Cardinality(Active(seat)) <= Cardinality(HeldBy(seat, order))
  BY <1>1, Fewer
<1>3. Cardinality(Active(seat)) \in Nat /\ Cardinality(HeldBy(seat, order)) \in Nat
  BY <1>1, Finite
<1> QED
  BY <1>2, <1>3, GroupAssumption DEF SeatsFit, HoldersWithinCapacity, ActiveWithinCapacity

\* Nobody new may come in: the bound stays.
LEMMA HoldersShrink ==
  ASSUME HoldersWithinCapacity, NEW s, NEW o, HeldBy(s, o) \subseteq HeldBy(seat, order)
  PROVE  Cardinality(HeldBy(s, o)) <= Capacity
<1>1. HeldBy(seat, order) \in SUBSET Users /\ HeldBy(s, o) \in SUBSET Users
  BY DEF HeldBy
<1>2. Cardinality(HeldBy(s, o)) <= Cardinality(HeldBy(seat, order))
  BY <1>1, Fewer
<1>3. Cardinality(HeldBy(s, o)) \in Nat /\ Cardinality(HeldBy(seat, order)) \in Nat
  BY <1>1, Finite
<1> QED
  BY <1>2, <1>3, GroupAssumption DEF HoldersWithinCapacity

\* sync_activity_formation_status brings the status in line with any seats.
LEMMA FormationFollows ==
  ASSUME status \in Statuses, time \in 0..3, time' = time,
         NEW s, seat' = s, status' = Formation(s)
  PROVE  /\ FormationInSync'
         /\ status' \in Statuses
         /\ status \notin Open => status' = status
         /\ status \in Open => status' \in Open
         /\ DeadlinePassed /\ status = "formed" => status' = "formed"
<1>1. PICK n \in Nat : n = Cardinality(Active(s))
  BY Finite, Active(s) \in SUBSET Users DEF Active
<1>2. Active(seat') = Active(s)
  BY DEF Active
<1>3. status' = IF status \notin Open THEN status
                ELSE IF n >= Minimum THEN "formed"
                ELSE IF status = "formed" /\ ~DeadlinePassed THEN "recruiting" ELSE status
  BY <1>1 DEF Formation
<1>4. Minimum \in Nat /\ DeadlinePassed' = DeadlinePassed
  BY GroupAssumption DEF DeadlinePassed
<1>5. FormationInSync'
  BY <1>1, <1>2, <1>3, <1>4 DEF FormationInSync, Open
<1> QED
  BY <1>3, <1>5 DEF Statuses, Open, Over

\* While the active participants and the status stay, so does their agreement.
LEMMA FormationStays ==
  ASSUME FormationInSync, status' = status, time' = time, NEW s, seat' = s, Active(s) = Active(seat)
  PROVE  FormationInSync'
<1>1. Active(seat') = Active(seat)
  BY DEF Active
<1> QED
  BY <1>1 DEF FormationInSync, DeadlinePassed

-----------------------------------------------------------------------------
(* The operations on one participant *)

LEMMA InitInv == Init => Inv
<1> SUFFICES ASSUME Init PROVE Inv
  OBVIOUS
<1> USE DEF Init
<1>1. TypeOK
  <2>1. 0 \in 0..MaxJoins
    BY GroupAssumption
  <2>2. joins \in [Users -> 0..MaxJoins]
    BY <2>1
  <2>3. /\ seat \in [Users -> {"none", "pending", "active", "expired", "cancelled"}]
        /\ order \in [Users -> {"none", "pending", "closed", "paid", "refunded"}]
        /\ charge \in [Users -> {"no", "in_time", "late"}]
    OBVIOUS
  <2>4. lapsed \in [Users -> BOOLEAN] /\ settled \in BOOLEAN
    OBVIOUS
  <2>5. status \in Statuses /\ time \in 0..3 /\ publish \in {"paid", "refunded"}
    BY DEF Statuses
  <2> QED
    BY <2>2, <2>3, <2>4, <2>5 DEF TypeOK
<1>2. ActiveIsPaid /\ OrderHasSeat
  BY DEF ActiveIsPaid, OrderHasSeat
<1>3. HeldBy(seat, order) = {} /\ Cardinality({}) = 0
  BY FS_EmptySet DEF HeldBy
<1>4. HoldersWithinCapacity
  BY <1>3, GroupAssumption DEF HoldersWithinCapacity
<1>5. StatusFits
  BY DEF StatusFits, NobodyBeforeReview, OverLeavesNobody, FormationInSync, Over
<1> QED
  BY <1>1, <1>2, <1>4, <1>5 DEF Inv, SeatsFit

\* A step that touches neither the seats, the orders nor the status, nor turns the clock back
LEMMA QuietStep ==
  ASSUME Inv, TypeOK', UNCHANGED <<seat, order, status, publish>>, time' >= time
  PROVE  Inv'
<1>1. SeatsFit'
  BY DEF Inv, SeatsFit, ActiveIsPaid, OrderHasSeat, HoldersWithinCapacity, HeldBy
<1>2. NobodyBeforeReview' /\ OverLeavesNobody'
  BY DEF Inv, StatusFits, NobodyBeforeReview, OverLeavesNobody, Members
<1>3. FormationInSync'
  BY DEF Inv, StatusFits, FormationInSync, Active, DeadlinePassed, TypeOK
<1> QED
  BY <1>1, <1>2, <1>3 DEF Inv, StatusFits

\* The three facts about the status when only u's seat or order moves: an activity that is over
\* has no pending or active seat and no pending or paid order, and u gets none.
LEMMA OverStays ==
  ASSUME Inv, status' = status \/ (status \in Open /\ status' \in Open), publish' = publish,
         status # "pending_review",
         status \in Over => \A u \in Users :
           seat'[u] \notin {"pending", "active"} /\ order'[u] \notin {"paid", "pending"}
  PROVE  NobodyBeforeReview' /\ OverLeavesNobody'
BY DEF Inv, StatusFits, NobodyBeforeReview, OverLeavesNobody, Members, Open, Over

LEMMA JoinInv == ASSUME Inv, NEW u \in Users, Join(u) PROVE Inv'
<1> DEFINE s == ExpireOf(Lapsed)
           o == CloseOf(Lapsed)
<1>1. /\ status \in Open /\ s[u] # "active" /\ o[u] # "pending"
      /\ Cardinality(Occupied(s)) < Capacity
      /\ seat' = [s EXCEPT ![u] = "pending"] /\ order' = [o EXCEPT ![u] = "pending"]
      /\ UNCHANGED <<status, time, publish, settled>>
  BY DEF Join
<1>2. /\ s \in [Users -> {"none", "pending", "active", "expired", "cancelled"}]
      /\ o \in [Users -> {"none", "pending", "closed", "paid", "refunded"}]
  BY DEF Inv, TypeOK, ExpireOf, CloseOf
<1>3. TypeOK'
  <2>1. /\ lapsed' = [lapsed EXCEPT ![u] = FALSE] /\ charge' = [charge EXCEPT ![u] = "no"]
        /\ joins' = [joins EXCEPT ![u] = @ + 1] /\ joins[u] < MaxJoins
    BY DEF Join
  <2>2. joins[u] + 1 \in 0..MaxJoins
    BY <2>1, GroupAssumption DEF Inv, TypeOK
  <2> HIDE DEF s, o
  <2> QED
    BY <1>1, <1>2, <2>1, <2>2 DEF Inv, TypeOK
\* what closing the lapsed orders does to the others
<1>4. \A v \in Users :
        /\ s[v] = "active" <=> seat[v] = "active"
        /\ o[v] = "paid" <=> order[v] = "paid"
        /\ o[v] = "pending" => order[v] = "pending" /\ ~lapsed[v] /\ s[v] = "pending"
  BY DEF Inv, SeatsFit, OrderHasSeat, TypeOK, ExpireOf, CloseOf, Lapsed
<1>5. ActiveIsPaid' /\ OrderHasSeat'
  <2> HIDE DEF s, o
  <2> QED
    BY <1>1, <1>2, <1>4 DEF Inv, SeatsFit, ActiveIsPaid, OrderHasSeat
<1>6. HoldersWithinCapacity'
  <2>1. HeldBy(s, o) \subseteq Occupied(s)
    BY <1>4 DEF HeldBy, Occupied, Active
  <2>2. Occupied(s) \in SUBSET Users
    BY DEF Occupied, Active
  <2> HIDE DEF s, o
  <2>3. HeldBy(seat', order') \subseteq Occupied(s) \cup {u}
    BY <1>1, <1>2, <2>1 DEF HeldBy
  <2>4. Occupied(s) \cup {u} \in SUBSET Users
    BY <2>2
  <2>5. PICK k \in Nat : k = Cardinality(Occupied(s))
    BY <2>2, Finite
  <2>6. PICK m \in Nat : m = Cardinality(Occupied(s) \cup {u})
    BY <2>4, Finite
  <2>7. m <= k + 1
    BY <2>2, <2>5, <2>6, Finite, FS_AddElement
  <2>8. PICK h \in Nat : h = Cardinality(HeldBy(seat', order'))
    BY <2>3, <2>4, Finite
  <2>9. h <= m
    BY <2>3, <2>4, <2>6, <2>8, Fewer
  <2>10. h <= Capacity
    BY <1>1, <2>5, <2>7, <2>9, GroupAssumption
  <2> QED
    BY <2>8, <2>10 DEF HoldersWithinCapacity
<1>7. NobodyBeforeReview' /\ OverLeavesNobody'
  BY <1>1, OverStays DEF Open, Over
<1>8. FormationInSync'
  <2>1. PICK t : t = seat'
    OBVIOUS
  <2> HIDE DEF s, o
  <2>2. Active(t) = Active(seat)
    BY <1>1, <1>2, <1>4, <2>1 DEF Active
  <2> QED
    BY <1>1, <2>1, <2>2, FormationStays DEF Inv, StatusFits
<1> QED
  BY <1>3, <1>5, <1>6, <1>7, <1>8 DEF Inv, SeatsFit, StatusFits
LEMMA ChargeInv == ASSUME Inv, NEW u \in Users, Charge(u) PROVE Inv'
<1>1. TypeOK'
  BY DEF Charge, Inv, TypeOK
<1> QED
  BY <1>1, QuietStep DEF Charge, Inv, TypeOK

LEMMA LapseInv == ASSUME Inv, NEW u \in Users, Lapse(u) PROVE Inv'
<1>1. TypeOK'
  BY DEF Lapse, Inv, TypeOK
<1> QED
  BY <1>1, QuietStep DEF Lapse, Inv, TypeOK

LEMMA TickInv == ASSUME Inv, Tick PROVE Inv'
<1>1. TypeOK' /\ time' >= time
  BY DEF Tick, members, Inv, TypeOK
<1> QED
  BY <1>1, QuietStep DEF Tick, members

\* A recorded payment takes the seat it was made for, or is refunded; the seat of a closed order
\* is not active, so nothing that was paid before is lost.
LEMMA RecordInv == ASSUME Inv, NEW u \in Users, Record(u) PROVE Inv'
<1>1. /\ order[u] \in {"pending", "closed"}
      /\ UNCHANGED <<time, publish, lapsed, charge, joins, settled>>
  BY DEF Record
<1>2. CASE order[u] = "closed" \/ charge[u] = "late" \/ seat[u] \in {"cancelled", "expired"}
  <2>1. order' = [order EXCEPT ![u] = "refunded"] /\ seat' = seat /\ status' = status
    BY <1>2 DEF Record
  <2>2. TypeOK'
    BY <1>1, <2>1 DEF Inv, TypeOK
  <2>3. ActiveIsPaid' /\ OrderHasSeat'
    BY <1>1, <2>1 DEF Inv, TypeOK, SeatsFit, ActiveIsPaid, OrderHasSeat
  <2>4. HeldBy(seat', order') \subseteq HeldBy(seat, order)
    BY <2>1 DEF HeldBy, Inv, TypeOK
  <2>5. HoldersWithinCapacity'
    BY <2>4, HoldersShrink DEF Inv, SeatsFit, HoldersWithinCapacity
  <2>6. status # "pending_review"
    BY <1>1 DEF Inv, StatusFits, NobodyBeforeReview
  <2>7. NobodyBeforeReview' /\ OverLeavesNobody'
    BY <1>1, <2>1, <2>6, OverStays DEF Inv, TypeOK, StatusFits, OverLeavesNobody, Members
  <2>8. FormationInSync'
    BY <1>1, <2>1 DEF Inv, StatusFits, FormationInSync, Active, DeadlinePassed
  <2> QED
    BY <2>2, <2>3, <2>5, <2>7, <2>8 DEF Inv, SeatsFit, StatusFits
<1>3. CASE ~(order[u] = "closed" \/ charge[u] = "late" \/ seat[u] \in {"cancelled", "expired"})
  <2>1. /\ order' = [order EXCEPT ![u] = "paid"] /\ seat' = [seat EXCEPT ![u] = "active"]
        /\ status' = Formation(seat') /\ order[u] = "pending"
    BY <1>1, <1>3 DEF Record
  <2>2. /\ FormationInSync' /\ status' \in Statuses
        /\ status' = status \/ (status \in Open /\ status' \in Open)
    <3>1. PICK s : s = seat'
      OBVIOUS
    <3> QED
      BY <1>1, <2>1, <3>1, FormationFollows DEF Inv, TypeOK
  <2>3. TypeOK'
    BY <1>1, <2>1, <2>2 DEF Inv, TypeOK
  <2>4. ActiveIsPaid' /\ OrderHasSeat'
    BY <2>1 DEF Inv, TypeOK, SeatsFit, ActiveIsPaid, OrderHasSeat
  <2>5. HeldBy(seat', order') \subseteq HeldBy(seat, order)
    BY <2>1 DEF HeldBy, Inv, TypeOK
  <2>6. HoldersWithinCapacity'
    BY <2>5, HoldersShrink DEF Inv, SeatsFit, HoldersWithinCapacity
  <2>7. status # "pending_review" /\ status \notin Over
    BY <2>1 DEF Inv, StatusFits, NobodyBeforeReview, OverLeavesNobody
  <2>8. NobodyBeforeReview' /\ OverLeavesNobody'
    BY <1>1, <2>2, <2>7, OverStays
  <2> QED
    BY <2>2, <2>3, <2>4, <2>6, <2>8 DEF Inv, SeatsFit, StatusFits
<1> QED
  BY <1>2, <1>3

\* What ends a participation, active or not, leaves no payment behind that is not refunded.
LEMMA DepartureInv ==
  ASSUME Inv, NEW u \in Users, UNCHANGED <<time, publish, lapsed, charge, joins, settled>>,
         NEW a \in {"expired", "cancelled"}, NEW b \in {"closed", "refunded", order[u]},
         b \notin {"pending", "paid"}, seat' = [seat EXCEPT ![u] = a],
         order' = [order EXCEPT ![u] = b],
         status # "pending_review",
         status' = Formation(seat') \/ (status' = status /\ seat[u] # "active")
  PROVE  Inv'
<1>1. PICK s : s = seat'
  OBVIOUS
<1>2. /\ FormationInSync' /\ status' \in Statuses
      /\ status' = status \/ (status \in Open /\ status' \in Open)
  <2>1. CASE status' = Formation(seat')
    BY <1>1, <2>1, FormationFollows DEF Inv, TypeOK
  <2>2. CASE status' = status /\ seat[u] # "active"
    <3>1. Active(s) = Active(seat)
      BY <1>1, <2>2 DEF Active, Inv, TypeOK
    <3> QED
      BY <1>1, <2>2, <3>1, FormationStays DEF Inv, TypeOK, StatusFits
  <2> QED
    BY <2>1, <2>2
<1>3. TypeOK'
  BY <1>2 DEF Inv, TypeOK
<1>4. ActiveIsPaid' /\ OrderHasSeat'
  BY DEF Inv, TypeOK, SeatsFit, ActiveIsPaid, OrderHasSeat
<1>5. HeldBy(seat', order') \subseteq HeldBy(seat, order)
  BY DEF HeldBy, Inv, TypeOK
<1>6. HoldersWithinCapacity'
  BY <1>5, HoldersShrink DEF Inv, SeatsFit, HoldersWithinCapacity
<1>7. NobodyBeforeReview' /\ OverLeavesNobody'
  BY <1>2, OverStays DEF Inv, TypeOK, StatusFits, OverLeavesNobody, Members
<1> QED
  BY <1>2, <1>3, <1>4, <1>6, <1>7 DEF Inv, SeatsFit, StatusFits

LEMMA LeaveInv == ASSUME Inv, NEW u \in Users, Leave(u) PROVE Inv'
<1>1. /\ seat' = [seat EXCEPT ![u] = "cancelled"]
      /\ UNCHANGED <<time, publish, lapsed, charge, joins, settled>>
      /\ status' = IF seat[u] = "active" THEN Formation(seat') ELSE status
  BY DEF Leave
<1>2. status # "pending_review"
  BY DEF Leave, Inv, StatusFits, NobodyBeforeReview
<1>3. CASE seat[u] = "pending"
  <2>1. PICK b : b = IF order[u] = "pending" THEN "closed" ELSE order[u]
    OBVIOUS
  <2>2. order' = [order EXCEPT ![u] = b]
    BY <1>3, <2>1 DEF Leave, CloseOf, Inv, TypeOK
  <2>3. b \notin {"pending", "paid"} /\ b \in {"closed", "refunded", order[u]}
    BY <1>3, <2>1 DEF Inv, SeatsFit, ActiveIsPaid
  <2> QED
    BY <1>1, <1>2, <1>3, <2>2, <2>3, DepartureInv
<1>4. CASE seat[u] = "active"
  <2>1. order' = [order EXCEPT ![u] = "refunded"]
    BY <1>4 DEF Leave
  <2> QED
    BY <1>1, <1>2, <1>4, <2>1, DepartureInv
<1> QED
  BY <1>3, <1>4 DEF Leave

LEMMA ApproveAfterSalesInv == ASSUME Inv, NEW u \in Users, ApproveAfterSales(u) PROVE Inv'
BY DepartureInv DEF ApproveAfterSales

LEMMA ExpireInv == ASSUME Inv, NEW u \in Users, Expire(u) PROVE Inv'
<1>1. order[u] = "pending" /\ seat[u] = "pending"
  BY DEF Expire, Lapsed, Inv, SeatsFit, OrderHasSeat
<1>2. seat' = [seat EXCEPT ![u] = "expired"] /\ order' = [order EXCEPT ![u] = "closed"]
  BY <1>1 DEF Expire, CloseOf, ExpireOf, Inv, TypeOK
<1>3. status # "pending_review"
  BY <1>1 DEF Inv, StatusFits, NobodyBeforeReview
<1> QED
  BY <1>1, <1>2, <1>3, DepartureInv DEF Expire
-----------------------------------------------------------------------------
(* The operations on the whole activity *)

LEMMA ApproveInv == ASSUME Inv, Approve PROVE Inv'
<1>1. status = "pending_review" /\ status' = "recruiting"
      /\ UNCHANGED <<time, publish, seat, order, lapsed, charge, joins, settled>>
  BY DEF Approve, members
<1>2. TypeOK'
  BY <1>1 DEF Inv, TypeOK, Statuses, Open
<1>3. SeatsFit'
  BY <1>1 DEF Inv, SeatsFit, ActiveIsPaid, OrderHasSeat, HoldersWithinCapacity, HeldBy
<1>4. NobodyBeforeReview' /\ OverLeavesNobody'
  BY <1>1 DEF NobodyBeforeReview, OverLeavesNobody, Over
<1>5. Active(seat') = {}
  BY <1>1 DEF Active, Inv, StatusFits, NobodyBeforeReview
<1>6. Cardinality(Active(seat)') = 0
  <2>1. Cardinality({}) = 0
    BY FS_EmptySet
  <2>2. Active(seat)' = {}
    BY <1>5 DEF Active
  <2> QED
    BY <2>1, <2>2
<1>7. FormationInSync'
  BY <1>1, <1>6, GroupAssumption DEF FormationInSync
<1> QED
  BY <1>2, <1>3, <1>4, <1>7 DEF Inv, StatusFits

LEMMA RejectInv == ASSUME Inv, Reject PROVE Inv'
<1>1. /\ status = "pending_review" /\ status' = "rejected" /\ publish' = "refunded"
      /\ UNCHANGED <<time, seat, order, lapsed, charge, joins, settled>>
  BY DEF Reject, members
<1>2. TypeOK'
  BY <1>1 DEF Inv, TypeOK, Statuses, Over
<1>3. SeatsFit'
  BY <1>1 DEF Inv, SeatsFit, ActiveIsPaid, OrderHasSeat, HoldersWithinCapacity, HeldBy
<1>4. StatusFits'
  BY <1>1 DEF Inv, StatusFits, NobodyBeforeReview, OverLeavesNobody, FormationInSync, Members
<1> QED
  BY <1>2, <1>3, <1>4 DEF Inv

\* However the activity ends early, everybody is out of it, and every payment goes back.
LEMMA RefundAllInv ==
  ASSUME Inv, RefundAll, publish' = "refunded", status' \in {"cancelled", "failed_to_form"},
         UNCHANGED <<time, lapsed, charge, joins, settled>>
  PROVE  Inv'
<1>1. TypeOK'
  BY DEF RefundAll, Inv, TypeOK, Statuses, Over
<1>2. \A u \in Users : seat'[u] \notin {"pending", "active"} /\ order'[u] \notin {"paid", "pending"}
  BY DEF RefundAll, Members, Inv, TypeOK, SeatsFit, ActiveIsPaid, OrderHasSeat
<1>3. ActiveIsPaid' /\ OrderHasSeat'
  BY <1>2 DEF ActiveIsPaid, OrderHasSeat
<1>4. HeldBy(seat', order') \subseteq HeldBy(seat, order)
  BY <1>2 DEF HeldBy
<1>5. HoldersWithinCapacity'
  BY <1>4, HoldersShrink DEF Inv, SeatsFit, HoldersWithinCapacity
<1>6. StatusFits'
  BY <1>2 DEF StatusFits, NobodyBeforeReview, OverLeavesNobody, FormationInSync, Members
<1> QED
  BY <1>1, <1>3, <1>5, <1>6 DEF Inv, SeatsFit

\* The status moves on, for a formation with enough participants or past it.
LEMMA AdvanceInv ==
  ASSUME Inv, status' \in {"formed", "in_progress", "completed"},
         status' = "formed" => Cardinality(Active(seat)) >= Minimum,
         status \notin Over, settled' \in BOOLEAN, UNCHANGED <<time, publish, members>>
  PROVE  Inv'
<1>1. TypeOK'
  BY DEF members, Inv, TypeOK, Statuses, Open
<1>2. SeatsFit'
  BY DEF members, Inv, SeatsFit, ActiveIsPaid, OrderHasSeat, HoldersWithinCapacity, HeldBy
<1>3. Active(seat)' = Active(seat)
  BY DEF members, Active
<1>4. StatusFits'
  BY <1>3 DEF StatusFits, NobodyBeforeReview, OverLeavesNobody, FormationInSync, Over
<1> QED
  BY <1>1, <1>2, <1>4 DEF Inv

LEMMA CancelInv == ASSUME Inv, CancelByOrganizer \/ CancelByAdmin PROVE Inv'
BY RefundAllInv DEF CancelByOrganizer, CancelByAdmin

LEMMA FailUnformedInv ==
  ASSUME Inv, Unformed, FailUnformed, UNCHANGED <<time, settled>> PROVE Inv'
<1>1. CASE Cardinality(Active(seat)) >= Minimum
  BY <1>1, AdvanceInv DEF FailUnformed, Unformed, Over, Inv, TypeOK
<1>2. CASE ~(Cardinality(Active(seat)) >= Minimum)
  BY <1>2, RefundAllInv DEF FailUnformed
<1> QED
  BY <1>1, <1>2

LEMMA TasksInv == ASSUME Inv, Tasks \/ CompleteStarted PROVE Inv'
<1>1. CASE FormationTask
  BY <1>1, FailUnformedInv DEF FormationTask
<1>2. CASE StartTask
  <2>1. CASE Unformed /\ FailUnformed
    BY <1>2, <2>1, FailUnformedInv DEF StartTask
  <2>2. CASE status = "formed" /\ status' = "in_progress" /\ UNCHANGED <<publish, members>>
    BY <1>2, <2>2, AdvanceInv DEF StartTask, Over, Inv, TypeOK
  <2> QED
    BY <1>2, <2>1, <2>2 DEF StartTask
<1>3. CASE CompletionTask
  <2>1. CASE Unformed /\ FailUnformed /\ UNCHANGED settled
    BY <1>3, <2>1, FailUnformedInv DEF CompletionTask
  <2>2. CASE /\ status \in {"formed", "in_progress", "completed"}
             /\ status' = "completed" /\ settled' = TRUE /\ UNCHANGED <<publish, members>>
    BY <1>3, <2>2, AdvanceInv DEF CompletionTask, Over
  <2> QED
    BY <1>3, <2>1, <2>2 DEF CompletionTask
<1>4. CASE CompleteStarted
  BY <1>4, AdvanceInv DEF CompleteStarted, Over, Inv, TypeOK
<1> QED
  BY <1>1, <1>2, <1>3, <1>4 DEF Tasks

-----------------------------------------------------------------------------
(* The theorems *)

\* The invariant is inductive: every operation, task and tick of the clock keeps it.
LEMMA NextInv == Inv /\ [Next]_vars => Inv'
<1> SUFFICES ASSUME Inv, [Next]_vars PROVE Inv'
  OBVIOUS
<1>1. CASE Approve \/ Reject \/ CancelByOrganizer \/ CancelByAdmin
  BY <1>1, ApproveInv, RejectInv, CancelInv
<1>2. CASE Tasks \/ CompleteStarted \/ Tick
  BY <1>2, TasksInv, TickInv
<1>3. ASSUME NEW u \in Users, Join(u) \/ Charge(u) \/ Record(u) \/ Expire(u) PROVE Inv'
  BY <1>3, JoinInv, ChargeInv, RecordInv, ExpireInv
<1>4. ASSUME NEW u \in Users, Leave(u) \/ ApproveAfterSales(u) \/ Lapse(u) PROVE Inv'
  BY <1>4, LeaveInv, ApproveAfterSalesInv, LapseInv
<1>5. CASE UNCHANGED vars
  <2>1. TypeOK'
    BY <1>5 DEF vars, Inv, TypeOK
  <2> QED
    BY <1>5, <2>1, QuietStep DEF vars, Inv, TypeOK
<1> QED
  BY <1>1, <1>2, <1>3, <1>4, <1>5 DEF Next

\* Every reachable state satisfies the invariant, in particular the bound on the holders.
THEOREM Safe == Spec => []Inv
<1>1. Init => Inv
  BY InitInv
<1> QED
  BY <1>1, NextInv, PTL DEF Spec

\* Seats are never oversold, although a seat whose payment is late is offered again; an activity
\* that was rejected, cancelled or not formed holds nobody and nobody's money; exactly those who
\* paid are active; and the formation shown follows them until the deadline.
THEOREM GroupStaysInSync == Spec => []GroupInSync
<1>1. Inv => GroupInSync
  BY CapacityHolds DEF Inv, SeatsFit, StatusFits, GroupInSync
<1> QED
  BY <1>1, Safe, PTL

\* No step takes back what the deadline decided, or leaves the end of an activity.
LEMMA DecisionStep == [Next]_vars => [DecidedStays]_vars
<1> SUFFICES ASSUME Next PROVE DecidedStays
  BY DEF vars, DecidedStays
<1> USE DEF DecidedStays
<1>1. CASE Approve \/ Reject \/ CancelByOrganizer \/ CancelByAdmin
  BY <1>1 DEF Approve, Reject, CancelByOrganizer, CancelByAdmin, Open, Over
<1>2. CASE Tasks \/ CompleteStarted
  BY <1>2 DEF Tasks, CompleteStarted, FormationTask, StartTask, CompletionTask, Unformed,
              FailUnformed, Over
<1>3. CASE UNCHANGED status
  BY <1>3 DEF Over
<1>4. ASSUME status' = Formation(seat') PROVE DecidedStays
  <2>1. PICK s : s = seat'
    OBVIOUS
  <2>2. Cardinality(Active(s)) \in Nat
    BY Finite DEF Active
  <2> QED
    BY <1>4, <2>1, <2>2, GroupAssumption DEF Formation, Open, Over
<1>5. CASE Tick
  BY <1>3, <1>5 DEF Tick
<1>6. ASSUME NEW u \in Users,
             \/ Join(u) \/ Charge(u) \/ Record(u) \/ Expire(u)
             \/ Leave(u) \/ ApproveAfterSales(u) \/ Lapse(u)
      PROVE  DecidedStays
  <2>1. UNCHANGED status \/ status' = Formation(seat')
    BY <1>6 DEF Join, Charge, Record, Expire, Leave, ApproveAfterSales, Lapse
  <2> QED
    BY <1>3, <1>4, <2>1
<1> QED
  BY <1>1, <1>2, <1>3, <1>4, <1>5, <1>6 DEF Next

\* After the deadline a formed activity never falls back to recruiting, for which its task has
\* run already, and no activity leaves its end.
THEOREM DecisionsStand == Spec => [][DecidedStays]_vars
BY DecisionStep, PTL DEF Spec
=============================================================================
