-------------------------- MODULE CreditScan_proofs --------------------------
(***************************************************************************)
(* CreditScan for any number of requests and instants and any rows: the    *)
(* one pass of the scorer finds the representative because the comparison  *)
(* it makes is a strict weak order.                                        *)
(***************************************************************************)
EXTENDS CreditScan, TLAPS

LEMMA ClassType ==
    ASSUME NEW row \in Row
    PROVE  /\ classifyMergeRequest(row) \in 0..Merged
           /\ classifyMergeRequest(row) = Merged <=> row.state = "merged"
           /\ isCreditable(row) \in BOOLEAN /\ row.ciAt \in Nat
  BY CreditAssumption DEF Row, classifyMergeRequest, isCreditable, Closed, Pending, OnReview,
     ReviewResolved, CantBeMerged, HasExtraChanges, NoChanges, PipelineFailed, Merged

(* mergeRequestBetter is a strict weak order: transitive, and whatever is  *)
(* between two requests is worse than the one or better than the other.    *)
LEMMA BetterIsTransitive ==
    ASSUME NEW a \in Row, NEW b \in Row, NEW c \in Row,
           mergeRequestBetter(a, b), mergeRequestBetter(b, c)
    PROVE  mergeRequestBetter(a, c)
  BY ClassType DEF mergeRequestBetter, Merged

LEMMA BetterSplits ==
    ASSUME NEW a \in Row, NEW b \in Row, NEW c \in Row,
           mergeRequestBetter(a, c), ~mergeRequestBetter(b, c)
    PROVE  mergeRequestBetter(a, b)
  BY ClassType DEF mergeRequestBetter, Merged

-----------------------------------------------------------------------------
LEMMA TypeInit == Init => TypeOK
  <1> SUFFICES ASSUME Init PROVE TypeOK
    OBVIOUS
  <1>1. rows \in [Requests -> Row]
    BY RowAssumption DEF Init
  <1>2. next \in 1..(MaxRequests + 1) /\ best \in 0..MaxRequests
    BY CreditAssumption DEF Init
  <1> QED
    BY <1>1, <1>2 DEF Init, TypeOK

LEMMA TypeStep == TypeOK /\ [Next]_vars => TypeOK'
  <1> SUFFICES ASSUME TypeOK, [Next]_vars PROVE TypeOK'
    OBVIOUS
  <1>1. MaxRequests \in Nat /\ MaxTime \in Nat
    BY CreditAssumption
  <1>2. CASE Skip
    BY <1>1, <1>2 DEF Skip, TypeOK, Requests
  <1>3. CASE Consider
    BY <1>1, <1>3 DEF Consider, TypeOK, Requests, Row
  <1>4. CASE UNCHANGED vars
    BY <1>4 DEF vars, TypeOK
  <1> QED
    BY <1>2, <1>3, <1>4 DEF Next

(* The scorer's pass never leaves a wrong choice behind: after each        *)
(* request, the one kept represents the task among those seen.             *)
LEMMA RepresentativeStep ==
    ASSUME TypeOK, KeepsRepresentative, [Next]_vars
    PROVE  KeepsRepresentative'
  <1>1. MaxRequests \in Nat
    BY CreditAssumption
  <1>2. CASE Skip
    <2>1. Seen' = Seen /\ rows' = rows /\ best' = best
      BY <1>1, <1>2 DEF Skip, TypeOK, Seen, Visible, Hidden, Requests
    <2> QED
      BY <2>1 DEF KeepsRepresentative, Represents
  <1>3. CASE Consider
    <2>1. rows' = rows /\ Seen' = Seen \cup {next} /\ next \in Requests
      BY <1>1, <1>3 DEF Consider, TypeOK, Seen, Visible, Hidden, Requests
    <2>2. \A k \in Seen : k \in Requests /\ k < next
      BY DEF Seen, Visible
    <2>3. \A k \in Requests : rows[k] \in Row
      BY DEF TypeOK
    <2>4. CASE Seen = {}
      <3>1. best' = next /\ Seen' = {next}
        BY <1>3, <2>1, <2>4 DEF Consider, KeepsRepresentative
      <3> QED
        BY <1>1, <2>1, <3>1 DEF KeepsRepresentative, Represents, Requests
    <2>5. CASE Seen # {}
      <3>1. Represents(best, rows, Seen) /\ best \in Requests /\ best < next /\ best # 0
        BY <1>1, <2>2, <2>5 DEF KeepsRepresentative, Represents, Requests
      <3>2. CASE mergeRequestBetter(rows[next], rows[best])
        <4>1. best' = next
          BY <1>3, <3>2 DEF Consider
        <4>2. ASSUME NEW k \in Seen PROVE mergeRequestBetter(rows[next], rows[k])
          <5>1. CASE k = best
            BY <3>2, <5>1
          <5>2. CASE k < best
            BY <2>1, <2>2, <2>3, <3>1, <3>2, <5>2, BetterIsTransitive DEF Represents
          <5>3. CASE k > best
            BY <2>1, <2>2, <2>3, <3>1, <3>2, <5>3, BetterSplits DEF Represents
          <5> QED
            BY <1>1, <2>2, <3>1, <5>1, <5>2, <5>3 DEF Requests
        <4>3. Represents(next, rows, Seen \cup {next})
          BY <1>1, <2>1, <2>2, <4>2 DEF Represents, Requests
        <4> QED
          BY <2>1, <4>1, <4>3 DEF KeepsRepresentative
      <3>3. CASE ~mergeRequestBetter(rows[next], rows[best])
        <4>1. best' = best
          BY <1>3, <3>1, <3>3 DEF Consider
        <4>2. Represents(best, rows, Seen \cup {next})
          BY <1>1, <2>1, <3>1, <3>3 DEF Represents, Requests
        <4> QED
          BY <2>1, <4>1, <4>2 DEF KeepsRepresentative
      <3> QED
        BY <3>2, <3>3
    <2> QED
      BY <2>4, <2>5
  <1>4. CASE UNCHANGED vars
    BY <1>4 DEF vars, KeepsRepresentative, Represents, Seen, Visible, Hidden
  <1> QED
    BY <1>2, <1>3, <1>4 DEF Next

LEMMA Inductive == Spec => [](TypeOK /\ KeepsRepresentative)
  <1>1. Init => KeepsRepresentative
    BY CreditAssumption DEF Init, KeepsRepresentative, Seen, Visible, Requests
  <1> QED
    BY <1>1, TypeInit, TypeStep, RepresentativeStep, PTL DEF Spec

(* loadUserMergeRequests keeps the representative of what it has seen, for *)
(* any table and any bans: nothing better, and of equals the lowest id.    *)
THEOREM ScanKeepsRepresentative == Spec => []KeepsRepresentative
  BY Inductive, PTL

(* Who represents a finished pass is the earliest green merge.             *)
LEMMA KeptIsEarliest == TypeOK /\ KeepsRepresentative => EarliestGreenWins
  <1> SUFFICES ASSUME TypeOK, KeepsRepresentative, Done, NEW m \in Visible,
                      rows[m].state = "merged", isCreditable(rows[m])
               PROVE  /\ best # 0
                      /\ rows[best].state = "merged" /\ isCreditable(rows[best])
                      /\ rows[best].ciAt <= rows[m].ciAt
    BY DEF EarliestGreenWins
  <1>1. MaxRequests \in Nat /\ m \in Requests /\ rows[m] \in Row
    BY CreditAssumption DEF Visible, TypeOK
  <1>2. m \in Seen
    BY <1>1 DEF Seen, Done, Requests
  <1>3. Represents(best, rows, Seen)
    BY <1>2 DEF KeepsRepresentative
  <1>4. best \in Requests /\ rows[best] \in Row
    BY <1>3 DEF Represents, Seen, Visible, TypeOK
  <1>5. \/ best = m
        \/ mergeRequestBetter(rows[best], rows[m])
        \/ ~mergeRequestBetter(rows[m], rows[best])
    BY <1>1, <1>2, <1>3, <1>4 DEF Represents, Requests
  <1> QED
    BY <1>1, <1>4, <1>5, ClassType DEF mergeRequestBetter, Merged, Requests

(* The earliest green merge of a task wins, whatever else the student has  *)
(* opened, closed, merged or failed (docs/merge-requests.md:24-25).        *)
THEOREM EarliestGreenMergeWins == Spec => []EarliestGreenWins
  BY KeptIsEarliest, Inductive, PTL

=============================================================================
