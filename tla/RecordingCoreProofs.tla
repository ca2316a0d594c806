-------------------------- MODULE RecordingCoreProofs --------------------------
(***************************************************************************)
(* RecordingStateMachine for any identifiers, instants and timeouts, and   *)
(* RecordingRetentionPolicy for any list, instant, age and limit.          *)
(***************************************************************************)
EXTENDS RecordingCore, FunctionTheorems, FiniteSetTheorems, TLAPS

--------------------------------------------------------------------------------
(* The state machine. *)

(* The elapsed time of a fresh session is a whole number. *)
LEMMA ZeroIsInt == 0 \in Int
  OBVIOUS

USE NoneAssumption, InstantAssumption

(* The initial machine, which carries nothing of any session, satisfies    *)
(* the inductive invariant.                                                *)
LEMMA InitSatisfies == Init => SessionInvariant
  BY DEF Init, IdleMachine, SessionInvariant, TypeOK, Machine, Phase, Metadata,
         NoStaleSession, InstantsOrdered, ElapsedIsExact, StatusIsCoherent

(* Entering the failed phase, from any event that may cause it, keeps the  *)
(* session consistent.                                                     *)
LEMMA FailPreserves ==
  ASSUME SessionInvariant, NEW code \in Code, NEW at \in Int,
         AcceptsFailed(machine, at), machine' = Fail(machine, code, at)
  PROVE  SessionInvariant'
  <1> USE DEF SessionInvariant, AcceptsFailed, Fail, IsCurrent
  <1>e. Elapsed(machine, at) \in Int
    BY DEF TypeOK, Machine, Elapsed, NonNegative
  <1>1. TypeOK'
    BY <1>e DEF TypeOK, Machine, Phase
  <1>2. NoStaleSession'
    BY DEF NoStaleSession, TypeOK, Machine
  <1>3. InstantsOrdered'
    BY DEF NoStaleSession, InstantsOrdered, TypeOK, Machine
  <1>4. ElapsedIsExact' /\ StatusIsCoherent'
    BY DEF ElapsedIsExact, StatusIsCoherent, TypeOK, Machine
  <1> QED
    BY <1>1, <1>2, <1>3, <1>4

(* Entering the stopping phase, on request or at the maximum duration,     *)
(* keeps the session consistent and measures the elapsed time exactly.     *)
LEMMA BeginStoppingPreserves ==
  ASSUME SessionInvariant, NEW at \in Int,
         machine.phase = "recording", IsCurrent(machine, at),
         machine.captureStartedAt # None,
         machine' = BeginStopping(machine, at)
  PROVE  SessionInvariant'
  <1> USE DEF SessionInvariant, BeginStopping, IsCurrent
  <1>0. /\ machine.captureStartedAt \in Int
        /\ machine.lastEventAt \in Int
        /\ machine.captureStartedAt <= at
    BY DEF TypeOK, Machine, InstantsOrdered, NoStaleSession
  <1>e. Elapsed(machine, at) \in Int
    BY DEF TypeOK, Machine, Elapsed, NonNegative
  <1>1. TypeOK'
    BY <1>e DEF TypeOK, Machine, Phase
  <1>2. NoStaleSession'
    BY DEF NoStaleSession, TypeOK, Machine
  <1>3. InstantsOrdered'
    BY <1>0 DEF NoStaleSession, InstantsOrdered, TypeOK, Machine
  <1>4. ElapsedIsExact'
    BY <1>0 DEF ElapsedIsExact, Elapsed, NonNegative, TypeOK, Machine
  <1>5. StatusIsCoherent'
    BY DEF StatusIsCoherent, TypeOK, Machine
  <1> QED
    BY <1>1, <1>2, <1>3, <1>4, <1>5

(* The machine a start or a captured start yields is well typed, whatever  *)
(* whole number stands for the elapsed time.                               *)
LEMMA StartedTypes ==
  ASSUME NEW m \in Machine, NEW at \in Int, NEW duration \in Int, NEW e \in Int
  PROVE  /\ [m EXCEPT !.phase = "starting", !.elapsed = e, !.recording = None,
                      !.failureCode = None, !.startRequestedAt = at,
                      !.maximumDuration = duration, !.lastEventAt = at] \in Machine
         /\ [m EXCEPT !.phase = "recording", !.elapsed = e, !.recording = None,
                      !.failureCode = None, !.captureStartedAt = at,
                      !.lastEventAt = at] \in Machine
  BY DEF Machine, Phase

(* Every event that `apply` accepts keeps the session consistent. *)
LEMMA NextPreserves ==
  ASSUME SessionInvariant, [Next]_vars
  PROVE  SessionInvariant'
  <1>1. ASSUME NEW at \in Instant, NEW duration \in Duration,
               ApplyStartRequested(at, duration)
        PROVE  SessionInvariant'
    <2> USE <1>1 DEF ApplyStartRequested, AcceptsStartRequested, StartRequested, SessionInvariant
    <2>0. at \in Int /\ duration \in Int
      BY InstantAssumption
    <2>1. TypeOK'
      BY <2>0, StartedTypes, ZeroIsInt DEF TypeOK
    <2>2. NoStaleSession'
      BY <2>0 DEF NoStaleSession, TypeOK, Machine
    <2>3. InstantsOrdered'
      BY <2>0 DEF NoStaleSession, InstantsOrdered, TypeOK, Machine
    <2>4. ElapsedIsExact'
      BY DEF ElapsedIsExact, TypeOK, Machine
    <2>5. StatusIsCoherent'
      BY DEF StatusIsCoherent, TypeOK, Machine
    <2> QED
      BY <2>1, <2>2, <2>3, <2>4, <2>5
  <1>2. ASSUME NEW at \in Instant, ApplyCaptureStarted(at)
        PROVE  SessionInvariant'
    <2> USE <1>2 DEF ApplyCaptureStarted, AcceptsCaptureStarted, CaptureStarted, IsCurrent, SessionInvariant
    <2>0. at \in Int
      BY InstantAssumption
    <2>1. TypeOK'
      BY <2>0, StartedTypes, ZeroIsInt DEF TypeOK
    <2>2. NoStaleSession'
      BY <2>0 DEF NoStaleSession, TypeOK, Machine
    <2>3. InstantsOrdered'
      BY <2>0 DEF NoStaleSession, InstantsOrdered, TypeOK, Machine
    <2>4. ElapsedIsExact'
      BY DEF ElapsedIsExact, TypeOK, Machine
    <2>5. StatusIsCoherent'
      BY DEF StatusIsCoherent, TypeOK, Machine
    <2> QED
      BY <2>1, <2>2, <2>3, <2>4, <2>5
  <1>3. ASSUME NEW at \in Instant, ApplyStopRequested(at)
        PROVE  SessionInvariant'
    <2>1. machine.captureStartedAt # None
      BY <1>3 DEF ApplyStopRequested, AcceptsStopRequested, SessionInvariant, NoStaleSession
    <2> QED
      BY <1>3, <2>1, BeginStoppingPreserves
         DEF ApplyStopRequested, AcceptsStopRequested, StopRequested
  <1>4. ASSUME NEW id \in Id, NEW at \in Instant, NEW duration \in Duration,
               ApplyWriterFinished([id |-> id, createdAt |-> at, duration |-> duration])
        PROVE  SessionInvariant'
    <2> USE <1>4 DEF ApplyWriterFinished, AcceptsWriterFinished, WriterFinished,
                   IsCurrent, SessionInvariant
    <2>0. at \in Int /\ duration \in Int
      BY InstantAssumption
    <2>1. TypeOK'
      BY <2>0 DEF TypeOK, Machine, Phase, Metadata
    <2>2. NoStaleSession'
      BY <2>0 DEF NoStaleSession, TypeOK, Machine
    <2>3. InstantsOrdered'
      BY <2>0 DEF NoStaleSession, InstantsOrdered, TypeOK, Machine
    <2>4. ElapsedIsExact'
      BY DEF ElapsedIsExact, TypeOK, Machine
    <2>5. StatusIsCoherent'
      BY DEF StatusIsCoherent, TypeOK, Machine, Metadata
    <2> QED
      BY <2>1, <2>2, <2>3, <2>4, <2>5
  <1>5. ASSUME NEW code \in Code, NEW at \in Instant, ApplyFailed(code, at)
        PROVE  SessionInvariant'
    BY <1>5, FailPreserves DEF ApplyFailed, Failed
  <1>6. ASSUME NEW code \in Code, NEW at \in Instant, ApplyPermissionTimedOut(code, at)
        PROVE  SessionInvariant'
    BY <1>6, FailPreserves
       DEF ApplyPermissionTimedOut, AcceptsPermissionTimedOut, AcceptsFailed
  <1>7. ASSUME NEW code \in Code, NEW at \in Instant, ApplyStopTimedOut(code, at)
        PROVE  SessionInvariant'
    BY <1>7, FailPreserves DEF ApplyStopTimedOut, AcceptsStopTimedOut, AcceptsFailed
  <1>8. ASSUME NEW at \in Instant, ApplyMaximumDurationReached(at)
        PROVE  SessionInvariant'
    BY <1>8, BeginStoppingPreserves
       DEF ApplyMaximumDurationReached, AcceptsMaximumDurationReached
  <1>9. ASSUME machine' = ClearToIdle(machine)
        PROVE  SessionInvariant'
    BY <1>9 DEF ClearToIdle, IdleMachine, SessionInvariant, TypeOK, Machine, Phase,
         Metadata, NoStaleSession, InstantsOrdered, ElapsedIsExact, StatusIsCoherent
  <1>10. CASE UNCHANGED vars
    BY <1>10 DEF vars, SessionInvariant, TypeOK, NoStaleSession, InstantsOrdered,
         ElapsedIsExact, StatusIsCoherent
  <1> QED
    BY <1>1, <1>2, <1>3, <1>4, <1>5, <1>6, <1>7, <1>8, <1>9, <1>10
       DEF Next, ApplyDownloadedAndDeleted, ApplyReset

(* The machine keeps its shape. *)
THEOREM TypeCorrect == Spec => []TypeOK
  <1>1. SessionInvariant => TypeOK
    BY DEF SessionInvariant
  <1> QED
    BY <1>1, InitSatisfies, NextPreserves, PTL DEF Spec

(* No instant, elapsed time, recording or failure code of one session is   *)
(* seen in another.                                                        *)
THEOREM SessionsStayConsistent == Spec => [](NoStaleSession /\ StatusIsCoherent)
  <1>1. SessionInvariant => NoStaleSession /\ StatusIsCoherent
    BY DEF SessionInvariant
  <1> QED
    BY <1>1, InitSatisfies, NextPreserves, PTL DEF Spec

(* The instants of a session are ordered as its events are, whatever       *)
(* instants the callers of `apply` pass.                                   *)
THEOREM InstantsStayOrdered == Spec => []InstantsOrdered
  <1>1. SessionInvariant => InstantsOrdered
    BY DEF SessionInvariant
  <1> QED
    BY <1>1, InitSatisfies, NextPreserves, PTL DEF Spec

(* A stopping machine reports exactly the time between the start of the    *)
(* capture and the stop request.                                           *)
THEOREM ElapsedCorrect == Spec => []ElapsedIsExact
  <1>1. SessionInvariant => ElapsedIsExact
    BY DEF SessionInvariant
  <1> QED
    BY <1>1, InitSatisfies, NextPreserves, PTL DEF Spec

(* Within a session the last event's instant never moves back, whatever    *)
(* the wall clock does.                                                    *)
THEOREM LastEventMonotone == Spec => LastEventNeverMovesBack
  <1>1. ASSUME SessionInvariant, [Next]_vars
        PROVE  [machine.lastEventAt # None /\ machine'.lastEventAt # None
                  => machine'.lastEventAt >= machine.lastEventAt]_vars
    <2> USE <1>1 DEF SessionInvariant, TypeOK, Machine, IsCurrent, vars
    <2>1. ASSUME NEW at \in Instant, NEW duration \in Duration,
                 ApplyStartRequested(at, duration)
          PROVE  machine.lastEventAt = None
      BY <2>1 DEF ApplyStartRequested, AcceptsStartRequested, NoStaleSession
    <2>2. ASSUME machine' = ClearToIdle(machine)
          PROVE  machine'.lastEventAt = None
      BY <2>2 DEF ClearToIdle, IdleMachine
    <2>3. CASE UNCHANGED vars
      BY <2>3
    <2>4. CASE \/ \E at \in Instant : ApplyCaptureStarted(at)
               \/ \E at \in Instant : ApplyStopRequested(at)
               \/ \E at \in Instant : ApplyMaximumDurationReached(at)
      BY <2>4 DEF ApplyCaptureStarted, AcceptsCaptureStarted, CaptureStarted,
           ApplyStopRequested, AcceptsStopRequested, StopRequested, BeginStopping,
           ApplyMaximumDurationReached, AcceptsMaximumDurationReached
    <2>5. CASE \E id \in Id, at \in Instant, duration \in Duration :
                 ApplyWriterFinished([id |-> id, createdAt |-> at, duration |-> duration])
      BY <2>5 DEF ApplyWriterFinished, AcceptsWriterFinished, WriterFinished
    <2>6. CASE \E code \in Code, at \in Instant :
                 \/ ApplyFailed(code, at)
                 \/ ApplyPermissionTimedOut(code, at)
                 \/ ApplyStopTimedOut(code, at)
      BY <2>6 DEF ApplyFailed, AcceptsFailed, Failed, Fail, ApplyPermissionTimedOut,
           AcceptsPermissionTimedOut, ApplyStopTimedOut, AcceptsStopTimedOut
    <2> QED
      BY <2>1, <2>2, <2>3, <2>4, <2>5, <2>6
         DEF Next, ApplyDownloadedAndDeleted, ApplyReset
  <1> QED
    BY <1>1, InitSatisfies, NextPreserves, PTL DEF Spec, LastEventNeverMovesBack

--------------------------------------------------------------------------------
(* The retention policy. *)

USE RetentionAssumption

(* Nothing in the list precedes what stands before it. *)
IsOrdered(seq) == \A i, j \in 1..Len(seq) : i < j => ~Precedes(seq[j], seq[i])

(* The members of a list are the values at its positions. *)
LEMMA MembersOfList ==
  ASSUME NEW S, NEW seq \in Seq(S)
  PROVE  /\ DOMAIN seq = 1..Len(seq) /\ Len(seq) \in Nat
         /\ ToSet(seq) \subseteq S
         /\ \A n \in 1..Len(seq) : seq[n] \in ToSet(seq)
         /\ \A e \in ToSet(seq) : \E n \in 1..Len(seq) : e = seq[n]
  <1>1. DOMAIN seq = 1..Len(seq) /\ Len(seq) \in Nat /\ \A n \in 1..Len(seq) : seq[n] \in S
    OBVIOUS
  <1> QED
    BY <1>1 DEF ToSet

(* A strict total order of a finite set; before[k] are those before k.     *)
IsOrder(P, before) ==
    /\ IsFiniteSet(P)
    /\ before \in [P -> SUBSET P]
    /\ \A k \in P : k \notin before[k]
    /\ \A k \in P : \A l \in before[k] : before[l] \subseteq before[k]
    /\ \A k, l \in P : k # l => k \in before[l] \/ l \in before[k]

ListsByRank(order, P, before) ==
    /\ order \in [1..Cardinality(P) -> P]
    /\ \A n \in 1..Cardinality(P) : Cardinality(before[order[n]]) = n - 1

(* In a strict total order of a finite set, the number of those that come  *)
(* before an element is its rank.                                          *)
LEMMA RanksOfAnOrder ==
  ASSUME NEW P, NEW before, IsOrder(P, before)
  PROVE  /\ \A k \in P : Cardinality(before[k]) \in 0..(Cardinality(P) - 1)
         /\ \A k, l \in P : k \in before[l] <=> Cardinality(before[k]) < Cardinality(before[l])
         /\ \A n \in 1..Cardinality(P) : \E k \in P : Cardinality(before[k]) = n - 1
  <1> DEFINE rank == [k \in P |-> Cardinality(before[k])]
             ranks == 0..(Cardinality(P) - 1)
  <1> USE DEF IsOrder
  <1>1. \A k \in P : IsFiniteSet(before[k]) /\ Cardinality(before[k]) \in Nat
    BY FS_Subset, FS_CardinalityType
  <1>2. Cardinality(P) \in Nat
    BY FS_CardinalityType
  <1>3. ASSUME NEW k \in P, NEW l \in P, k \in before[l]
        PROVE  Cardinality(before[k]) < Cardinality(before[l])
    <2>1. before[k] \in SUBSET before[l] /\ before[k] # before[l]
      BY <1>3
    <2>2. /\ Cardinality(before[k]) <= Cardinality(before[l])
          /\ Cardinality(before[l]) = Cardinality(before[k]) => before[l] = before[k]
      BY <1>1, <2>1, FS_Subset
    <2> QED
      BY <1>1, <2>1, <2>2
  <1>4. ASSUME NEW k \in P, NEW l \in P, Cardinality(before[k]) < Cardinality(before[l])
        PROVE  k \in before[l]
    <2>1. k # l
      BY <1>1, <1>4
    <2>2. l \in before[k] => Cardinality(before[l]) < Cardinality(before[k])
      BY <1>3
    <2> QED
      BY <1>1, <1>4, <2>1, <2>2
  <1>5. ASSUME NEW k \in P
        PROVE  Cardinality(before[k]) \in 0..(Cardinality(P) - 1)
    <2>1. before[k] \in SUBSET P /\ before[k] # P
      OBVIOUS
    <2>2. /\ Cardinality(before[k]) <= Cardinality(P)
          /\ Cardinality(P) = Cardinality(before[k]) => P = before[k]
      BY <2>1, FS_Subset
    <2> QED
      BY <1>1, <1>2, <2>1, <2>2
  <1>6. rank \in Injection(P, ranks)
    <2>1. rank \in [P -> ranks]
      BY <1>5
    <2>2. ASSUME NEW k \in P, NEW l \in P, rank[k] = rank[l]
          PROVE  k = l
      <3>1. Cardinality(before[k]) = Cardinality(before[l])
        BY <2>2
      <3> QED
        BY <1>1, <1>3, <3>1
    <2> HIDE DEF rank, ranks
    <2> QED
      BY <2>1, <2>2, Fun_IsInj
  <1>7. IsFiniteSet(ranks) /\ Cardinality(ranks) = Cardinality(P)
    <2>1. /\ IsFiniteSet(ranks)
          /\ Cardinality(ranks) = IF 0 > Cardinality(P) - 1 THEN 0 ELSE (Cardinality(P) - 1) - 0 + 1
      BY <1>2, FS_Interval
    <2> QED
      BY <1>2, <2>1
  <1>8. rank \in Surjection(P, ranks)
    <2> HIDE DEF rank, ranks
    <2> QED
      BY <1>6, <1>7, FS_Injection
  <1>9. ASSUME NEW n \in 1..Cardinality(P)
        PROVE  \E k \in P : Cardinality(before[k]) = n - 1
    <2>1. n - 1 \in ranks
      BY <1>2
    <2>2. \A r \in ranks : \E k \in P : rank[k] = r
      <3> HIDE DEF rank, ranks
      <3> QED
        BY <1>8, Fun_SurjectionProperties
    <2>3. PICK k \in P : rank[k] = n - 1
      <3> HIDE DEF rank, ranks
      <3> QED
        BY <2>1, <2>2
    <2> QED
      BY <2>3
  <1> QED
    BY <1>3, <1>4, <1>5, <1>9

(* What lists each element at its rank lists all of them, in their order.  *)
LEMMA OrderByRank ==
  ASSUME NEW P, NEW before, IsOrder(P, before), NEW order, ListsByRank(order, P, before)
  PROVE  /\ \A i, j \in 1..Cardinality(P) : i < j => order[i] \in before[order[j]]
         /\ \A k \in P : \E n \in 1..Cardinality(P) : order[n] = k
  <1>1. /\ \A k \in P : Cardinality(before[k]) \in 0..(Cardinality(P) - 1)
        /\ \A k, l \in P : k \in before[l] <=> Cardinality(before[k]) < Cardinality(before[l])
    BY RanksOfAnOrder
  <1> USE DEF IsOrder, ListsByRank
  <1>2. Cardinality(P) \in Nat
    BY FS_CardinalityType
  <1>3. ASSUME NEW i \in 1..Cardinality(P), NEW j \in 1..Cardinality(P), i < j
        PROVE  order[i] \in before[order[j]]
    <2>1. Cardinality(before[order[i]]) < Cardinality(before[order[j]])
      BY <1>2, <1>3
    <2> QED
      BY <1>1, <2>1
  <1>4. ASSUME NEW k \in P
        PROVE  \E n \in 1..Cardinality(P) : order[n] = k
    <2> DEFINE n == Cardinality(before[k]) + 1
    <2>1. n \in 1..Cardinality(P) /\ n - 1 = Cardinality(before[k]) /\ n - 1 \in Nat
      BY <1>1, <1>2
    <2> HIDE DEF n
    <2>2. order[n] \in P /\ Cardinality(before[order[n]]) = Cardinality(before[k])
      BY <2>1
    <2>3. order[n] \notin before[k] /\ k \notin before[order[n]]
      BY <1>1, <2>1, <2>2
    <2>4. order[n] = k
      BY <2>2, <2>3
    <2> QED
      BY <2>1, <2>4
  <1> QED
    BY <1>3, <1>4

(* InOrder does so.                                                        *)
LEMMA InOrderListsByRank ==
  ASSUME NEW P, NEW before, IsOrder(P, before)
  PROVE  ListsByRank(InOrder(P, before), P, before)
  <1> DEFINE order == InOrder(P, before)
  <1>1. ASSUME NEW n \in 1..Cardinality(P)
        PROVE  order[n] \in P /\ Cardinality(before[order[n]]) = n - 1
    <2>1. \E k \in P : Cardinality(before[k]) = n - 1
      BY RanksOfAnOrder
    <2>2. order[n] = CHOOSE k \in P : Cardinality(before[k]) = n - 1
      BY DEF InOrder
    <2> QED
      BY <2>1, <2>2, Zenon
  <1>2. order \in [1..Cardinality(P) -> P]
    BY <1>1 DEF InOrder
  <1>3. ListsByRank(order, P, before)
    <2> HIDE DEF order
    <2> QED
      BY <1>1, <1>2 DEF ListsByRank
  <1> QED
    BY <1>3

(* A filter keeps the elements at its positions, in their order.           *)
LEMMA FilterKeepsOrder ==
  ASSUME NEW S, NEW seq \in Seq(S), NEW P \in SUBSET DOMAIN seq
  PROVE  /\ IsFiniteSet(P) /\ Cardinality(P) \in Nat
         /\ \E order \in [1..Cardinality(P) -> P] :
               /\ Filter(seq, P) = [n \in 1..Cardinality(P) |-> seq[order[n]]]
               /\ \A i, j \in 1..Cardinality(P) : i < j => order[i] < order[j]
               /\ \A k \in P : \E n \in 1..Cardinality(P) : order[n] = k
  <1> DEFINE before == [k \in P |-> {l \in P : l < k}]
             order == InOrder(P, before)
  <1>1. P \subseteq Nat
    OBVIOUS
  <1>2. IsFiniteSet(P) /\ Cardinality(P) \in Nat
    <2>1. DOMAIN seq = 1..Len(seq) /\ Len(seq) \in Nat
      OBVIOUS
    <2>2. IsFiniteSet(1..Len(seq))
      BY <2>1, FS_Interval
    <2> QED
      BY <2>1, <2>2, FS_Subset, FS_CardinalityType
  <1>3. IsOrder(P, before)
    BY <1>1, <1>2 DEF IsOrder
  <1>4. ListsByRank(order, P, before)
    BY <1>3, InOrderListsByRank
  <1>5. order \in [1..Cardinality(P) -> P] /\ DOMAIN order = 1..Cardinality(P)
    BY <1>4 DEF ListsByRank
  <1>6. /\ \A i, j \in 1..Cardinality(P) : i < j => order[i] \in before[order[j]]
        /\ \A k \in P : \E n \in 1..Cardinality(P) : order[n] = k
    <2> HIDE DEF before, order
    <2> QED
      BY <1>3, <1>4, OrderByRank
  <1>7. Filter(seq, P) = [n \in 1..Cardinality(P) |-> seq[order[n]]]
    BY <1>5 DEF Filter
  <1>8. \A i, j \in 1..Cardinality(P) : i < j => order[i] < order[j]
    <2> HIDE DEF order
    <2> QED
      BY <1>5, <1>6
  <1> HIDE DEF order, before
  <1> QED
    BY <1>2, <1>5, <1>6, <1>7, <1>8

(* The stable sort by Precedes: a permutation of the list in which nothing *)
(* precedes what stands before it.                                         *)
LEMMA SortedIsOrdered ==
  ASSUME NEW entries \in Seq(RetentionEntry)
  PROVE  /\ Sorted(entries) \in Seq(RetentionEntry)
         /\ IsOrdered(Sorted(entries))
         /\ ToSet(Sorted(entries)) = ToSet(entries)
  <1> DEFINE P == 1..Len(entries)
             Before(l, k) == \/ Precedes(entries[l], entries[k])
                             \/ ~Precedes(entries[k], entries[l]) /\ l < k
             before == [k \in P |-> {l \in P : Before(l, k)}]
             order == InOrder(P, before)
  <1>1. /\ Len(entries) \in Nat /\ DOMAIN entries = P
        /\ \A k \in P : entries[k] \in RetentionEntry
    OBVIOUS
  <1>2. IsFiniteSet(P) /\ Cardinality(P) = Len(entries)
    <2>1. /\ IsFiniteSet(P)
          /\ Cardinality(P) = IF 1 > Len(entries) THEN 0 ELSE Len(entries) - 1 + 1
      BY <1>1, FS_Interval
    <2> QED
      BY <1>1, <2>1
  <1>3. ASSUME NEW x \in RetentionEntry, NEW y \in RetentionEntry
        PROVE  /\ x.createdAt \in Int /\ x.identifier \in Int
               /\ y.createdAt \in Int /\ y.identifier \in Int
    BY DEF RetentionEntry
  <1>4. /\ \A k \in P : ~Before(k, k)
        /\ \A k, l \in P : Before(k, l) => ~Before(l, k)
        /\ \A k, l \in P : k # l => Before(k, l) \/ Before(l, k)
    BY <1>1, <1>3 DEF Precedes
  <1>5. \A k, l, m \in P : Before(k, l) /\ Before(l, m) => Before(k, m)
    BY <1>1, <1>3 DEF Precedes
  <1>6. IsOrder(P, before)
    <2> HIDE DEF Before, P
    <2> QED
      BY <1>2, <1>4, <1>5 DEF IsOrder
  <1>7. ListsByRank(order, P, before)
    BY <1>6, InOrderListsByRank
  <1>8. order \in [1..Cardinality(P) -> P] /\ DOMAIN order = 1..Cardinality(P)
    BY <1>7 DEF ListsByRank
  <1>9. /\ \A i, j \in 1..Cardinality(P) : i < j => order[i] \in before[order[j]]
        /\ \A k \in P : \E n \in 1..Cardinality(P) : order[n] = k
    <2> HIDE DEF before, order, P
    <2> QED
      BY <1>6, <1>7, OrderByRank
  <1>10. Sorted(entries) = [n \in P |-> entries[order[n]]]
    <2>1. Sorted(entries) = [n \in 1..Cardinality(P) |-> entries[order[n]]]
      BY <1>1, <1>8 DEF Sorted
    <2> QED
      BY <1>2, <2>1
  <1>11. ASSUME NEW i \in P, NEW j \in P, i < j
         PROVE  ~Precedes(entries[order[j]], entries[order[i]])
    <2>1. Before(order[i], order[j]) /\ order[i] \in P /\ order[j] \in P
      <3> HIDE DEF Before, order
      <3> QED
        BY <1>2, <1>8, <1>9, <1>11
    <2> HIDE DEF order
    <2> QED
      BY <1>1, <1>3, <2>1 DEF Precedes
  <1> HIDE DEF order, before, Before
  <1>12. Sorted(entries) \in Seq(RetentionEntry) /\ Len(Sorted(entries)) = Len(entries)
    <2>1. [n \in P |-> entries[order[n]]] \in [P -> RetentionEntry]
      BY <1>1, <1>2, <1>8
    <2> QED
      BY <1>1, <1>10, <2>1
  <1>13. \A n \in P : Sorted(entries)[n] = entries[order[n]] /\ order[n] \in P
    <2>1. P = 1..Cardinality(P)
      BY <1>2
    <2> HIDE DEF P
    <2> QED
      BY <1>8, <1>10, <2>1
  <1>14. \A k \in P : \E n \in P : order[n] = k
    BY <1>2, <1>9
  <1>15. IsOrdered(Sorted(entries))
    BY <1>11, <1>12, <1>13 DEF IsOrdered
  <1>16. ASSUME NEW e \in ToSet(entries)
         PROVE  e \in ToSet(Sorted(entries))
    <2>1. PICK k \in P : e = entries[k]
      BY MembersOfList
    <2>2. PICK n \in P : order[n] = k
      BY <1>14
    <2>3. Sorted(entries)[n] = e /\ n \in 1..Len(Sorted(entries))
      BY <1>12, <1>13, <2>1, <2>2
    <2> QED
      BY <1>12, <2>3, MembersOfList
  <1>17. ASSUME NEW e \in ToSet(Sorted(entries))
         PROVE  e \in ToSet(entries)
    <2>1. PICK n \in P : e = Sorted(entries)[n]
      BY <1>12, MembersOfList
    <2>2. e = entries[order[n]] /\ order[n] \in 1..Len(entries)
      BY <1>13, <2>1
    <2> QED
      BY <2>2, MembersOfList
  <1> QED
    BY <1>12, <1>15, <1>16, <1>17

(* What a filter returns: the elements at its positions and no others.  It *)
(* leaves an ordered list ordered.                                         *)
LEMMA FilterSelects ==
  ASSUME NEW S, NEW seq \in Seq(S), NEW P \in SUBSET DOMAIN seq
  PROVE  /\ Filter(seq, P) \in Seq(S)
         /\ \A n \in 1..Len(Filter(seq, P)) : \E k \in P : Filter(seq, P)[n] = seq[k]
         /\ \A k \in P : \E n \in 1..Len(Filter(seq, P)) : Filter(seq, P)[n] = seq[k]
         /\ IsOrdered(seq) => IsOrdered(Filter(seq, P))
  <1> DEFINE N == Cardinality(P)
  <1>1. N \in Nat
    BY FilterKeepsOrder
  <1>2. PICK order \in [1..N -> P] :
           /\ Filter(seq, P) = [n \in 1..N |-> seq[order[n]]]
           /\ \A i, j \in 1..N : i < j => order[i] < order[j]
           /\ \A k \in P : \E n \in 1..N : order[n] = k
    BY FilterKeepsOrder
  <1> HIDE DEF N
  <1>3. \A k \in P : k \in 1..Len(seq) /\ seq[k] \in S
    OBVIOUS
  <1>4. \A n \in 1..N : order[n] \in P
    OBVIOUS
  <1>5. Filter(seq, P) \in [1..N -> S]
    BY <1>2, <1>3, <1>4
  <1>6. Filter(seq, P) \in Seq(S) /\ Len(Filter(seq, P)) = N
    BY <1>1, <1>5
  <1>7. \A n \in 1..N : Filter(seq, P)[n] = seq[order[n]]
    BY <1>2
  <1>8. ASSUME IsOrdered(seq), NEW i \in 1..N, NEW j \in 1..N, i < j
        PROVE  ~Precedes(Filter(seq, P)[j], Filter(seq, P)[i])
    <2>1. /\ order[i] \in 1..Len(seq) /\ order[j] \in 1..Len(seq)
          /\ order[i] < order[j]
      BY <1>2, <1>3, <1>4, <1>8
    <2> QED
      BY <1>7, <1>8, <2>1 DEF IsOrdered
  <1>9. IsOrdered(seq) => IsOrdered(Filter(seq, P))
    BY <1>6, <1>8 DEF IsOrdered
  <1>10. \A n \in 1..N : \E k \in P : Filter(seq, P)[n] = seq[k]
    BY <1>4, <1>7
  <1>11. \A k \in P : \E n \in 1..N : Filter(seq, P)[n] = seq[k]
    <2> SUFFICES ASSUME NEW k \in P
                 PROVE  \E n \in 1..N : Filter(seq, P)[n] = seq[k]
      OBVIOUS
    <2>1. PICK n \in 1..N : order[n] = k
      BY <1>2
    <2> QED
      BY <1>7, <2>1
  <1> QED
    BY <1>6, <1>9, <1>10, <1>11

(* A set of positions that is not empty has a first one. *)
LEMMA FirstPosition ==
  ASSUME NEW S, NEW seq \in Seq(S), NEW P \in SUBSET DOMAIN seq, P # {}
  PROVE  \E k \in P : \A l \in P : k <= l
  <1> DEFINE N == Cardinality(P)
  <1>1. N \in Nat
    BY FilterKeepsOrder
  <1>2. PICK order \in [1..N -> P] :
           /\ \A i, j \in 1..N : i < j => order[i] < order[j]
           /\ \A k \in P : \E n \in 1..N : order[n] = k
    BY FilterKeepsOrder
  <1> HIDE DEF N
  <1>3. 1 \in 1..N
    BY <1>1, <1>2
  <1>4. order[1] \in P /\ \A k \in P : k \in Int
    BY <1>3
  <1>5. \A l \in P : order[1] <= l
    BY <1>2, <1>3, <1>4
  <1> QED
    BY <1>4, <1>5

(* The de-duplication keeps of each identifier the first entry, and no     *)
(* identifier twice.                                                       *)
LEMMA FirstOfEachSelects ==
  ASSUME NEW seq \in Seq(RetentionEntry)
  PROVE  /\ FirstOfEach(seq) \in Seq(RetentionEntry)
         /\ \A n \in 1..Len(FirstOfEach(seq)) : \E k \in 1..Len(seq) :
               /\ FirstOfEach(seq)[n] = seq[k]
               /\ \A l \in 1..(k - 1) : seq[l].identifier # seq[k].identifier
         /\ \A k \in 1..Len(seq) : \E n \in 1..Len(FirstOfEach(seq)) :
               FirstOfEach(seq)[n].identifier = seq[k].identifier
         /\ \A m, n \in 1..Len(FirstOfEach(seq)) :
               m # n => FirstOfEach(seq)[m].identifier # FirstOfEach(seq)[n].identifier
         /\ IsOrdered(seq) => IsOrdered(FirstOfEach(seq))
  <1> DEFINE P == {k \in DOMAIN seq : \A l \in 1..(k - 1) : seq[l].identifier # seq[k].identifier}
  <1>1. P \in SUBSET DOMAIN seq /\ FirstOfEach(seq) = Filter(seq, P) /\ DOMAIN seq = 1..Len(seq)
    BY DEF FirstOfEach
  <1>2. /\ FirstOfEach(seq) \in Seq(RetentionEntry)
        /\ \A n \in 1..Len(FirstOfEach(seq)) : \E k \in P : FirstOfEach(seq)[n] = seq[k]
        /\ \A k \in P : \E n \in 1..Len(FirstOfEach(seq)) : FirstOfEach(seq)[n] = seq[k]
        /\ IsOrdered(seq) => IsOrdered(FirstOfEach(seq))
    <2> HIDE DEF P
    <2> QED
      BY <1>1, FilterSelects
  <1>3. ASSUME NEW k \in 1..Len(seq)
        PROVE  \E f \in P : seq[f].identifier = seq[k].identifier
    <2> DEFINE same == {l \in DOMAIN seq : seq[l].identifier = seq[k].identifier}
    <2>1. PICK f \in same : \A l \in same : f <= l
      <3>1. same \in SUBSET DOMAIN seq /\ same # {}
        BY <1>1
      <3> HIDE DEF same
      <3> QED
        BY <3>1, FirstPosition
    <2>2. f \in P
      BY <1>1, <2>1
    <2> QED
      BY <2>1, <2>2
  <1>4. ASSUME NEW m \in 1..Len(FirstOfEach(seq)), NEW n \in 1..Len(FirstOfEach(seq)), m < n
        PROVE  FirstOfEach(seq)[m].identifier # FirstOfEach(seq)[n].identifier
    <2> DEFINE N == Cardinality(P)
    <2>1. PICK order \in [1..N -> P] :
             /\ Filter(seq, P) = [i \in 1..N |-> seq[order[i]]]
             /\ \A i, j \in 1..N : i < j => order[i] < order[j]
             /\ \A k \in P : \E i \in 1..N : order[i] = k
      <3> HIDE DEF P
      <3> QED
        BY <1>1, FilterKeepsOrder
    <2>2. N \in Nat
      <3> HIDE DEF P
      <3> QED
        BY <1>1, FilterKeepsOrder
    <2>3. Len(FirstOfEach(seq)) = N
      <3> HIDE DEF P, N
      <3>1. FirstOfEach(seq) = [i \in 1..N |-> seq[order[i]]]
        BY <1>1, <2>1
      <3>2. DOMAIN FirstOfEach(seq) = 1..N
        BY <3>1
      <3> QED
        BY <1>2, <2>2, <3>2
    <2> HIDE DEF N
    <2>4. order[m] \in P /\ order[n] \in P /\ order[m] < order[n]
      BY <1>4, <2>1, <2>3
    <2>5. FirstOfEach(seq)[m] = seq[order[m]] /\ FirstOfEach(seq)[n] = seq[order[n]]
      <3> HIDE DEF P
      <3>1. FirstOfEach(seq) = [i \in 1..N |-> seq[order[i]]]
        BY <1>1, <2>1
      <3>2. m \in 1..N /\ n \in 1..N
        BY <2>3
      <3> QED
        BY <3>1, <3>2
    <2>6. order[m] \in 1..(order[n] - 1)
      BY <1>1, <2>4
    <2> QED
      BY <2>4, <2>5, <2>6
  <1>5. \A k \in P : k \in 1..Len(seq) /\ \A l \in 1..(k - 1) : seq[l].identifier # seq[k].identifier
    BY <1>1
  <1>6. \A m, n \in 1..Len(FirstOfEach(seq)) :
           m # n => FirstOfEach(seq)[m].identifier # FirstOfEach(seq)[n].identifier
    <2>1. Len(FirstOfEach(seq)) \in Nat
      BY <1>2
    <2> QED
      BY <1>4, <2>1
  <1> HIDE DEF P
  <1>7. \A k \in 1..Len(seq) : \E n \in 1..Len(FirstOfEach(seq)) :
               FirstOfEach(seq)[n].identifier = seq[k].identifier
    <2> SUFFICES ASSUME NEW k \in 1..Len(seq)
                 PROVE  \E n \in 1..Len(FirstOfEach(seq)) :
                           FirstOfEach(seq)[n].identifier = seq[k].identifier
      OBVIOUS
    <2>1. PICK f \in P : seq[f].identifier = seq[k].identifier
      BY <1>3
    <2>2. \E n \in 1..Len(FirstOfEach(seq)) : FirstOfEach(seq)[n] = seq[f]
      BY <1>2
    <2>3. PICK n \in 1..Len(FirstOfEach(seq)) : FirstOfEach(seq)[n] = seq[f]
      BY <2>2
    <2> QED
      BY <2>1, <2>3
  <1>8. \A n \in 1..Len(FirstOfEach(seq)) : \E k \in 1..Len(seq) :
               /\ FirstOfEach(seq)[n] = seq[k]
               /\ \A l \in 1..(k - 1) : seq[l].identifier # seq[k].identifier
    <2> SUFFICES ASSUME NEW n \in 1..Len(FirstOfEach(seq))
                 PROVE  \E k \in 1..Len(seq) :
                           /\ FirstOfEach(seq)[n] = seq[k]
                           /\ \A l \in 1..(k - 1) : seq[l].identifier # seq[k].identifier
      OBVIOUS
    <2>1. PICK k \in P : FirstOfEach(seq)[n] = seq[k]
      BY <1>2
    <2> QED
      BY <1>5, <2>1
  <1> QED
    BY <1>2, <1>6, <1>7, <1>8

(* The rule takes the instant of the oldest entry of an identifier. *)
LEMMA CreatedAtIsOldest ==
  ASSUME NEW entries \in Seq(RetentionEntry)
  PROVE  /\ DOMAIN CreatedAt(entries) =
               {e.identifier : e \in ToSet(entries)} \ Unfinished(entries)
         /\ \A i \in DOMAIN CreatedAt(entries) :
               /\ \E e \in ToSet(entries) :
                     e.identifier = i /\ e.createdAt = CreatedAt(entries)[i]
               /\ \A e \in ToSet(entries) :
                     e.identifier = i => CreatedAt(entries)[i] <= e.createdAt
  <1> DEFINE ordered == Sorted(entries)
  <1>1. /\ DOMAIN entries = 1..Len(entries)
        /\ \A e \in ToSet(entries) : e \in RetentionEntry /\ e.createdAt \in Int
    <2>1. \A e \in ToSet(entries) : e \in RetentionEntry
      BY MembersOfList
    <2> QED
      BY <2>1 DEF RetentionEntry
  <1>2. /\ ordered \in Seq(RetentionEntry)
        /\ DOMAIN ordered = 1..Len(ordered)
        /\ IsOrdered(ordered)
        /\ ToSet(ordered) = ToSet(entries)
        /\ \A n \in 1..Len(ordered) : ordered[n] \in ToSet(entries)
        /\ \A e \in ToSet(entries) : \E n \in 1..Len(ordered) : e = ordered[n]
    <2>1. ordered \in Seq(RetentionEntry) /\ IsOrdered(ordered) /\ ToSet(ordered) = ToSet(entries)
      BY SortedIsOrdered
    <2> HIDE DEF ordered
    <2> QED
      BY <2>1, MembersOfList
  <1>3. DOMAIN CreatedAt(entries) = {e.identifier : e \in ToSet(entries)} \ Unfinished(entries)
    BY DEF CreatedAt, Identifiers, ToSet
  <1>4. ASSUME NEW i \in DOMAIN CreatedAt(entries)
        PROVE  /\ \E e \in ToSet(entries) :
                     e.identifier = i /\ e.createdAt = CreatedAt(entries)[i]
               /\ \A e \in ToSet(entries) :
                     e.identifier = i => CreatedAt(entries)[i] <= e.createdAt
    <2> DEFINE same == {n \in DOMAIN ordered : ordered[n].identifier = i}
               instants == {entries[k].createdAt :
                              k \in {n \in DOMAIN entries : entries[n].identifier = i}}
    <2>1. PICK f \in same : \A l \in same : f <= l
      <3>1. same \in SUBSET DOMAIN ordered /\ same # {}
        BY <1>2, <1>3
      <3> HIDE DEF same, ordered
      <3> QED
        BY <1>2, <3>1, FirstPosition
    <2>2. instants = {e.createdAt : e \in {d \in ToSet(entries) : d.identifier = i}}
      BY DEF ToSet
    <2>3. ordered[f] \in ToSet(entries) /\ ordered[f].identifier = i
      BY <1>2, <2>1
    <2>4. ASSUME NEW e \in ToSet(entries), e.identifier = i
          PROVE  ordered[f].createdAt <= e.createdAt
      <3> HIDE DEF ordered
      <3>1. PICK n \in 1..Len(ordered) : e = ordered[n]
        BY <1>2
      <3>2. n \in same /\ f \in 1..Len(ordered) /\ f <= n
        BY <1>2, <2>1, <2>4, <3>1
      <3>3. f < n => ~Precedes(e, ordered[f])
        BY <1>2, <3>1, <3>2 DEF IsOrdered
      <3>4. ordered[f].createdAt \in Int /\ e.createdAt \in Int
        BY <1>1, <2>3
      <3>5. CASE f = n
        BY <3>1, <3>4, <3>5
      <3>6. CASE f < n
        BY <3>3, <3>4, <3>6 DEF Precedes
      <3> QED
        BY <1>2, <3>2, <3>5, <3>6
    <2> HIDE DEF ordered, same
    <2>5. \E x \in instants : \A y \in instants : x =< y
      <3>1. ordered[f].createdAt \in instants
        BY <2>2, <2>3
      <3>2. \A y \in instants : ordered[f].createdAt <= y
        BY <2>2, <2>4
      <3> QED
        BY <3>1, <3>2
    <2>6. CreatedAt(entries)[i] = Min(instants)
      BY <1>3 DEF CreatedAt, Identifiers, ToSet
    <2> HIDE DEF instants
    <2>7. CreatedAt(entries)[i] \in instants /\ \A y \in instants : CreatedAt(entries)[i] =< y
      BY <2>5, <2>6, Zenon DEF Min
    <2> QED
      BY <2>2, <2>7
  <1> QED
    BY <1>3, <1>4

LEMMA FilterMembers ==
  ASSUME NEW S, NEW seq \in Seq(S), NEW P \in SUBSET DOMAIN seq
  PROVE  ToSet(Filter(seq, P)) = {seq[k] : k \in P}
  <1>1. /\ Filter(seq, P) \in Seq(S)
        /\ \A n \in 1..Len(Filter(seq, P)) : \E k \in P : Filter(seq, P)[n] = seq[k]
        /\ \A k \in P : \E n \in 1..Len(Filter(seq, P)) : Filter(seq, P)[n] = seq[k]
    BY FilterSelects
  <1>2. /\ \A n \in 1..Len(Filter(seq, P)) : Filter(seq, P)[n] \in ToSet(Filter(seq, P))
        /\ \A e \in ToSet(Filter(seq, P)) : \E n \in 1..Len(Filter(seq, P)) : e = Filter(seq, P)[n]
    BY <1>1, MembersOfList
  <1>3. ASSUME NEW e \in ToSet(Filter(seq, P))
        PROVE  \E k \in P : e = seq[k]
    <2>1. PICK n \in 1..Len(Filter(seq, P)) : e = Filter(seq, P)[n]
      BY <1>2
    <2> QED
      BY <1>1, <2>1
  <1>4. ASSUME NEW k \in P
        PROVE  seq[k] \in ToSet(Filter(seq, P))
    <2>1. PICK n \in 1..Len(Filter(seq, P)) : Filter(seq, P)[n] = seq[k]
      BY <1>1
    <2> QED
      BY <1>2, <2>1
  <1> QED
    BY <1>3, <1>4

(* The lists of identifiersToDelete, by the names they have there. *)
PartialOrFailed(entries) ==
    LET ordered == Sorted(entries)
    IN  Filter(ordered, {k \in DOMAIN ordered : ordered[k].phase # "ready"})

ReadyEntries(entries) ==
    LET ordered == Sorted(entries)
    IN  Filter(ordered, {k \in DOMAIN ordered : ordered[k].phase = "ready"})

ExpiredEntries(now, entries) ==
    LET ready == ReadyEntries(entries)
    IN  Filter(ready, {k \in DOMAIN ready : IsExpired(ready[k], now)})

Mandatory(now, entries) ==
    ToSet(Identifiers(PartialOrFailed(entries) \o ExpiredEntries(now, entries)))

RetainedCandidates(now, entries) ==
    LET ready == ReadyEntries(entries)
    IN  FirstOfEach(Filter(ready, {k \in DOMAIN ready :
                                     ready[k].identifier \notin Mandatory(now, entries)}))

(* Partial or failed entries, ready ones, and those that have expired. *)
LEMMA ListsByPhase ==
  ASSUME NEW entries \in Seq(RetentionEntry), NEW now
  PROVE  /\ PartialOrFailed(entries) \in Seq(RetentionEntry)
         /\ ToSet(PartialOrFailed(entries)) = {e \in ToSet(entries) : e.phase # "ready"}
         /\ ReadyEntries(entries) \in Seq(RetentionEntry)
         /\ IsOrdered(ReadyEntries(entries))
         /\ ToSet(ReadyEntries(entries)) = {e \in ToSet(entries) : e.phase = "ready"}
         /\ ExpiredEntries(now, entries) \in Seq(RetentionEntry)
         /\ ToSet(ExpiredEntries(now, entries)) =
               {e \in ToSet(entries) : e.phase = "ready" /\ IsExpired(e, now)}
  <1> DEFINE ordered == Sorted(entries)
             failed == {k \in DOMAIN ordered : ordered[k].phase # "ready"}
             done == {k \in DOMAIN ordered : ordered[k].phase = "ready"}
             ready == ReadyEntries(entries)
             old == {k \in DOMAIN ready : IsExpired(ready[k], now)}
  <1>1. /\ ordered \in Seq(RetentionEntry) /\ IsOrdered(ordered)
        /\ ToSet(entries) = {ordered[k] : k \in DOMAIN ordered}
    BY SortedIsOrdered DEF ToSet
  <1>2. /\ PartialOrFailed(entries) = Filter(ordered, failed)
        /\ ReadyEntries(entries) = Filter(ordered, done)
        /\ ExpiredEntries(now, entries) = Filter(ready, old)
    BY DEF PartialOrFailed, ReadyEntries, ExpiredEntries
  <1>3. failed \in SUBSET DOMAIN ordered /\ done \in SUBSET DOMAIN ordered /\ old \in SUBSET DOMAIN ready
    OBVIOUS
  <1>4. /\ {ordered[k] : k \in failed} = {e \in ToSet(entries) : e.phase # "ready"}
        /\ {ordered[k] : k \in done} = {e \in ToSet(entries) : e.phase = "ready"}
    <2> HIDE DEF ordered
    <2> QED
      BY <1>1
  <1>5. /\ PartialOrFailed(entries) \in Seq(RetentionEntry)
        /\ ToSet(PartialOrFailed(entries)) = {e \in ToSet(entries) : e.phase # "ready"}
    <2> HIDE DEF failed, ordered
    <2>1. Filter(ordered, failed) \in Seq(RetentionEntry)
      BY <1>1, <1>3, FilterSelects
    <2>2. ToSet(Filter(ordered, failed)) = {ordered[k] : k \in failed}
      BY <1>1, <1>3, FilterMembers
    <2> QED
      BY <1>2, <1>4, <2>1, <2>2
  <1>6. /\ ready \in Seq(RetentionEntry)
        /\ IsOrdered(ready)
        /\ ToSet(ready) = {e \in ToSet(entries) : e.phase = "ready"}
    <2> HIDE DEF done, ordered
    <2>1. Filter(ordered, done) \in Seq(RetentionEntry) /\ IsOrdered(Filter(ordered, done))
      BY <1>1, <1>3, FilterSelects
    <2>2. ToSet(Filter(ordered, done)) = {ordered[k] : k \in done}
      BY <1>1, <1>3, FilterMembers
    <2> QED
      BY <1>2, <1>4, <2>1, <2>2
  <1> HIDE DEF ready
  <1>7. {ready[k] : k \in old} = {e \in ToSet(entries) : e.phase = "ready" /\ IsExpired(e, now)}
    <2>1. ToSet(ready) = {ready[k] : k \in DOMAIN ready}
      BY DEF ToSet
    <2> QED
      BY <1>6, <2>1
  <1>8. /\ ExpiredEntries(now, entries) \in Seq(RetentionEntry)
        /\ ToSet(ExpiredEntries(now, entries)) =
               {e \in ToSet(entries) : e.phase = "ready" /\ IsExpired(e, now)}
    <2> HIDE DEF old
    <2>1. Filter(ready, old) \in Seq(RetentionEntry)
      BY <1>3, <1>6, FilterSelects
    <2>2. ToSet(Filter(ready, old)) = {ready[k] : k \in old}
      BY <1>3, <1>6, FilterMembers
    <2> QED
      BY <1>2, <1>7, <2>1, <2>2
  <1> QED
    BY <1>5, <1>6, <1>8 DEF ready

(* The identifiers of a list are integers, one at every position. *)
LEMMA IdentifiersAt ==
  ASSUME NEW seq \in Seq(RetentionEntry)
  PROVE  /\ Identifiers(seq) \in Seq(Int) /\ Len(Identifiers(seq)) = Len(seq)
         /\ \A n \in 1..Len(seq) : Identifiers(seq)[n] = seq[n].identifier
  <1>1. /\ Len(seq) \in Nat /\ DOMAIN seq = 1..Len(seq)
        /\ \A n \in 1..Len(seq) : seq[n] \in RetentionEntry
    OBVIOUS
  <1>2. \A n \in 1..Len(seq) : seq[n].identifier \in Int
    BY <1>1 DEF RetentionEntry
  <1> QED
    BY <1>1, <1>2 DEF Identifiers

(* The identifiers of a list, and of two lists one after the other. *)
LEMMA IdentifiersOfLists ==
  ASSUME NEW s \in Seq(RetentionEntry), NEW t \in Seq(RetentionEntry)
  PROVE  /\ ToSet(Identifiers(s)) = {e.identifier : e \in ToSet(s)}
         /\ s \o t \in Seq(RetentionEntry)
         /\ ToSet(s \o t) = ToSet(s) \cup ToSet(t)
  <1>1. ToSet(Identifiers(s)) = {e.identifier : e \in ToSet(s)}
    BY DEF Identifiers, ToSet
  <1>2. s \o t \in Seq(RetentionEntry)
    OBVIOUS
  <1>3. ASSUME NEW e \in ToSet(s \o t)
        PROVE  e \in ToSet(s) \cup ToSet(t)
    <2>1. PICK n \in 1..Len(s \o t) : e = (s \o t)[n]
      BY <1>2, MembersOfList
    <2>2. CASE n <= Len(s)
      <3>1. n \in 1..Len(s) /\ e = s[n]
        BY <2>1, <2>2
      <3> QED
        BY <3>1, MembersOfList
    <2>3. CASE n > Len(s)
      <3>1. n - Len(s) \in 1..Len(t) /\ e = t[n - Len(s)]
        BY <2>1, <2>3
      <3> QED
        BY <3>1, MembersOfList
    <2> QED
      BY <2>1, <2>2, <2>3
  <1>4. ASSUME NEW e \in ToSet(s)
        PROVE  e \in ToSet(s \o t)
    <2>1. PICK n \in 1..Len(s) : e = s[n]
      BY MembersOfList
    <2>2. n \in 1..Len(s \o t) /\ (s \o t)[n] = e
      BY <2>1
    <2> QED
      BY <1>2, <2>2, MembersOfList
  <1>5. ASSUME NEW e \in ToSet(t)
        PROVE  e \in ToSet(s \o t)
    <2>1. PICK n \in 1..Len(t) : e = t[n]
      BY MembersOfList
    <2>2. n + Len(s) \in 1..Len(s \o t) /\ (s \o t)[n + Len(s)] = e
      BY <2>1
    <2> QED
      BY <1>2, <2>2, MembersOfList
  <1> QED
    BY <1>1, <1>2, <1>3, <1>4, <1>5

(* What must go, and the candidates for staying: of every other identifier *)
(* the oldest entry, oldest first.                                         *)
LEMMA CandidatesAreTheRest ==
  ASSUME NEW entries \in Seq(RetentionEntry), NEW now
  PROVE  LET candidates == RetainedCandidates(now, entries)
             mandatory == Mandatory(now, entries)
         IN  /\ mandatory = {e.identifier : e \in {d \in ToSet(entries) :
                                d.phase # "ready" \/ IsExpired(d, now)}}
             /\ candidates \in Seq(RetentionEntry)
             /\ IsOrdered(candidates)
             /\ \A m, n \in 1..Len(candidates) :
                   m # n => candidates[m].identifier # candidates[n].identifier
             /\ \A n \in 1..Len(candidates) :
                   /\ candidates[n] \in ToSet(entries)
                   /\ candidates[n].identifier \notin mandatory
                   /\ \A e \in ToSet(entries) : e.identifier = candidates[n].identifier =>
                         candidates[n].createdAt <= e.createdAt
             /\ \A e \in ToSet(entries) : e.identifier \notin mandatory =>
                   \E n \in 1..Len(candidates) : candidates[n].identifier = e.identifier
  <1> DEFINE candidates == RetainedCandidates(now, entries)
             mandatory == Mandatory(now, entries)
             ready == ReadyEntries(entries)
             rest == {k \in DOMAIN ready : ready[k].identifier \notin mandatory}
             list == Filter(ready, rest)
  <1>1. mandatory = {e.identifier : e \in {d \in ToSet(entries) :
                                d.phase # "ready" \/ IsExpired(d, now)}}
    <2>1. /\ ToSet(PartialOrFailed(entries)) = {e \in ToSet(entries) : e.phase # "ready"}
          /\ ToSet(ExpiredEntries(now, entries)) =
               {e \in ToSet(entries) : e.phase = "ready" /\ IsExpired(e, now)}
          /\ PartialOrFailed(entries) \in Seq(RetentionEntry)
          /\ ExpiredEntries(now, entries) \in Seq(RetentionEntry)
      BY ListsByPhase
    <2>2. mandatory = {e.identifier : e \in ToSet(PartialOrFailed(entries))
                                              \cup ToSet(ExpiredEntries(now, entries))}
      <3> DEFINE both == PartialOrFailed(entries) \o ExpiredEntries(now, entries)
      <3>1. /\ both \in Seq(RetentionEntry)
            /\ ToSet(both) = ToSet(PartialOrFailed(entries)) \cup ToSet(ExpiredEntries(now, entries))
        BY <2>1, IdentifiersOfLists
      <3>2. mandatory = ToSet(Identifiers(both))
        BY DEF Mandatory
      <3> HIDE DEF both, mandatory
      <3>3. ToSet(Identifiers(both)) = {e.identifier : e \in ToSet(both)}
        BY <3>1, IdentifiersOfLists
      <3> QED
        BY <3>1, <3>2, <3>3
    <2> QED
      BY <2>1, <2>2
  <1> HIDE DEF mandatory
  <1>2. /\ ready \in Seq(RetentionEntry) /\ IsOrdered(ready)
        /\ ToSet(ready) = {e \in ToSet(entries) : e.phase = "ready"}
    BY ListsByPhase
  <1> HIDE DEF ready
  <1>3. /\ list \in Seq(RetentionEntry) /\ IsOrdered(list)
        /\ ToSet(list) = {ready[k] : k \in rest}
    <2>1. rest \in SUBSET DOMAIN ready
      OBVIOUS
    <2> HIDE DEF rest
    <2>2. Filter(ready, rest) \in Seq(RetentionEntry) /\ IsOrdered(Filter(ready, rest))
      BY <1>2, <2>1, FilterSelects
    <2>3. ToSet(Filter(ready, rest)) = {ready[k] : k \in rest}
      BY <1>2, <2>1, FilterMembers
    <2> QED
      BY <2>2, <2>3
  <1>4. ToSet(list) = {e \in ToSet(entries) : e.identifier \notin mandatory}
    <2>1. ToSet(ready) = {ready[k] : k \in DOMAIN ready}
      BY DEF ToSet
    <2>2. \A e \in ToSet(entries) : e.identifier \notin mandatory => e.phase = "ready"
      BY <1>1
    <2> QED
      BY <1>2, <1>3, <2>1, <2>2
  <1>5. candidates = FirstOfEach(list)
    BY DEF RetainedCandidates, mandatory, ready
  <1> HIDE DEF list, candidates, rest
  <1>6. /\ candidates \in Seq(RetentionEntry)
        /\ \A n \in 1..Len(candidates) : \E k \in 1..Len(list) :
               /\ candidates[n] = list[k]
               /\ \A l \in 1..(k - 1) : list[l].identifier # list[k].identifier
        /\ \A k \in 1..Len(list) : \E n \in 1..Len(candidates) :
               candidates[n].identifier = list[k].identifier
        /\ \A m, n \in 1..Len(candidates) :
               m # n => candidates[m].identifier # candidates[n].identifier
        /\ IsOrdered(candidates)
    <2> DEFINE firsts == FirstOfEach(list)
    <2>1. /\ firsts \in Seq(RetentionEntry)
          /\ \A n \in 1..Len(firsts) : \E k \in 1..Len(list) :
                /\ firsts[n] = list[k]
                /\ \A l \in 1..(k - 1) : list[l].identifier # list[k].identifier
          /\ \A k \in 1..Len(list) : \E n \in 1..Len(firsts) :
                firsts[n].identifier = list[k].identifier
          /\ \A m, n \in 1..Len(firsts) : m # n => firsts[m].identifier # firsts[n].identifier
          /\ IsOrdered(firsts)
      BY <1>3, FirstOfEachSelects
    <2> HIDE DEF firsts
    <2>2. candidates = firsts
      BY <1>5 DEF firsts
    <2> QED
      BY <2>1, <2>2
  <1>7. /\ Len(list) \in Nat
        /\ \A k \in 1..Len(list) : list[k] \in ToSet(list)
        /\ \A e \in ToSet(list) : e \in RetentionEntry /\ \E k \in 1..Len(list) : e = list[k]
    BY <1>3, MembersOfList
  <1>8. ASSUME NEW n \in 1..Len(candidates)
        PROVE  /\ candidates[n] \in ToSet(entries)
               /\ candidates[n].identifier \notin mandatory
               /\ \A e \in ToSet(entries) : e.identifier = candidates[n].identifier =>
                     candidates[n].createdAt <= e.createdAt
    <2>1. PICK k \in 1..Len(list) :
             /\ candidates[n] = list[k]
             /\ \A l \in 1..(k - 1) : list[l].identifier # list[k].identifier
      BY <1>6
    <2>2. list[k] \in ToSet(list)
      BY <1>7
    <2>3. ASSUME NEW e \in ToSet(entries), e.identifier = list[k].identifier
          PROVE  list[k].createdAt <= e.createdAt
      <3>1. PICK l \in 1..Len(list) : e = list[l]
        BY <1>4, <1>7, <2>2, <2>3
      <3>2. l \notin 1..(k - 1)
        BY <2>1, <2>3, <3>1
      <3>3. list[k] \in RetentionEntry /\ list[l] \in RetentionEntry
        BY <1>7
      <3>4. list[k].createdAt \in Int /\ list[l].createdAt \in Int
        BY <3>3 DEF RetentionEntry
      <3>5. CASE k = l
        BY <3>1, <3>4, <3>5
      <3>6. CASE k < l
        <4>1. ~Precedes(list[l], list[k])
          BY <1>3, <3>6 DEF IsOrdered
        <4> QED
          BY <3>1, <3>4, <4>1 DEF Precedes
      <3> QED
        BY <1>7, <3>2, <3>5, <3>6
    <2> QED
      BY <1>4, <2>1, <2>2, <2>3
  <1>9. ASSUME NEW e \in ToSet(entries), e.identifier \notin mandatory
        PROVE  \E n \in 1..Len(candidates) : candidates[n].identifier = e.identifier
    <2>1. e \in ToSet(list)
      BY <1>4, <1>9
    <2>2. PICK k \in 1..Len(list) : e = list[k]
      BY <1>7, <2>1
    <2>3. PICK n \in 1..Len(candidates) : candidates[n].identifier = list[k].identifier
      BY <1>6
    <2> QED
      BY <2>2, <2>3
  <1> QED
    BY <1>1, <1>6, <1>8, <1>9 DEF mandatory, candidates

(* A list without repetitions has as many members as it is long. *)
LEMMA MembersOfDistinct ==
  ASSUME NEW S, NEW seq \in Seq(S),
         \A m, n \in 1..Len(seq) : m # n => seq[m] # seq[n]
  PROVE  Cardinality(ToSet(seq)) = Len(seq)
  <1> DEFINE P == 1..Len(seq)
             M == ToSet(seq)
             f == [n \in P |-> seq[n]]
  <1>1. /\ Len(seq) \in Nat
        /\ \A n \in P : seq[n] \in M
        /\ \A e \in M : \E n \in P : e = seq[n]
    BY MembersOfList
  <1>2. IsFiniteSet(P) /\ Cardinality(P) = Len(seq)
    <2>1. IsFiniteSet(P) /\ Cardinality(P) = IF 1 > Len(seq) THEN 0 ELSE Len(seq) - 1 + 1
      BY <1>1, FS_Interval
    <2> QED
      BY <1>1, <2>1
  <1>3. f \in Bijection(P, M)
    <2>1. f \in [P -> M] /\ \A n \in P : f[n] = seq[n]
      BY <1>1
    <2>2. ASSUME NEW m \in P, NEW n \in P, f[m] = f[n]
          PROVE  m = n
      BY <2>2
    <2> HIDE DEF f, M, P
    <2>3. \A e \in M : \E n \in P : f[n] = e
      BY <1>1, <2>1
    <2>4. f \in Injection(P, M)
      BY <2>1, <2>2, Fun_IsInj
    <2>5. f \in Surjection(P, M)
      BY <2>1, <2>3, Fun_IsSurj
    <2> QED
      BY <2>4, <2>5 DEF Bijection
  <1> HIDE DEF f, M
  <1>4. IsFiniteSet(M) /\ Cardinality(M) = Cardinality(P)
    <2> HIDE DEF P
    <2> QED
      BY <1>2, <1>3, FS_Bijection DEF ExistsBijection
  <1> QED
    BY <1>2, <1>4 DEF M

(* list enumerates D, and the members after the m-th are those in after.   *)
ListsInOrder(list, S, after) ==
    /\ list \in Seq(S)
    /\ \A m, n \in 1..Len(list) : list[n] \in after[list[m]] <=> m < n
    /\ \A m \in 1..Len(list) : \A e \in after[list[m]] : \E n \in 1..Len(list) : e = list[n]

(* Then there are as many of them as positions after the m-th. *)
LEMMA CountAfter ==
  ASSUME NEW list, NEW S, NEW after, ListsInOrder(list, S, after), NEW m \in 1..Len(list)
  PROVE  Cardinality(after[list[m]]) = Len(list) - m
  <1> DEFINE P == (m + 1)..Len(list)
             T == after[list[m]]
             f == [n \in P |-> list[n]]
  <1> USE DEF ListsInOrder
  <1>1. Len(list) \in Nat /\ m \in Nat /\ m >= 1 /\ m <= Len(list)
    OBVIOUS
  <1>2. IsFiniteSet(P) /\ Cardinality(P) = Len(list) - m
    <2> DEFINE first == m + 1
    <2>1. first \in Int /\ Len(list) \in Int
      BY <1>1
    <2> HIDE DEF first
    <2>2. /\ IsFiniteSet(first..Len(list))
          /\ Cardinality(first..Len(list)) =
                IF first > Len(list) THEN 0 ELSE Len(list) - first + 1
      BY <2>1, FS_Interval
    <2> USE DEF first
    <2> QED
      BY <1>1, <2>2
  <1>3. \A n \in P : n \in 1..Len(list) /\ m < n
    BY <1>1
  <1>4. f \in [P -> T] /\ \A n \in P : f[n] = list[n]
    BY <1>1, <1>3
  <1>5. ASSUME NEW i \in P, NEW j \in P, f[i] = f[j]
        PROVE  i = j
    <2>1. list[i] = list[j] /\ i \in 1..Len(list) /\ j \in 1..Len(list)
      BY <1>3, <1>5
    <2>2. i < j => list[j] \in after[list[i]]
      BY <2>1
    <2>3. ~(i < j) /\ ~(j < i)
      <3>1. /\ list[i] \in after[list[i]] <=> i < i
            /\ list[j] \in after[list[j]] <=> j < j
            /\ list[j] \in after[list[i]] <=> i < j
            /\ list[i] \in after[list[j]] <=> j < i
        BY <2>1
      <3> QED
        BY <2>1, <3>1
    <2> QED
      BY <2>1, <2>3
  <1>6. ASSUME NEW e \in T
        PROVE  \E n \in P : f[n] = e
    <2>1. PICK n \in 1..Len(list) : e = list[n]
      OBVIOUS
    <2>2. m < n
      BY <2>1
    <2> QED
      BY <1>1, <2>1, <2>2
  <1>7. f \in Bijection(P, T)
    <2> HIDE DEF f, T, P, ListsInOrder
    <2>1. f \in Injection(P, T)
      BY <1>4, <1>5, Fun_IsInj
    <2>2. f \in Surjection(P, T)
      BY <1>4, <1>6, Fun_IsSurj
    <2> QED
      BY <2>1, <2>2 DEF Bijection
  <1>8. Cardinality(T) = Cardinality(P)
    <2> HIDE DEF f, T, P, ListsInOrder
    <2> QED
      BY <1>2, <1>7, FS_Bijection DEF ExistsBijection
  <1> QED
    BY <1>2, <1>8

(* The rule seen from the lists: what the code must delete is what the     *)
(* rule calls unfinished or expired, the candidates are the rest, and they *)
(* stand in the order the rule counts in.                                  *)
LEMMA CandidatesFollowTheRule ==
  ASSUME NEW entries \in Seq(RetentionEntry), NEW now \in Int
  PROVE  LET createdAt == CreatedAt(entries)
             ids == Identifiers(RetainedCandidates(now, entries))
         IN  /\ Mandatory(now, entries) = Unfinished(entries) \cup Expired(now, createdAt)
             /\ ids \in Seq(Int) /\ Len(ids) = Len(RetainedCandidates(now, entries))
             /\ DOMAIN createdAt \ Expired(now, createdAt) = {ids[n] : n \in 1..Len(ids)}
             /\ \A m, n \in 1..Len(ids) : Older(createdAt, ids[m], ids[n]) <=> m < n
  <1> DEFINE createdAt == CreatedAt(entries)
             candidates == RetainedCandidates(now, entries)
             ids == Identifiers(candidates)
             mandatory == Mandatory(now, entries)
  <1>1. /\ DOMAIN createdAt = {e.identifier : e \in ToSet(entries)} \ Unfinished(entries)
        /\ \A i \in DOMAIN createdAt :
              /\ \E e \in ToSet(entries) : e.identifier = i /\ e.createdAt = createdAt[i]
              /\ \A e \in ToSet(entries) : e.identifier = i => createdAt[i] <= e.createdAt
    BY CreatedAtIsOldest
  <1> HIDE DEF createdAt
  <1>2. /\ mandatory = {e.identifier : e \in {d \in ToSet(entries) :
                            d.phase # "ready" \/ IsExpired(d, now)}}
        /\ candidates \in Seq(RetentionEntry)
        /\ IsOrdered(candidates)
        /\ \A m, n \in 1..Len(candidates) :
              m # n => candidates[m].identifier # candidates[n].identifier
        /\ \A n \in 1..Len(candidates) :
              /\ candidates[n] \in ToSet(entries)
              /\ candidates[n].identifier \notin mandatory
              /\ \A e \in ToSet(entries) : e.identifier = candidates[n].identifier =>
                    candidates[n].createdAt <= e.createdAt
        /\ \A e \in ToSet(entries) : e.identifier \notin mandatory =>
              \E n \in 1..Len(candidates) : candidates[n].identifier = e.identifier
    BY CandidatesAreTheRest
  <1> HIDE DEF candidates, mandatory
  <1>3. \A e \in ToSet(entries) : e.createdAt \in Int /\ e.identifier \in Int
    <2>1. \A e \in ToSet(entries) : e \in RetentionEntry
      BY MembersOfList
    <2> QED
      BY <2>1 DEF RetentionEntry
  <1>4. Unfinished(entries) = {e.identifier : e \in {d \in ToSet(entries) : d.phase # "ready"}}
    BY DEF Unfinished, ToSet
  <1>5. \A i \in DOMAIN createdAt : createdAt[i] \in Int
    BY <1>1, <1>3
  <1>6. ASSUME NEW i \in Expired(now, createdAt)
        PROVE  i \in mandatory
    <2>1. i \in DOMAIN createdAt /\ now - createdAt[i] >= RetentionAge
      BY DEF Expired
    <2>2. PICK e \in ToSet(entries) : e.identifier = i /\ e.createdAt = createdAt[i]
      BY <1>1, <2>1
    <2>3. IsExpired(e, now)
      BY <2>1, <2>2 DEF IsExpired, AgeOf
    <2> QED
      BY <1>2, <2>2, <2>3
  <1>7. ASSUME NEW e \in ToSet(entries), IsExpired(e, now), e.identifier \notin Unfinished(entries)
        PROVE  e.identifier \in Expired(now, createdAt)
    <2>1. e.identifier \in DOMAIN createdAt
      BY <1>1, <1>7
    <2>2. createdAt[e.identifier] <= e.createdAt /\ now - e.createdAt >= RetentionAge
      BY <1>1, <1>7, <2>1 DEF IsExpired, AgeOf
    <2>3. createdAt[e.identifier] \in Int /\ e.createdAt \in Int /\ RetentionAge \in Int
      BY <1>3, <1>5, <2>1 DEF RetentionAssumption
    <2>4. now - createdAt[e.identifier] >= RetentionAge
      BY <2>2, <2>3
    <2> QED
      BY <2>1, <2>4 DEF Expired
  <1>8. mandatory = Unfinished(entries) \cup Expired(now, createdAt)
    BY <1>2, <1>4, <1>6, <1>7
  <1>9. /\ ids \in Seq(Int) /\ Len(ids) = Len(candidates) /\ Len(ids) \in Nat
        /\ \A n \in 1..Len(candidates) : ids[n] = candidates[n].identifier
    BY <1>2, IdentifiersAt
  <1> HIDE DEF ids
  <1>10. ASSUME NEW n \in 1..Len(ids)
         PROVE  /\ ids[n] \in DOMAIN createdAt \ Expired(now, createdAt)
                /\ createdAt[ids[n]] = candidates[n].createdAt
                /\ candidates[n].createdAt \in Int /\ ids[n] \in Int
    <2>1. /\ candidates[n] \in ToSet(entries) /\ ids[n] = candidates[n].identifier
          /\ ids[n] \notin mandatory
          /\ \A e \in ToSet(entries) : e.identifier = ids[n] =>
                candidates[n].createdAt <= e.createdAt
      BY <1>2, <1>9
    <2>2. ids[n] \in DOMAIN createdAt \ Expired(now, createdAt)
      BY <1>1, <1>8, <2>1
    <2>3. PICK e \in ToSet(entries) : e.identifier = ids[n] /\ e.createdAt = createdAt[ids[n]]
      BY <1>1, <2>2
    <2>4. createdAt[ids[n]] <= candidates[n].createdAt /\ candidates[n].createdAt <= e.createdAt
      BY <1>1, <2>1, <2>2, <2>3
    <2> QED
      BY <1>3, <2>1, <2>2, <2>3, <2>4
  <1>11. ASSUME NEW i \in DOMAIN createdAt \ Expired(now, createdAt)
         PROVE  \E n \in 1..Len(ids) : i = ids[n]
    <2>1. PICK e \in ToSet(entries) : e.identifier = i
      BY <1>1
    <2>2. i \notin mandatory
      BY <1>1, <1>8
    <2>3. PICK n \in 1..Len(candidates) : candidates[n].identifier = i
      BY <1>2, <2>1, <2>2
    <2> QED
      BY <1>9, <2>3
  <1>12. DOMAIN createdAt \ Expired(now, createdAt) = {ids[n] : n \in 1..Len(ids)}
    BY <1>10, <1>11
  <1>13. ASSUME NEW m \in 1..Len(ids), NEW n \in 1..Len(ids), m < n
         PROVE  Older(createdAt, ids[m], ids[n])
    <2>1. ~Precedes(candidates[n], candidates[m])
      BY <1>2, <1>9, <1>13 DEF IsOrdered
    <2>2. ids[m] # ids[n] /\ ids[m] = candidates[m].identifier /\ ids[n] = candidates[n].identifier
      BY <1>2, <1>9, <1>13
    <2> QED
      BY <1>10, <2>1, <2>2 DEF Older, Precedes
  <1>14. ASSUME NEW m \in 1..Len(ids), NEW n \in 1..Len(ids), Older(createdAt, ids[m], ids[n])
         PROVE  m < n
    <2>1. /\ createdAt[ids[m]] \in Int /\ createdAt[ids[n]] \in Int
          /\ ids[m] \in Int /\ ids[n] \in Int
      BY <1>10
    <2>2. ~Older(createdAt, ids[n], ids[m]) /\ m # n
      BY <1>14, <2>1 DEF Older
    <2> QED
      BY <1>9, <1>13, <2>2
  <1> QED
    BY <1>8, <1>9, <1>12, <1>13, <1>14 DEF ids, candidates, createdAt, mandatory

(* The number of candidates over the limit, the oldest of which go. *)
OverLimitCount(now, entries) ==
    IF Len(RetainedCandidates(now, entries)) > MaxReady
    THEN Len(RetainedCandidates(now, entries)) - MaxReady ELSE 0

(* They are those the rule finds over the limit. *)
LEMMA OverLimitIsAPrefix ==
  ASSUME NEW entries \in Seq(RetentionEntry), NEW now \in Int
  PROVE  LET ids == Identifiers(RetainedCandidates(now, entries))
         IN  /\ OverLimit(now, CreatedAt(entries)) =
                   {ids[n] : n \in 1..OverLimitCount(now, entries)}
             /\ OverLimitCount(now, entries) \in 0..Len(ids)
  <1> DEFINE createdAt == CreatedAt(entries)
             ids == Identifiers(RetainedCandidates(now, entries))
             rest == DOMAIN createdAt \ Expired(now, createdAt)
             after == [i \in rest |-> {j \in rest : Older(createdAt, i, j)}]
             count == OverLimitCount(now, entries)
  <1>1. /\ ids \in Seq(Int) /\ Len(ids) = Len(RetainedCandidates(now, entries))
        /\ rest = {ids[n] : n \in 1..Len(ids)}
        /\ \A m, n \in 1..Len(ids) : Older(createdAt, ids[m], ids[n]) <=> m < n
    BY CandidatesFollowTheRule
  <1> HIDE DEF ids, rest, createdAt
  <1>2. \A n \in 1..Len(ids) : ids[n] \in rest
    BY <1>1
  <1>3. ListsInOrder(ids, Int, after)
    <2>1. \A m \in 1..Len(ids) : after[ids[m]] = {j \in rest : Older(createdAt, ids[m], j)}
      BY <1>2
    <2>2. \A m, n \in 1..Len(ids) : ids[n] \in after[ids[m]] <=> m < n
      BY <1>1, <1>2, <2>1
    <2>3. \A m \in 1..Len(ids) : \A e \in after[ids[m]] : \E n \in 1..Len(ids) : e = ids[n]
      BY <1>1, <2>1
    <2> HIDE DEF after
    <2> QED
      BY <1>1, <2>2, <2>3 DEF ListsInOrder
  <1>4. \A n \in 1..Len(ids) : Cardinality(after[ids[n]]) = Len(ids) - n
    <2> HIDE DEF after
    <2> QED
      BY <1>3, CountAfter
  <1>5. count = (IF Len(ids) > MaxReady THEN Len(ids) - MaxReady ELSE 0)
        /\ Len(ids) \in Nat /\ MaxReady \in Nat
    BY <1>1 DEF OverLimitCount, RetentionAssumption
  <1> HIDE DEF count
  <1>6. \A n \in 1..Len(ids) : n <= count <=> Len(ids) - n >= MaxReady
    BY <1>5
  <1>7. count \in 0..Len(ids)
    BY <1>5
  <1>8. OverLimit(now, createdAt) = {i \in rest : Cardinality(after[i]) >= MaxReady}
    BY DEF OverLimit, rest
  <1> HIDE DEF after
  <1>9. ASSUME NEW i \in rest, Cardinality(after[i]) >= MaxReady
        PROVE  \E n \in 1..count : i = ids[n]
    <2>1. PICK n \in 1..Len(ids) : i = ids[n]
      BY <1>1
    <2>2. n <= count
      BY <1>4, <1>6, <1>9, <2>1
    <2> QED
      BY <1>7, <2>1, <2>2
  <1>10. ASSUME NEW n \in 1..count
         PROVE  ids[n] \in rest /\ Cardinality(after[ids[n]]) >= MaxReady
    <2>1. n \in 1..Len(ids) /\ n <= count
      BY <1>7
    <2> QED
      BY <1>2, <1>4, <1>6, <2>1
  <1>11. OverLimit(now, createdAt) = {ids[n] : n \in 1..count}
    BY <1>8, <1>9, <1>10
  <1> QED
    BY <1>7, <1>11 DEF ids, count, createdAt

(* The identifiers the policy returns: those of the three lists, each once. *)
LEMMA DeletedIdentifiers ==
  ASSUME NEW entries \in Seq(RetentionEntry), NEW now \in Int
  PROVE  LET deleted == IdentifiersToDelete(now, entries)
             ids == Identifiers(RetainedCandidates(now, entries))
         IN  /\ ToSet(deleted) = Mandatory(now, entries)
                   \cup {ids[n] : n \in 1..OverLimitCount(now, entries)}
             /\ Cardinality(ToSet(deleted)) = Len(deleted)
  <1> DEFINE deleted == IdentifiersToDelete(now, entries)
             candidates == RetainedCandidates(now, entries)
             ids == Identifiers(candidates)
             count == OverLimitCount(now, entries)
             failed == PartialOrFailed(entries)
             expired == ExpiredEntries(now, entries)
             must == failed \o expired
             overLimit == SubSeq(candidates, 1, count)
             all == must \o overLimit
             firsts == FirstOfEach(all)
  <1>1. deleted = Identifiers(firsts)
    BY DEF IdentifiersToDelete, PartialOrFailed, ReadyEntries, ExpiredEntries, Mandatory,
           RetainedCandidates, OverLimitCount
  <1>2. failed \in Seq(RetentionEntry) /\ expired \in Seq(RetentionEntry)
    BY ListsByPhase
  <1>3. candidates \in Seq(RetentionEntry)
    BY CandidatesAreTheRest
  <1>4. count \in 0..Len(ids)
    BY OverLimitIsAPrefix
  <1>5. ToSet(Identifiers(must)) = Mandatory(now, entries)
    BY DEF Mandatory
  <1> HIDE DEF deleted, candidates, count, failed, expired
  <1>6. must \in Seq(RetentionEntry)
    BY <1>2
  <1>7. Len(ids) = Len(candidates) /\ \A n \in 1..Len(candidates) : ids[n] = candidates[n].identifier
    BY <1>3, IdentifiersAt
  <1>8. /\ overLimit \in Seq(RetentionEntry)
        /\ Len(overLimit) = count /\ count \in Nat
        /\ \A n \in 1..count : overLimit[n] = candidates[n]
    BY <1>3, <1>4, <1>7
  <1> HIDE DEF must, overLimit
  <1>9. ToSet(Identifiers(overLimit)) = {ids[n] : n \in 1..count}
    <2>1. \A n \in 1..count : ids[n] = candidates[n].identifier
      BY <1>4, <1>7
    <2>2. ToSet(Identifiers(overLimit)) = {overLimit[n].identifier : n \in 1..count}
      BY <1>8 DEF Identifiers, ToSet
    <2> QED
      BY <1>8, <2>1, <2>2
  <1>10. all \in Seq(RetentionEntry) /\ ToSet(all) = ToSet(must) \cup ToSet(overLimit)
    BY <1>6, <1>8, IdentifiersOfLists
  <1>11. /\ ToSet(Identifiers(must)) = {e.identifier : e \in ToSet(must)}
         /\ ToSet(Identifiers(overLimit)) = {e.identifier : e \in ToSet(overLimit)}
    BY <1>6, <1>8, IdentifiersOfLists
  <1> HIDE DEF all
  <1>12. /\ firsts \in Seq(RetentionEntry)
         /\ \A n \in 1..Len(firsts) : \E k \in 1..Len(all) : firsts[n] = all[k]
         /\ \A k \in 1..Len(all) : \E n \in 1..Len(firsts) : firsts[n].identifier = all[k].identifier
         /\ \A m, n \in 1..Len(firsts) : m # n => firsts[m].identifier # firsts[n].identifier
    BY <1>10, FirstOfEachSelects
  <1> HIDE DEF firsts
  <1>13. /\ deleted \in Seq(Int) /\ Len(deleted) = Len(firsts)
         /\ \A n \in 1..Len(firsts) : deleted[n] = firsts[n].identifier
    <2>1. /\ Identifiers(firsts) \in Seq(Int) /\ Len(Identifiers(firsts)) = Len(firsts)
          /\ \A n \in 1..Len(firsts) : Identifiers(firsts)[n] = firsts[n].identifier
      BY <1>12, IdentifiersAt
    <2> QED
      BY <1>1, <2>1
  <1>14. ASSUME NEW i \in ToSet(deleted)
         PROVE  \E e \in ToSet(all) : i = e.identifier
    <2>1. PICK n \in 1..Len(deleted) : i = deleted[n]
      BY <1>13, MembersOfList
    <2>2. PICK k \in 1..Len(all) : firsts[n] = all[k]
      BY <1>12, <1>13
    <2>3. all[k] \in ToSet(all)
      BY <1>10, MembersOfList
    <2> QED
      BY <1>13, <2>1, <2>2, <2>3
  <1>15. ASSUME NEW e \in ToSet(all)
         PROVE  e.identifier \in ToSet(deleted)
    <2>1. PICK k \in 1..Len(all) : e = all[k]
      BY <1>10, MembersOfList
    <2>2. PICK n \in 1..Len(firsts) : firsts[n].identifier = all[k].identifier
      BY <1>12
    <2>3. deleted[n] \in ToSet(deleted)
      BY <1>13, MembersOfList
    <2> QED
      BY <1>13, <2>1, <2>2, <2>3
  <1>16. ToSet(deleted) = {e.identifier : e \in ToSet(all)}
    BY <1>14, <1>15
  <1>17. ToSet(deleted) = Mandatory(now, entries) \cup {ids[n] : n \in 1..count}
    <2>1. ToSet(deleted) = {e.identifier : e \in ToSet(must)} \cup {e.identifier : e \in ToSet(overLimit)}
      BY <1>10, <1>16
    <2> QED
      BY <1>5, <1>9, <1>11, <2>1
  <1>18. Cardinality(ToSet(deleted)) = Len(deleted)
    <2>1. \A m, n \in 1..Len(deleted) : m # n => deleted[m] # deleted[n]
      BY <1>12, <1>13
    <2> QED
      BY <1>13, <2>1, MembersOfDistinct
  <1> QED
    BY <1>17, <1>18 DEF deleted, ids, candidates, count

(* identifiersToDelete is the rule, at every instant and for every list. *)
THEOREM PolicyIsTheRule ==
  \A now \in Int, entries \in Seq(RetentionEntry) : PolicyFollowsRule(now, entries)
  <1> SUFFICES ASSUME NEW now \in Int, NEW entries \in Seq(RetentionEntry)
               PROVE  PolicyFollowsRule(now, entries)
    OBVIOUS
  <1> DEFINE deleted == IdentifiersToDelete(now, entries)
             createdAt == CreatedAt(entries)
             over == LET ids == Identifiers(RetainedCandidates(now, entries))
                     IN  {ids[n] : n \in 1..OverLimitCount(now, entries)}
  <1>1. /\ ToSet(deleted) = Mandatory(now, entries) \cup over
        /\ Cardinality(ToSet(deleted)) = Len(deleted)
    BY DeletedIdentifiers
  <1>2. Mandatory(now, entries) = Unfinished(entries) \cup Expired(now, createdAt)
    BY CandidatesFollowTheRule
  <1>3. OverLimit(now, createdAt) = over
    BY OverLimitIsAPrefix
  <1> HIDE DEF over
  <1> QED
    BY <1>1, <1>2, <1>3 DEF PolicyFollowsRule, ToDelete

(* Whatever instants and lists the policy is applied to, it deletes what   *)
(* the rule says and nothing twice.                                        *)
THEOREM DeletionsFollowTheRule == Spec => []DeletesWhatTheRuleSays
  <1>1. ASSUME NEW now \in Now, NEW entries \in Lists
        PROVE  PolicyFollowsRule(now, entries)
    <2>1. now \in Int /\ entries \in Seq(RetentionEntry)
      BY ListsAssumption
    <2> QED
      BY <2>1, PolicyIsTheRule
  <1>2. DeletesWhatTheRuleSays
    BY <1>1 DEF DeletesWhatTheRuleSays
  <1> QED
    BY <1>2, PTL

(* What the rule keeps: nothing of the retention age, the newest of the    *)
(* rest, and of those as many as the limit allows.                         *)
THEOREM RuleKeepsTheNewest ==
  ASSUME NEW Ids \in SUBSET Int, IsFiniteSet(Ids), NEW createdAt \in [Ids -> Int], NEW now \in Int
  PROVE  LET rest == Ids \ Expired(now, createdAt)
             kept == Ids \ ToDelete(now, createdAt)
         IN  /\ Cardinality(kept) =
                   IF Cardinality(rest) > MaxReady THEN MaxReady ELSE Cardinality(rest)
             /\ \A i \in kept : now - createdAt[i] < RetentionAge
             /\ \A i \in kept, j \in OverLimit(now, createdAt) : Older(createdAt, j, i)
  <1> DEFINE rest == Ids \ Expired(now, createdAt)
             kept == Ids \ ToDelete(now, createdAt)
             newer == [i \in rest |-> {j \in rest : Older(createdAt, i, j)}]
             limit == IF Cardinality(rest) > MaxReady THEN MaxReady ELSE Cardinality(rest)
             ranks == 0..(limit - 1)
             rank == [i \in kept |-> Cardinality(newer[i])]
  <1>1. /\ IsFiniteSet(rest) /\ Cardinality(rest) \in Nat /\ rest \subseteq Ids
        /\ \A i \in rest : i \in Int /\ createdAt[i] \in Int
    <2>1. rest \in SUBSET Ids
      OBVIOUS
    <2>2. \A i \in Ids : i \in Int /\ createdAt[i] \in Int
      OBVIOUS
    <2> HIDE DEF rest
    <2>3. IsFiniteSet(rest) /\ Cardinality(rest) \in Nat
      BY <2>1, FS_Subset, FS_CardinalityType
    <2> QED
      BY <2>1, <2>2, <2>3
  <1>2. now - RetentionAge \in Int /\ MaxReady \in Nat
    BY DEF RetentionAssumption
  <1>3. \A i \in rest : now - createdAt[i] < RetentionAge
    BY <1>1, <1>2 DEF Expired
  <1>4. OverLimit(now, createdAt) =
          {i \in rest : Cardinality({j \in rest : Older(createdAt, i, j)}) >= MaxReady}
    BY DEF OverLimit
  <1>5. /\ kept \subseteq rest
        /\ OverLimit(now, createdAt) = {i \in rest : Cardinality(newer[i]) >= MaxReady}
        /\ kept = rest \ {i \in rest : Cardinality(newer[i]) >= MaxReady}
    <2>1. kept = rest \ OverLimit(now, createdAt)
      BY DEF ToDelete
    <2>2. \A i \in rest : newer[i] = {j \in rest : Older(createdAt, i, j)}
      OBVIOUS
    <2> HIDE DEF newer, rest, kept
    <2> QED
      BY <1>4, <2>1, <2>2
  <1> HIDE DEF rest, kept
  <1>6. IsOrder(rest, newer)
    <2>1. \A i, j, k \in rest : Older(createdAt, i, j) /\ Older(createdAt, j, k) => Older(createdAt, i, k)
      BY <1>1 DEF Older
    <2>2. \A i \in rest : ~Older(createdAt, i, i)
      BY <1>1 DEF Older
    <2>3. \A i, j \in rest : i # j => Older(createdAt, i, j) \/ Older(createdAt, j, i)
      BY <1>1 DEF Older
    <2> QED
      BY <1>1, <2>1, <2>2, <2>3 DEF IsOrder
  <1>7. \A i, j \in rest : j \in newer[i] <=> Older(createdAt, i, j)
    OBVIOUS
  <1> HIDE DEF newer
  <1>8. /\ \A i \in rest : Cardinality(newer[i]) \in 0..(Cardinality(rest) - 1)
        /\ \A i, j \in rest : i \in newer[j] <=> Cardinality(newer[i]) < Cardinality(newer[j])
        /\ \A n \in 1..Cardinality(rest) : \E i \in rest : Cardinality(newer[i]) = n - 1
    BY <1>6, RanksOfAnOrder
  <1>9. \A i \in kept, j \in OverLimit(now, createdAt) : Older(createdAt, j, i)
    <2> SUFFICES ASSUME NEW i \in kept, NEW j \in OverLimit(now, createdAt)
                 PROVE  Older(createdAt, j, i)
      OBVIOUS
    <2>1. /\ i \in rest /\ j \in rest
          /\ Cardinality(newer[j]) >= MaxReady /\ ~(Cardinality(newer[i]) >= MaxReady)
      BY <1>5
    <2>2. Cardinality(newer[i]) \in Int /\ Cardinality(newer[j]) \in Int
      BY <1>8, <2>1
    <2>3. Cardinality(newer[i]) < Cardinality(newer[j])
      BY <1>2, <2>1, <2>2
    <2> QED
      BY <1>7, <1>8, <2>1, <2>3
  <1>10. \A i \in kept : i \in rest /\ Cardinality(newer[i]) \in ranks
    <2> SUFFICES ASSUME NEW i \in kept
                 PROVE  i \in rest /\ Cardinality(newer[i]) \in ranks
      OBVIOUS
    <2>1. i \in rest /\ ~(Cardinality(newer[i]) >= MaxReady)
      BY <1>5
    <2>2. Cardinality(newer[i]) \in 0..(Cardinality(rest) - 1)
      BY <1>8, <2>1
    <2> QED
      BY <1>1, <1>2, <2>1, <2>2
  <1>11. \A n \in ranks : \E i \in kept : Cardinality(newer[i]) = n
    <2> SUFFICES ASSUME NEW n \in ranks
                 PROVE  \E i \in kept : Cardinality(newer[i]) = n
      OBVIOUS
    <2>1. n \in Nat /\ n + 1 \in 1..Cardinality(rest) /\ n < MaxReady /\ (n + 1) - 1 = n
      BY <1>1, <1>2
    <2>2. PICK i \in rest : Cardinality(newer[i]) = (n + 1) - 1
      BY <1>8, <2>1
    <2>3. i \in kept
      BY <1>2, <1>5, <2>1, <2>2
    <2> QED
      BY <2>1, <2>2, <2>3
  <1>12. rank \in Bijection(kept, ranks)
    <2>1. rank \in [kept -> ranks] /\ \A i \in kept : rank[i] = Cardinality(newer[i])
      BY <1>10
    <2> HIDE DEF rank, ranks
    <2>2. ASSUME NEW i \in kept, NEW j \in kept, rank[i] = rank[j]
          PROVE  i = j
      <3>1. i \in rest /\ j \in rest /\ Cardinality(newer[i]) = Cardinality(newer[j])
        BY <1>10, <2>1, <2>2
      <3>2. Cardinality(newer[i]) \in Int
        BY <1>8, <3>1
      <3>3. i \notin newer[j] /\ j \notin newer[i]
        BY <1>8, <3>1, <3>2
      <3> QED
        BY <1>6, <3>1, <3>3 DEF IsOrder
    <2>3. rank \in Injection(kept, ranks)
      BY <2>1, <2>2, Fun_IsInj
    <2>4. rank \in Surjection(kept, ranks)
      <3>1. \A n \in ranks : \E i \in kept : rank[i] = n
        BY <1>11, <2>1
      <3> QED
        BY <2>1, <3>1, Fun_IsSurj
    <2> QED
      BY <2>3, <2>4 DEF Bijection
  <1>13. limit \in Nat
    BY <1>1, <1>2
  <1>14. Cardinality(ranks) = limit
    <2> HIDE DEF limit
    <2>1. Cardinality(ranks) = IF 0 > limit - 1 THEN 0 ELSE (limit - 1) - 0 + 1
      BY <1>13, FS_Interval
    <2> QED
      BY <1>13, <2>1
  <1>15. Cardinality(kept) = Cardinality(ranks)
    <2> HIDE DEF ranks, rank
    <2>1. IsFiniteSet(kept)
      BY <1>1, <1>5, FS_Subset
    <2> QED
      BY <1>12, <2>1, FS_Bijection DEF ExistsBijection
  <1>16. \A i \in kept : now - createdAt[i] < RetentionAge
    BY <1>3, <1>5
  <1> QED
    BY <1>9, <1>14, <1>15, <1>16 DEF rest, kept

(* What identifiersToDelete leaves: at most the limit, everything ready    *)
(* and short of the retention age.                                         *)
THEOREM LimitsAreKept ==
  \A now \in Int, entries \in Seq(RetentionEntry) :
    LET left == ToSet(Identifiers(entries)) \ ToSet(IdentifiersToDelete(now, entries))
    IN  /\ Cardinality(left) <= MaxReady
        /\ \A e \in ToSet(entries) :
              e.identifier \in left => e.phase = "ready" /\ ~IsExpired(e, now)
  <1> SUFFICES ASSUME NEW now \in Int, NEW entries \in Seq(RetentionEntry)
               PROVE  LET left == ToSet(Identifiers(entries))
                                    \ ToSet(IdentifiersToDelete(now, entries))
                      IN  /\ Cardinality(left) <= MaxReady
                          /\ \A e \in ToSet(entries) :
                                e.identifier \in left => e.phase = "ready" /\ ~IsExpired(e, now)
    OBVIOUS
  <1> DEFINE createdAt == CreatedAt(entries)
             Ids == DOMAIN createdAt
             left == ToSet(Identifiers(entries)) \ ToSet(IdentifiersToDelete(now, entries))
  <1>1. ToSet(IdentifiersToDelete(now, entries)) =
          Unfinished(entries) \cup ToDelete(now, createdAt)
    BY PolicyIsTheRule DEF PolicyFollowsRule
  <1>2. Ids = ToSet(Identifiers(entries)) \ Unfinished(entries)
    BY DEF CreatedAt
  <1>3. /\ \A i \in Ids : \E e \in ToSet(entries) :
              e.identifier = i /\ e.createdAt = createdAt[i]
        /\ \A i \in Ids : \A e \in ToSet(entries) : e.identifier = i => createdAt[i] <= e.createdAt
    BY CreatedAtIsOldest
  <1>4. createdAt = [i \in Ids |-> createdAt[i]]
    BY DEF CreatedAt
  <1> HIDE DEF createdAt
  <1>5. left = Ids \ ToDelete(now, createdAt)
    BY <1>1, <1>2
  <1>6. \A e \in ToSet(entries) : e.identifier \in Int /\ e.createdAt \in Int
    <2>1. \A e \in ToSet(entries) : e \in RetentionEntry
      BY MembersOfList
    <2> QED
      BY <2>1 DEF RetentionEntry
  <1>7. Ids \in SUBSET Int /\ createdAt \in [Ids -> Int]
    BY <1>3, <1>4, <1>6
  <1>8. IsFiniteSet(Ids)
    <2> DEFINE seq == Identifiers(entries)
               positions == 1..Len(seq)
    <2>1. seq \in Seq(Int)
      BY IdentifiersAt
    <2> HIDE DEF seq
    <2>2. IsFiniteSet(positions)
      BY <2>1, FS_Interval
    <2>3. ToSet(seq) = {seq[n] : n \in positions}
      BY <2>1 DEF ToSet
    <2> HIDE DEF positions
    <2>4. IsFiniteSet(ToSet(seq))
      <3> DEFINE f == [n \in positions |-> seq[n]]
      <3>1. f \in Surjection(positions, ToSet(seq))
        <4>1. /\ f \in [positions -> ToSet(seq)]
              /\ \A e \in ToSet(seq) : \E n \in positions : f[n] = e
          BY <2>3
        <4> HIDE DEF f
        <4> QED
          BY <4>1, Fun_IsSurj
      <3> HIDE DEF f
      <3> QED
        BY <2>2, <3>1, FS_Surjection
    <2>5. Ids \in SUBSET ToSet(seq)
      BY <1>2 DEF seq
    <2> QED
      BY <2>4, <2>5, FS_Subset
  <1> HIDE DEF Ids
  <1>9. /\ Cardinality(left) =
              IF Cardinality(Ids \ Expired(now, createdAt)) > MaxReady
              THEN MaxReady ELSE Cardinality(Ids \ Expired(now, createdAt))
        /\ \A i \in left : now - createdAt[i] < RetentionAge
    BY <1>5, <1>7, <1>8, RuleKeepsTheNewest
  <1>10. Cardinality(left) <= MaxReady
    <2> DEFINE n == Cardinality(Ids \ Expired(now, createdAt))
    <2>1. n \in Nat
      <3> DEFINE rest == Ids \ Expired(now, createdAt)
      <3>1. rest \in SUBSET Ids
        OBVIOUS
      <3> HIDE DEF rest
      <3>2. IsFiniteSet(rest) /\ Cardinality(rest) \in Nat
        BY <1>8, <3>1, FS_Subset, FS_CardinalityType
      <3> QED
        BY <3>2 DEF rest
    <2>2. Cardinality(left) = IF n > MaxReady THEN MaxReady ELSE n
      BY <1>9
    <2> HIDE DEF n
    <2> QED
      BY <2>1, <2>2 DEF RetentionAssumption
  <1>11. ASSUME NEW e \in ToSet(entries), e.identifier \in left
         PROVE  e.phase = "ready" /\ ~IsExpired(e, now)
    <2>1. e.identifier \in Ids /\ now - createdAt[e.identifier] < RetentionAge
      BY <1>5, <1>9, <1>11
    <2>2. createdAt[e.identifier] <= e.createdAt /\ createdAt[e.identifier] \in Int
      BY <1>3, <1>7, <2>1 DEF Ids
    <2>3. now - e.createdAt < RetentionAge
      BY <1>6, <2>1, <2>2 DEF RetentionAssumption
    <2>4. e.phase = "ready"
      BY <1>2, <2>1 DEF Ids, Unfinished, ToSet
    <2> QED
      BY <1>6, <2>3, <2>4 DEF IsExpired, AgeOf, RetentionAssumption
  <1> QED
    BY <1>10, <1>11
================================================================================
