---------------------- MODULE MessagingRuntimeProofs ----------------------
(***************************************************************************)
(* Proofs about the parts of the messaging process that live in memory:    *)
(* the delivery scheduler (its round robin, its counter, its condition     *)
(* variable and what it promises) and the connections of devices, and      *)
(* about the submission of messages, for any number of devices, tasks,     *)
(* threads, users, connections and keys and any configuration.             *)
(***************************************************************************)
EXTENDS DeliveryScheduler, ConnectionLifecycle, MessageSubmission,
        FiniteSetTheorems, WellFoundedInduction, TLAPS

Last == Cardinality(Devices) - 1

\* The ring holds every active device once, so it is as long as the set is
\* large; a device that has no tasks has not been bypassed.
Bookkeeping ==
    /\ RingConsistent
    /\ Len(ring) = Cardinality(active)
    /\ \A d \in Devices : queues[d] = <<>> => bypassed[d] = 0

\* The bound of BypassBounded along the ring: what a device has already been
\* bypassed, and what can still go before it (a quantum of every device ahead,
\* less what the device in front has used of its own), fit in the bound.
Budget ==
    \A i \in 1 .. Len(ring) :
        bypassed[ring[i]] + (i - 1) * Quanta - (IF i = 1 THEN 0 ELSE consumed)
            <= Last * Quanta

RingInv == RingTypes /\ Bookkeeping /\ Budget
-----------------------------------------------------------------------------
(***************************************************************************)
(* Facts about numbers and cardinalities                                   *)
(***************************************************************************)

\* Moving up one place saves one quantum.
LEMMA OnePlaceUp ==
    ASSUME NEW i \in Int, NEW q \in Nat
    PROVE  (i - 1) * q = i * q - q
  BY SMT

\* The budget of a later place is larger.
LEMMA BudgetGrows ==
    ASSUME NEW i \in Int, NEW j \in Int, NEW q \in Nat, i <= j
    PROVE  i * q <= j * q
  BY SMT

\* The last place of a full ring is a natural number.
LEMMA LastType == Last \in Nat
<1>1. Cardinality(Devices) \in Nat BY DevicesAssumption, FS_CardinalityType
<1>2. Cardinality(Devices) # 0 BY DevicesAssumption, FS_EmptySet
<1> QED BY <1>1, <1>2 DEF Last

\* The quantum is a positive number.
LEMMA QuantaType == Quanta \in Nat /\ Quanta > 0
  BY ConfigAssumption, SMT

\* There are no more active devices than devices.
LEMMA ActiveSize ==
    ASSUME NEW S, S \subseteq Devices
    PROVE  /\ IsFiniteSet(S)
           /\ Cardinality(S) \in Nat
           /\ Cardinality(S) <= Last + 1
<1>1. IsFiniteSet(S) /\ Cardinality(S) <= Cardinality(Devices)
  BY DevicesAssumption, FS_Subset
<1>2. Cardinality(S) \in Nat /\ Cardinality(Devices) \in Nat
  BY <1>1, DevicesAssumption, FS_CardinalityType
<1> QED BY <1>1, <1>2 DEF Last
-----------------------------------------------------------------------------
(***************************************************************************)
(* Every operation keeps RingInv                                           *)
(***************************************************************************)

\* The empty scheduler satisfies the ring invariant.
LEMMA RingInit == Init => RingInv
<1> SUFFICES ASSUME Init PROVE RingInv OBVIOUS
<1>1. RingTypes BY DEF Init, RingTypes
<1>2. RingConsistent
  BY QuantaType
  DEF Init, RingConsistent, RingOnce, RingIsActive, ActiveHasTasks, TurnBounded
<1>3. Len(ring) = Cardinality(active) BY FS_EmptySet DEF Init
<1>4. Budget BY DEF Init, Budget
<1> QED BY <1>1, <1>2, <1>3, <1>4 DEF RingInv, Bookkeeping, Init

\* Steps that leave the ring, the set and the device queues alone.
LEMMA RingUnchanged ==
    ASSUME RingInv, UNCHANGED <<queues, ring, active, consumed, bypassed>>
    PROVE  RingInv'
<1>1. RingTypes' BY DEF RingInv, RingTypes
<1>2. RingOnce' /\ RingIsActive'
  BY DEF RingInv, Bookkeeping, RingConsistent, RingOnce, RingIsActive
<1>3. ActiveHasTasks' /\ TurnBounded'
  BY DEF RingInv, Bookkeeping, RingConsistent, ActiveHasTasks, TurnBounded
<1>4. Len(ring') = Cardinality(active') BY DEF RingInv, Bookkeeping
<1>5. \A d \in Devices : queues'[d] = <<>> => bypassed'[d] = 0 BY DEF RingInv, Bookkeeping
<1>6. Budget' BY DEF RingInv, Budget
<1> QED BY <1>1, <1>2, <1>3, <1>4, <1>5, <1>6
         DEF RingInv, Bookkeeping, RingConsistent

\* RingInv spelled out for the steps below.
LEMMA RingFacts ==
    ASSUME RingInv
    PROVE  /\ ring \in Seq(Devices) /\ Len(ring) \in Nat
           /\ queues \in [Devices -> Seq(Tasks \ Emergency)]
           /\ consumed \in Nat /\ consumed < Quanta
           /\ bypassed \in [Devices -> Nat]
           /\ active \subseteq Devices
           /\ Len(ring) = Cardinality(active)
           /\ \A i \in 1 .. Len(ring) : /\ ring[i] \in Devices
                                        /\ ring[i] \in active
                                        /\ queues[ring[i]] # <<>>
           /\ \A e \in active : \E i \in 1 .. Len(ring) : ring[i] = e
           /\ \A i, j \in 1 .. Len(ring) : ring[i] = ring[j] => i = j
           /\ \A e \in Devices : e \in active <=> queues[e] # <<>>
           /\ \A e \in Devices : queues[e] = <<>> => bypassed[e] = 0
<1>1. RingTypes /\ Bookkeeping /\ RingConsistent BY DEF RingInv, Bookkeeping
<1>2. ring \in Seq(Devices) /\ Len(ring) \in Nat BY <1>1 DEF RingTypes
<1>3. \A i \in 1 .. Len(ring) : ring[i] \in Devices BY <1>2
<1>4. \A i \in 1 .. Len(ring) : ring[i] \in active BY <1>1 DEF RingConsistent, RingIsActive
<1>5. \A e \in active : \E i \in 1 .. Len(ring) : ring[i] = e
  BY <1>1 DEF RingConsistent, RingIsActive
<1>6. \A e \in Devices : e \in active <=> queues[e] # <<>>
  BY <1>1 DEF RingConsistent, ActiveHasTasks
<1>7. \A i, j \in 1 .. Len(ring) : ring[i] = ring[j] => i = j
  BY <1>1 DEF RingConsistent, RingOnce
<1>8. consumed < Quanta BY <1>1 DEF RingConsistent, TurnBounded
<1>9. /\ queues \in [Devices -> Seq(Tasks \ Emergency)]
      /\ consumed \in Nat
      /\ bypassed \in [Devices -> Nat]
      /\ active \subseteq Devices
  BY <1>1 DEF RingTypes
<1>10. /\ Len(ring) = Cardinality(active)
       /\ \A e \in Devices : queues[e] = <<>> => bypassed[e] = 0
  BY <1>1 DEF Bookkeeping
<1> QED BY <1>2, <1>3, <1>4, <1>5, <1>6, <1>7, <1>8, <1>9, <1>10

\* schedule() of a task of normal priority keeps the ring invariant.
LEMMA ScheduleNormalKeepsRing ==
    ASSUME RingInv, NEW t \in Tasks, ScheduleNormal(t)
    PROVE  RingInv'
<1> DEFINE d == DeviceOf[t]
<1>d. d \in Devices BY TasksAssumption
<1>u. /\ queues' = [queues EXCEPT ![d] = Append(@, t)]
      /\ active' = active \cup {d}
      /\ ring' = IF d \in active THEN ring ELSE Append(ring, d)
      /\ consumed' = consumed
      /\ bypassed' = bypassed
      /\ t \in Tasks \ Emergency
  BY DEF ScheduleNormal, Activate
<1> HIDE DEF d
<1>q. queues[d] \in Seq(Tasks \ Emergency) BY <1>d, RingFacts
<1>a. Append(queues[d], t) # <<>>
  <2>1. /\ Len(Append(queues[d], t)) = Len(queues[d]) + 1
        /\ Len(queues[d]) \in Nat
    BY <1>u, <1>q
  <2> QED BY <2>1
<1>n. \A e \in Devices :
          queues'[e] = IF e = d THEN Append(queues[d], t) ELSE queues[e]
  BY <1>u, RingFacts
<1>m. \A e \in Devices : e \in active' <=> queues'[e] # <<>> BY <1>u, <1>n, <1>a, RingFacts
<1>z. \A e \in Devices : queues'[e] = <<>> => bypassed'[e] = 0 BY <1>u, <1>n, <1>a, RingFacts
<1>1. RingTypes'
  <2>1. queues' \in [Devices -> Seq(Tasks \ Emergency)] BY <1>d, <1>u, <1>q, RingFacts
  <2>2. ring' \in Seq(Devices) BY <1>d, <1>u, RingFacts
  <2> QED BY <1>d, <1>u, <2>1, <2>2, RingFacts DEF RingTypes
<1>2. CASE d \in active
  <2>1. active' = active /\ ring' = ring BY <1>2, <1>u
  <2>2. RingConsistent'
    <3>1. RingConsistent BY DEF RingInv, Bookkeeping
    <3>2. RingOnce' /\ RingIsActive' BY <2>1, <3>1 DEF RingConsistent, RingOnce, RingIsActive
    <3>3. ActiveHasTasks' BY <1>m DEF ActiveHasTasks
    <3>4. TurnBounded' BY <1>u, <2>1, <3>1 DEF RingConsistent, TurnBounded
    <3> QED BY <3>2, <3>3, <3>4 DEF RingConsistent
  <2>3. Budget' BY <1>u, <2>1 DEF Budget, RingInv
  <2> QED BY <1>1, <1>z, <2>1, <2>2, <2>3, RingFacts DEF RingInv, Bookkeeping
<1>3. CASE d \notin active
  <2>1. ring' = Append(ring, d) BY <1>3, <1>u
  <2>2. /\ Len(ring') = Len(ring) + 1
        /\ \A i \in 1 .. Len(ring) : ring'[i] = ring[i]
        /\ ring'[Len(ring) + 1] = d
    BY <1>d, <2>1, RingFacts
  <2>3. /\ \A i \in 1 .. Len(ring) : ring[i] # d
        /\ bypassed[d] = 0
    BY <1>3, <1>d, RingFacts
  <2>4. RingConsistent'
    <3>1. RingOnce'
      <4> SUFFICES ASSUME NEW i \in 1 .. Len(ring'), NEW j \in 1 .. Len(ring'),
                          ring'[i] = ring'[j]
                   PROVE  i = j
        BY DEF RingOnce
      <4>1. CASE i \in 1 .. Len(ring) /\ j \in 1 .. Len(ring) BY <4>1, <2>2, RingFacts
      <4>2. CASE i = Len(ring) + 1 /\ j \in 1 .. Len(ring) BY <4>2, <2>2, <2>3
      <4>3. CASE j = Len(ring) + 1 /\ i \in 1 .. Len(ring) BY <4>3, <2>2, <2>3
      <4>4. Len(ring) \in Nat /\ Len(ring') = Len(ring) + 1 BY <2>2, RingFacts
      <4>5. /\ i \in 1 .. Len(ring) \/ i = Len(ring) + 1
            /\ j \in 1 .. Len(ring) \/ j = Len(ring) + 1
        BY <4>4
      <4> QED BY <4>1, <4>2, <4>3, <4>5
    <3>2. RingIsActive'
      <4>1. \A i \in 1 .. Len(ring') : ring'[i] \in active'
        <5> SUFFICES ASSUME NEW i \in 1 .. Len(ring')
                     PROVE  ring'[i] \in active'
          OBVIOUS
        <5>1. i \in 1 .. Len(ring) \/ i = Len(ring) + 1 BY <2>2, RingFacts
        <5>2. CASE i \in 1 .. Len(ring) BY <5>2, <1>u, <2>2, RingFacts
        <5>3. CASE i = Len(ring) + 1 BY <5>3, <1>u, <2>2
        <5> QED BY <5>1, <5>2, <5>3
      <4>2. \A e \in active' : \E i \in 1 .. Len(ring') : ring'[i] = e
        <5> SUFFICES ASSUME NEW e \in active'
                     PROVE  \E i \in 1 .. Len(ring') : ring'[i] = e
          OBVIOUS
        <5>1. CASE e = d BY <5>1, <2>2, RingFacts
        <5>2. CASE e \in active
          <6>1. PICK i \in 1 .. Len(ring) : ring[i] = e BY <5>2, RingFacts
          <6> QED BY <6>1, <2>2, RingFacts
        <5> QED BY <1>u, <5>1, <5>2
      <4> QED BY <4>1, <4>2 DEF RingIsActive
    <3>3. ring' # <<>> BY <2>2, RingFacts
    <3> QED BY <1>u, <1>m, <3>1, <3>2, <3>3, RingFacts
             DEF RingConsistent, ActiveHasTasks, TurnBounded
  <2>5. Len(ring') = Cardinality(active') /\ Len(ring) <= Last
    <3>1. active \subseteq Devices /\ active' \subseteq Devices BY <1>u, <1>d, RingFacts
    <3>2. IsFiniteSet(active) BY <3>1, ActiveSize
    <3>3. Cardinality(active') = Cardinality(active) + 1 BY <3>2, <1>3, <1>u, FS_AddElement
    <3>4. Cardinality(active') <= Last + 1 BY <3>1, ActiveSize
    <3> QED BY <2>2, <3>3, <3>4, LastType, RingFacts
  <2>6. Budget'
    <3> SUFFICES ASSUME NEW i \in 1 .. Len(ring')
                 PROVE  bypassed[ring'[i]] + (i - 1) * Quanta
                           - (IF i = 1 THEN 0 ELSE consumed)
                           <= Last * Quanta
      BY <1>u DEF Budget
    <3>1. CASE i \in 1 .. Len(ring) BY <2>2, <3>1 DEF Budget, RingInv
    <3>2. CASE i = Len(ring) + 1
      <4>1. bypassed[ring'[i]] = 0 /\ i - 1 = Len(ring) BY <2>2, <2>3, <3>2, RingFacts
      <4>2. Len(ring) * Quanta <= Last * Quanta
        <5>1. /\ Len(ring) \in Int /\ Last \in Int /\ Quanta \in Nat
              /\ Len(ring) <= Last
          BY <2>5, QuantaType, LastType, RingFacts
        <5> QED BY ONLY <5>1, BudgetGrows
      <4>3. consumed \in Nat /\ Len(ring) * Quanta \in Int
            /\ Last * Quanta \in Int
        BY QuantaType, LastType, RingFacts
      <4> QED BY <4>1, <4>2, <4>3
    <3> QED BY <2>2, <3>1, <3>2, RingFacts
  <2> QED BY <1>1, <1>z, <2>4, <2>5, <2>6 DEF RingInv, Bookkeeping
<1> QED BY <1>2, <1>3

\* No entry of the ring is dead, so the loop of dequeue_locked() serves the
\* first one.
LEMMA FrontIsLive ==
    ASSUME RingInv
    PROVE  FirstLive = 1
<1>1. \A i \in 1 .. Len(ring) + 1 :
         (/\ i <= Len(ring) => queues[ring[i]] # <<>>
          /\ \A j \in 1 .. i - 1 : queues[ring[j]] = <<>>) <=> i = 1
  <2> SUFFICES ASSUME NEW i \in 1 .. Len(ring) + 1
               PROVE  (/\ i <= Len(ring) => queues[ring[i]] # <<>>
                       /\ \A j \in 1 .. i - 1 : queues[ring[j]] = <<>>)
                          <=> i = 1
    OBVIOUS
  <2>1. CASE i = 1 BY <2>1, RingFacts
  <2>2. CASE i # 1
    <3>1. 1 \in 1 .. i - 1 /\ 1 \in 1 .. Len(ring) BY <2>2, RingFacts
    <3> QED BY <2>2, <3>1, RingFacts
  <2> QED BY <2>1, <2>2
<1>2. 1 \in 1 .. Len(ring) + 1 BY RingFacts
<1> QED BY <1>1, <1>2 DEF FirstLive

\* What the new ring must satisfy for RingInv to hold again.
LEMMA RingRebuilt ==
    ASSUME RingTypes', TurnBounded', ActiveHasTasks',
           Len(ring') = Cardinality(active'),
           \A i, j \in 1 .. Len(ring') : ring'[i] = ring'[j] => i = j,
           \A i \in 1 .. Len(ring') : ring'[i] \in active',
           \A e \in active' : \E i \in 1 .. Len(ring') : ring'[i] = e,
           \A e \in Devices : queues'[e] = <<>> => bypassed'[e] = 0,
           Budget'
    PROVE  RingInv'
<1>1. RingOnce' BY DEF RingOnce
<1>2. RingIsActive' BY DEF RingIsActive
<1> QED BY <1>1, <1>2 DEF RingInv, Bookkeeping, RingConsistent

\* The budget when a turn starts.
LEMMA BudgetAtTurn ==
    ASSUME RingTypes', consumed' = 0,
           \A i \in 1 .. Len(ring') :
              bypassed'[ring'[i]] + (i - 1) * Quanta <= Last * Quanta
    PROVE  Budget'
<1> SUFFICES ASSUME NEW i \in 1 .. Len(ring')
             PROVE  bypassed'[ring'[i]] + (i - 1) * Quanta
                      - (IF i = 1 THEN 0 ELSE consumed') <= Last * Quanta
  BY DEF Budget
<1>1. ring'[i] \in Devices BY DEF RingTypes
<1>2. bypassed'[ring'[i]] \in Nat /\ (i - 1) * Quanta \in Int
  BY <1>1, QuantaType DEF RingTypes
<1> QED BY <1>2

\* A dequeue from the ring keeps it, whether the turn ends or goes on.
LEMMA DequeueNormalKeepsRing ==
    ASSUME RingInv, DequeueNormal
    PROVE  RingInv'
<1> DEFINE d == ring[1]
           n == Len(ring)
           dry == Tail(queues[d]) = <<>>
           spent == consumed + 1 >= Quanta
<1>1. n \in Nat /\ n >= 1 /\ FirstLive = 1 BY FrontIsLive, RingFacts DEF DequeueNormal
<1>2. SubSeq(ring, FirstLive, Len(ring)) = ring /\ Head(ring) = d BY <1>1, RingFacts
<1>3. d \in Devices /\ d \in active /\ queues[d] # <<>> BY <1>1, RingFacts
<1>u. /\ queues' = [queues EXCEPT ![d] = Tail(@)]
      /\ EndTurn(d, ring, consumed + 1)
      /\ bypassed' = [e \in Devices |->
                         IF e = d \/ queues[e] = <<>> THEN 0
                         ELSE bypassed[e] + 1]
  BY <1>1, <1>2 DEF DequeueNormal
<1>e. /\ ring' = CASE dry -> Tail(ring)
                   [] ~dry /\ spent -> Append(Tail(ring), d)
                   [] OTHER -> ring
      /\ consumed' = IF dry \/ spent THEN 0 ELSE consumed + 1
      /\ active' = IF dry THEN active \ {d} ELSE active
  <2>1. {ring[i] : i \in 1 .. FirstLive - 1} = {} BY <1>1
  <2> QED BY <1>u, <2>1 DEF EndTurn
<1>q. queues[d] \in Seq(Tasks \ Emergency) /\ Tail(queues[d]) \in Seq(Tasks \ Emergency)
  BY <1>3, RingFacts
<1>n. \A e \in Devices :
          queues'[e] = IF e = d THEN Tail(queues[d]) ELSE queues[e]
  BY <1>u, <1>3, RingFacts
<1>b. \A e \in Devices :
          bypassed'[e] = IF e = d \/ queues[e] = <<>> THEN 0
                         ELSE bypassed[e] + 1
  BY <1>u
<1>t. /\ Tail(ring) \in Seq(Devices)
      /\ Len(Tail(ring)) = n - 1
      /\ \A i \in 1 .. n - 1 : Tail(ring)[i] = ring[i + 1]
  BY <1>1, RingFacts
<1>r. /\ Append(Tail(ring), d) \in Seq(Devices)
      /\ Len(Append(Tail(ring), d)) = n
      /\ \A i \in 1 .. n - 1 : Append(Tail(ring), d)[i] = ring[i + 1]
      /\ Append(Tail(ring), d)[n] = d
  BY <1>1, <1>3, <1>t
<1>4. ActiveHasTasks'
  <2> SUFFICES ASSUME NEW e \in Devices
               PROVE  e \in active' <=> queues'[e] # <<>>
    BY DEF ActiveHasTasks
  <2>1. CASE e = d BY <2>1, <1>e, <1>n, <1>3
  <2>2. CASE e # d
    <3>1. e \in active' <=> e \in active BY <2>2, <1>e
    <3>2. queues'[e] = queues[e] BY <2>2, <1>n
    <3> QED BY <3>1, <3>2, RingFacts
  <2> QED BY <2>1, <2>2
<1>5. \A e \in Devices : queues'[e] = <<>> => bypassed'[e] = 0 BY <1>n, <1>b, RingFacts
<1>6. RingTypes'
  <2>1. queues' \in [Devices -> Seq(Tasks \ Emergency)] BY <1>u, <1>3, <1>q, RingFacts
  <2>2. bypassed' \in [Devices -> Nat] BY <1>u, RingFacts
  <2>3. ring' \in Seq(Devices) BY <1>e, <1>t, <1>r, RingFacts
  <2>4. consumed' \in Nat /\ active' \subseteq Devices BY <1>e, RingFacts
  <2> QED BY <2>1, <2>2, <2>3, <2>4 DEF RingTypes
<1>7. consumed' < Quanta BY <1>e, QuantaType, RingFacts
<1>8. \A i \in 2 .. n : /\ ring[i] # d
                        /\ bypassed'[ring[i]] = bypassed[ring[i]] + 1
                        /\ bypassed[ring[i]] \in Nat
  <2> SUFFICES ASSUME NEW i \in 2 .. n
               PROVE  /\ ring[i] # d
                      /\ bypassed'[ring[i]] = bypassed[ring[i]] + 1
                      /\ bypassed[ring[i]] \in Nat
    OBVIOUS
  <2>1. i \in 1 .. n /\ 1 \in 1 .. n /\ i # 1 BY <1>1
  <2>2. ring[i] # d /\ ring[i] \in Devices /\ queues[ring[i]] # <<>> BY <2>1, RingFacts
  <2> QED BY <2>2, <1>b, RingFacts
<1>9. bypassed'[d] = 0 BY <1>b, <1>3
<1>10. \A i \in 2 .. n : /\ bypassed[ring[i]] + (i - 1) * Quanta - consumed
                              <= Last * Quanta
                         /\ (i - 1) * Quanta \in Int
                         /\ (i - 2) * Quanta \in Int
                         /\ (i - 2) * Quanta = (i - 1) * Quanta - Quanta
  <2> SUFFICES ASSUME NEW i \in 2 .. n
               PROVE  /\ bypassed[ring[i]] + (i - 1) * Quanta - consumed
                              <= Last * Quanta
                      /\ (i - 1) * Quanta \in Int
                      /\ (i - 2) * Quanta \in Int
                      /\ (i - 2) * Quanta = (i - 1) * Quanta - Quanta
    OBVIOUS
  <2>1. i \in 1 .. Len(ring) /\ i # 1 BY <1>1
  <2>2. bypassed[ring[i]] + (i - 1) * Quanta - consumed <= Last * Quanta
    BY <2>1 DEF RingInv, Budget
  <2>3. ((i - 1) - 1) * Quanta = (i - 1) * Quanta - Quanta BY OnePlaceUp, QuantaType
  <2>4. (i - 1) - 1 = i - 2 OBVIOUS
  <2>5. (i - 1) * Quanta \in Int BY QuantaType
  <2> QED BY <2>2, <2>3, <2>4, <2>5, QuantaType
<1>11. Last * Quanta \in Nat BY LastType, QuantaType
<1> HIDE DEF d, n, dry, spent
<1>12. CASE dry
  <2>1. /\ ring' = Tail(ring) /\ active' = active \ {d} /\ consumed' = 0
        /\ Len(ring') = n - 1
        /\ \A i \in 1 .. n - 1 : ring'[i] = ring[i + 1]
    BY <1>12, <1>e, <1>t
  <2>2. TurnBounded' BY <2>1, <1>7 DEF TurnBounded
  <2>3. Len(ring') = Cardinality(active')
    <3>1. IsFiniteSet(active) BY ActiveSize, RingFacts
    <3>2. Cardinality(active') = Cardinality(active) - 1
      BY <3>1, <2>1, <1>3, FS_RemoveElement
    <3> QED BY <3>2, <2>1, RingFacts DEF n
  <2>4. \A i, j \in 1 .. Len(ring') : ring'[i] = ring'[j] => i = j
    <3> SUFFICES ASSUME NEW i \in 1 .. n - 1, NEW j \in 1 .. n - 1,
                        ring'[i] = ring'[j]
                 PROVE  i = j
      BY <2>1
    <3>1. ring[i + 1] = ring[j + 1] /\ i + 1 \in 1 .. n /\ j + 1 \in 1 .. n BY <2>1, <1>1
    <3>2. i + 1 = j + 1 BY <3>1, RingFacts DEF n
    <3> QED BY <3>2
  <2>5. \A i \in 1 .. Len(ring') : ring'[i] \in active'
    <3> SUFFICES ASSUME NEW i \in 1 .. n - 1 PROVE ring'[i] \in active' BY <2>1
    <3>1. i + 1 \in 2 .. n /\ i + 1 \in 1 .. n BY <1>1
    <3>2. ring[i + 1] # d BY <1>8, <3>1
    <3>3. ring[i + 1] \in active BY <3>1, RingFacts DEF n
    <3> QED BY <3>2, <3>3, <2>1
  <2>6. \A e \in active' : \E i \in 1 .. Len(ring') : ring'[i] = e
    <3> SUFFICES ASSUME NEW e \in active'
                 PROVE  \E i \in 1 .. n - 1 : ring'[i] = e
      BY <2>1
    <3>1. e \in active /\ e # d BY <2>1
    <3>2. PICK i \in 1 .. n : ring[i] = e BY <3>1, RingFacts DEF n
    <3>3. i # 1 BY <3>1, <3>2 DEF d
    <3>4. i - 1 \in 1 .. n - 1 /\ (i - 1) + 1 = i BY <3>3, <1>1
    <3> QED BY <3>2, <3>4, <2>1
  <2>7. Budget'
    <3> SUFFICES ASSUME NEW i \in 1 .. n - 1
                 PROVE  bypassed'[ring'[i]] + (i - 1) * Quanta <= Last * Quanta
      BY <2>1, <1>6, BudgetAtTurn
    <3>1. i + 1 \in 2 .. n /\ (i + 1) - 2 = i - 1 /\ (i + 1) - 1 = i BY <1>1
    <3>2. ring'[i] = ring[i + 1] BY <2>1
    <3>3. /\ bypassed'[ring[i + 1]] = bypassed[ring[i + 1]] + 1
          /\ bypassed[ring[i + 1]] \in Nat
      BY <1>8, <3>1
    <3>4. /\ bypassed[ring[i + 1]] + i * Quanta - consumed <= Last * Quanta
          /\ i * Quanta \in Int
          /\ (i - 1) * Quanta \in Int
          /\ (i - 1) * Quanta = i * Quanta - Quanta
      BY <1>10, <3>1
    <3>5. consumed + 1 <= Quanta /\ consumed \in Nat /\ Quanta \in Nat
      BY RingFacts, QuantaType
    <3> QED BY <3>2, <3>3, <3>4, <3>5, <1>11
  <2> QED BY <1>4, <1>5, <1>6, <2>2, <2>3, <2>4, <2>5, <2>6, <2>7, RingRebuilt
<1>13. CASE ~dry /\ spent
  <2>1. /\ active' = active /\ consumed' = 0
        /\ Len(ring') = n
        /\ \A i \in 1 .. n - 1 : ring'[i] = ring[i + 1]
        /\ ring'[n] = d
    BY <1>13, <1>e, <1>r
  <2>2. TurnBounded' BY <2>1, <1>7 DEF TurnBounded
  <2>3. Len(ring') = Cardinality(active') BY <2>1, RingFacts DEF n
  <2>4. \A i, j \in 1 .. Len(ring') : ring'[i] = ring'[j] => i = j
    <3> SUFFICES ASSUME NEW i \in 1 .. n, NEW j \in 1 .. n,
                        ring'[i] = ring'[j]
                 PROVE  i = j
      BY <2>1
    <3>1. CASE i \in 1 .. n - 1 /\ j \in 1 .. n - 1
      <4>1. ring[i + 1] = ring[j + 1] /\ i + 1 \in 1 .. n /\ j + 1 \in 1 .. n
        BY <3>1, <2>1, <1>1
      <4>2. i + 1 = j + 1 BY <4>1, RingFacts DEF n
      <4> QED BY <4>2
    <3>2. CASE i = n /\ j \in 1 .. n - 1
      <4>1. j + 1 \in 2 .. n BY <3>2, <1>1
      <4> QED BY <3>2, <4>1, <2>1, <1>8
    <3>3. CASE j = n /\ i \in 1 .. n - 1
      <4>1. i + 1 \in 2 .. n BY <3>3, <1>1
      <4> QED BY <3>3, <4>1, <2>1, <1>8
    <3> QED BY <3>1, <3>2, <3>3, <1>1
  <2>5. \A i \in 1 .. Len(ring') : ring'[i] \in active'
    <3> SUFFICES ASSUME NEW i \in 1 .. n PROVE ring'[i] \in active BY <2>1
    <3>1. CASE i \in 1 .. n - 1
      <4>1. i + 1 \in 1 .. n BY <3>1, <1>1
      <4> QED BY <3>1, <4>1, <2>1, RingFacts DEF n
    <3>2. CASE i = n BY <3>2, <2>1, <1>3
    <3> QED BY <3>1, <3>2, <1>1
  <2>6. \A e \in active' : \E i \in 1 .. Len(ring') : ring'[i] = e
    <3> SUFFICES ASSUME NEW e \in active
                 PROVE  \E i \in 1 .. n : ring'[i] = e
      BY <2>1
    <3>1. PICK i \in 1 .. n : ring[i] = e BY RingFacts DEF n
    <3>2. CASE i = 1
      <4>1. n \in 1 .. n /\ ring'[n] = e BY <3>1, <3>2, <2>1, <1>1 DEF d
      <4> QED BY <4>1
    <3>3. CASE i # 1
      <4>1. i - 1 \in 1 .. n - 1 /\ (i - 1) + 1 = i /\ i - 1 \in 1 .. n BY <3>3, <1>1
      <4> QED BY <3>1, <4>1, <2>1
    <3> QED BY <3>2, <3>3
  <2>7. Budget'
    <3> SUFFICES ASSUME NEW i \in 1 .. n
                 PROVE  bypassed'[ring'[i]] + (i - 1) * Quanta <= Last * Quanta
      BY <2>1, <1>6, BudgetAtTurn
    <3>1. CASE i \in 1 .. n - 1
      <4>1. i + 1 \in 2 .. n /\ (i + 1) - 2 = i - 1 /\ (i + 1) - 1 = i BY <1>1, <3>1
      <4>2. ring'[i] = ring[i + 1] BY <2>1, <3>1
      <4>3. /\ bypassed'[ring[i + 1]] = bypassed[ring[i + 1]] + 1
            /\ bypassed[ring[i + 1]] \in Nat
        BY <1>8, <4>1
      <4>4. /\ bypassed[ring[i + 1]] + i * Quanta - consumed <= Last * Quanta
            /\ i * Quanta \in Int
            /\ (i - 1) * Quanta \in Int
            /\ (i - 1) * Quanta = i * Quanta - Quanta
        BY <1>10, <4>1
      <4>5. consumed + 1 <= Quanta /\ consumed \in Nat /\ Quanta \in Nat
        BY RingFacts, QuantaType
      <4> QED BY <4>2, <4>3, <4>4, <4>5, <1>11
    <3>2. CASE i = n
      <4>1. bypassed'[ring'[i]] = 0 BY <3>2, <2>1, <1>9
      <4>2. n <= Last + 1 BY ActiveSize, RingFacts DEF n
      <4>3. /\ n - 1 \in Int /\ Last \in Int /\ Quanta \in Nat
            /\ n - 1 <= Last
        BY <4>2, <1>1, LastType, QuantaType
      <4>4. (n - 1) * Quanta <= Last * Quanta BY ONLY <4>3, BudgetGrows
      <4>5. (n - 1) * Quanta \in Int BY <1>1, QuantaType
      <4> QED BY <3>2, <4>1, <4>4, <4>5
    <3> QED BY <3>1, <3>2, <1>1
  <2> QED BY <1>4, <1>5, <1>6, <2>2, <2>3, <2>4, <2>5, <2>6, <2>7, RingRebuilt
<1>14. CASE ~dry /\ ~spent
  <2>1. ring' = ring /\ active' = active /\ consumed' = consumed + 1 BY <1>14, <1>e
  <2>2. TurnBounded' BY <2>1, <1>1, <1>7, RingFacts DEF TurnBounded, n
  <2>3. /\ Len(ring') = Cardinality(active')
        /\ \A i, j \in 1 .. Len(ring') : ring'[i] = ring'[j] => i = j
        /\ \A i \in 1 .. Len(ring') : ring'[i] \in active'
        /\ \A e \in active' : \E i \in 1 .. Len(ring') : ring'[i] = e
    BY <2>1, RingFacts
  <2>4. Budget'
    <3>0. Len(ring') = n BY <2>1 DEF n
    <3> SUFFICES ASSUME NEW i \in 1 .. n
                 PROVE  bypassed'[ring[i]] + (i - 1) * Quanta
                          - (IF i = 1 THEN 0 ELSE consumed + 1)
                          <= Last * Quanta
      BY <2>1, <3>0, Zenon DEF Budget
    <3>1. CASE i = 1
      <4>1. bypassed'[ring[i]] = 0 /\ (i - 1) * Quanta = 0 BY <3>1, <1>9, QuantaType DEF d
      <4> QED BY <3>1, <4>1, <1>11
    <3>2. CASE i \in 2 .. n
      <4>1. /\ bypassed'[ring[i]] = bypassed[ring[i]] + 1
            /\ bypassed[ring[i]] \in Nat
        BY <1>8, <3>2
      <4>2. /\ bypassed[ring[i]] + (i - 1) * Quanta - consumed <= Last * Quanta
            /\ (i - 1) * Quanta \in Int
        BY <1>10, <3>2
      <4>3. consumed \in Nat /\ i # 1 BY <3>2, RingFacts
      <4> QED BY <4>1, <4>2, <4>3, <1>11
    <3> QED BY <3>1, <3>2, <1>1
  <2> QED BY <1>4, <1>5, <1>6, <2>2, <2>3, <2>4, RingRebuilt
<1> QED BY <1>12, <1>13, <1>14

\* clear() keeps it, as it empties everything.
LEMMA ClearKeepsRing ==
    ASSUME Clear PROVE RingInv'
<1>1. RingTypes' BY DEF Clear, RingTypes
<1>2. TurnBounded' /\ ActiveHasTasks' BY QuantaType DEF Clear, TurnBounded, ActiveHasTasks
<1>3. Len(ring') = Cardinality(active') BY FS_EmptySet DEF Clear
<1>4. Budget' BY DEF Clear, Budget
<1>5. /\ \A i, j \in 1 .. Len(ring') : ring'[i] = ring'[j] => i = j
      /\ \A i \in 1 .. Len(ring') : ring'[i] \in active'
      /\ \A e \in active' : \E i \in 1 .. Len(ring') : ring'[i] = e
      /\ \A e \in Devices : queues'[e] = <<>> => bypassed'[e] = 0
  BY DEF Clear
<1> QED BY <1>1, <1>2, <1>3, <1>4, <1>5, RingRebuilt

\* drain_device_queue() keeps it, also for the device whose turn it is.
LEMMA DrainKeepsRing ==
    ASSUME RingInv, NEW d \in Devices, DrainDeviceQueue(d)
    PROVE  RingInv'
<1> DEFINE n == Len(ring)
<1>u. /\ queues' = [queues EXCEPT ![d] = <<>>]
      /\ active' = active \ {d}
      /\ ring' = EraseFromRing(d)
      /\ consumed' = IF ring # <<>> /\ Head(ring) = d THEN 0 ELSE consumed
      /\ bypassed' = [bypassed EXCEPT ![d] = 0]
  BY DEF DrainDeviceQueue
<1>n. \A e \in Devices : queues'[e] = IF e = d THEN <<>> ELSE queues[e] BY <1>u, RingFacts
<1>b. \A e \in Devices : bypassed'[e] = IF e = d THEN 0 ELSE bypassed[e] BY <1>u, RingFacts
<1>1. ActiveHasTasks' BY <1>u, <1>n, RingFacts DEF ActiveHasTasks
<1>2. \A e \in Devices : queues'[e] = <<>> => bypassed'[e] = 0 BY <1>n, <1>b, RingFacts
<1>3. /\ queues' \in [Devices -> Seq(Tasks \ Emergency)]
      /\ bypassed' \in [Devices -> Nat]
      /\ consumed' \in Nat /\ active' \subseteq Devices
  BY <1>u, RingFacts
<1>4. consumed' < Quanta BY <1>u, QuantaType, RingFacts
<1>5. CASE d \notin active
  <2>1. \A i \in 1 .. n : ring[i] # d BY <1>5, RingFacts
  <2>2. ring' = ring BY <1>u, <2>1 DEF EraseFromRing
  <2>3. active' = active BY <1>u, <1>5
  <2>4. consumed' = consumed
    <3>1. ring # <<>> => Head(ring) = ring[1] /\ 1 \in 1 .. n BY RingFacts
    <3> QED BY <1>u, <2>1, <3>1
  <2>5. RingTypes' BY <1>3, <2>2, RingFacts DEF RingTypes
  <2>6. TurnBounded' BY <2>2, <2>4 DEF RingInv, Bookkeeping, RingConsistent, TurnBounded
  <2>7. \A i \in 1 .. n : bypassed'[ring[i]] = bypassed[ring[i]] BY <1>b, <2>1, RingFacts
  <2>8. Budget' BY <2>2, <2>4, <2>7 DEF Budget, RingInv
  <2> QED BY <1>1, <1>2, <2>2, <2>3, <2>5, <2>6, <2>8, RingFacts, RingRebuilt
<1>6. CASE d \in active
  <2> DEFINE p == CHOOSE j \in 1 .. Len(ring) : ring[j] = d
  <2>1. p \in 1 .. n /\ ring[p] = d BY <1>6, RingFacts
  <2>2. \A i \in 1 .. n : i # p => ring[i] # d BY <2>1, RingFacts
  <2>3. ring' = [j \in 1 .. n - 1 |-> IF j < p THEN ring[j] ELSE ring[j + 1]]
    BY <1>u, <2>1 DEF EraseFromRing
  <2> HIDE DEF p
  <2>4. n \in Nat /\ n >= 1 BY <2>1, RingFacts
  <2> DEFINE old(i) == IF i < p THEN i ELSE i + 1
  <2>5. \A i \in 1 .. n - 1 : /\ old(i) \in 1 .. n
                              /\ old(i) # p
                              /\ ring'[i] = ring[old(i)]
    BY <2>1, <2>3, <2>4
  <2>6. ring' \in Seq(Devices) /\ Len(ring') = n - 1
    <3>1. \A i \in 1 .. n - 1 : ring'[i] \in Devices BY <2>5, RingFacts
    <3>2. ring' \in [1 .. n - 1 -> Devices] /\ n - 1 \in Nat BY <2>3, <2>4, <3>1
    <3> QED BY <3>2
  <2>7. \A i, j \in 1 .. n - 1 : old(i) = old(j) => i = j BY <2>1, <2>4
  <2>8. \A k \in 1 .. n : k # p => \E i \in 1 .. n - 1 : old(i) = k
    <3> SUFFICES ASSUME NEW k \in 1 .. n, k # p
                 PROVE  \E i \in 1 .. n - 1 : old(i) = k
      OBVIOUS
    <3>1. CASE k < p
      <4>1. k \in 1 .. n - 1 /\ old(k) = k BY <3>1, <2>1, <2>4
      <4> QED BY <4>1
    <3>2. CASE k > p
      <4>1. k - 1 \in 1 .. n - 1 /\ old(k - 1) = k BY <3>2, <2>1, <2>4
      <4> QED BY <4>1
    <3> QED BY <3>1, <3>2, <2>1
  <2>9. RingTypes' BY <1>3, <2>6 DEF RingTypes
  <2>10. Len(ring') = Cardinality(active')
    <3>1. IsFiniteSet(active) BY ActiveSize, RingFacts
    <3>2. Cardinality(active') = Cardinality(active) - 1
      BY <3>1, <1>u, <1>6, FS_RemoveElement
    <3> QED BY <3>2, <2>6, RingFacts
  <2>11. \A i, j \in 1 .. Len(ring') : ring'[i] = ring'[j] => i = j
    <3> SUFFICES ASSUME NEW i \in 1 .. n - 1, NEW j \in 1 .. n - 1,
                        ring'[i] = ring'[j]
                 PROVE  i = j
      BY <2>6
    <3> HIDE DEF old
    <3>1. ring[old(i)] = ring[old(j)] /\ old(i) \in 1 .. n /\ old(j) \in 1 .. n BY <2>5
    <3>2. old(i) = old(j) BY <3>1, RingFacts
    <3> QED BY <3>2, <2>7
  <2>12. \A i \in 1 .. Len(ring') : ring'[i] \in active'
    <3> HIDE DEF old
    <3> SUFFICES ASSUME NEW i \in 1 .. n - 1 PROVE ring'[i] \in active' BY <2>6
    <3>1. ring[old(i)] \in active /\ ring[old(i)] # d BY <2>2, <2>5, RingFacts
    <3> QED BY <3>1, <2>5, <1>u
  <2>13. \A e \in active' : \E i \in 1 .. Len(ring') : ring'[i] = e
    <3> HIDE DEF old
    <3> SUFFICES ASSUME NEW e \in active'
                 PROVE  \E i \in 1 .. n - 1 : ring'[i] = e
      BY <2>6
    <3>1. PICK k \in 1 .. n : ring[k] = e BY <1>u, RingFacts
    <3>2. k # p BY <3>1, <2>1, <1>u
    <3>3. PICK i \in 1 .. n - 1 : old(i) = k BY <3>2, <2>8
    <3> QED BY <3>1, <3>3, <2>5
  <2>14. consumed' = IF p = 1 THEN 0 ELSE consumed
    <3>1. ring # <<>> /\ Head(ring) = ring[1] /\ 1 \in 1 .. n BY <2>4, RingFacts
    <3>2. ring[1] = d <=> p = 1 BY <2>1, <2>2, <3>1
    <3> QED BY <3>1, <3>2, <1>u
  <2>15. TurnBounded'
    <3>1. CASE p = 1 BY <3>1, <2>14, <1>4 DEF TurnBounded
    <3>2. CASE p # 1
      <4>1. Len(ring') >= 1 BY <3>2, <2>1, <2>4, <2>6
      <4> QED BY <4>1, <1>4 DEF TurnBounded
    <3> QED BY <3>1, <3>2
  <2>16. Budget'
    <3> SUFFICES ASSUME NEW i \in 1 .. n - 1
                 PROVE  bypassed'[ring'[i]] + (i - 1) * Quanta
                          - (IF i = 1 THEN 0 ELSE consumed') <= Last * Quanta
      BY <2>6 DEF Budget
    <3> DEFINE k == old(i)
               b == bypassed[ring[k]]
    <3>1. /\ k \in 1 .. n /\ k # p /\ ring'[i] = ring[k]
          /\ k = IF i < p THEN i ELSE i + 1
      BY <2>5
    <3> HIDE DEF old, k
    <3>2. ring[k] \in Devices /\ ring[k] # d BY <3>1, <2>2, RingFacts
    <3>3. bypassed'[ring'[i]] = b /\ b \in Nat BY <3>1, <3>2, <1>b, RingFacts
    <3>4. b + (k - 1) * Quanta - (IF k = 1 THEN 0 ELSE consumed) <= Last * Quanta
      BY <3>1 DEF RingInv, Budget
    <3>5. consumed \in Nat /\ consumed < Quanta /\ Quanta \in Nat
          /\ Last * Quanta \in Nat
      BY QuantaType, LastType, RingFacts
    <3> HIDE DEF b
    <3>6. CASE i < p
      <4>1. k = i /\ p # 1 BY <3>1, <3>6
      <4>2. consumed' = consumed BY <4>1, <2>14
      <4> QED BY <3>3, <3>4, <4>1, <4>2
    <3>7. CASE ~(i < p)
      <4>1. k = i + 1 /\ k # 1 /\ k - 1 = i BY <3>1, <3>7
      <4>2. b + i * Quanta - consumed <= Last * Quanta BY <3>4, <4>1
      <4>3. (i - 1) * Quanta = i * Quanta - Quanta BY QuantaType, OnePlaceUp
      <4>4. i * Quanta \in Int /\ (i - 1) * Quanta \in Int BY QuantaType
      <4>5. consumed' \in Nat BY <2>14, <3>5
      <4>6. b + (i - 1) * Quanta <= Last * Quanta BY <3>3, <3>5, <4>2, <4>3, <4>4
      <4> QED BY <3>3, <3>5, <4>4, <4>5, <4>6
    <3> QED BY <3>6, <3>7
  <2> QED BY <1>1, <1>2, <2>9, <2>10, <2>11, <2>12, <2>13, <2>15, <2>16,
              RingRebuilt
<1> QED BY <1>5, <1>6
-----------------------------------------------------------------------------
(***************************************************************************)
(* The theorems                                                            *)
(***************************************************************************)

\* The ring invariant is inductive.
LEMMA RingInductive == RingInv /\ [Next]_vars => RingInv'
<1> SUFFICES ASSUME RingInv, [Next]_vars PROVE RingInv' OBVIOUS
<1>1. ASSUME NEW t \in Tasks, ScheduleEmergency(t) PROVE RingInv'
  BY <1>1, RingUnchanged DEF ScheduleEmergency
<1>2. ASSUME NEW t \in Tasks, ScheduleNormal(t) PROVE RingInv'
  BY <1>2, ScheduleNormalKeepsRing
<1>3. ASSUME NEW w \in Workers, Dequeue(w) PROVE RingInv'
  <2>1. CASE DequeueEmergency BY <2>1, RingUnchanged DEF DequeueEmergency
  <2>2. CASE DequeueNormal BY <2>2, DequeueNormalKeepsRing
  <2>3. CASE DequeueNothing
    <3>1. ring = <<>>
      <4>1. FirstLive = 1 BY FrontIsLive
      <4> QED BY <2>3, <4>1, RingFacts DEF DequeueNothing
    <3>2. active = {} BY <3>1, RingFacts
    <3>3. ring' = ring /\ active' = active /\ consumed' = consumed
          /\ queues' = queues /\ bypassed' = bypassed
      BY <2>3, <3>1, <3>2 DEF DequeueNothing
    <3> QED BY <3>3, RingUnchanged
  <2> QED BY <1>3, <2>1, <2>2, <2>3 DEF Dequeue, DequeueLocked
<1>4. ASSUME NEW w \in Workers, Sleep(w) \/ TimeOut(w) PROVE RingInv'
  BY <1>4, RingUnchanged DEF Sleep, TimeOut, queueVars
<1>5. ASSUME NEW d \in Devices, DrainDeviceQueue(d) PROVE RingInv' BY <1>5, DrainKeepsRing
<1>6. CASE Clear BY <1>6, ClearKeepsRing
<1>7. CASE Shutdown BY <1>7, RingUnchanged DEF Shutdown, queueVars
<1>8. CASE UNCHANGED vars BY <1>8, RingUnchanged DEF vars
<1> QED BY <1>1, <1>2, <1>3, <1>4, <1>5, <1>6, <1>7, <1>8 DEF Next

\* The ring of active devices, the set of active devices and the device queues
\* always agree, however schedule, dequeue, drain, clear and shutdown calls
\* interleave: no queued task is out of the round robin's reach.
THEOREM RingIsConsistent == Spec => []RingConsistent
<1>1. RingInv => RingConsistent BY DEF RingInv, Bookkeeping
<1> QED BY <1>1, RingInit, RingInductive, PTL DEF Spec

\* Whatever the number of devices and the quantum, a device with tasks queued
\* is bypassed by at most one quantum of every other device.
THEOREM BypassIsBounded == Spec => []BypassBounded
<1>1. RingInv => BypassBounded
  <2> SUFFICES ASSUME RingInv, NEW d \in Devices
               PROVE  bypassed[d] <= Last * Quanta
    BY DEF BypassBounded, Last
  <2>0. Last * Quanta \in Nat BY LastType, QuantaType
  <2>1. CASE queues[d] = <<>> BY <2>0, <2>1, RingFacts
  <2>2. CASE queues[d] # <<>>
    <3>1. PICK i \in 1 .. Len(ring) : ring[i] = d BY <2>2, RingFacts
    <3>2. bypassed[d] + (i - 1) * Quanta - (IF i = 1 THEN 0 ELSE consumed)
             <= Last * Quanta
      BY <3>1 DEF RingInv, Budget
    <3>3. /\ bypassed[d] \in Nat /\ consumed \in Nat /\ consumed < Quanta
          /\ (i - 1) * Quanta \in Int
      BY QuantaType, RingFacts
    <3>4. CASE i = 1
      <4>1. (i - 1) * Quanta = 0 BY <3>4, QuantaType
      <4> QED BY <2>0, <3>2, <3>3, <3>4, <4>1
    <3>5. CASE i # 1
      <4>1. 1 <= i - 1 /\ 1 \in Int /\ i - 1 \in Int /\ Quanta \in Nat BY <3>5, QuantaType
      <4>2. 1 * Quanta <= (i - 1) * Quanta BY ONLY <4>1, BudgetGrows
      <4>3. Quanta <= (i - 1) * Quanta BY <4>1, <4>2
      <4> QED BY <2>0, <3>2, <3>3, <3>5, <4>1, <4>3
    <3> QED BY <3>4, <3>5
  <2> QED BY <2>1, <2>2
<1> QED BY <1>1, RingInit, RingInductive, PTL DEF Spec
-----------------------------------------------------------------------------
(***************************************************************************)
(* What Keep and Places compute                                            *)
(***************************************************************************)

\* A set of natural numbers has a least element.
LEMMA LeastNumber ==
    ASSUME NEW S \in SUBSET Nat, S # {}
    PROVE  \E m \in S : \A n \in S : m <= n
<1> DEFINE R == OpToRel(<, Nat)
<1>1. R = {p \in Nat \X Nat : p[1] < p[2]} BY Zenon DEF OpToRel
<1>2. PICK m \in S : \A n \in S : ~ (<<n, m>> \in R) BY WFMin, NatLessThanWellFounded
<1> HIDE DEF R
<1>3. ASSUME NEW n \in S PROVE m <= n
  <2>1. ~ (<<n, m>> \in {p \in Nat \X Nat : p[1] < p[2]}) BY <1>1, <1>2
  <2>2. m \in Nat /\ n \in Nat OBVIOUS
  <2>3. ~ (n < m) BY <2>1, <2>2
  <2> QED BY <2>2, <2>3
<1> QED BY <1>3

\* Every place of the kept sequence is that of a kept position.
LEMMA KeptPosition ==
    ASSUME NEW n \in Nat, NEW I, I \subseteq 1 .. n,
           NEW k \in Nat, 1 <= k, k <= Cardinality(I)
    PROVE  \E i \in I : Rank(I, i) = k
<1> DEFINE T == {i \in 0 .. n : Rank(I, i) >= k}
<1>0. \A j \in I : j \in Nat /\ 1 <= j /\ j <= n OBVIOUS
<1>1. IsFiniteSet(I) /\ Cardinality(I) \in Nat
  <2>1. IsFiniteSet(1 .. n) BY FS_Interval
  <2>2. IsFiniteSet(I) BY <2>1, FS_Subset
  <2> QED BY <2>2, FS_CardinalityType
<1>2. ASSUME NEW i \in 0 .. n
      PROVE  IsFiniteSet({j \in I : j <= i}) /\ Rank(I, i) \in Nat
  <2>1. {j \in I : j <= i} \in SUBSET I OBVIOUS
  <2>2. IsFiniteSet({j \in I : j <= i}) BY <2>1, <1>1, FS_Subset
  <2> QED BY <2>2, FS_CardinalityType DEF Rank
<1>3. n \in T
  <2>1. {j \in I : j <= n} = I BY <1>0
  <2>2. Rank(I, n) = Cardinality(I) BY <2>1 DEF Rank
  <2> QED BY <2>2, <1>1
<1>4. PICK m \in T : \A i \in T : m <= i
  <2>1. T \in SUBSET Nat /\ T # {} BY <1>3
  <2> HIDE DEF T
  <2> QED BY <2>1, LeastNumber
<1>m. m \in 0 .. n /\ Rank(I, m) \in Nat /\ Rank(I, m) >= k BY <1>2
<1>5. m # 0
  <2>0. \A j \in I : ~ (j <= 0) BY <1>0
  <2>1. {j \in I : j <= 0} = {} BY <2>0
  <2>2. Rank(I, 0) = 0 BY <2>1, FS_EmptySet DEF Rank
  <2> QED BY <2>2
<1>6. m - 1 \in 0 .. n /\ Rank(I, m - 1) < k
  <2>1. m - 1 \in 0 .. n BY <1>5, <1>m
  <2>2. m - 1 \notin T BY <1>4, <1>m
  <2>3. Rank(I, m - 1) \in Nat BY <2>1, <1>2
  <2>4. ~ (Rank(I, m - 1) >= k) BY <2>1, <2>2
  <2> QED BY <2>1, <2>3, <2>4
<1> HIDE DEF T
<1>7. CASE m \in I
  <2>0. \A j \in I : j <= m <=> j <= m - 1 \/ j = m BY <1>0, <1>m
  <2>1. {j \in I : j <= m} = {j \in I : j <= m - 1} \cup {m} BY <2>0, <1>7
  <2>2. m \notin {j \in I : j <= m - 1} BY <1>m
  <2>3. Rank(I, m) = Rank(I, m - 1) + 1 BY <2>1, <2>2, <1>2, <1>6, FS_AddElement DEF Rank
  <2>4. Rank(I, m - 1) \in Nat BY <1>2, <1>6
  <2>5. Rank(I, m) = k BY <2>3, <2>4, <1>m, <1>6
  <2> QED BY <2>5, <1>7
<1>8. CASE m \notin I
  <2>0. \A j \in I : j <= m <=> j <= m - 1 BY <1>0, <1>8, <1>m
  <2>1. {j \in I : j <= m} = {j \in I : j <= m - 1} BY <2>0
  <2>2. Rank(I, m) = Rank(I, m - 1) BY <2>1 DEF Rank
  <2> QED BY <2>2, <1>m, <1>6
<1> QED BY <1>7, <1>8

\* Keeping some positions of a sequence gives a sequence of that many elements.
LEMMA KeepType ==
    ASSUME NEW S, NEW s \in Seq(S), NEW I, I \subseteq 1 .. Len(s)
    PROVE  /\ Keep(s, I) \in Seq(S)
           /\ Len(Keep(s, I)) = Cardinality(I)
           /\ Cardinality(I) \in Nat
<1>0. Len(s) \in Nat OBVIOUS
<1>1. IsFiniteSet(I) /\ Cardinality(I) \in Nat
  <2>1. IsFiniteSet(1 .. Len(s)) BY <1>0, FS_Interval
  <2>2. IsFiniteSet(I) BY <2>1, FS_Subset
  <2> QED BY <2>2, FS_CardinalityType
<1>2. ASSUME NEW k \in 1 .. Cardinality(I)
      PROVE  s[CHOOSE i \in I : Rank(I, i) = k] \in S
  <2>1. \E i \in I : Rank(I, i) = k
    <3>1. k \in Nat /\ 1 <= k /\ k <= Cardinality(I) BY <1>1
    <3> QED BY <1>0, <3>1, KeptPosition
  <2>2. (CHOOSE i \in I : Rank(I, i) = k) \in I BY <2>1
  <2>3. \A i \in I : s[i] \in S OBVIOUS
  <2> QED BY <2>2, <2>3
<1> DEFINE n == Cardinality(I)
           f == [k \in 1 .. n |-> s[CHOOSE i \in I : Rank(I, i) = k]]
<1>3. f \in [1 .. n -> S] /\ n \in Nat BY <1>1, <1>2
<1>4. Keep(s, I) = f BY DEF Keep
<1> HIDE DEF f, n
<1>5. f \in Seq(S) /\ Len(f) = n BY <1>3
<1> QED BY <1>1, <1>4, <1>5 DEF n

\* The places of the queued tasks of normal priority.
LEMMA PlacesAre ==
    ASSUME NEW S, NEW q \in [Devices -> Seq(S)]
    PROVE  Places(q) = {p \in Devices \X Nat : p[2] \in 1 .. Len(q[p[1]])}
  BY DEF Places

\* A place is a device and a position in its queue.
LEMMA InPlaces ==
    ASSUME NEW S, NEW q \in [Devices -> Seq(S)], NEW d \in Devices, NEW i \in Nat
    PROVE  <<d, i>> \in Places(q) <=> 1 <= i /\ i <= Len(q[d])
  BY DEF Places

\* Two sets of places are compared place by place.
LEMMA SamePlaces ==
    ASSUME NEW A, A \subseteq Devices \X Nat, NEW B, B \subseteq Devices \X Nat,
           \A e \in Devices, i \in Nat : <<e, i>> \in A <=> <<e, i>> \in B
    PROVE  A = B
<1>1. ASSUME NEW p \in A PROVE p \in B
  <2>1. p = <<p[1], p[2]>> /\ p[1] \in Devices /\ p[2] \in Nat OBVIOUS
  <2> QED BY <2>1
<1>2. ASSUME NEW p \in B PROVE p \in A
  <2>1. p = <<p[1], p[2]>> /\ p[1] \in Devices /\ p[2] \in Nat OBVIOUS
  <2> QED BY <2>1
<1> QED BY <1>1, <1>2

\* There is one place more when a task is appended to a queue.
LEMMA PlacesGrow ==
    ASSUME NEW S, NEW q \in [Devices -> Seq(S)], NEW d \in Devices,
           IsFiniteSet(Places(q)), NEW r \in [Devices -> Seq(S)],
           Len(r[d]) = Len(q[d]) + 1,
           \A e \in Devices : e # d => r[e] = q[e]
    PROVE  /\ IsFiniteSet(Places(r))
           /\ Cardinality(Places(r)) = Cardinality(Places(q)) + 1
<1> DEFINE p == <<d, Len(q[d]) + 1>>
<1>1. r \in [Devices -> Seq(S)] /\ Len(q[d]) \in Nat OBVIOUS
<1>2. \A e \in Devices : Len(r[e]) = IF e = d THEN Len(q[d]) + 1 ELSE Len(q[e]) OBVIOUS
<1>3. p \notin Places(q) BY <1>1, InPlaces
<1>4. Places(r) = Places(q) \cup {p}
  <2>1. Places(q) \subseteq Devices \X Nat /\ Places(r) \subseteq Devices \X Nat
    BY <1>1, PlacesAre
  <2>2. ASSUME NEW e \in Devices, NEW i \in Nat
        PROVE  <<e, i>> \in Places(r) <=> <<e, i>> \in Places(q) \cup {p}
    <3>1. <<e, i>> \in Places(r) <=> 1 <= i /\ i <= Len(r[e]) BY <1>1, InPlaces
    <3>2. <<e, i>> \in Places(q) <=> 1 <= i /\ i <= Len(q[e]) BY InPlaces
    <3>3. <<e, i>> = p <=> e = d /\ i = Len(q[d]) + 1 OBVIOUS
    <3>4. Len(q[e]) \in Nat OBVIOUS
    <3> QED BY <3>1, <3>2, <3>3, <3>4, <1>1, <1>2
  <2>3. p \in Devices \X Nat BY <1>1
  <2> HIDE DEF p
  <2> DEFINE B == Places(q) \cup {p}
  <2>4. B \subseteq Devices \X Nat BY <2>1, <2>3
  <2>5. \A e \in Devices, i \in Nat : <<e, i>> \in Places(r) <=> <<e, i>> \in B BY <2>2
  <2> HIDE DEF B
  <2>6. Places(r) = B BY <2>1, <2>4, <2>5, SamePlaces
  <2> QED BY <2>6 DEF B
<1> QED BY <1>3, <1>4, FS_AddElement

\* There is one place less when the first task of a queue is taken.
LEMMA PlacesShrink ==
    ASSUME NEW S, NEW q \in [Devices -> Seq(S)], NEW d \in Devices,
           q[d] # <<>>, IsFiniteSet(Places(q)),
           NEW r, r = [q EXCEPT ![d] = Tail(@)]
    PROVE  /\ IsFiniteSet(Places(r))
           /\ Cardinality(Places(r)) = Cardinality(Places(q)) - 1
<1> DEFINE p == <<d, Len(q[d])>>
<1>1. r \in [Devices -> Seq(S)] /\ Len(q[d]) \in Nat /\ Len(q[d]) >= 1 OBVIOUS
<1>2. \A e \in Devices : Len(r[e]) = IF e = d THEN Len(q[d]) - 1 ELSE Len(q[e]) OBVIOUS
<1>3. p \in Places(q) BY <1>1, InPlaces
<1>4. Places(r) = Places(q) \ {p}
  <2>1. Places(q) \subseteq Devices \X Nat /\ Places(r) \subseteq Devices \X Nat
    BY <1>1, PlacesAre
  <2>2. ASSUME NEW e \in Devices, NEW i \in Nat
        PROVE  <<e, i>> \in Places(r) <=> <<e, i>> \in Places(q) \ {p}
    <3>1. <<e, i>> \in Places(r) <=> 1 <= i /\ i <= Len(r[e]) BY <1>1, InPlaces
    <3>2. <<e, i>> \in Places(q) <=> 1 <= i /\ i <= Len(q[e]) BY InPlaces
    <3>3. <<e, i>> = p <=> e = d /\ i = Len(q[d]) OBVIOUS
    <3>4. Len(q[e]) \in Nat OBVIOUS
    <3> QED BY <3>1, <3>2, <3>3, <3>4, <1>1, <1>2
  <2>3. Places(q) \ {p} \subseteq Devices \X Nat BY <2>1
  <2> HIDE DEF p
  <2> QED BY <2>1, <2>2, <2>3, SamePlaces
<1> HIDE DEF p
<1>5. /\ IsFiniteSet(Places(q) \ {p})
      /\ Cardinality(Places(q) \ {p}) = Cardinality(Places(q)) - 1
  BY <1>3, FS_RemoveElement
<1> QED BY <1>4, <1>5

\* Emptying a queue takes away as many places as it had tasks.
LEMMA PlacesDrained ==
    ASSUME NEW S, NEW q \in [Devices -> Seq(S)], NEW d \in Devices,
           IsFiniteSet(Places(q)),
           NEW r, r = [q EXCEPT ![d] = <<>>]
    PROVE  /\ IsFiniteSet(Places(r))
           /\ Cardinality(Places(r)) = Cardinality(Places(q)) - Len(q[d])
<1> DEFINE n == Len(q[d])
           D == {d} \X (1 .. n)
<1>1. r \in [Devices -> Seq(S)] /\ n \in Nat OBVIOUS
<1>2. \A e \in Devices : Len(r[e]) = IF e = d THEN 0 ELSE Len(q[e]) OBVIOUS
<1>3. Cardinality(D) = n
  <2>1. IsFiniteSet({d}) /\ Cardinality({d}) = 1 BY FS_Singleton
  <2> HIDE DEF n
  <2>2. /\ IsFiniteSet(1 .. n)
        /\ Cardinality(1 .. n) = IF 1 > n THEN 0 ELSE n - 1 + 1
    BY <1>1, FS_Interval
  <2>3. Cardinality(1 .. n) = n BY <2>2, <1>1
  <2>4. Cardinality(D) = Cardinality({d}) * Cardinality(1 .. n) BY <2>1, <2>2, FS_Product
  <2> QED BY <2>1, <2>3, <2>4, <1>1
<1>4. Places(r) = Places(q) \ D /\ Places(q) \cap D = D
  <2>1. Places(q) \subseteq Devices \X Nat /\ Places(r) \subseteq Devices \X Nat
    BY <1>1, PlacesAre
  <2>2. ASSUME NEW e \in Devices, NEW i \in Nat
        PROVE  /\ <<e, i>> \in Places(r) <=> <<e, i>> \in Places(q) \ D
               /\ <<e, i>> \in D => <<e, i>> \in Places(q)
    <3>1. <<e, i>> \in Places(r) <=> 1 <= i /\ i <= Len(r[e]) BY <1>1, InPlaces
    <3>2. <<e, i>> \in Places(q) <=> 1 <= i /\ i <= Len(q[e]) BY InPlaces
    <3>3. <<e, i>> \in D <=> e = d /\ 1 <= i /\ i <= n BY <1>1
    <3>4. Len(q[e]) \in Nat OBVIOUS
    <3> QED BY <3>1, <3>2, <3>3, <3>4, <1>1, <1>2
  <2>3. D \subseteq Devices \X Nat BY <1>1
  <2> HIDE DEF D
  <2>4. Places(q) \ D \subseteq Devices \X Nat BY <2>1
  <2>5. Places(q) \cap D \subseteq Devices \X Nat BY <2>1
  <2>6. Places(q) \cap D = D BY <2>2, <2>3, <2>5, SamePlaces
  <2>7. Places(r) = Places(q) \ D BY <2>1, <2>2, <2>4, SamePlaces, Zenon
  <2> QED BY <2>6, <2>7
<1> HIDE DEF D
<1>5. /\ IsFiniteSet(Places(q) \ D)
      /\ Cardinality(Places(q) \ D)
            = Cardinality(Places(q)) - Cardinality(Places(q) \cap D)
  BY FS_Difference
<1> QED BY <1>3, <1>4, <1>5

\* No task is queued when every queue is empty.
LEMMA PlacesEmpty ==
    ASSUME NEW q, q = [d \in Devices |-> <<>>]
    PROVE  IsFiniteSet(Places(q)) /\ Cardinality(Places(q)) = 0
<1>1. Places(q) = {} BY DEF Places
<1> QED BY <1>1, FS_EmptySet
-----------------------------------------------------------------------------
(***************************************************************************)
(* The counter                                                             *)
(***************************************************************************)

\* The counter with what its proof needs: the ring names the devices that have
\* tasks, so a dequeue that finds nothing has really nothing to count out.
CountInv ==
    /\ RingInv
    /\ TypeOK
    /\ IsFiniteSet(Places(queues))
    /\ CountExact

\* The empty scheduler counts right.
LEMMA CountInit == Init => CountInv
<1> SUFFICES ASSUME Init PROVE CountInv OBVIOUS
<1>1. RingInv BY RingInit
<1>2. TypeOK
  <2>1. RingTypes BY <1>1 DEF RingInv
  <2>2. emergency \in Seq(Emergency) /\ total \in Nat BY DEF Init
  <2>3. shutdown \in BOOLEAN BY DEF Init
  <2>4. worker \in [Workers -> WorkerStates] BY DEF Init, WorkerStates
  <2> QED BY <2>1, <2>2, <2>3, <2>4 DEF TypeOK
<1>3. IsFiniteSet(Places(queues)) /\ Cardinality(Places(queues)) = 0 BY PlacesEmpty DEF Init
<1>4. CountExact BY <1>3 DEF CountExact, Init
<1> QED BY <1>1, <1>2, <1>3, <1>4 DEF CountInv

\* CountInv spelled out for the steps below.
LEMMA CountFacts ==
    ASSUME CountInv
    PROVE  /\ RingInv /\ TypeOK /\ RingTypes
           /\ queues \in [Devices -> Seq(Tasks \ Emergency)]
           /\ emergency \in Seq(Emergency) /\ Len(emergency) \in Nat
           /\ worker \in [Workers -> WorkerStates]
           /\ shutdown \in BOOLEAN
           /\ total \in Nat
           /\ IsFiniteSet(Places(queues))
           /\ Cardinality(Places(queues)) \in Nat
           /\ total = Len(emergency) + Cardinality(Places(queues))
<1>1. RingInv /\ TypeOK /\ RingTypes /\ IsFiniteSet(Places(queues)) BY DEF CountInv, RingInv
<1>2. Cardinality(Places(queues)) \in Nat BY <1>1, FS_CardinalityType
<1>3. /\ emergency \in Seq(Emergency) /\ total \in Nat
      /\ worker \in [Workers -> WorkerStates] /\ shutdown \in BOOLEAN
      /\ queues \in [Devices -> Seq(Tasks \ Emergency)]
  BY <1>1 DEF TypeOK, RingTypes
<1>4. Len(emergency) \in Nat BY <1>3
<1> QED BY <1>1, <1>2, <1>3, <1>4 DEF CountInv, CountExact

\* cv_.notify_one() leaves every thread in one of its states.
LEMMA NotifyOneType ==
    ASSUME worker \in [Workers -> WorkerStates], NotifyOne
    PROVE  worker' \in [Workers -> WorkerStates]
  BY DEF NotifyOne, WorkerStates, Asleep

\* schedule() of an emergency task counts it.
LEMMA ScheduleEmergencyCounts ==
    ASSUME CountInv, RingInv', NEW t \in Tasks, ScheduleEmergency(t)
    PROVE  CountInv'
<1>1. /\ t \in Emergency /\ emergency' = Append(emergency, t)
      /\ total' = total + 1 /\ queues' = queues /\ NotifyOne
      /\ shutdown' = shutdown
  BY DEF ScheduleEmergency
<1>2. /\ emergency' \in Seq(Emergency)
      /\ Len(emergency') = Len(emergency) + 1
  BY <1>1, CountFacts
<1>3. TypeOK' BY <1>1, <1>2, CountFacts, NotifyOneType DEF TypeOK, RingInv
<1>4. CountExact' /\ IsFiniteSet(Places(queues')) BY <1>1, <1>2, CountFacts DEF CountExact
<1> QED BY <1>3, <1>4 DEF CountInv

\* schedule() of a task of normal priority counts it.
LEMMA ScheduleNormalCounts ==
    ASSUME CountInv, RingInv', NEW t \in Tasks, ScheduleNormal(t)
    PROVE  CountInv'
<1> DEFINE d == DeviceOf[t]
<1>1. /\ t \in Tasks \ Emergency /\ emergency' = emergency
      /\ total' = total + 1
      /\ queues' = [queues EXCEPT ![d] = Append(@, t)]
      /\ NotifyOne /\ shutdown' = shutdown
  BY DEF ScheduleNormal
<1>2. d \in Devices BY TasksAssumption
<1> HIDE DEF d
<1>3. /\ IsFiniteSet(Places(queues'))
      /\ Cardinality(Places(queues')) = Cardinality(Places(queues)) + 1
  <2>1. /\ queues' \in [Devices -> Seq(Tasks \ Emergency)]
        /\ \A e \in Devices : e # d => queues'[e] = queues[e]
        /\ Len(queues'[d]) = Len(queues[d]) + 1
    BY <1>1, <1>2, CountFacts
  <2>2. queues \in [Devices -> Seq(Tasks \ Emergency)] BY CountFacts
  <2>3. IsFiniteSet(Places(queues)) BY CountFacts
  <2> QED BY ONLY <1>2, <2>1, <2>2, <2>3, PlacesGrow, Zenon
<1>4. TypeOK' BY <1>1, CountFacts, NotifyOneType DEF TypeOK, RingInv
<1>5. CountExact' BY <1>1, <1>3, CountFacts DEF CountExact
<1> QED BY <1>3, <1>4, <1>5 DEF CountInv

\* dequeue_locked() of an emergency task counts it out.
LEMMA DequeueEmergencyCounts ==
    ASSUME CountInv, RingInv', DequeueEmergency, shutdown' = shutdown,
           worker' \in [Workers -> WorkerStates]
    PROVE  CountInv'
<1>1. /\ emergency # <<>> /\ emergency' = Tail(emergency)
      /\ total' = total - 1 /\ queues' = queues
  BY DEF DequeueEmergency
<1>2. /\ emergency' \in Seq(Emergency)
      /\ Len(emergency') = Len(emergency) - 1
      /\ Len(emergency) >= 1
  BY <1>1, CountFacts
<1>3. TypeOK' BY <1>1, <1>2, CountFacts DEF TypeOK, RingInv
<1>4. CountExact' /\ IsFiniteSet(Places(queues')) BY <1>1, <1>2, CountFacts DEF CountExact
<1> QED BY <1>3, <1>4 DEF CountInv

\* The task that DequeueNormal takes is the oldest one of the device in front.
LEMMA DequeueTakesFront ==
    ASSUME RingInv, DequeueNormal
    PROVE  /\ ring[1] \in Devices /\ queues[ring[1]] # <<>>
           /\ queues' = [queues EXCEPT ![ring[1]] = Tail(@)]
<1>1. Len(ring) \in Nat /\ Len(ring) >= 1 /\ FirstLive = 1
  BY FrontIsLive, RingFacts DEF DequeueNormal
<1>2. SubSeq(ring, FirstLive, Len(ring)) = ring /\ Head(ring) = ring[1] BY <1>1, RingFacts
<1>3. ring[1] \in Devices /\ queues[ring[1]] # <<>> BY <1>1, RingFacts
<1> QED BY <1>1, <1>2, <1>3 DEF DequeueNormal

\* dequeue_locked() of a task of normal priority counts it out.
LEMMA DequeueNormalCounts ==
    ASSUME CountInv, RingInv', DequeueNormal, shutdown' = shutdown,
           worker' \in [Workers -> WorkerStates]
    PROVE  CountInv'
<1> DEFINE d == ring[1]
<1>1. /\ d \in Devices /\ queues[d] # <<>>
      /\ queues' = [queues EXCEPT ![d] = Tail(@)]
  BY CountFacts, DequeueTakesFront
<1>2. total' = total - 1 /\ emergency' = emergency BY DEF DequeueNormal
<1> HIDE DEF d
<1>3. /\ IsFiniteSet(Places(queues'))
      /\ Cardinality(Places(queues')) = Cardinality(Places(queues)) - 1
  BY <1>1, CountFacts, PlacesShrink
<1>4. Cardinality(Places(queues')) \in Nat BY <1>3, FS_CardinalityType
<1>5. CountExact' /\ total' \in Nat BY <1>2, <1>3, <1>4, CountFacts DEF CountExact
<1>6. TypeOK' BY <1>2, <1>5, CountFacts DEF TypeOK, RingInv
<1> QED BY <1>3, <1>5, <1>6 DEF CountInv

\* A dequeue that finds nothing leaves everything as it was, and the counter
\* is zero.
LEMMA DequeueNothingCounts ==
    ASSUME CountInv, DequeueNothing
    PROVE  /\ UNCHANGED <<emergency, queues, ring, active, consumed, total>>
           /\ total = 0
<1>1. Len(ring) = 0 /\ ring = <<>> BY FrontIsLive, RingFacts, CountFacts DEF DequeueNothing
<1>2. active = {} BY <1>1, RingFacts, CountFacts
<1>3. UNCHANGED <<emergency, queues, ring, active, consumed, total>>
  BY <1>1, <1>2 DEF DequeueNothing
<1>4. \A d \in Devices : queues[d] = <<>> BY <1>2, RingFacts, CountFacts
<1>5. queues = [d \in Devices |-> <<>>] BY <1>4, CountFacts
<1>6. Cardinality(Places(queues)) = 0 BY <1>5, PlacesEmpty
<1>7. emergency = <<>> BY DEF DequeueNothing
<1> QED BY <1>3, <1>6, <1>7, CountFacts

\* drain_device_queue() counts out what it erases, in both queues.
LEMMA DrainCounts ==
    ASSUME CountInv, RingInv', NEW d \in Devices, DrainDeviceQueue(d)
    PROVE  CountInv'
<1> DEFINE I == {i \in 1 .. Len(emergency) : DeviceOf[emergency[i]] # d}
           others == WithoutDevice(d)
<1>1. /\ queues' = [queues EXCEPT ![d] = <<>>]
      /\ emergency' = others
      /\ total' = total - Len(queues[d]) - (Len(emergency) - Len(others))
      /\ shutdown' = shutdown /\ worker' = worker
  BY DEF DrainDeviceQueue
<1>2. others = Keep(emergency, I) /\ I \subseteq 1 .. Len(emergency) BY DEF WithoutDevice
<1> HIDE DEF I, others
<1>3. others \in Seq(Emergency) /\ Len(others) \in Nat BY <1>2, CountFacts, KeepType
<1>4. /\ IsFiniteSet(Places(queues'))
      /\ Cardinality(Places(queues'))
            = Cardinality(Places(queues)) - Len(queues[d])
  BY <1>1, CountFacts, PlacesDrained
<1>5. Cardinality(Places(queues')) \in Nat /\ Len(queues[d]) \in Nat
  BY <1>4, FS_CardinalityType, CountFacts
<1>6. CountExact' /\ total' \in Nat BY <1>1, <1>3, <1>4, <1>5, CountFacts DEF CountExact
<1>7. TypeOK' BY <1>1, <1>3, <1>6, CountFacts DEF TypeOK, RingInv
<1> QED BY <1>4, <1>6, <1>7 DEF CountInv

\* clear() leaves nothing to count.
LEMMA ClearCounts ==
    ASSUME CountInv, RingInv', Clear
    PROVE  CountInv'
<1>1. /\ queues' = [d \in Devices |-> <<>>] /\ emergency' = <<>> /\ total' = 0
      /\ shutdown' = shutdown /\ worker' = worker
  BY DEF Clear
<1>2. IsFiniteSet(Places(queues')) /\ Cardinality(Places(queues')) = 0 BY <1>1, PlacesEmpty
<1>3. TypeOK' BY <1>1, CountFacts DEF TypeOK, RingInv
<1>4. CountExact' BY <1>1, <1>2 DEF CountExact
<1> QED BY <1>2, <1>3, <1>4 DEF CountInv

\* Steps that only move threads.
LEMMA CountUnchanged ==
    ASSUME CountInv, RingInv', UNCHANGED <<emergency, queues, total>>,
           shutdown' \in BOOLEAN, worker' \in [Workers -> WorkerStates]
    PROVE  CountInv'
<1>1. TypeOK' BY CountFacts DEF TypeOK, RingInv
<1>2. CountExact' /\ IsFiniteSet(Places(queues')) BY CountFacts DEF CountExact
<1> QED BY <1>1, <1>2 DEF CountInv

\* Every step keeps the counter exact.
LEMMA CountInductive == CountInv /\ [Next]_vars => CountInv'
<1> SUFFICES ASSUME CountInv, [Next]_vars PROVE CountInv' OBVIOUS
<1>0. RingInv' BY RingInductive, CountFacts
<1>1. ASSUME NEW t \in Tasks, ScheduleEmergency(t) PROVE CountInv'
  BY <1>0, <1>1, ScheduleEmergencyCounts
<1>2. ASSUME NEW t \in Tasks, ScheduleNormal(t) PROVE CountInv'
  BY <1>0, <1>2, ScheduleNormalCounts
<1>3. ASSUME NEW w \in Workers, Dequeue(w) PROVE CountInv'
  <2>1. worker' \in [Workers -> WorkerStates] /\ shutdown' = shutdown
    BY <1>3, CountFacts DEF Dequeue, WorkerStates
  <2>2. CASE DequeueEmergency BY <1>0, <2>1, <2>2, DequeueEmergencyCounts
  <2>3. CASE DequeueNormal BY <1>0, <2>1, <2>3, DequeueNormalCounts
  <2>4. CASE DequeueNothing
    BY <1>0, <2>1, <2>4, DequeueNothingCounts, CountUnchanged, CountFacts
  <2> QED BY <1>3, <2>2, <2>3, <2>4 DEF Dequeue, DequeueLocked
<1>4. ASSUME NEW w \in Workers, Sleep(w) \/ TimeOut(w) PROVE CountInv'
  <2>1. worker' \in [Workers -> WorkerStates]
    BY <1>4, CountFacts DEF Sleep, TimeOut, WorkerStates
  <2> QED BY <1>0, <1>4, <2>1, CountUnchanged, CountFacts
           DEF Sleep, TimeOut, queueVars
<1>5. ASSUME NEW d \in Devices, DrainDeviceQueue(d) PROVE CountInv'
  BY <1>0, <1>5, DrainCounts
<1>6. CASE Clear BY <1>0, <1>6, ClearCounts
<1>7. CASE Shutdown
  <2>1. worker' \in [Workers -> WorkerStates] BY <1>7, CountFacts DEF Shutdown, WorkerStates
  <2> QED BY <1>0, <1>7, <2>1, CountUnchanged, CountFacts
           DEF Shutdown, queueVars
<1>8. CASE UNCHANGED vars BY <1>0, <1>8, CountUnchanged, CountFacts DEF vars
<1> QED BY <1>1, <1>2, <1>3, <1>4, <1>5, <1>6, <1>7, <1>8 DEF Next

\* For every number of devices and tasks and every configuration, the counter
\* that admission and waiting go by is the number of queued tasks, and the
\* subtractions of dequeue and drain never take it below zero.
THEOREM CountIsExact == Spec => [](TypeOK /\ CountExact)
<1>1. CountInv => TypeOK /\ CountExact BY DEF CountInv
<1> QED BY <1>1, CountInit, CountInductive, PTL DEF Spec
-----------------------------------------------------------------------------
(***************************************************************************)
(* The condition variable                                                  *)
(***************************************************************************)

\* A thread that gets up or is sent to sleep changes the counts by that thread.
LEMMA NotifiedFinite ==
    IsFiniteSet(Notified) /\ Cardinality(Notified) \in Nat
<1>1. Notified \subseteq Workers BY DEF Notified
<1>2. IsFiniteSet(Notified) BY <1>1, WorkersAssumption, FS_Subset
<1> QED BY <1>2, FS_CardinalityType

\* cv_.notify_one() with a thread asleep: one more thread is on its way.
LEMMA NotifyOneCounts ==
    ASSUME worker \in [Workers -> WorkerStates], NotifyOne, Asleep' # {}
    PROVE  Asleep # {} /\ Cardinality(Notified') = Cardinality(Notified) + 1
<1>1. Asleep # {} BY DEF NotifyOne, Asleep
<1>2. PICK w \in Asleep : worker' = [worker EXCEPT ![w] = "notified"] BY <1>1 DEF NotifyOne
<1>3. w \in Workers /\ worker[w] = "asleep" BY DEF Asleep
<1>4. Notified' = Notified \cup {w} /\ w \notin Notified BY <1>2, <1>3 DEF Notified
<1> QED BY <1>1, <1>4, NotifiedFinite, FS_AddElement

\* A thread that leaves dequeue() may have been one of those on their way.
LEMMA LeavingCounts ==
    ASSUME worker \in [Workers -> WorkerStates], NEW w \in Workers,
           worker' = [worker EXCEPT ![w] = "outside"]
    PROVE  /\ Cardinality(Notified') \in Nat
           /\ Cardinality(Notified') >= Cardinality(Notified) - 1
           /\ Asleep' \subseteq Asleep
<1>1. Notified' = Notified \ {w} BY DEF Notified
<1>2. Asleep' \subseteq Asleep BY DEF Asleep
<1>3. CASE w \in Notified
  <2>1. /\ IsFiniteSet(Notified \ {w})
        /\ Cardinality(Notified \ {w}) = Cardinality(Notified) - 1
    BY <1>3, NotifiedFinite, FS_RemoveElement
  <2>2. Cardinality(Notified \ {w}) \in Nat BY <2>1, FS_CardinalityType
  <2> QED BY <1>1, <1>2, <2>1, <2>2
<1>4. CASE w \notin Notified
  <2>1. Notified \ {w} = Notified BY <1>4
  <2> QED BY <1>1, <1>2, <2>1, NotifiedFinite
<1> QED BY <1>3, <1>4

\* Steps after which nobody more sleeps and nobody less is on the way.
LEMMA WakeupUnchanged ==
    ASSUME CountInv, CountInv', NoLostWakeup, worker' = worker,
           shutdown' = shutdown, total' <= total
    PROVE  NoLostWakeup'
<1>1. Asleep' = Asleep /\ Notified' = Notified BY DEF Asleep, Notified
<1>2. total \in Nat /\ total' \in Nat BY CountFacts DEF CountInv, TypeOK
<1> QED BY <1>1, <1>2, NotifiedFinite DEF NoLostWakeup

\* Every step keeps the promise to the sleeping threads.
LEMMA WakeupInductive ==
    ASSUME CountInv, CountInv', NoLostWakeup, [Next]_vars
    PROVE  NoLostWakeup'
<1>t. /\ total \in Nat /\ total' \in Nat
      /\ worker \in [Workers -> WorkerStates]
  BY CountFacts DEF CountInv, TypeOK
<1>1. ASSUME NEW t \in Tasks, ScheduleEmergency(t) \/ ScheduleNormal(t)
      PROVE  NoLostWakeup'
  <2>1. NotifyOne /\ total' = total + 1 /\ shutdown' = shutdown
    BY <1>1 DEF ScheduleEmergency, ScheduleNormal
  <2>2. ASSUME Asleep' # {} PROVE ~shutdown' /\ total' <= Cardinality(Notified')
    <3>1. Asleep # {} /\ Cardinality(Notified') = Cardinality(Notified) + 1
      BY <1>t, <2>1, <2>2, NotifyOneCounts
    <3> QED BY <1>t, <2>1, <3>1, NotifiedFinite DEF NoLostWakeup
  <2> QED BY <2>2 DEF NoLostWakeup
<1>2. ASSUME NEW w \in Workers, Dequeue(w) PROVE NoLostWakeup'
  <2>1. worker' = [worker EXCEPT ![w] = "outside"] /\ shutdown' = shutdown
    BY <1>2 DEF Dequeue
  <2>2. /\ Cardinality(Notified') \in Nat
        /\ Cardinality(Notified') >= Cardinality(Notified) - 1
        /\ Asleep' \subseteq Asleep
    BY <1>t, <2>1, LeavingCounts
  <2>3. ASSUME Asleep' # {} PROVE ~shutdown' /\ total' <= Cardinality(Notified')
    <3>1. ~shutdown /\ total <= Cardinality(Notified) BY <2>2, <2>3 DEF NoLostWakeup
    <3>2. total > 0 BY <1>2, <3>1 DEF Dequeue, Ready
    <3>3. ~DequeueNothing BY <1>t, <3>2, DequeueNothingCounts
    <3>4. total' = total - 1
      BY <1>2, <3>3 DEF Dequeue, DequeueLocked, DequeueEmergency, DequeueNormal
    <3> QED BY <1>t, <2>1, <2>2, <3>1, <3>4, NotifiedFinite
  <2> QED BY <2>3 DEF NoLostWakeup
<1>3. ASSUME NEW w \in Workers, Sleep(w) \/ TimeOut(w) PROVE NoLostWakeup'
  <2>1. ~shutdown' /\ total' = 0 BY <1>3, <1>t DEF Sleep, TimeOut, Ready, queueVars
  <2>2. Notified' \subseteq Workers BY DEF Notified
  <2>3. IsFiniteSet(Notified') BY <2>2, WorkersAssumption, FS_Subset
  <2>4. Cardinality(Notified') \in Nat BY <2>3, FS_CardinalityType
  <2> QED BY <2>1, <2>4 DEF NoLostWakeup
<1>4. ASSUME NEW d \in Devices, DrainDeviceQueue(d) PROVE NoLostWakeup'
  <2>1. WithoutDevice(d) \in Seq(Emergency)
        /\ Len(WithoutDevice(d)) <= Len(emergency)
    <3> DEFINE I == {i \in 1 .. Len(emergency) : DeviceOf[emergency[i]] # d}
    <3>1. I \subseteq 1 .. Len(emergency) OBVIOUS
    <3>2. WithoutDevice(d) = Keep(emergency, I) BY DEF WithoutDevice
    <3> HIDE DEF I
    <3>3. /\ WithoutDevice(d) \in Seq(Emergency)
          /\ Len(WithoutDevice(d)) = Cardinality(I)
          /\ Cardinality(I) \in Nat
      BY <3>1, <3>2, CountFacts, KeepType
    <3>4. Cardinality(I) <= Len(emergency)
      <4>1. /\ IsFiniteSet(1 .. Len(emergency))
            /\ Cardinality(1 .. Len(emergency))
                  = IF 1 > Len(emergency) THEN 0 ELSE Len(emergency) - 1 + 1
        <5>1. Len(emergency) \in Nat BY CountFacts
        <5> QED BY ONLY <5>1, FS_Interval
      <4>2. Cardinality(I) <= Cardinality(1 .. Len(emergency)) BY <3>1, <4>1, FS_Subset
      <4> QED BY <4>1, <4>2, CountFacts
    <3> QED BY <3>3, <3>4
  <2>2. Len(queues[d]) \in Nat /\ Len(WithoutDevice(d)) \in Nat BY <2>1, CountFacts
  <2>3. total' <= total /\ worker' = worker /\ shutdown' = shutdown
    BY <1>4, <1>t, <2>1, <2>2, CountFacts DEF DrainDeviceQueue
  <2> QED BY <2>3, WakeupUnchanged
<1>5. CASE Clear
  <2>1. total' <= total /\ worker' = worker /\ shutdown' = shutdown BY <1>5, <1>t DEF Clear
  <2> QED BY <2>1, WakeupUnchanged
<1>6. CASE Shutdown
  <2>1. Asleep' = {} BY <1>6, <1>t DEF Shutdown, Asleep
  <2> QED BY <2>1 DEF NoLostWakeup
<1>7. CASE UNCHANGED vars
  <2>1. total' <= total /\ worker' = worker /\ shutdown' = shutdown BY <1>7, <1>t DEF vars
  <2> QED BY <2>1, WakeupUnchanged
<1> QED BY <1>1, <1>2, <1>3, <1>4, <1>5, <1>6, <1>7 DEF Next

\* For any number of threads and tasks: while threads sleep in dequeue(), as
\* many others as there are tasks have been notified, and nobody sleeps
\* through a shutdown. That the counter is exact is needed: a thread that
\* took the notification and found no task would break it.
THEOREM NoWakeupIsLost == Spec => []NoLostWakeup
<1>1. Init => NoLostWakeup BY DEF Init, NoLostWakeup, Asleep
<1>2. CountInv /\ NoLostWakeup /\ [Next]_vars => (CountInv /\ NoLostWakeup)'
  BY CountInductive, WakeupInductive
<1> QED BY <1>1, <1>2, CountInit, PTL DEF Spec
-----------------------------------------------------------------------------
(***************************************************************************)
(* The scheduler implements the lanes                                      *)
(***************************************************************************)

\* The lanes count and keep as the scheduler does.
LEMMA SameCardinality ==
    ASSUME NEW S
    PROVE  Lanes!Cardinality(S) = Cardinality(S)
  BY DEF Lanes!Cardinality, Cardinality

LEMMA SameKeep ==
    ASSUME NEW s, NEW I
    PROVE  Lanes!Keep(s, I) = Keep(s, I)
<1>1. \A i : Lanes!Rank(I, i) = Rank(I, i) BY SameCardinality DEF Lanes!Rank, Rank
<1>2. \A k : (CHOOSE i \in I : Lanes!Rank(I, i) = k)
                = CHOOSE i \in I : Rank(I, i) = k
  BY <1>1
<1> DEFINE f(k) == CHOOSE i \in I : Lanes!Rank(I, i) = k
           g(k) == CHOOSE i \in I : Rank(I, i) = k
           n == Cardinality(I)
<1>3. Lanes!Keep(s, I) = [k \in 1 .. n |-> s[f(k)]] BY SameCardinality DEF Lanes!Keep
<1>4. Keep(s, I) = [k \in 1 .. n |-> s[g(k)]] BY DEF Keep
<1>5. \A k : f(k) = g(k) BY <1>2
<1> HIDE DEF f, g, n
<1> QED BY <1>3, <1>4, <1>5

\* The tasks the lanes hold are those the counter counts.
LEMMA HeldIsTotal ==
    ASSUME CountInv
    PROVE  Lanes!Held = total
<1>1. Lanes!Places(queues) = Places(queues) BY DEF Lanes!Places, Places
<1>2. Lanes!Cardinality(Places(queues)) = Cardinality(Places(queues)) BY SameCardinality
<1> QED BY <1>1, <1>2, CountFacts DEF Lanes!Held

\* A step of the scheduler is a step of the lanes or leaves them alone.
LEMMA LanesStep ==
    ASSUME CountInv, [Next]_vars
    PROVE  [Lanes!Next]_(Lanes!vars)
<1>1. ASSUME NEW t \in Tasks, ScheduleEmergency(t) PROVE Lanes!Accept(t)
  BY <1>1, HeldIsTotal
  DEF ScheduleEmergency, Admits, Lanes!Accept, Lanes!Room
<1>2. ASSUME NEW t \in Tasks, ScheduleNormal(t) PROVE Lanes!Accept(t)
  BY <1>2, HeldIsTotal
  DEF ScheduleNormal, Admits, Lanes!Accept, Lanes!Room
<1>3. ASSUME DequeueEmergency PROVE Lanes!TakeExpress
  BY <1>3 DEF DequeueEmergency, Lanes!TakeExpress
<1>4. ASSUME DequeueNormal PROVE \E d \in Devices : Lanes!TakeFrom(d)
  <2>1. Lanes!TakeFrom(ring[1])
    BY <1>4, DequeueTakesFront, CountFacts
    DEF Lanes!TakeFrom, DequeueNormal
  <2>2. ring[1] \in Devices BY <1>4, DequeueTakesFront, CountFacts
  <2> QED BY <2>1, <2>2
<1>5. ASSUME DequeueNothing PROVE UNCHANGED Lanes!vars
  BY <1>5, DequeueNothingCounts DEF Lanes!vars
<1>6. ASSUME NEW d \in Devices, DrainDeviceQueue(d) PROVE Lanes!Withdraw(d)
  BY <1>6, SameKeep DEF DrainDeviceQueue, WithoutDevice, Lanes!Withdraw
<1>7. ASSUME Clear PROVE Lanes!WithdrawAll BY <1>7 DEF Clear, Lanes!WithdrawAll
<1>8. ASSUME (\E w \in Workers : Sleep(w) \/ TimeOut(w)) \/ Shutdown
                \/ UNCHANGED vars
      PROVE  UNCHANGED Lanes!vars
  BY <1>8 DEF Sleep, TimeOut, Shutdown, queueVars, vars, Lanes!vars
<1> QED BY <1>1, <1>2, <1>3, <1>4, <1>5, <1>6, <1>7, <1>8
         DEF Next, Dequeue, DequeueLocked, Lanes!Next

\* The ring, the quanta, the set and the counter implement bounded lanes:
\* every behaviour of the scheduler is one of DeliveryLanes.
THEOREM SchedulerImplementsLanes == Spec => ImplementsLanes
<1>1. Init => Lanes!Init BY DEF Init, Lanes!Init
<1>2. CountInv /\ [Next]_vars => [Lanes!Next]_(Lanes!vars) BY LanesStep
<1> QED BY <1>1, <1>2, CountInit, CountInductive, PTL
         DEF Spec, ImplementsLanes, Lanes!Spec
-----------------------------------------------------------------------------
(***************************************************************************)
(* Connections                                                             *)
(***************************************************************************)

\* A call knows the device, the user and the erased session it works on.
CallsFit ==
    \A t \in Threads :
        /\ ~At(t, "idle") => thread[t].device \in Devices
        /\ thread[t].op = "establish" => thread[t].user \in Users
        /\ At(t, "register") \/ At(t, "session") \/ At(t, "online")
              => thread[t].op = "establish"
        /\ At(t, "unregister") => thread[t].op = "terminate"
        /\ At(t, "offline") \/ At(t, "touch") \/ At(t, "beat")
              => thread[t].gone \in Users

PassFits ==
    /\ reaper.device # None => reaper.gone \in Users
    /\ ~evicted => reaper = Resting

\* A step that changes marks of channels at most.
SameChannels ==
    \A d \in Devices : /\ channels'[d] = NoChannel <=> channels[d] = NoChannel
                       /\ channels'[d].conn = channels[d].conn
                       /\ channels'[d].user = channels[d].user

\* Between taking the stripe and releasing it.
Holding(t) == At(t, "erase") \/ At(t, "offline") \/ At(t, "session") \/ At(t, "online")

\* A call that holds the stripe finds its own channel or none, since only the
\* reaper touches the registry beside it.
HolderAlone(t) == Holding(t) => stripe[thread[t].device] = t

HolderChannel(t) ==
    Holding(t) /\ channels[thread[t].device] # NoChannel =>
        /\ thread[t].op = "establish"
        /\ channels[thread[t].device].conn = thread[t].conn
        /\ channels[thread[t].device].user = thread[t].user

HolderSession(t) ==
    At(t, "online") /\ sessions[thread[t].device] # NoSession =>
        /\ sessions[thread[t].device].conn = thread[t].conn
        /\ sessions[thread[t].device].user = thread[t].user

\* Without evictions the call knows what there is.
HolderUndisturbed(t) ==
    ~evicted =>
        /\ Holding(t) /\ thread[t].op = "establish"
              => channels[thread[t].device] # NoChannel
        /\ At(t, "offline") \/ At(t, "session")
              => sessions[thread[t].device] = NoSession
        /\ At(t, "online") => sessions[thread[t].device] # NoSession

HolderFits(t) ==
    HolderAlone(t) /\ HolderChannel(t) /\ HolderSession(t) /\ HolderUndisturbed(t)

HoldersFit == \A t \in Threads : HolderFits(t)

\* The invariant that the steps preserve.
ConnectionInv ==
    /\ LifecycleTypeOK
    /\ CallsFit
    /\ PassFits
    /\ HoldersFit
    /\ IndexExact
    /\ PresenceIndexed
    /\ SessionIsCurrent
    /\ StripesSuffice
-----------------------------------------------------------------------------
(***************************************************************************)
(* Helpers                                                                 *)
(***************************************************************************)

\* A row that is there has a user.
LEMMA RowsHaveUsers ==
    ASSUME LifecycleTypeOK, NEW d \in Devices
    PROVE  /\ channels[d] # NoChannel => channels[d] \in Channel /\ channels[d].user \in Users
           /\ channels[d] = NoChannel => channels[d].user \notin Users /\ ~channels[d].active /\ ~channels[d].leased
           /\ sessions[d] # NoSession => sessions[d] \in Session /\ sessions[d].user \in Users
           /\ sessions[d] = NoSession => sessions[d].user \notin Users
           /\ states[d] # NoEntry => states[d] \in DeviceEntry /\ states[d].user \in Users
           /\ states[d] = NoEntry => states[d].user \notin Users /\ ~states[d].leased
  BY NoneAssumption DEF LifecycleTypeOK, Channel, NoChannel, Session, NoSession, DeviceEntry,
     NoEntry

\* What a new row is.
LEMMA NewRows ==
    ASSUME NEW u \in Users, NEW c \in Connections, NEW a \in BOOLEAN, NEW l \in BOOLEAN
    PROVE  /\ [conn |-> c, user |-> u, active |-> a, leased |-> l] \in Channel \ {NoChannel}
           /\ [conn |-> c, user |-> u] \in Session \ {NoSession}
           /\ [user |-> u, leased |-> l] \in DeviceEntry \ {NoEntry}
  BY NoneAssumption DEF Channel, NoChannel, Session, NoSession, DeviceEntry, NoEntry

\* A call that only moves on keeps its fields.
LEMMA GoToKeeps ==
    ASSUME LifecycleTypeOK, NEW t \in Threads, NEW step \in Steps, GoTo(t, step)
    PROVE  /\ thread' \in [Threads -> Call]
           /\ thread'[t] = [thread[t] EXCEPT !.step = step]
           /\ thread'[t].step = step
           /\ thread'[t].op = thread[t].op /\ thread'[t].device = thread[t].device
           /\ thread'[t].user = thread[t].user /\ thread'[t].conn = thread[t].conn
           /\ thread'[t].gone = thread[t].gone
           /\ \A x \in Threads : x # t => thread'[x] = thread[x]
<1>1. thread \in [Threads -> Call] /\ thread[t] \in Call BY DEF LifecycleTypeOK
<1>2. thread' = [thread EXCEPT ![t] = [thread[t] EXCEPT !.step = step]]
  BY <1>1, Zenon DEF GoTo
<1>3. [thread[t] EXCEPT !.step = step] \in Call BY <1>1 DEF Call
<1>4. thread'[t] = [thread[t] EXCEPT !.step = step] BY <1>1, <1>2
<1> QED BY <1>1, <1>2, <1>3, <1>4 DEF Call
-----------------------------------------------------------------------------
(***************************************************************************)
(* Types                                                                   *)
(***************************************************************************)

\* A mark on a channel leaves the connection and its user alone.
LEMMA ChannelMarked ==
    ASSUME LifecycleTypeOK, NEW d \in Devices, channels[d] # NoChannel, NEW b \in BOOLEAN,
           \/ channels' = [channels EXCEPT ![d].active = b]
           \/ channels' = [channels EXCEPT ![d].leased = b]
    PROVE  /\ channels' \in [Devices -> Channel \cup {NoChannel}]
           /\ channels'[d] # NoChannel
           /\ channels'[d].conn = channels[d].conn /\ channels'[d].user = channels[d].user
           /\ \A x \in Devices : x # d => channels'[x] = channels[x]
<1>1. channels \in [Devices -> Channel \cup {NoChannel}] BY DEF LifecycleTypeOK
<1>2. channels[d] \in Channel /\ channels[d].user \in Users BY RowsHaveUsers
<1>3. PICK r : /\ channels' = [channels EXCEPT ![d] = r]
               /\ \/ r = [channels[d] EXCEPT !.active = b]
                  \/ r = [channels[d] EXCEPT !.leased = b]
  BY <1>1, Zenon
<1>4. r \in Channel /\ r.conn = channels[d].conn /\ r.user = channels[d].user
  BY <1>2, <1>3 DEF Channel
<1>5. r # NoChannel BY <1>2, <1>4, NoneAssumption DEF NoChannel
<1> QED BY <1>1, <1>3, <1>4, <1>5

\* The same for an entry of presence.
LEMMA EntryMarked ==
    ASSUME LifecycleTypeOK, NEW d \in Devices, states[d] # NoEntry, NEW b \in BOOLEAN,
           states' = [states EXCEPT ![d].leased = b]
    PROVE  /\ states' \in [Devices -> DeviceEntry \cup {NoEntry}]
           /\ states'[d] # NoEntry
           /\ states'[d].user = states[d].user
           /\ \A x \in Devices : x # d => states'[x] = states[x]
<1>1. states \in [Devices -> DeviceEntry \cup {NoEntry}] BY DEF LifecycleTypeOK
<1>2. states[d] \in DeviceEntry /\ states[d].user \in Users BY RowsHaveUsers
<1>3. states' = [states EXCEPT ![d] = [states[d] EXCEPT !.leased = b]] BY <1>1, Zenon
<1>4. /\ [states[d] EXCEPT !.leased = b] \in DeviceEntry
      /\ [states[d] EXCEPT !.leased = b].user = states[d].user
  BY <1>2 DEF DeviceEntry
<1>5. [states[d] EXCEPT !.leased = b] # NoEntry BY <1>2, <1>4, NoneAssumption DEF NoEntry
<1> QED BY <1>1, <1>3, <1>4, <1>5

\* What presence makes of a device of a known user.
LEMMA PresenceTyped ==
    ASSUME LifecycleTypeOK, NEW u \in Users, NEW d \in Devices,
           \/ OnDeviceConnected(u, d) \/ OnDeviceDisconnected(u, d)
           \/ OnDeviceHeartbeat(u, d)
    PROVE  /\ states' \in [Devices -> DeviceEntry \cup {NoEntry}]
           /\ members' \in [Users -> SUBSET Devices]
<1>1. /\ states \in [Devices -> DeviceEntry \cup {NoEntry}]
      /\ members \in [Users -> SUBSET Devices]
  BY DEF LifecycleTypeOK
<1>2. CASE OnDeviceConnected(u, d) BY <1>1, <1>2, NewRows DEF OnDeviceConnected, DeviceEntry
<1>3. CASE OnDeviceDisconnected(u, d) BY <1>1, <1>3 DEF OnDeviceDisconnected
<1>4. CASE OnDeviceHeartbeat(u, d) /\ states[d] # NoEntry
  BY <1>1, <1>4, EntryMarked DEF OnDeviceHeartbeat
<1>5. CASE OnDeviceHeartbeat(u, d) /\ states[d] = NoEntry
  BY <1>1, <1>2, <1>5 DEF OnDeviceHeartbeat
<1> QED BY <1>2, <1>3, <1>4, <1>5

\* A call that returns.
LEMMA LeaveTyped ==
    ASSUME LifecycleTypeOK, NEW t \in Threads, Leave(t)
    PROVE  /\ thread' \in [Threads -> Call]
           /\ thread'[t] = Idle
           /\ \A x \in Threads : x # t => thread'[x] = thread[x]
           /\ stripe' \in [Devices -> Threads \cup {None}]
           /\ \A d \in Devices : stripe'[d] = IF d = thread[t].device THEN None ELSE stripe[d]
<1>1. Idle \in Call BY CapacityAssumption DEF Idle, Call, Connections, Steps
<1>2. /\ thread \in [Threads -> Call] /\ stripe \in [Devices -> Threads \cup {None}]
      /\ thread' = [thread EXCEPT ![t] = Idle]
      /\ stripe' = [stripe EXCEPT ![thread[t].device] = None]
  BY DEF LifecycleTypeOK, Leave
<1>3. /\ thread' \in [Threads -> Call]
      /\ thread'[t] = Idle
      /\ \A x \in Threads : x # t => thread'[x] = thread[x]
  BY <1>1, <1>2
<1>4. /\ stripe' \in [Devices -> Threads \cup {None}]
      /\ \A d \in Devices : stripe'[d] = IF d = thread[t].device THEN None ELSE stripe[d]
  BY <1>2
<1> QED BY <1>3, <1>4

\* No step leaves the types, nor a call without what it works on.
LEMMA TypeStep ==
    ASSUME LifecycleTypeOK, CallsFit, PassFits, [LifecycleNext]_lifecycleVars
    PROVE  LifecycleTypeOK' /\ CallsFit' /\ PassFits'
<1> USE NoneAssumption, CapacityAssumption
<1>0. ASSUME NEW t \in Threads
      PROVE  thread[t] \in Call /\ thread[t].step \in Steps /\ thread[t].conn \in Connections
  BY DEF LifecycleTypeOK, Call
<1>1. ASSUME NEW t \in Threads, NEW d \in Devices, NEW u \in Users, EstablishConnection(t, d, u)
      PROVE  LifecycleTypeOK' /\ CallsFit' /\ PassFits'
  <2>1. /\ connections' \in Connections
        /\ thread' \in [Threads -> Call]
        /\ thread'[t] = [step |-> "register", op |-> "establish", device |-> d,
                         user |-> u, conn |-> connections + 1, gone |-> None]
        /\ \A x \in Threads : x # t => thread'[x] = thread[x]
    BY <1>1 DEF EstablishConnection, LifecycleTypeOK, Call, Connections, Steps
  <2> QED
    BY <1>1, <2>1 DEF EstablishConnection, LifecycleTypeOK, CallsFit, PassFits, At,
       registry, presence
<1>2. ASSUME NEW t \in Threads, NEW d \in Devices, TerminateConnection(t, d)
      PROVE  LifecycleTypeOK' /\ CallsFit' /\ PassFits'
  <2>1. thread' = [thread EXCEPT ![t] = [thread[t] EXCEPT !.step = "unregister", !.op = "terminate", !.device = d]]
    BY <1>2, Zenon DEF TerminateConnection, LifecycleTypeOK
  <2> DEFINE c == [thread[t] EXCEPT !.step = "unregister", !.op = "terminate", !.device = d]
  <2>2. c \in Call /\ c.step = "unregister" /\ c.op = "terminate" /\ c.device = d
    BY <1>0 DEF Call, Steps
  <2>3. /\ thread' \in [Threads -> Call]
        /\ thread'[t].step = "unregister" /\ thread'[t].op = "terminate" /\ thread'[t].device = d
        /\ \A x \in Threads : x # t => thread'[x] = thread[x]
    BY <2>1, <2>2 DEF LifecycleTypeOK
  <2> QED
    BY <1>2, <2>3 DEF TerminateConnection, LifecycleTypeOK, CallsFit, PassFits, At,
       registry, presence
<1>3. ASSUME NEW t \in Threads, NEW d \in Devices, RecordHeartbeat(t, d)
      PROVE  LifecycleTypeOK' /\ CallsFit' /\ PassFits'
  <2>0. sessions[d].user \in Users BY <1>3, RowsHaveUsers DEF RecordHeartbeat
  <2>1. thread' = [thread EXCEPT ![t] = [thread[t] EXCEPT !.step = "touch", !.op = "heartbeat", !.device = d, !.gone = sessions[d].user]]
    BY <1>3, Zenon DEF RecordHeartbeat, LifecycleTypeOK
  <2> DEFINE c == [thread[t] EXCEPT !.step = "touch", !.op = "heartbeat", !.device = d, !.gone = sessions[d].user]
  <2>2. c \in Call /\ c.step = "touch" /\ c.op = "heartbeat" /\ c.device = d /\ c.gone = sessions[d].user
    BY <1>0, <2>0 DEF Call, Steps
  <2>3. /\ thread' \in [Threads -> Call]
        /\ thread'[t].step = "touch" /\ thread'[t].op = "heartbeat" /\ thread'[t].device = d /\ thread'[t].gone = sessions[d].user
        /\ \A x \in Threads : x # t => thread'[x] = thread[x]
    BY <2>1, <2>2 DEF LifecycleTypeOK
  <2> QED
    BY <1>3, <2>0, <2>3 DEF RecordHeartbeat, LifecycleTypeOK, CallsFit, PassFits, At,
       registry, presence
<1>4. ASSUME NEW t \in Threads, RegisterChannel(t)
      PROVE  LifecycleTypeOK' /\ CallsFit' /\ PassFits'
  <2> DEFINE d == thread[t].device
             u == thread[t].user
  <2>1. d \in Devices /\ u \in Users BY <1>4 DEF RegisterChannel, CallsFit, At
  <2>2. channels' \in [Devices -> Channel \cup {NoChannel}]
    BY <1>0, <1>4, <2>1, NewRows DEF RegisterChannel, LifecycleTypeOK
  <2>3. userDevices' \in [Users -> SUBSET Devices]
    BY <1>4, <2>1 DEF RegisterChannel, LifecycleTypeOK, Listed
  <2>4. stripe' \in [Devices -> Threads \cup {None}]
    BY <1>4, <2>1 DEF RegisterChannel, LifecycleTypeOK, TakeStripe
  <2>5. PICK step \in {"erase", "session"} : GoTo(t, step) BY <1>4 DEF RegisterChannel
  <2>6. step \in Steps BY DEF Steps
  <2>7. LifecycleTypeOK'
    BY <1>4, <2>2, <2>3, <2>4, <2>5, <2>6, GoToKeeps DEF RegisterChannel, LifecycleTypeOK,
       presence
  <2>8. CallsFit'
    <3>1. /\ thread'[t].step = step /\ thread'[t].op = thread[t].op
          /\ thread'[t].device = thread[t].device /\ thread'[t].user = thread[t].user
          /\ \A x \in Threads : x # t => thread'[x] = thread[x]
      BY <2>5, <2>6, GoToKeeps
    <3>2. thread[t].step = "register" BY <1>4 DEF RegisterChannel, At
    <3> QED BY <2>1, <2>5, <3>1, <3>2 DEF CallsFit, At
  <2> QED BY <1>4, <2>7, <2>8 DEF RegisterChannel, PassFits
<1>5. ASSUME NEW t \in Threads, RegisterRefused(t) \/ NothingToUnregister(t)
      PROVE  LifecycleTypeOK' /\ CallsFit' /\ PassFits'
  <2>1. /\ thread' = [thread EXCEPT ![t] = Idle]
        /\ UNCHANGED <<registry, sessions, stripe, reaper, presence, connections, evicted>>
    BY <1>5 DEF RegisterRefused, NothingToUnregister
  <2> QED
    BY <2>1 DEF LifecycleTypeOK, CallsFit, PassFits, At, registry, presence, Idle, Call,
       Connections, Steps
<1>6. ASSUME NEW t \in Threads, UnregisterChannel(t)
      PROVE  LifecycleTypeOK' /\ CallsFit' /\ PassFits'
  <2> DEFINE d == thread[t].device
  <2>1. d \in Devices /\ channels[d].user \in Users
    BY <1>6, RowsHaveUsers DEF UnregisterChannel, CallsFit, At, Registered
  <2>2. channels' \in [Devices -> Channel \cup {NoChannel}]
    BY <1>6, <2>1 DEF UnregisterChannel, LifecycleTypeOK
  <2>3. userDevices' \in [Users -> SUBSET Devices]
    BY <1>6, <2>1 DEF UnregisterChannel, LifecycleTypeOK, Unlist
  <2>4. stripe' \in [Devices -> Threads \cup {None}]
    BY <1>6, <2>1 DEF UnregisterChannel, LifecycleTypeOK, TakeStripe
  <2>5. GoTo(t, "erase") /\ "erase" \in Steps BY <1>6 DEF UnregisterChannel, Steps
  <2>6. LifecycleTypeOK'
    BY <1>6, <2>2, <2>3, <2>4, <2>5, GoToKeeps DEF UnregisterChannel, LifecycleTypeOK,
       presence
  <2>7. CallsFit'
    <3>1. /\ thread'[t].step = "erase" /\ thread'[t].op = thread[t].op
          /\ thread'[t].device = thread[t].device /\ thread'[t].user = thread[t].user
          /\ \A x \in Threads : x # t => thread'[x] = thread[x]
      BY <2>5, GoToKeeps
    <3> QED BY <2>1, <3>1 DEF CallsFit, At
  <2> QED BY <1>6, <2>6, <2>7 DEF UnregisterChannel, PassFits
<1>7. ASSUME NEW t \in Threads, EraseSession(t)
      PROVE  LifecycleTypeOK' /\ CallsFit' /\ PassFits'
  <2> DEFINE d == thread[t].device
  <2>1. d \in Devices BY <1>7 DEF EraseSession, CallsFit, At
  <2>2. sessions' \in [Devices -> Session \cup {NoSession}]
    BY <1>7, <2>1 DEF EraseSession, LifecycleTypeOK
  <2>3. CASE sessions[d] # NoSession
    <3>1. thread' = [thread EXCEPT ![t] = [thread[t] EXCEPT !.step = "offline", !.gone = sessions[d].user]]
      BY <1>7, <2>3, Zenon DEF EraseSession, LifecycleTypeOK
    <3>2. sessions[d].user \in Users BY <2>1, <2>3, RowsHaveUsers
    <3> DEFINE c == [thread[t] EXCEPT !.step = "offline", !.gone = sessions[d].user]
    <3>3. /\ c \in Call /\ c.step = "offline" /\ c.gone = sessions[d].user
          /\ c.op = thread[t].op /\ c.device = d /\ c.user = thread[t].user
      BY <1>0, <3>2 DEF Call, Steps
    <3>4. /\ thread' \in [Threads -> Call]
          /\ thread'[t].step = "offline" /\ thread'[t].gone = sessions[d].user
          /\ thread'[t].op = thread[t].op /\ thread'[t].device = d /\ thread'[t].user = thread[t].user
          /\ \A x \in Threads : x # t => thread'[x] = thread[x]
      BY <3>1, <3>3 DEF LifecycleTypeOK
    <3>5. UNCHANGED stripe BY <1>7, <2>3 DEF EraseSession
    <3> QED
      BY <1>7, <2>1, <2>2, <3>2, <3>4, <3>5 DEF EraseSession, LifecycleTypeOK, CallsFit,
         PassFits, At, registry, presence
  <2>4. CASE sessions[d] = NoSession /\ AfterDisconnect(t) = "idle"
    <3>1. Leave(t) BY <1>7, <2>4 DEF EraseSession
    <3> QED
      BY <1>7, <2>2, <3>1, LeaveTyped DEF EraseSession, LifecycleTypeOK, CallsFit,
         PassFits, At, registry, presence, Idle
  <2>5. CASE sessions[d] = NoSession /\ AfterDisconnect(t) # "idle"
    <3>1. GoTo(t, "session") /\ UNCHANGED stripe /\ thread[t].op = "establish" /\ "session" \in Steps
      BY <1>7, <2>5 DEF EraseSession, AfterDisconnect, Steps
    <3>2. /\ thread' \in [Threads -> Call]
            /\ thread'[t].step = "session" /\ thread'[t].op = thread[t].op
            /\ thread'[t].device = thread[t].device /\ thread'[t].user = thread[t].user
            /\ \A x \in Threads : x # t => thread'[x] = thread[x]
      BY <3>1, GoToKeeps
    <3>3. CallsFit' BY <2>1, <3>1, <3>2 DEF CallsFit, At
    <3> QED
      BY <1>7, <2>2, <3>1, <3>2, <3>3 DEF EraseSession, LifecycleTypeOK, PassFits,
         registry, presence
  <2> QED BY <2>3, <2>4, <2>5
<1>8. ASSUME NEW t \in Threads, GoOffline(t)
      PROVE  LifecycleTypeOK' /\ CallsFit' /\ PassFits'
  <2>1. thread[t].device \in Devices /\ thread[t].gone \in Users
    BY <1>8 DEF GoOffline, CallsFit, At
  <2>2. states' \in [Devices -> DeviceEntry \cup {NoEntry}] /\ members' \in [Users -> SUBSET Devices]
    BY <1>8, <2>1, PresenceTyped DEF GoOffline
  <2>3. CASE AfterDisconnect(t) = "idle"
    <3>1. Leave(t) BY <1>8, <2>3 DEF GoOffline
    <3> QED
      BY <1>8, <2>2, <3>1, LeaveTyped DEF GoOffline, LifecycleTypeOK, CallsFit, PassFits,
         At, registry, Idle
  <2>4. CASE AfterDisconnect(t) # "idle"
    <3>1. GoTo(t, "session") /\ UNCHANGED stripe /\ thread[t].op = "establish" /\ "session" \in Steps
      BY <1>8, <2>4 DEF GoOffline, AfterDisconnect, Steps
    <3>2. /\ thread' \in [Threads -> Call]
            /\ thread'[t].step = "session" /\ thread'[t].op = thread[t].op
            /\ thread'[t].device = thread[t].device /\ thread'[t].user = thread[t].user
            /\ \A x \in Threads : x # t => thread'[x] = thread[x]
      BY <3>1, GoToKeeps
    <3>3. CallsFit' BY <2>1, <3>1, <3>2 DEF CallsFit, At
    <3> QED
      BY <1>8, <2>2, <3>1, <3>2, <3>3 DEF GoOffline, LifecycleTypeOK, PassFits, registry
  <2> QED BY <2>3, <2>4
<1>9. ASSUME NEW t \in Threads, StoreSession(t)
      PROVE  LifecycleTypeOK' /\ CallsFit' /\ PassFits'
  <2>1. thread[t].device \in Devices /\ thread[t].user \in Users /\ thread[t].op = "establish"
    BY <1>9 DEF StoreSession, CallsFit, At
  <2>2. sessions' \in [Devices -> Session \cup {NoSession}]
    BY <1>0, <1>9, <2>1, NewRows DEF StoreSession, LifecycleTypeOK
  <2>3. GoTo(t, "online") /\ "online" \in Steps BY <1>9 DEF StoreSession, Steps
  <2>4. /\ thread' \in [Threads -> Call]
        /\ thread'[t].step = "online" /\ thread'[t].op = thread[t].op
        /\ thread'[t].device = thread[t].device /\ thread'[t].user = thread[t].user
        /\ \A x \in Threads : x # t => thread'[x] = thread[x]
    BY <2>3, GoToKeeps
  <2>5. CallsFit' BY <2>1, <2>4 DEF CallsFit, At
  <2> QED
    BY <1>9, <2>2, <2>4, <2>5 DEF StoreSession, LifecycleTypeOK, PassFits, registry, presence
<1>10. ASSUME NEW t \in Threads, GoOnline(t)
      PROVE  LifecycleTypeOK' /\ CallsFit' /\ PassFits'
  <2>1. thread[t].device \in Devices /\ thread[t].user \in Users
    BY <1>10 DEF GoOnline, CallsFit, At
  <2>2. states' \in [Devices -> DeviceEntry \cup {NoEntry}] /\ members' \in [Users -> SUBSET Devices]
    BY <1>10, <2>1, PresenceTyped DEF GoOnline
  <2> QED
    BY <1>10, <2>2, LeaveTyped DEF GoOnline, LifecycleTypeOK, CallsFit, PassFits, At,
       registry, Idle
<1>11. ASSUME NEW t \in Threads, TouchChannel(t)
      PROVE  LifecycleTypeOK' /\ CallsFit' /\ PassFits'
  <2>1. thread[t].device \in Devices /\ GoTo(t, "beat") /\ "beat" \in Steps
    BY <1>11 DEF TouchChannel, CallsFit, At, Steps
  <2>2. channels' \in [Devices -> Channel \cup {NoChannel}]
    <3>1. CASE channels[thread[t].device].active
      BY <1>11, <2>1, <3>1, RowsHaveUsers, ChannelMarked DEF TouchChannel
    <3>2. CASE ~channels[thread[t].device].active
      BY <1>11, <3>2 DEF TouchChannel, LifecycleTypeOK
    <3> QED BY <3>1, <3>2
  <2>3. /\ thread' \in [Threads -> Call]
        /\ thread'[t].step = "beat" /\ thread'[t].op = thread[t].op
        /\ thread'[t].device = thread[t].device /\ thread'[t].user = thread[t].user
        /\ thread'[t].gone = thread[t].gone
        /\ \A x \in Threads : x # t => thread'[x] = thread[x]
    BY <2>1, GoToKeeps
  <2>4. thread[t].gone \in Users BY <1>11 DEF TouchChannel, CallsFit, At
  <2>5. CallsFit' BY <2>1, <2>3, <2>4 DEF CallsFit, At
  <2> QED BY <1>11, <2>2, <2>3, <2>5 DEF TouchChannel, LifecycleTypeOK, PassFits, presence
<1>12. ASSUME NEW t \in Threads, Beat(t)
      PROVE  LifecycleTypeOK' /\ CallsFit' /\ PassFits'
  <2>1. thread[t].device \in Devices /\ thread[t].gone \in Users
    BY <1>12 DEF Beat, CallsFit, At
  <2>2. states' \in [Devices -> DeviceEntry \cup {NoEntry}] /\ members' \in [Users -> SUBSET Devices]
    BY <1>12, <2>1, PresenceTyped DEF Beat
  <2>3. /\ thread' \in [Threads -> Call]
        /\ thread'[t] = Idle
        /\ \A x \in Threads : x # t => thread'[x] = thread[x]
    BY <1>12 DEF Beat, LifecycleTypeOK, Idle, Call, Connections, Steps
  <2> QED
    BY <1>12, <2>2, <2>3 DEF Beat, LifecycleTypeOK, CallsFit, PassFits, At, registry, Idle
<1>13. CASE SweepStaleConnections
  <2>1. /\ channels' \in [Devices -> Channel \cup {NoChannel}]
        /\ userDevices' \in [Users -> SUBSET Devices]
        /\ reaper' \in Pass /\ reaper'.device = None
        /\ evicted' = TRUE
    BY <1>13 DEF SweepStaleConnections, LifecycleTypeOK, Pass, Resting
  <2> QED
    BY <1>13, <2>1 DEF SweepStaleConnections, LifecycleTypeOK, CallsFit, PassFits, At,
       presence
<1>14. ASSUME NEW d \in Devices, ReaperErases(d)
      PROVE  LifecycleTypeOK' /\ CallsFit' /\ PassFits'
  <2>1. sessions' \in [Devices -> Session \cup {NoSession}]
    BY <1>14 DEF ReaperErases, LifecycleTypeOK
  <2>2. sessions[d] # NoSession => sessions[d].user \in Users BY RowsHaveUsers
  <2>3. reaper' \in Pass /\ (reaper'.device # None => reaper'.gone \in Users)
    BY <1>14, <2>2 DEF ReaperErases, LifecycleTypeOK, Pass, PassFits
  <2>4. evicted BY <1>14 DEF ReaperErases, PassFits, Resting, LifecycleTypeOK
  <2> QED
    BY <1>14, <2>1, <2>3, <2>4 DEF ReaperErases, LifecycleTypeOK, CallsFit, PassFits, At,
       registry, presence
<1>15. CASE ReaperGoesOffline
  <2>1. reaper.device \in Devices /\ reaper.gone \in Users
    BY <1>15 DEF ReaperGoesOffline, PassFits, LifecycleTypeOK, Pass
  <2>2. states' \in [Devices -> DeviceEntry \cup {NoEntry}] /\ members' \in [Users -> SUBSET Devices]
    BY <1>15, <2>1, PresenceTyped DEF ReaperGoesOffline
  <2>3. reaper' \in Pass /\ reaper'.device = None
    BY <1>15 DEF ReaperGoesOffline, LifecycleTypeOK, Pass
  <2>4. evicted BY <1>15 DEF ReaperGoesOffline, PassFits, Resting, LifecycleTypeOK
  <2> QED
    BY <1>15, <2>2, <2>3, <2>4 DEF ReaperGoesOffline, LifecycleTypeOK, CallsFit, PassFits,
       At, registry
<1>16. ASSUME NEW d \in Devices, ConnectionBreaks(d) \/ LeaseRunsOut(d)
      PROVE  LifecycleTypeOK' /\ CallsFit' /\ PassFits'
  <2>1. channels' \in [Devices -> Channel \cup {NoChannel}]
    <3>1. channels[d] # NoChannel BY <1>16, RowsHaveUsers DEF ConnectionBreaks, LeaseRunsOut
    <3> QED BY <1>16, <3>1, ChannelMarked DEF ConnectionBreaks, LeaseRunsOut
  <2> QED
    BY <1>16, <2>1 DEF ConnectionBreaks, LeaseRunsOut, LifecycleTypeOK, CallsFit, PassFits,
       At, presence
<1>17. ASSUME NEW d \in Devices, PresenceRunsOut(d)
      PROVE  LifecycleTypeOK' /\ CallsFit' /\ PassFits'
  <2>1. states' \in [Devices -> DeviceEntry \cup {NoEntry}]
    BY <1>17, RowsHaveUsers, EntryMarked DEF PresenceRunsOut
  <2> QED
    BY <1>17, <2>1 DEF PresenceRunsOut, LifecycleTypeOK, CallsFit, PassFits, At, registry
<1>18. CASE UNCHANGED lifecycleVars
  BY <1>18 DEF lifecycleVars, LifecycleTypeOK, CallsFit, PassFits, At
<1> QED BY <1>1, <1>2, <1>3, <1>4, <1>5, <1>6, <1>7, <1>8, <1>9, <1>10, <1>11, <1>12,
     <1>13, <1>14, <1>15, <1>16, <1>17, <1>18 DEF LifecycleNext, ThreadStep
-----------------------------------------------------------------------------
(***************************************************************************)
(* The index by user                                                       *)
(***************************************************************************)

\* Every step of the registry keeps the index by user exact.
LEMMA IndexStep ==
    ASSUME LifecycleTypeOK, CallsFit, IndexExact, [LifecycleNext]_lifecycleVars
    PROVE  IndexExact'
<1>0. userDevices \in [Users -> SUBSET Devices] /\ channels \in [Devices -> Channel \cup {NoChannel}]
  BY DEF LifecycleTypeOK
<1>1. ASSUME NEW t \in Threads, RegisterChannel(t)
      PROVE  IndexExact'
  <2> DEFINE d == thread[t].device
             u == thread[t].user
             new == [conn |-> thread[t].conn, user |-> u, active |-> TRUE, leased |-> TRUE]
  <2>1. d \in Devices /\ u \in Users /\ thread[t].conn \in Connections
    BY <1>1 DEF RegisterChannel, CallsFit, At, LifecycleTypeOK, Call
  <2>2. new # NoChannel /\ new.user = u BY <2>1, NewRows
  <2>3. channels' = [channels EXCEPT ![d] = new] /\ userDevices' = Listed(d, u)
    BY <1>1 DEF RegisterChannel
  <2> HIDE DEF new
  <2>4. channels'[d] = new /\ \A x \in Devices : x # d => channels'[x] = channels[x]
    BY <1>0, <2>1, <2>3
  <2>5. channels[d] = NoChannel => channels[d].user \notin Users BY <2>1, RowsHaveUsers
  <2> SUFFICES ASSUME NEW x \in Users
               PROVE  userDevices'[x] = {e \in Devices : channels'[e] # NoChannel /\ channels'[e].user = x}
    BY DEF IndexExact, Registered
  <2>6. userDevices[x] = {e \in Devices : channels[e] # NoChannel /\ channels[e].user = x}
    BY DEF IndexExact, Registered
  <2>7. CASE x = u BY <2>1, <2>2, <2>3, <2>4, <2>6, <2>7 DEF Listed
  <2>8. CASE x # u /\ channels[d].user = x BY <2>1, <2>2, <2>3, <2>4, <2>6, <2>8 DEF Listed
  <2>9. CASE x # u /\ channels[d].user # x BY <2>1, <2>2, <2>3, <2>4, <2>6, <2>9 DEF Listed
  <2> QED BY <2>7, <2>8, <2>9
<1>2. ASSUME NEW t \in Threads, UnregisterChannel(t)
      PROVE  IndexExact'
  <2> DEFINE d == thread[t].device
  <2>1. d \in Devices /\ channels[d].user \in Users
    BY <1>2, RowsHaveUsers DEF UnregisterChannel, CallsFit, At, Registered
  <2>2. channels' = [channels EXCEPT ![d] = NoChannel] /\ userDevices' = Unlist(d, channels[d].user)
    BY <1>2 DEF UnregisterChannel
  <2> SUFFICES ASSUME NEW x \in Users
               PROVE  userDevices'[x] = {e \in Devices : channels'[e] # NoChannel /\ channels'[e].user = x}
    BY DEF IndexExact, Registered
  <2>3. userDevices[x] = {e \in Devices : channels[e] # NoChannel /\ channels[e].user = x}
    BY DEF IndexExact, Registered
  <2>4. userDevices'[x] = IF x = channels[d].user THEN userDevices[x] \ {d} ELSE userDevices[x]
    BY <1>0, <2>1, <2>2 DEF Unlist
  <2>5. channels'[d] = NoChannel /\ \A e \in Devices : e # d => channels'[e] = channels[e]
    BY <1>0, <2>1, <2>2
  <2> QED BY <2>1, <2>3, <2>4, <2>5
<1>3. CASE SweepStaleConnections
  <2> DEFINE stale == {d \in Devices : Stale(d)}
  <2>1. /\ \A d \in Devices : channels'[d] = IF d \in stale THEN NoChannel ELSE channels[d]
        /\ \A u \in Users : userDevices'[u] = userDevices[u] \ stale
    BY <1>3 DEF SweepStaleConnections
  <2> HIDE DEF stale
  <2> QED BY <2>1 DEF IndexExact, Registered
<1>4. ASSUME NEW d \in Devices, channels[d] # NoChannel, NEW b \in BOOLEAN,
             \/ channels' = [channels EXCEPT ![d].active = b]
             \/ channels' = [channels EXCEPT ![d].leased = b],
             UNCHANGED userDevices
      PROVE  IndexExact'
  <2>1. /\ channels'[d] # NoChannel /\ channels'[d].user = channels[d].user
        /\ \A x \in Devices : x # d => channels'[x] = channels[x]
    BY <1>4, ChannelMarked
  <2> QED BY <1>4, <2>1 DEF IndexExact, Registered
<1>5. CASE UNCHANGED registry BY <1>5 DEF registry, IndexExact, Registered
<1>6. ASSUME NEW t \in Threads, TouchChannel(t)
      PROVE  IndexExact'
  <2>1. thread[t].device \in Devices BY <1>6 DEF TouchChannel, CallsFit, At
  <2>2. CASE channels[thread[t].device].active
    BY <1>4, <1>6, <2>1, <2>2, RowsHaveUsers DEF TouchChannel
  <2>3. CASE ~channels[thread[t].device].active
    BY <1>5, <1>6, <2>3 DEF TouchChannel, registry
  <2> QED BY <2>2, <2>3
<1>7. ASSUME NEW d \in Devices, ConnectionBreaks(d) \/ LeaseRunsOut(d)
      PROVE  IndexExact'
  <2>1. channels[d] # NoChannel BY <1>7, RowsHaveUsers DEF ConnectionBreaks, LeaseRunsOut
  <2>2. /\ UNCHANGED userDevices
        /\ \/ channels' = [channels EXCEPT ![d].active = FALSE]
           \/ channels' = [channels EXCEPT ![d].leased = FALSE]
    BY <1>7 DEF ConnectionBreaks, LeaseRunsOut
  <2> QED BY <1>4, <2>1, <2>2
<1>8. ASSUME NEW t \in Threads,
             \/ \E d \in Devices : \/ \E u \in Users : EstablishConnection(t, d, u)
                                   \/ TerminateConnection(t, d) \/ RecordHeartbeat(t, d)
             \/ RegisterRefused(t) \/ NothingToUnregister(t) \/ EraseSession(t)
             \/ GoOffline(t) \/ StoreSession(t) \/ GoOnline(t) \/ Beat(t)
      PROVE  IndexExact'
  BY <1>5, <1>8 DEF EstablishConnection, TerminateConnection, RecordHeartbeat,
     RegisterRefused, NothingToUnregister, EraseSession, GoOffline, StoreSession,
     GoOnline, Beat
<1>9. ASSUME NEW d \in Devices, ReaperErases(d) \/ PresenceRunsOut(d)
      PROVE  IndexExact'
  BY <1>5, <1>9 DEF ReaperErases, PresenceRunsOut
<1>10. CASE ReaperGoesOffline BY <1>5, <1>10 DEF ReaperGoesOffline
<1>11. CASE UNCHANGED lifecycleVars BY <1>5, <1>11 DEF lifecycleVars, registry
<1> QED
  BY <1>1, <1>2, <1>3, <1>6, <1>7, <1>8, <1>9, <1>10, <1>11 DEF LifecycleNext, ThreadStep
-----------------------------------------------------------------------------
(***************************************************************************)
(* Presence                                                                *)
(***************************************************************************)

\* Every step keeps the entries of presence in the sets of their users.
LEMMA PresenceStep ==
    ASSUME LifecycleTypeOK, CallsFit, PassFits, PresenceIndexed, [LifecycleNext]_lifecycleVars
    PROVE  PresenceIndexed'
<1>0. /\ states \in [Devices -> DeviceEntry \cup {NoEntry}] /\ members \in [Users -> SUBSET Devices]
      /\ \A d \in Devices : states[d] # NoEntry => states[d].user \in Users
  BY RowsHaveUsers DEF LifecycleTypeOK
<1>1. ASSUME NEW u \in Users, NEW d \in Devices, OnDeviceConnected(u, d)
      PROVE  PresenceIndexed'
  <2>1. /\ states'[d].user = u
        /\ \A x \in Devices : x # d => states'[x] = states[x]
        /\ d \in members'[u]
        /\ \A v \in Users : members[v] \subseteq members'[v]
    BY <1>0, <1>1 DEF OnDeviceConnected
  <2> QED BY <1>0, <2>1 DEF PresenceIndexed
<1>2. ASSUME NEW u \in Users, NEW d \in Devices, OnDeviceDisconnected(u, d)
      PROVE  PresenceIndexed'
  <2>1. /\ states'[d] = NoEntry
        /\ \A x \in Devices : x # d => states'[x] = states[x]
        /\ \A v \in Users : members[v] \ {d} \subseteq members'[v]
    BY <1>0, <1>2 DEF OnDeviceDisconnected
  <2> QED BY <1>0, <2>1 DEF PresenceIndexed
<1>3. ASSUME NEW d \in Devices, states[d] # NoEntry, NEW b \in BOOLEAN,
             states' = [states EXCEPT ![d].leased = b], UNCHANGED members
      PROVE  PresenceIndexed'
  <2>1. /\ states'[d].user = states[d].user
        /\ \A x \in Devices : x # d => states'[x] = states[x]
    BY <1>3, EntryMarked
  <2> QED BY <1>3, <2>1 DEF PresenceIndexed
<1>4. CASE UNCHANGED presence BY <1>4 DEF presence, PresenceIndexed
<1>5. ASSUME NEW t \in Threads, GoOffline(t)
      PROVE  PresenceIndexed'
  BY <1>2, <1>5 DEF GoOffline, CallsFit, At
<1>6. ASSUME NEW t \in Threads, GoOnline(t)
      PROVE  PresenceIndexed'
  BY <1>1, <1>6 DEF GoOnline, CallsFit, At
<1>7. ASSUME NEW t \in Threads, Beat(t)
      PROVE  PresenceIndexed'
  <2>1. thread[t].device \in Devices /\ thread[t].gone \in Users
    BY <1>7 DEF Beat, CallsFit, At
  <2> QED BY <1>1, <1>3, <1>7, <2>1 DEF Beat, OnDeviceHeartbeat
<1>8. CASE ReaperGoesOffline
  <2>1. reaper.device \in Devices /\ reaper.gone \in Users
    BY <1>8 DEF ReaperGoesOffline, PassFits, LifecycleTypeOK, Pass
  <2> QED BY <1>2, <1>8, <2>1 DEF ReaperGoesOffline
<1>9. ASSUME NEW d \in Devices, PresenceRunsOut(d)
      PROVE  PresenceIndexed'
  BY <1>3, <1>9, RowsHaveUsers DEF PresenceRunsOut
<1>10. ASSUME NEW t \in Threads,
             \/ \E d \in Devices : \/ \E u \in Users : EstablishConnection(t, d, u)
                                   \/ TerminateConnection(t, d) \/ RecordHeartbeat(t, d)
             \/ RegisterChannel(t) \/ RegisterRefused(t) \/ UnregisterChannel(t)
             \/ NothingToUnregister(t) \/ EraseSession(t) \/ StoreSession(t) \/ TouchChannel(t)
      PROVE  PresenceIndexed'
  BY <1>4, <1>10 DEF EstablishConnection, TerminateConnection, RecordHeartbeat,
     RegisterChannel, RegisterRefused, UnregisterChannel, NothingToUnregister,
     EraseSession, StoreSession, TouchChannel
<1>11. ASSUME NEW d \in Devices, ReaperErases(d) \/ ConnectionBreaks(d) \/ LeaseRunsOut(d)
      PROVE  PresenceIndexed'
  BY <1>4, <1>11 DEF ReaperErases, ConnectionBreaks, LeaseRunsOut
<1>12. CASE SweepStaleConnections BY <1>4, <1>12 DEF SweepStaleConnections
<1>13. CASE UNCHANGED lifecycleVars BY <1>4, <1>13 DEF lifecycleVars, presence
<1> QED
  BY <1>5, <1>6, <1>7, <1>8, <1>9, <1>10, <1>11, <1>12, <1>13 DEF LifecycleNext, ThreadStep
-----------------------------------------------------------------------------
(***************************************************************************)
(* Calls that hold a stripe                                                *)
(***************************************************************************)

\* A call whose device is left alone.
LEMMA HolderFrame ==
    ASSUME NEW x \in Threads, HolderFits(x), thread'[x] = thread[x], UNCHANGED evicted,
           Holding(x) => /\ stripe'[thread[x].device] = stripe[thread[x].device]
                         /\ channels'[thread[x].device] = channels[thread[x].device]
                         /\ sessions'[thread[x].device] = sessions[thread[x].device]
    PROVE  HolderFits(x)'
  BY DEF HolderFits, HolderAlone, HolderChannel, HolderSession, HolderUndisturbed, Holding, At

\* A call that holds or takes a stripe does not disturb the holders of others.
LEMMA OthersLeftAlone ==
    ASSUME LifecycleTypeOK, CallsFit, HoldersFit, UNCHANGED evicted,
           NEW t \in Threads, NEW d \in Devices, stripe[d] \in {t, None},
           \A x \in Threads : x # t => thread'[x] = thread[x],
           \A e \in Devices : e # d => /\ stripe'[e] = stripe[e]
                                       /\ channels'[e] = channels[e]
                                       /\ sessions'[e] = sessions[e]
    PROVE  \A x \in Threads : x # t => HolderFits(x)'
<1> SUFFICES ASSUME NEW x \in Threads, x # t
             PROVE  HolderFits(x)'
  OBVIOUS
<1>1. Holding(x) => thread[x].device \in Devices /\ stripe[thread[x].device] = x
  BY DEF CallsFit, Holding, At, HoldersFit, HolderFits, HolderAlone
<1>2. Holding(x) => thread[x].device # d BY <1>1, NoneAssumption
<1> QED BY <1>1, <1>2, HolderFrame DEF HoldersFit

\* A call that begins holds nothing.
LEMMA StartsFree ==
    ASSUME LifecycleTypeOK, NEW t \in Threads, NEW d \in Devices,
           \/ \E u \in Users : EstablishConnection(t, d, u)
           \/ TerminateConnection(t, d)
           \/ RecordHeartbeat(t, d)
    PROVE  /\ thread'[t].step \in {"register", "unregister", "touch"}
           /\ \A x \in Threads : x # t => thread'[x] = thread[x]
           /\ UNCHANGED <<channels, sessions, stripe, presence, evicted>>
<1>1. CASE \E u \in Users : EstablishConnection(t, d, u)
  BY <1>1 DEF EstablishConnection, LifecycleTypeOK, registry
<1>2. CASE TerminateConnection(t, d)
  <2>1. thread' = [thread EXCEPT ![t] = [thread[t] EXCEPT !.step = "unregister", !.op = "terminate", !.device = d]]
    BY <1>2, Zenon DEF TerminateConnection, LifecycleTypeOK
  <2>2. [thread[t] EXCEPT !.step = "unregister", !.op = "terminate", !.device = d].step = "unregister"
    BY DEF LifecycleTypeOK, Call
  <2> QED BY <1>2, <2>1, <2>2 DEF TerminateConnection, LifecycleTypeOK, registry
<1>3. CASE RecordHeartbeat(t, d)
  <2>1. thread' = [thread EXCEPT ![t] = [thread[t] EXCEPT !.step = "touch", !.op = "heartbeat", !.device = d, !.gone = sessions[d].user]]
    BY <1>3, Zenon DEF RecordHeartbeat, LifecycleTypeOK
  <2>2. [thread[t] EXCEPT !.step = "touch", !.op = "heartbeat", !.device = d, !.gone = sessions[d].user].step = "touch"
    BY DEF LifecycleTypeOK, Call
  <2> QED BY <1>3, <2>1, <2>2 DEF RecordHeartbeat, LifecycleTypeOK, registry
<1> QED BY <1>1, <1>2, <1>3

\* The call that found a session to erase.
LEMMA ErasedOne ==
    ASSUME LifecycleTypeOK, NEW t \in Threads, EraseSession(t), sessions[thread[t].device] # NoSession
    PROVE  /\ thread'[t].step = "offline"
           /\ thread'[t].op = thread[t].op /\ thread'[t].device = thread[t].device
           /\ thread'[t].user = thread[t].user /\ thread'[t].conn = thread[t].conn
           /\ \A x \in Threads : x # t => thread'[x] = thread[x]
           /\ UNCHANGED stripe
<1> DEFINE c == [thread[t] EXCEPT !.step = "offline", !.gone = sessions[thread[t].device].user]
<1>1. thread' = [thread EXCEPT ![t] = c] /\ UNCHANGED stripe
  BY Zenon DEF EraseSession, LifecycleTypeOK
<1>2. /\ c.step = "offline" /\ c.op = thread[t].op /\ c.device = thread[t].device
      /\ c.user = thread[t].user /\ c.conn = thread[t].conn
  BY DEF LifecycleTypeOK, Call
<1> HIDE DEF c
<1> QED BY <1>1, <1>2 DEF LifecycleTypeOK

\* A change of marks on channels leaves the holders as they are.
LEMMA MarksKeepHolders ==
    ASSUME LifecycleTypeOK, CallsFit, HoldersFit, UNCHANGED <<sessions, stripe, evicted>>,
           SameChannels,
           NEW x \in Threads, thread'[x] = thread[x]
    PROVE  HolderFits(x)'
<1>1. Holding(x) => thread[x].device \in Devices BY DEF CallsFit, Holding, At
<1>2. HolderFits(x) BY DEF HoldersFit
<1> QED
  BY <1>1, <1>2 DEF SameChannels, HolderFits, HolderAlone, HolderChannel, HolderSession,
     HolderUndisturbed, Holding, At

\* Which channels a mark changes.
LEMMA MarkOf ==
    ASSUME LifecycleTypeOK, CallsFit,
           \/ \E t \in Threads : TouchChannel(t)
           \/ \E d \in Devices : ConnectionBreaks(d) \/ LeaseRunsOut(d)
    PROVE  SameChannels
<1>1. CASE UNCHANGED channels BY <1>1 DEF SameChannels
<1>2. ASSUME NEW d \in Devices, channels[d] # NoChannel, NEW b \in BOOLEAN,
             \/ channels' = [channels EXCEPT ![d].active = b]
             \/ channels' = [channels EXCEPT ![d].leased = b]
      PROVE  SameChannels
  <2>1. /\ channels'[d] # NoChannel
        /\ channels'[d].conn = channels[d].conn /\ channels'[d].user = channels[d].user
        /\ \A x \in Devices : x # d => channels'[x] = channels[x]
    BY <1>2, ChannelMarked
  <2> QED BY <1>2, <2>1 DEF SameChannels
<1>3. ASSUME NEW t \in Threads, TouchChannel(t)
      PROVE  \/ UNCHANGED channels
             \/ /\ thread[t].device \in Devices /\ channels[thread[t].device] # NoChannel
                /\ channels' = [channels EXCEPT ![thread[t].device].leased = TRUE]
  <2>1. thread[t].device \in Devices BY <1>3 DEF TouchChannel, CallsFit, At
  <2> QED BY <1>3, <2>1, RowsHaveUsers DEF TouchChannel
<1>4. ASSUME NEW d \in Devices, ConnectionBreaks(d) \/ LeaseRunsOut(d)
      PROVE  /\ channels[d] # NoChannel
             /\ \/ channels' = [channels EXCEPT ![d].active = FALSE]
                \/ channels' = [channels EXCEPT ![d].leased = FALSE]
  BY <1>4, RowsHaveUsers DEF ConnectionBreaks, LeaseRunsOut
<1> QED BY <1>1, <1>2, <1>3, <1>4

\* A holder keeps its stripe and what it knows until it leaves.
LEMMA HolderStep ==
    ASSUME LifecycleTypeOK, CallsFit, PassFits, HoldersFit, StripesSuffice, [LifecycleNext]_lifecycleVars
    PROVE  HoldersFit'
<1> USE DEF HolderAlone, HolderChannel, HolderSession, HolderUndisturbed
<1>a. ASSUME NEW t \in Threads PROVE HolderFits(t) BY DEF HoldersFit
<1>b. ASSUME NEW t \in Threads, ~Holding(t)'
      PROVE  HolderFits(t)'
  BY <1>b DEF HolderFits, Holding, At
<1>c. ASSUME NEW t \in Threads, \A x \in Threads : x # t => HolderFits(x)', HolderFits(t)'
      PROVE  HoldersFit'
  BY <1>c DEF HoldersFit
<1>1. ASSUME NEW t \in Threads, NEW d \in Devices,
             \/ \E u \in Users : EstablishConnection(t, d, u)
             \/ TerminateConnection(t, d) \/ RecordHeartbeat(t, d)
      PROVE  HoldersFit'
  <2>1. /\ thread'[t].step \in {"register", "unregister", "touch"}
        /\ \A x \in Threads : x # t => thread'[x] = thread[x]
        /\ UNCHANGED <<channels, sessions, stripe, evicted>>
    BY <1>1, StartsFree
  <2>2. HolderFits(t)' BY <1>b, <2>1 DEF Holding, At
  <2>3. \A x \in Threads : x # t => HolderFits(x)' BY <1>a, <2>1, HolderFrame
  <2> QED BY <1>c, <2>2, <2>3
<1>2. ASSUME NEW t \in Threads, RegisterChannel(t)
      PROVE  HoldersFit'
  <2> DEFINE d == thread[t].device
             new == [conn |-> thread[t].conn, user |-> thread[t].user, active |-> TRUE, leased |-> TRUE]
  <2>1. d \in Devices /\ thread[t].user \in Users /\ thread[t].op = "establish" /\ thread[t].conn \in Connections
    BY <1>2 DEF RegisterChannel, CallsFit, At, LifecycleTypeOK, Call
  <2>2. new # NoChannel /\ new.conn = thread[t].conn /\ new.user = thread[t].user
    BY <2>1, NewRows
  <2>3. /\ channels' = [channels EXCEPT ![d] = new] /\ stripe[d] = None
        /\ stripe' = [stripe EXCEPT ![d] = t] /\ UNCHANGED <<sessions, evicted>>
    BY <1>2 DEF RegisterChannel, TakeStripe
  <2> HIDE DEF new
  <2>4. /\ channels'[d] = new /\ stripe'[d] = t
        /\ \A e \in Devices : e # d => stripe'[e] = stripe[e] /\ channels'[e] = channels[e] /\ sessions'[e] = sessions[e]
    BY <2>1, <2>3 DEF LifecycleTypeOK
  <2>5. GoTo(t, "erase") \/ (d \notin Registered /\ GoTo(t, "session"))
    BY <1>2 DEF RegisterChannel
  <2>6. /\ thread'[t].step = "erase" \/ (d \notin Registered /\ thread'[t].step = "session")
        /\ thread'[t].op = thread[t].op /\ thread'[t].device = thread[t].device
        /\ thread'[t].user = thread[t].user /\ thread'[t].conn = thread[t].conn
        /\ \A x \in Threads : x # t => thread'[x] = thread[x]
    BY <2>5, GoToKeeps DEF Steps
  <2>7. \A x \in Threads : x # t => HolderFits(x)' BY <2>1, <2>3, <2>4, <2>6, OthersLeftAlone
  <2>8. ~evicted /\ d \notin Registered => sessions[d] = NoSession
    BY <2>1, <2>3 DEF StripesSuffice, Registered
  <2>9. HolderFits(t)' BY <2>1, <2>2, <2>3, <2>4, <2>6, <2>8 DEF HolderFits, Holding, At
  <2> QED BY <1>c, <2>7, <2>9
<1>3. ASSUME NEW t \in Threads, RegisterRefused(t) \/ NothingToUnregister(t) \/ Beat(t)
      PROVE  HoldersFit'
  <2>1. /\ thread' = [thread EXCEPT ![t] = Idle]
        /\ UNCHANGED <<channels, sessions, stripe, evicted>>
    BY <1>3 DEF RegisterRefused, NothingToUnregister, Beat, registry
  <2>2. thread'[t] = Idle /\ \A x \in Threads : x # t => thread'[x] = thread[x]
    BY <2>1 DEF LifecycleTypeOK
  <2>3. HolderFits(t)' BY <1>b, <2>2 DEF Holding, At, Idle
  <2>4. \A x \in Threads : x # t => HolderFits(x)' BY <1>a, <2>1, <2>2, HolderFrame
  <2> QED BY <1>c, <2>3, <2>4
<1>4. ASSUME NEW t \in Threads, UnregisterChannel(t)
      PROVE  HoldersFit'
  <2> DEFINE d == thread[t].device
  <2>1. d \in Devices /\ thread[t].op # "establish"
    BY <1>4 DEF UnregisterChannel, CallsFit, At
  <2>2. /\ channels' = [channels EXCEPT ![d] = NoChannel] /\ stripe[d] = None
        /\ stripe' = [stripe EXCEPT ![d] = t] /\ UNCHANGED <<sessions, evicted>>
        /\ GoTo(t, "erase") /\ "erase" \in Steps
    BY <1>4 DEF UnregisterChannel, TakeStripe, Steps
  <2>3. /\ channels'[d] = NoChannel /\ stripe'[d] = t
        /\ \A e \in Devices : e # d => stripe'[e] = stripe[e] /\ channels'[e] = channels[e] /\ sessions'[e] = sessions[e]
    BY <2>1, <2>2 DEF LifecycleTypeOK
  <2>4. /\ thread'[t].step = "erase" /\ thread'[t].op = thread[t].op /\ thread'[t].device = d
        /\ \A x \in Threads : x # t => thread'[x] = thread[x]
    BY <2>2, GoToKeeps
  <2>5. \A x \in Threads : x # t => HolderFits(x)' BY <2>1, <2>2, <2>3, <2>4, OthersLeftAlone
  <2>6. HolderFits(t)' BY <2>1, <2>3, <2>4 DEF HolderFits, Holding, At
  <2> QED BY <1>c, <2>5, <2>6
<1>5. ASSUME NEW t \in Threads, EraseSession(t)
      PROVE  HoldersFit'
  <2> DEFINE d == thread[t].device
  <2>1. d \in Devices /\ stripe[d] = t /\ Holding(t)
    BY <1>5, <1>a DEF EraseSession, CallsFit, HolderFits, Holding, At
  <2>2. /\ sessions'[d] = NoSession /\ \A e \in Devices : e # d => sessions'[e] = sessions[e]
        /\ UNCHANGED <<channels, evicted>>
    BY <1>5, <2>1 DEF EraseSession, LifecycleTypeOK, registry
  <2>3. CASE sessions[d] # NoSession
    <3>1. /\ thread'[t].step = "offline"
          /\ thread'[t].op = thread[t].op /\ thread'[t].device = d
          /\ thread'[t].user = thread[t].user /\ thread'[t].conn = thread[t].conn
          /\ \A x \in Threads : x # t => thread'[x] = thread[x]
          /\ UNCHANGED stripe
      BY <1>5, <2>3, ErasedOne
    <3>2. \A x \in Threads : x # t => HolderFits(x)' BY <2>1, <2>2, <3>1, OthersLeftAlone
    <3>3. HolderFits(t)' BY <1>a, <2>1, <2>2, <3>1 DEF HolderFits, Holding, At
    <3> QED BY <1>c, <3>2, <3>3
  <2>4. CASE sessions[d] = NoSession /\ AfterDisconnect(t) = "idle"
    <3>1. Leave(t) BY <1>5, <2>4 DEF EraseSession
    <3>2. /\ thread'[t] = Idle /\ \A x \in Threads : x # t => thread'[x] = thread[x]
          /\ \A e \in Devices : e # d => stripe'[e] = stripe[e]
      BY <3>1, LeaveTyped
    <3>3. \A x \in Threads : x # t => HolderFits(x)' BY <2>1, <2>2, <3>2, OthersLeftAlone
    <3>4. HolderFits(t)' BY <1>b, <3>2 DEF Holding, At, Idle
    <3> QED BY <1>c, <3>3, <3>4
  <2>5. CASE sessions[d] = NoSession /\ AfterDisconnect(t) # "idle"
    <3>1. GoTo(t, "session") /\ UNCHANGED stripe /\ "session" \in Steps
      BY <1>5, <2>5 DEF EraseSession, Steps
    <3>2. /\ thread'[t].step = "session"
          /\ thread'[t].op = thread[t].op /\ thread'[t].device = d
          /\ thread'[t].user = thread[t].user /\ thread'[t].conn = thread[t].conn
          /\ \A x \in Threads : x # t => thread'[x] = thread[x]
      BY <3>1, GoToKeeps
    <3>3. \A x \in Threads : x # t => HolderFits(x)'
      BY <2>1, <2>2, <3>1, <3>2, OthersLeftAlone
    <3>4. HolderFits(t)' BY <1>a, <2>1, <2>2, <3>1, <3>2 DEF HolderFits, Holding, At
    <3> QED BY <1>c, <3>3, <3>4
  <2> QED BY <2>3, <2>4, <2>5
<1>6. ASSUME NEW t \in Threads, GoOffline(t)
      PROVE  HoldersFit'
  <2> DEFINE d == thread[t].device
  <2>1. d \in Devices /\ stripe[d] = t /\ Holding(t) /\ UNCHANGED <<channels, sessions, evicted>>
    BY <1>6, <1>a DEF GoOffline, CallsFit, HolderFits, Holding, At, registry
  <2>2. CASE AfterDisconnect(t) = "idle"
    <3>1. Leave(t) BY <1>6, <2>2 DEF GoOffline
    <3>2. /\ thread'[t] = Idle /\ \A x \in Threads : x # t => thread'[x] = thread[x]
          /\ \A e \in Devices : e # d => stripe'[e] = stripe[e]
      BY <3>1, LeaveTyped
    <3>3. \A x \in Threads : x # t => HolderFits(x)' BY <2>1, <3>2, OthersLeftAlone
    <3>4. HolderFits(t)' BY <1>b, <3>2 DEF Holding, At, Idle
    <3> QED BY <1>c, <3>3, <3>4
  <2>3. CASE AfterDisconnect(t) # "idle"
    <3>1. GoTo(t, "session") /\ UNCHANGED stripe /\ "session" \in Steps
      BY <1>6, <2>3 DEF GoOffline, Steps
    <3>2. /\ thread'[t].step = "session"
          /\ thread'[t].op = thread[t].op /\ thread'[t].device = d
          /\ thread'[t].user = thread[t].user /\ thread'[t].conn = thread[t].conn
          /\ \A x \in Threads : x # t => thread'[x] = thread[x]
      BY <3>1, GoToKeeps
    <3>3. \A x \in Threads : x # t => HolderFits(x)' BY <2>1, <3>1, <3>2, OthersLeftAlone
    <3>4. thread[t].step = "offline" BY <1>6 DEF GoOffline, At
    <3>5. HolderFits(t)' BY <1>a, <2>1, <3>1, <3>2, <3>4 DEF HolderFits, Holding, At
    <3> QED BY <1>c, <3>3, <3>5
  <2> QED BY <2>2, <2>3
<1>7. ASSUME NEW t \in Threads, StoreSession(t)
      PROVE  HoldersFit'
  <2> DEFINE d == thread[t].device
             new == [conn |-> thread[t].conn, user |-> thread[t].user]
  <2>1. d \in Devices /\ stripe[d] = t /\ Holding(t) /\ thread[t].user \in Users /\ thread[t].conn \in Connections
    BY <1>7, <1>a DEF StoreSession, CallsFit, HolderFits, Holding, At, LifecycleTypeOK, Call
  <2>2. new # NoSession /\ new.conn = thread[t].conn /\ new.user = thread[t].user
    BY <2>1, NewRows
  <2>3. /\ sessions' = [sessions EXCEPT ![d] = new] /\ UNCHANGED <<channels, stripe, evicted>>
        /\ GoTo(t, "online") /\ "online" \in Steps
    BY <1>7 DEF StoreSession, registry, Steps
  <2> HIDE DEF new
  <2>4. sessions'[d] = new /\ \A e \in Devices : e # d => sessions'[e] = sessions[e]
    BY <2>1, <2>3 DEF LifecycleTypeOK
  <2>5. /\ thread'[t].step = "online"
        /\ thread'[t].op = thread[t].op /\ thread'[t].device = d
        /\ thread'[t].user = thread[t].user /\ thread'[t].conn = thread[t].conn
        /\ \A x \in Threads : x # t => thread'[x] = thread[x]
    BY <2>3, GoToKeeps
  <2>6. \A x \in Threads : x # t => HolderFits(x)' BY <2>1, <2>3, <2>4, <2>5, OthersLeftAlone
  <2>7. HolderFits(t)' BY <1>a, <2>1, <2>2, <2>3, <2>4, <2>5 DEF HolderFits, Holding, At
  <2> QED BY <1>c, <2>6, <2>7
<1>8. ASSUME NEW t \in Threads, GoOnline(t)
      PROVE  HoldersFit'
  <2> DEFINE d == thread[t].device
  <2>1. d \in Devices /\ stripe[d] = t /\ UNCHANGED <<channels, sessions, evicted>> /\ Leave(t)
    BY <1>8, <1>a DEF GoOnline, CallsFit, HolderFits, Holding, At, registry
  <2>2. /\ thread'[t] = Idle /\ \A x \in Threads : x # t => thread'[x] = thread[x]
        /\ \A e \in Devices : e # d => stripe'[e] = stripe[e]
    BY <2>1, LeaveTyped
  <2>3. \A x \in Threads : x # t => HolderFits(x)' BY <2>1, <2>2, OthersLeftAlone
  <2>4. HolderFits(t)' BY <1>b, <2>2 DEF Holding, At, Idle
  <2> QED BY <1>c, <2>3, <2>4
<1>9. ASSUME NEW t \in Threads, TouchChannel(t)
      PROVE  HoldersFit'
  <2>1. UNCHANGED <<sessions, stripe, evicted>> /\ GoTo(t, "beat") /\ "beat" \in Steps
    BY <1>9 DEF TouchChannel, Steps
  <2>2. thread'[t].step = "beat" /\ \A x \in Threads : x # t => thread'[x] = thread[x]
    BY <2>1, GoToKeeps
  <2>3. SameChannels BY <1>9, MarkOf
  <2>4. \A x \in Threads : x # t => HolderFits(x)' BY <2>1, <2>2, <2>3, MarksKeepHolders
  <2>5. HolderFits(t)' BY <1>b, <2>2 DEF Holding, At
  <2> QED BY <1>c, <2>4, <2>5
<1>10. ASSUME NEW d \in Devices, ConnectionBreaks(d) \/ LeaseRunsOut(d)
      PROVE  HoldersFit'
  <2>1. UNCHANGED <<sessions, stripe, evicted, thread>>
    BY <1>10 DEF ConnectionBreaks, LeaseRunsOut
  <2>2. SameChannels BY <1>10, MarkOf
  <2> QED BY <2>1, <2>2, MarksKeepHolders DEF HoldersFit
<1>11. CASE SweepStaleConnections
  <2>1. /\ \A d \in Devices : channels'[d] = NoChannel \/ channels'[d] = channels[d]
        /\ UNCHANGED <<sessions, stripe, thread>> /\ evicted'
    BY <1>11 DEF SweepStaleConnections
  <2>2. ASSUME NEW x \in Threads
        PROVE  HolderFits(x)'
    BY <1>a, <2>1 DEF HolderFits, Holding, At, CallsFit
  <2> QED BY <2>2 DEF HoldersFit
<1>12. ASSUME NEW d \in Devices, ReaperErases(d)
      PROVE  HoldersFit'
  <2>1. evicted BY <1>12 DEF ReaperErases, PassFits, Resting, LifecycleTypeOK
  <2>2. /\ \A e \in Devices : sessions'[e] = NoSession \/ sessions'[e] = sessions[e]
        /\ UNCHANGED <<channels, stripe, thread, evicted>>
    BY <1>12 DEF ReaperErases, registry, LifecycleTypeOK
  <2>3. ASSUME NEW x \in Threads
        PROVE  HolderFits(x)'
    BY <1>a, <2>1, <2>2 DEF HolderFits, Holding, At, CallsFit
  <2> QED BY <2>3 DEF HoldersFit
<1>13. CASE ReaperGoesOffline \/ (\E d \in Devices : PresenceRunsOut(d)) \/ UNCHANGED lifecycleVars
  <2>1. UNCHANGED <<channels, sessions, stripe, thread, evicted>>
    BY <1>13 DEF ReaperGoesOffline, PresenceRunsOut, lifecycleVars, registry
  <2> QED BY <1>a, <2>1, HolderFrame DEF HoldersFit
<1> QED BY <1>1, <1>2, <1>3, <1>4, <1>5, <1>6, <1>7, <1>8, <1>9, <1>10, <1>11, <1>12,
     <1>13 DEF LifecycleNext, ThreadStep
-----------------------------------------------------------------------------
(***************************************************************************)
(* Registry, sessions and presence of one device                           *)
(***************************************************************************)

Current(d) ==
    (stripe[d] = None /\ channels[d] # NoChannel /\ sessions[d] # NoSession)
        => /\ sessions[d].conn = channels[d].conn
           /\ sessions[d].user = channels[d].user

Together(d) ==
    (~evicted /\ stripe[d] = None) =>
        /\ channels[d] = NoChannel <=> sessions[d] = NoSession
        /\ sessions[d] # NoSession => states[d].user = sessions[d].user

\* The two properties, device by device.
LEMMA DeviceWise ==
    /\ SessionIsCurrent <=> \A d \in Devices : Current(d)
    /\ StripesSuffice <=> \A d \in Devices : Together(d)
  BY DEF SessionIsCurrent, StripesSuffice, Current, Together

\* A late heartbeat keeps the user presence has for a device with a session.
LEMMA BeatKeepsUser ==
    ASSUME LifecycleTypeOK, NEW u \in Users, NEW d \in Devices, OnDeviceHeartbeat(u, d),
           NEW e \in Devices, states[e].user \in Users
    PROVE  states'[e].user = states[e].user
<1>0. states \in [Devices -> DeviceEntry \cup {NoEntry}] BY DEF LifecycleTypeOK
<1>1. states[e] # NoEntry BY RowsHaveUsers
<1>2. CASE states[d] # NoEntry
  <2>1. states' = [states EXCEPT ![d].leased = TRUE] BY <1>2 DEF OnDeviceHeartbeat
  <2>2. states'[d].user = states[d].user /\ \A x \in Devices : x # d => states'[x] = states[x]
    BY <1>2, <2>1, EntryMarked
  <2> QED BY <2>2
<1>3. CASE states[d] = NoEntry
  <2>1. states' = [states EXCEPT ![d] = [user |-> u, leased |-> TRUE]]
    BY <1>3 DEF OnDeviceHeartbeat, OnDeviceConnected
  <2> QED BY <1>0, <1>1, <1>3, <2>1
<1> QED BY <1>2, <1>3

\* A device whose stripe is held is not spoken about.
LEMMA HeldIsFree ==
    ASSUME NEW d \in Devices, stripe'[d] \in Threads
    PROVE  Current(d)' /\ Together(d)'
  BY NoneAssumption DEF Current, Together

\* A device that a step leaves alone.
LEMMA DeviceFrame ==
    ASSUME NEW d \in Devices, Current(d), Together(d), UNCHANGED evicted,
           stripe'[d] = stripe[d], channels'[d] = channels[d],
           sessions'[d] = sessions[d], states'[d] = states[d]
    PROVE  Current(d)' /\ Together(d)'
  BY DEF Current, Together

\* Every step keeps session, channel and presence of every free device together.
LEMMA CurrentStep ==
    ASSUME LifecycleTypeOK, CallsFit, PassFits, HoldersFit, SessionIsCurrent, StripesSuffice, [LifecycleNext]_lifecycleVars
    PROVE  SessionIsCurrent' /\ StripesSuffice'
<1> USE DEF HolderAlone, HolderChannel, HolderSession, HolderUndisturbed
<1>a. ASSUME NEW d \in Devices PROVE Current(d) /\ Together(d) BY DeviceWise
<1>b. ASSUME NEW t \in Threads PROVE HolderFits(t) BY DEF HoldersFit
<1> SUFFICES ASSUME NEW d \in Devices
             PROVE  Current(d)' /\ Together(d)'
  BY DeviceWise DEF SessionIsCurrent, StripesSuffice, Current, Together
<1>1. ASSUME NEW t \in Threads, NEW e \in Devices,
             \/ \E u \in Users : EstablishConnection(t, e, u)
             \/ TerminateConnection(t, e) \/ RecordHeartbeat(t, e)
      PROVE  Current(d)' /\ Together(d)'
  <2>1. UNCHANGED <<channels, sessions, stripe, presence, evicted>> BY <1>1, StartsFree
  <2> QED BY <1>a, <2>1, DeviceFrame DEF presence
<1>2. ASSUME NEW t \in Threads, RegisterChannel(t) \/ UnregisterChannel(t)
      PROVE  Current(d)' /\ Together(d)'
  <2>1. thread[t].device \in Devices
    BY <1>2 DEF RegisterChannel, UnregisterChannel, CallsFit, At
  <2>2. /\ stripe' = [stripe EXCEPT ![thread[t].device] = t]
        /\ UNCHANGED <<sessions, presence, evicted>>
        /\ \A e \in Devices : e # thread[t].device => channels'[e] = channels[e]
    BY <1>2, <2>1 DEF RegisterChannel, UnregisterChannel, TakeStripe, LifecycleTypeOK
  <2>3. CASE d = thread[t].device BY <2>1, <2>2, <2>3, HeldIsFree DEF LifecycleTypeOK
  <2>4. CASE d # thread[t].device
    BY <1>a, <2>1, <2>2, <2>4, DeviceFrame DEF LifecycleTypeOK, presence
  <2> QED BY <2>3, <2>4
<1>3. ASSUME NEW t \in Threads, RegisterRefused(t) \/ NothingToUnregister(t)
      PROVE  Current(d)' /\ Together(d)'
  <2>1. UNCHANGED <<channels, sessions, stripe, states, evicted>>
    BY <1>3 DEF RegisterRefused, NothingToUnregister, registry, presence
  <2> QED BY <1>a, <2>1, DeviceFrame
<1>4. ASSUME NEW t \in Threads, EraseSession(t)
      PROVE  Current(d)' /\ Together(d)'
  <2>1. /\ thread[t].device \in Devices /\ stripe[thread[t].device] = t /\ Holding(t)
    BY <1>4, <1>b DEF EraseSession, CallsFit, HolderFits, Holding, At
  <2>2. /\ sessions'[thread[t].device] = NoSession
        /\ \A e \in Devices : e # thread[t].device => sessions'[e] = sessions[e]
        /\ UNCHANGED <<channels, states, evicted>>
        /\ UNCHANGED stripe \/ (Leave(t) /\ thread[t].op # "establish")
    BY <1>4, <2>1 DEF EraseSession, LifecycleTypeOK, registry, presence, AfterDisconnect
  <2>3. CASE d # thread[t].device
    <3>1. stripe'[d] = stripe[d] BY <2>2, <2>3, LeaveTyped
    <3> QED BY <1>a, <2>2, <2>3, <3>1, DeviceFrame
  <2>4. CASE d = thread[t].device /\ UNCHANGED stripe BY <2>1, <2>4, HeldIsFree
  <2>5. CASE d = thread[t].device /\ thread[t].op # "establish"
    <3>1. channels[d] = NoChannel BY <1>b, <2>1, <2>5 DEF HolderFits
    <3> QED BY <2>2, <2>5, <3>1 DEF Current, Together
  <2> QED BY <2>2, <2>3, <2>4, <2>5
<1>5. ASSUME NEW t \in Threads, GoOffline(t)
      PROVE  Current(d)' /\ Together(d)'
  <2>1. /\ thread[t].device \in Devices /\ stripe[thread[t].device] = t /\ Holding(t)
    BY <1>5, <1>b DEF GoOffline, CallsFit, HolderFits, Holding, At
  <2>2. /\ UNCHANGED <<channels, sessions, evicted>>
        /\ \A e \in Devices : e # thread[t].device => states'[e] = states[e]
        /\ UNCHANGED stripe \/ (Leave(t) /\ thread[t].op # "establish")
    BY <1>5, <2>1 DEF GoOffline, OnDeviceDisconnected, LifecycleTypeOK, registry,
       AfterDisconnect
  <2>3. CASE d # thread[t].device
    <3>1. stripe'[d] = stripe[d] BY <2>2, <2>3, LeaveTyped
    <3> QED BY <1>a, <2>2, <2>3, <3>1, DeviceFrame
  <2>4. CASE d = thread[t].device /\ UNCHANGED stripe BY <2>1, <2>4, HeldIsFree
  <2>5. CASE d = thread[t].device /\ thread[t].op # "establish"
    <3>1. channels[d] = NoChannel BY <1>b, <2>1, <2>5 DEF HolderFits
    <3>2. ~evicted => sessions[d] = NoSession BY <1>5, <1>b, <2>5 DEF GoOffline, HolderFits
    <3> QED BY <2>2, <2>5, <3>1, <3>2 DEF Current, Together
  <2> QED BY <2>2, <2>3, <2>4, <2>5
<1>6. ASSUME NEW t \in Threads, StoreSession(t)
      PROVE  Current(d)' /\ Together(d)'
  <2>1. /\ thread[t].device \in Devices /\ stripe[thread[t].device] = t
        /\ UNCHANGED <<channels, stripe, states, evicted>>
    BY <1>6, <1>b DEF StoreSession, CallsFit, HolderFits, Holding, At, registry, presence
  <2>2. \A e \in Devices : e # thread[t].device => sessions'[e] = sessions[e]
    BY <1>6 DEF StoreSession, LifecycleTypeOK
  <2>3. CASE d = thread[t].device BY <2>1, <2>3, HeldIsFree
  <2>4. CASE d # thread[t].device BY <1>a, <2>1, <2>2, <2>4, DeviceFrame
  <2> QED BY <2>3, <2>4
<1>7. ASSUME NEW t \in Threads, GoOnline(t)
      PROVE  Current(d)' /\ Together(d)'
  <2>1. /\ thread[t].device \in Devices /\ thread[t].op = "establish" /\ thread[t].user \in Users
        /\ Holding(t) /\ At(t, "online")
        /\ UNCHANGED <<channels, sessions, evicted>> /\ Leave(t)
    BY <1>7 DEF GoOnline, CallsFit, Holding, At, registry
  <2>2. /\ states'[thread[t].device].user = thread[t].user
        /\ \A e \in Devices : e # thread[t].device => states'[e] = states[e]
    BY <1>7, <2>1 DEF GoOnline, OnDeviceConnected, LifecycleTypeOK
  <2>3. CASE d = thread[t].device
    <3>1. HolderChannel(t) /\ HolderSession(t) /\ HolderUndisturbed(t) BY <1>b DEF HolderFits
    <3> QED BY <2>1, <2>2, <2>3, <3>1 DEF Current, Together
  <2>4. CASE d # thread[t].device
    <3>1. stripe'[d] = stripe[d] BY <2>1, <2>4, LeaveTyped
    <3> QED BY <1>a, <2>1, <2>2, <2>4, <3>1, DeviceFrame
  <2> QED BY <2>3, <2>4
<1>8. CASE (\E t \in Threads : TouchChannel(t)) \/ (\E e \in Devices : ConnectionBreaks(e) \/ LeaseRunsOut(e))
  <2>1. SameChannels BY <1>8, MarkOf
  <2>2. UNCHANGED <<sessions, stripe, states, evicted>>
    BY <1>8 DEF TouchChannel, ConnectionBreaks, LeaseRunsOut, presence
  <2> QED BY <1>a, <2>1, <2>2 DEF SameChannels, Current, Together
<1>9. ASSUME NEW t \in Threads, Beat(t)
      PROVE  Current(d)' /\ Together(d)'
  <2>1. thread[t].device \in Devices /\ thread[t].gone \in Users
    BY <1>9 DEF Beat, CallsFit, At
  <2>2. UNCHANGED <<channels, sessions, stripe, evicted>> /\ OnDeviceHeartbeat(thread[t].gone, thread[t].device)
    BY <1>9 DEF Beat, registry
  <2>3. sessions[d] # NoSession => sessions[d].user \in Users BY RowsHaveUsers
  <2>4. states[d].user \in Users => states'[d].user = states[d].user
    BY <2>1, <2>2, BeatKeepsUser
  <2> QED BY <1>a, <2>2, <2>3, <2>4 DEF Current, Together
<1>10. CASE SweepStaleConnections
  <2>1. /\ channels'[d] = NoChannel \/ channels'[d] = channels[d]
        /\ UNCHANGED <<sessions, stripe>> /\ evicted'
    BY <1>10 DEF SweepStaleConnections
  <2> QED BY <1>a, <2>1 DEF Current, Together
<1>11. ASSUME NEW e \in Devices, ReaperErases(e)
      PROVE  Current(d)' /\ Together(d)'
  <2>1. evicted /\ evicted' BY <1>11 DEF ReaperErases, PassFits, Resting, LifecycleTypeOK
  <2>2. /\ sessions'[d] = NoSession \/ sessions'[d] = sessions[d]
        /\ UNCHANGED <<channels, stripe>>
    BY <1>11 DEF ReaperErases, registry, LifecycleTypeOK
  <2> QED BY <1>a, <2>1, <2>2 DEF Current, Together
<1>12. CASE ReaperGoesOffline
  <2>1. evicted /\ evicted' /\ UNCHANGED <<channels, stripe, sessions>>
    BY <1>12 DEF ReaperGoesOffline, PassFits, Resting, LifecycleTypeOK, registry
  <2> QED BY <1>a, <2>1 DEF Current, Together
<1>13. ASSUME NEW e \in Devices, PresenceRunsOut(e)
      PROVE  Current(d)' /\ Together(d)'
  <2>1. UNCHANGED <<channels, sessions, stripe, evicted>>
    BY <1>13 DEF PresenceRunsOut, registry
  <2>2. states'[d].user = states[d].user
    BY <1>13, RowsHaveUsers, EntryMarked DEF PresenceRunsOut
  <2> QED BY <1>a, <2>1, <2>2 DEF Current, Together
<1>14. CASE UNCHANGED lifecycleVars BY <1>a, <1>14, DeviceFrame DEF lifecycleVars
<1> QED BY <1>1, <1>2, <1>3, <1>4, <1>5, <1>6, <1>7, <1>8, <1>9, <1>10, <1>11, <1>12,
     <1>13, <1>14 DEF LifecycleNext, ThreadStep
-----------------------------------------------------------------------------
(***************************************************************************)
(* The theorems                                                            *)
(***************************************************************************)

\* At the start there is nothing to disagree.
LEMMA InitFits == LifecycleInit => ConnectionInv
<1> SUFFICES ASSUME LifecycleInit PROVE ConnectionInv OBVIOUS
<1>1. LifecycleTypeOK
  <2>1. 0 \in Connections /\ Resting \in Pass
    BY CapacityAssumption DEF Connections, Resting, Pass
  <2>2. Idle \in Call BY <2>1 DEF Idle, Call, Steps
  <2> QED BY <2>1, <2>2 DEF LifecycleInit, LifecycleTypeOK
<1>2. CallsFit /\ PassFits BY DEF LifecycleInit, CallsFit, PassFits, At, Idle, Resting
<1>3. HoldersFit
  BY DEF LifecycleInit, HoldersFit, HolderFits, HolderAlone, HolderChannel, HolderSession,
     HolderUndisturbed, Holding, At, Idle
<1>4. IndexExact /\ PresenceIndexed /\ SessionIsCurrent /\ StripesSuffice
  BY DEF LifecycleInit, IndexExact, Registered, PresenceIndexed, SessionIsCurrent,
         StripesSuffice
<1> QED BY <1>1, <1>2, <1>3, <1>4 DEF ConnectionInv

\* The invariant holds throughout.
LEMMA InvariantHolds == LifecycleSpec => []ConnectionInv
<1>1. ConnectionInv /\ [LifecycleNext]_lifecycleVars => ConnectionInv'
  BY TypeStep, IndexStep, PresenceStep, HolderStep, CurrentStep DEF ConnectionInv
<1> QED BY InitFits, <1>1, PTL DEF LifecycleSpec

\* Every variable keeps its type; in particular no call of the presence
\* coordinator is made without a user (on_registry_disconnect, record_heartbeat).
THEOREM TypeCorrect == LifecycleSpec => []LifecycleTypeOK
<1>1. ConnectionInv => LifecycleTypeOK BY DEF ConnectionInv
<1> QED BY InvariantHolds, <1>1, PTL

\* The index by user of the registry lists exactly the registered channels of
\* the user, so the limit per user counts what it should (register_channel,
\* unregister_channel, evict_stale_channels).
THEOREM IndexIsExact == LifecycleSpec => []IndexExact
<1>1. ConnectionInv => IndexExact BY DEF ConnectionInv
<1> QED BY InvariantHolds, <1>1, PTL

\* Every entry of presence is in the set of its user, whatever the order of
\* connects, disconnects, late heartbeats and evictions.
THEOREM PresenceIsIndexed == LifecycleSpec => []PresenceIndexed
<1>1. ConnectionInv => PresenceIndexed BY DEF ConnectionInv
<1> QED BY InvariantHolds, <1>1, PTL

\* Outside establish_connection and terminate_connection a session and a channel
\* of a device belong to one connection, the reaper at work or not.
THEOREM SessionsAreCurrent == LifecycleSpec => []SessionIsCurrent
<1>1. ConnectionInv => SessionIsCurrent BY DEF ConnectionInv
<1> QED BY InvariantHolds, <1>1, PTL

\* Without evictions the lifecycle stripes keep registry, sessions and presence
\* of a device together, whatever heartbeats do beside them.
THEOREM StripesAreEnough == LifecycleSpec => []StripesSuffice
<1>1. ConnectionInv => StripesSuffice BY DEF ConnectionInv
<1> QED BY InvariantHolds, <1>1, PTL

-----------------------------------------------------------------------------
(***************************************************************************)
(* Submissions                                                             *)
(***************************************************************************)


(* The records a submission stores are idempotency records.                *)
LEMMA RecordTypes ==
    ASSUME NEW c \in Commands, NEW m \in Nat, NEW s \in Nat, NEW st \in Statuses
    PROVE  /\ [mid |-> m, conv |-> c.conv, fp |-> c.fp, seq |-> s,
               status |-> st] \in IdemRecord
           /\ [cmd |-> c, mid |-> m, seq |-> s]
                \in [cmd : Commands, mid : Nat, seq : Nat]
  BY CommandsAssumption DEF IdemRecord

(* A thread that holds its stripe has a command.                           *)
LEMMA LockedHasCommand ==
    ASSUME ThreadTypes, NEW t \in Threads, Locked(t)
    PROVE  /\ pc[t] # "idle" /\ pc[t] # "lock"
           /\ cmd[t] \in Commands
           /\ cmd[t].key \in Keys
           /\ cmd[t].conv \in Convs
           /\ cmd[t].targets \in SUBSET Devices
<1>1. pc[t] # "idle" /\ pc[t] # "lock"
  BY DEF Locked, ReturnCached, RejectConflict,
       RetryWait, RetryWaitExhausted, EvaluateThrows, ProceedNew, AtEvaluate,
       MarkProcessing, AllocateSequence, AllocateThrows, SaveMessage,
       SavePendingDelivery, SaveRecipientState, EnqueueOutboxEvent,
       MarkCommitted, MarkFailed
<1>2. cmd[t] \in Commands BY <1>1 DEF ThreadTypes
<1> QED BY <1>1, <1>2, CommandsAssumption

(* Leaving submit_message keeps the types of the thread's memory.          *)
LEMMA ReturnTypes ==
    ASSUME ThreadTypes, NEW t \in Threads, Return(t),
           lock \in [Instances \X Stripes -> Threads \cup {None}]
    PROVE  /\ ThreadTypes'
           /\ lock' \in [Instances \X Stripes -> Threads \cup {None}]
<1>1. pc' \in [Threads -> Phases] BY DEF ThreadTypes, Return, Phases
<1>2. cmd' \in [Threads -> Commands \cup {None}] BY DEF ThreadTypes, Return
<1>3. mid' \in [Threads -> Nat] /\ seq' \in [Threads -> Nat] BY DEF ThreadTypes, Return
<1>4. bkt' \in [Threads -> Buckets] BY BoundsAssumption DEF ThreadTypes, Return, Buckets
<1>5. todo' \in [Threads -> SUBSET Devices] BY DEF ThreadTypes, Return
<1>6. tries' \in [Threads -> 0 .. RetryWaitLimit] BY BoundsAssumption DEF ThreadTypes, Return
<1>7. lock' \in [Instances \X Stripes -> Threads \cup {None}] BY DEF Return
<1>8. \A u \in Threads : (cmd'[u] = None) <=> (pc'[u] = "idle") BY DEF ThreadTypes, Return
<1> QED BY <1>1, <1>2, <1>3, <1>4, <1>5, <1>6, <1>7, <1>8 DEF ThreadTypes

(* Moving a thread to another phase inside submit_message.                 *)
LEMMA PhaseTypes ==
    ASSUME ThreadTypes, NEW t \in Threads, pc[t] # "idle",
           NEW p \in Phases \ {"idle"}, pc' = [pc EXCEPT ![t] = p],
           UNCHANGED cmd
    PROVE  /\ pc' \in [Threads -> Phases]
           /\ cmd' \in [Threads -> Commands \cup {None}]
           /\ \A u \in Threads : (cmd'[u] = None) <=> (pc'[u] = "idle")
  BY DEF ThreadTypes

(* A step of a thread that holds its stripe keeps the types.               *)
LEMMA LockedTypes ==
    ASSUME SubmissionTypeOK, NEW t \in Threads, Locked(t)
    PROVE  SubmissionTypeOK'
<1> USE DEF SubmissionTypeOK
<1>0. /\ pc[t] # "idle"
      /\ cmd[t] \in Commands
      /\ cmd[t].key \in Keys
      /\ cmd[t].conv \in Convs
      /\ cmd[t].targets \in SUBSET Devices
  BY LockedHasCommand
<1>1. CASE ReturnCached(t)
  <2>1. idem[cmd[t].key] \in IdemRecord
    BY <1>0, <1>1
       DEF ReturnCached, AtEvaluate, EvaluateSubmission, TableTypes
  <2>2. HistoryTypes' BY <1>0, <1>1, <2>1 DEF ReturnCached, HistoryTypes, IdemRecord, env
  <2>3. ThreadTypes' /\ InstanceTypes' /\ TableTypes'
    BY <1>1, ReturnTypes DEF ReturnCached, InstanceTypes, TableTypes, tables
  <2> QED BY <2>2, <2>3
<1>2. CASE RejectConflict(t)
  BY <1>2, ReturnTypes
     DEF RejectConflict, InstanceTypes, TableTypes, HistoryTypes, tables, env
<1>3. CASE RetryWait(t)
  <2>1. ThreadTypes' BY <1>3, BoundsAssumption DEF RetryWait, ThreadTypes
  <2> QED
    BY <1>3, <2>1
       DEF RetryWait, InstanceTypes, TableTypes, HistoryTypes, tables, env
<1>4. CASE RetryWaitExhausted(t)
  BY <1>4, ReturnTypes
     DEF RetryWaitExhausted, InstanceTypes, TableTypes, HistoryTypes, tables, env
<1>5. CASE EvaluateThrows(t)
  BY <1>5, ReturnTypes
     DEF EvaluateThrows, InstanceTypes, TableTypes, HistoryTypes, tables, env
<1>6. CASE ProceedNew(t)
  <2>1. ThreadTypes'
    <3>1. mid' \in [Threads -> Nat] /\ bkt' \in [Threads -> Buckets]
      BY <1>6 DEF ProceedNew, ThreadTypes, HistoryTypes
    <3> QED BY <1>0, <1>6, <3>1, PhaseTypes DEF ProceedNew, ThreadTypes, Phases
  <2>2. HistoryTypes' BY <1>0, <1>6 DEF ProceedNew, HistoryTypes, env
  <2> QED BY <1>6, <2>1, <2>2 DEF ProceedNew, InstanceTypes, TableTypes, tables
<1>7. CASE MarkProcessing(t)
  <2>1. PICK o \in Outcomes : MarkProcessing(t)!(o) BY <1>7 DEF MarkProcessing
  <2>2. TableTypes'
    <3>1. [mid |-> mid[t], conv |-> cmd[t].conv, fp |-> cmd[t].fp, seq |-> 0,
           status |-> "Processing"] \in IdemRecord
      BY <1>0, RecordTypes DEF ThreadTypes, Statuses
    <3> QED BY <1>0, <2>1, <3>1 DEF TableTypes
  <2>3. ThreadTypes' /\ InstanceTypes'
    <3>1. CASE o = "ok"
      BY <1>0, <2>1, <3>1, PhaseTypes
         DEF locals, Phases, ThreadTypes, InstanceTypes
    <3>2. CASE o # "ok" BY <2>1, <3>2, ReturnTypes DEF InstanceTypes
    <3> QED BY <3>1, <3>2
  <2> QED BY <2>1, <2>2, <2>3 DEF HistoryTypes, env
<1>8. CASE AllocateSequence(t)
  <2> DEFINE x == <<cmd[t].conv, bkt[t]>>
  <2>1. x \in Counters /\ Host[t] \in Instances
    BY <1>0, HostAssumption DEF ThreadTypes, Counters
  <2>2. PICK last \in IF counters[Host[t]][x] = None
                      THEN LastSequence(cmd[t].conv, bkt[t])
                      ELSE {counters[Host[t]][x]} :
          /\ counters' = [counters EXCEPT ![Host[t]] =
                            [@ EXCEPT ![x] = last + 1]]
          /\ seq' = [seq EXCEPT ![t] = last + 1]
    BY <1>8 DEF AllocateSequence
  <2>3. last \in Nat
    <3>1. counters[Host[t]][x] \in Nat \cup {None} BY <2>1 DEF InstanceTypes
    <3>2. LastSequence(cmd[t].conv, bkt[t]) \subseteq Nat
      BY DEF LastSequence, StoredSequences, TableTypes, MessageRow
    <3> QED BY <2>2, <3>1, <3>2
  <2>4. counters' \in [Instances -> [Counters -> Nat \cup {None}]]
    <3>1. counters[Host[t]] \in [Counters -> Nat \cup {None}] BY <2>1 DEF InstanceTypes
    <3>2. [counters[Host[t]] EXCEPT ![x] = last + 1]
            \in [Counters -> Nat \cup {None}]
      BY <3>1, <2>1, <2>3
    <3> QED BY <2>1, <2>2, <3>2 DEF InstanceTypes
  <2>5. ThreadTypes'
    <3>1. seq' \in [Threads -> Nat] BY <2>2, <2>3 DEF ThreadTypes
    <3> QED BY <1>0, <1>8, <3>1, PhaseTypes DEF AllocateSequence, ThreadTypes, Phases
  <2> QED
    BY <1>8, <2>4, <2>5
       DEF AllocateSequence, InstanceTypes, TableTypes, HistoryTypes, tables, env
<1>9. CASE AllocateThrows(t)
  <2>1. ThreadTypes' BY <1>0, <1>9, PhaseTypes DEF AllocateThrows, locals, ThreadTypes, Phases
  <2> QED
    BY <1>9, <2>1
       DEF AllocateThrows, InstanceTypes, TableTypes, HistoryTypes, tables, env
<1>10. CASE SaveMessage(t)
  <2>1. PICK o \in Outcomes : SaveMessage(t)!(o) BY <1>10 DEF SaveMessage
  <2>2. TableTypes'
    <3>1. [mid |-> mid[t], conv |-> cmd[t].conv, bucket |-> bkt[t],
           seq |-> seq[t]] \in MessageRow
      BY <1>0 DEF ThreadTypes, MessageRow
    <3> QED BY <2>1, <3>1 DEF TableTypes
  <2>3. ThreadTypes'
    <3>1. todo' \in [Threads -> SUBSET Devices] BY <1>0, <2>1 DEF ThreadTypes
    <3> QED BY <1>0, <2>1, <3>1, PhaseTypes DEF Advance, ThreadTypes, Phases
  <2> QED BY <2>1, <2>2, <2>3 DEF InstanceTypes, HistoryTypes, env
<1>11. CASE SavePendingDelivery(t)
  <2>1. PICK o \in Outcomes, d \in todo[t] : SavePendingDelivery(t)!(o, d)
    BY <1>11 DEF SavePendingDelivery
  <2>2. TableTypes' BY <2>1 DEF TableTypes, ThreadTypes
  <2>3. ThreadTypes'
    <3>1. todo' \in [Threads -> SUBSET Devices] BY <1>0, <2>1 DEF ThreadTypes
    <3> QED BY <1>0, <2>1, <3>1, PhaseTypes DEF Advance, ThreadTypes, Phases
  <2> QED BY <2>1, <2>2, <2>3 DEF InstanceTypes, HistoryTypes, env
<1>12. CASE SaveRecipientState(t)
  <2>1. PICK o \in Outcomes, d \in todo[t] : SaveRecipientState(t)!(o, d)
    BY <1>12 DEF SaveRecipientState
  <2>2. TableTypes' BY <2>1 DEF TableTypes, ThreadTypes
  <2>3. ThreadTypes'
    <3>1. todo' \in [Threads -> SUBSET Devices] BY <1>0, <2>1 DEF ThreadTypes
    <3> QED BY <1>0, <2>1, <3>1, PhaseTypes DEF Advance, ThreadTypes, Phases
  <2> QED BY <2>1, <2>2, <2>3 DEF InstanceTypes, HistoryTypes, env
<1>13. CASE EnqueueOutboxEvent(t)
  <2>1. PICK o \in Outcomes : EnqueueOutboxEvent(t)!(o) BY <1>13 DEF EnqueueOutboxEvent
  <2>2. TableTypes' BY <2>1 DEF TableTypes, ThreadTypes
  <2>3. ThreadTypes' BY <1>0, <2>1, PhaseTypes DEF Advance, ThreadTypes, locals, Phases
  <2> QED BY <2>1, <2>2, <2>3 DEF InstanceTypes, HistoryTypes, env
<1>14. CASE MarkCommitted(t)
  <2>1. PICK o \in Outcomes : MarkCommitted(t)!(o) BY <1>14 DEF MarkCommitted
  <2>0. /\ [mid |-> mid[t], conv |-> cmd[t].conv, fp |-> cmd[t].fp,
            seq |-> seq[t], status |-> "Committed"] \in IdemRecord
        /\ [cmd |-> cmd[t], mid |-> mid[t], seq |-> seq[t]]
             \in [cmd : Commands, mid : Nat, seq : Nat]
    <3>1. mid[t] \in Nat /\ seq[t] \in Nat /\ "Committed" \in Statuses
      BY DEF ThreadTypes, Statuses
    <3> QED BY <1>0, <3>1, RecordTypes
  <2>2. TableTypes' BY <1>0, <2>0, <2>1 DEF TableTypes
  <2>3. ThreadTypes' /\ InstanceTypes' /\ HistoryTypes'
    <3>1. CASE o = "ok" BY <2>0, <2>1, <3>1, ReturnTypes DEF InstanceTypes, HistoryTypes, env
    <3>2. CASE o # "ok"
      BY <1>0, <2>1, <3>2, PhaseTypes
         DEF locals, Phases, ThreadTypes, InstanceTypes, HistoryTypes, env
    <3> QED BY <3>1, <3>2
  <2> QED BY <2>2, <2>3
<1>15. CASE MarkFailed(t)
  <2>1. PICK o \in Outcomes : MarkFailed(t)!(o) BY <1>15 DEF MarkFailed
  <2>2. TableTypes'
    <3>1. ASSUME idem[cmd[t].key] # None
          PROVE  [idem[cmd[t].key] EXCEPT !.status = "Failed"] \in IdemRecord
      BY <1>0, <3>1 DEF TableTypes, IdemRecord, Statuses
    <3> QED BY <1>0, <2>1, <3>1 DEF TableTypes
  <2>3. ThreadTypes' /\ InstanceTypes' BY <2>1, ReturnTypes DEF InstanceTypes
  <2> QED BY <2>1, <2>2, <2>3 DEF HistoryTypes, env
<1> QED BY <1>1, <1>2, <1>3, <1>4, <1>5, <1>6, <1>7, <1>8, <1>9, <1>10,
     <1>11, <1>12, <1>13, <1>14, <1>15 DEF Locked

(* Every step of the specification keeps the types.                        *)
LEMMA SubmissionTypeStep == SubmissionTypeOK /\ [SubmissionNext]_submissionVars => SubmissionTypeOK'
<1> SUFFICES ASSUME SubmissionTypeOK, [SubmissionNext]_submissionVars PROVE SubmissionTypeOK'
  OBVIOUS
<1> USE DEF SubmissionTypeOK
<1>1. ASSUME NEW t \in Threads, Submit(t) PROVE SubmissionTypeOK'
  <2>1. PICK c \in Commands : Submit(t)!(c) BY <1>1 DEF Submit
  <2>2. c # None BY HostAssumption
  <2>3. cmd' \in [Threads -> Commands \cup {None}] BY <2>1 DEF ThreadTypes
  <2>4. pc' \in [Threads -> Phases] BY <2>1 DEF ThreadTypes, Phases
  <2>5. \A u \in Threads : (cmd'[u] = None) <=> (pc'[u] = "idle") BY <2>1, <2>2 DEF ThreadTypes
  <2> QED
    BY <2>1, <2>3, <2>4, <2>5
       DEF ThreadTypes, InstanceTypes, TableTypes, HistoryTypes, tables, env
<1>2. ASSUME NEW t \in Threads, AcquireStripe(t) PROVE SubmissionTypeOK'
  <2>1. ThreadTypes' BY <1>2, PhaseTypes DEF AcquireStripe, locals, ThreadTypes, Phases
  <2>2. InstanceTypes' BY <1>2 DEF AcquireStripe, InstanceTypes
  <2> QED
    BY <1>2, <2>1, <2>2
       DEF AcquireStripe, TableTypes, HistoryTypes, tables, env
<1>3. ASSUME NEW t \in Threads, Locked(t) PROVE SubmissionTypeOK' BY <1>3, LockedTypes
<1>4. ASSUME NEW i \in Instances, Crash(i) PROVE SubmissionTypeOK'
  <2>1. ThreadTypes' BY <1>4, BoundsAssumption DEF Crash, ThreadTypes, Phases, Buckets
  <2>2. lock' \in [Instances \X Stripes -> Threads \cup {None}]
    BY <1>4 DEF Crash, InstanceTypes
  <2>3. counters' \in [Instances -> [Counters -> Nat \cup {None}]]
    BY <1>4 DEF Crash, InstanceTypes
  <2> QED
    BY <1>4, <2>1, <2>2, <2>3, BoundsAssumption
       DEF Crash, InstanceTypes, TableTypes, HistoryTypes, tables
<1>5. CASE NextMonth
  BY <1>5, BoundsAssumption
     DEF ThreadTypes, InstanceTypes, TableTypes, HistoryTypes, NextMonth,
         locals, tables, Buckets
<1>6. CASE UNCHANGED submissionVars
  BY <1>6 DEF ThreadTypes, InstanceTypes, TableTypes, HistoryTypes, submissionVars,
              locals, tables, env
<1> QED BY <1>1, <1>2, <1>3, <1>4, <1>5, <1>6 DEF SubmissionNext

(***************************************************************************)
(* The types of the submission state hold in every reachable state.        *)
(***************************************************************************)
THEOREM SubmissionTypes == SubmissionSpec => []SubmissionTypeOK
<1>1. SubmissionInit => SubmissionTypeOK
  BY BoundsAssumption
     DEF SubmissionInit, SubmissionTypeOK, ThreadTypes, InstanceTypes, TableTypes, HistoryTypes,
         Phases, Buckets
<1> QED BY <1>1, SubmissionTypeStep, PTL DEF SubmissionSpec

-----------------------------------------------------------------------------
(***************************************************************************)
(* Durability of answers.  AcceptedIsDurable alone is not inductive: a     *)
(* replay answers from the idempotency record and a first answer from the  *)
(* thread's progress, so both have to be tied to the tables.               *)
(***************************************************************************)

(* What thread t has stored when it reaches its current phase.             *)
StoredBy(t) ==
    /\ pc[t] \in {"pending", "recipient", "outbox", "commit"} =>
         [mid |-> mid[t], conv |-> cmd[t].conv, bucket |-> bkt[t],
          seq |-> seq[t]] \in messages
    /\ pc[t] = "pending" =>
         \A d \in cmd[t].targets : d \in todo[t] \/ <<mid[t], d>> \in pending
    /\ pc[t] \in {"recipient", "outbox", "commit"} =>
         \A d \in cmd[t].targets : <<mid[t], d>> \in pending
    /\ pc[t] = "recipient" =>
         \A d \in cmd[t].targets : d \in todo[t] \/ <<mid[t], d>> \in recipients
    /\ pc[t] \in {"outbox", "commit"} =>
         \A d \in cmd[t].targets : <<mid[t], d>> \in recipients
    /\ pc[t] = "commit" => mid[t] \in outbox

(* A COMMITTED record stands for a stored message.                         *)
CommittedIsDurable ==
    \A k \in Keys : idem[k] # None /\ idem[k].status = "Committed" =>
        \A c \in Commands : c.fp = idem[k].fp =>
            Durable(c, idem[k].mid, idem[k].seq)

DurabilityInv ==
    /\ \A t \in Threads : StoredBy(t)
    /\ CommittedIsDurable
    /\ AcceptedIsDurable

(* Rows are never deleted.                                                 *)
RowsKept ==
    /\ messages \subseteq messages'
    /\ pending \subseteq pending'
    /\ recipients \subseteq recipients'
    /\ outbox \subseteq outbox'

(* No step of the service deletes a row of the four tables.                *)
LEMMA RowsAreKept == [SubmissionNext]_submissionVars => RowsKept
<1> SUFFICES ASSUME [SubmissionNext]_submissionVars PROVE RowsKept OBVIOUS
<1>1. ASSUME NEW t \in Threads, Locked(t) PROVE RowsKept
  BY <1>1 DEF RowsKept, Locked, ReturnCached, RejectConflict, RetryWait,
     RetryWaitExhausted, EvaluateThrows, ProceedNew, MarkProcessing,
     AllocateSequence, AllocateThrows, SaveMessage, SavePendingDelivery,
     SaveRecipientState, EnqueueOutboxEvent, MarkCommitted, MarkFailed, tables
<1> QED
  BY <1>1 DEF RowsKept, SubmissionNext, Submit, AcquireStripe, Crash, NextMonth, submissionVars,
              tables

(* What is durable stays durable.                                          *)
LEMMA DurableStays ==
    ASSUME RowsKept, NEW c, NEW m, NEW s, Durable(c, m, s)
    PROVE  Durable(c, m, s)'
  BY DEF RowsKept, Durable

(* A thread that a step does not touch keeps what it has stored.           *)
LEMMA StoredByStays ==
    ASSUME RowsKept, NEW t \in Threads, StoredBy(t),
           pc'[t] = pc[t], cmd'[t] = cmd[t], mid'[t] = mid[t],
           bkt'[t] = bkt[t], seq'[t] = seq[t], todo'[t] = todo[t]
    PROVE  StoredBy(t)'
  BY DEF RowsKept, StoredBy

(* A thread outside the four storing phases owes nothing.                  *)
LEMMA StoredByVacuous ==
    ASSUME NEW t \in Threads,
           pc'[t] \notin {"pending", "recipient", "outbox", "commit"}
    PROVE  StoredBy(t)'
  BY DEF StoredBy

(* A thread about to commit has stored everything the record will claim.   *)
LEMMA ReadyToCommit ==
    ASSUME SubmissionTypeOK, NEW t \in Threads, StoredBy(t), pc[t] = "commit",
           NEW c \in Commands, c.fp = cmd[t].fp
    PROVE  Durable(c, mid[t], seq[t])
<1>1. cmd[t] \in Commands /\ bkt[t] \in Buckets BY DEF SubmissionTypeOK, ThreadTypes
<1>2. c.conv = cmd[t].conv /\ c.targets = cmd[t].targets BY <1>1, CommandsAssumption
<1>3. [mid |-> mid[t], conv |-> c.conv, bucket |-> bkt[t], seq |-> seq[t]]
        \in messages
  BY <1>2 DEF StoredBy
<1> QED BY <1>1, <1>2, <1>3 DEF StoredBy, Durable

(* A step that leaves the records alone, or only marks one as not          *)
(* committed, keeps CommittedIsDurable.                                    *)
LEMMA CommittedStays ==
    ASSUME RowsKept, CommittedIsDurable,
           \A k \in Keys :
              \/ idem'[k] = idem[k]
              \/ idem'[k].status # "Committed"
    PROVE  CommittedIsDurable'
<1>1. ASSUME NEW k \in Keys, idem'[k] = idem[k],
             idem[k] # None, idem[k].status = "Committed",
             NEW c \in Commands, c.fp = idem[k].fp
      PROVE  Durable(c, idem[k].mid, idem[k].seq)'
  <2>1. Durable(c, idem[k].mid, idem[k].seq) BY <1>1 DEF CommittedIsDurable
  <2> QED BY <1>1, <2>1 DEF RowsKept, Durable
<1> QED BY <1>1 DEF CommittedIsDurable

(* Steps that send no answer keep the answers durable.                     *)
LEMMA AcceptedStays ==
    ASSUME RowsKept, AcceptedIsDurable, UNCHANGED answers
    PROVE  AcceptedIsDurable'
<1> SUFFICES ASSUME NEW a \in answers
             PROVE  Durable(a.cmd, a.mid, a.seq)'
  BY DEF AcceptedIsDurable
<1> QED BY DurableStays DEF AcceptedIsDurable

(* A thread's step leaves the memory of the other threads alone.           *)
LEMMA OthersUntouched ==
    ASSUME ThreadTypes, NEW t \in Threads, Locked(t),
           NEW u \in Threads, u # t
    PROVE  /\ pc'[u] = pc[u] /\ cmd'[u] = cmd[u] /\ mid'[u] = mid[u]
           /\ bkt'[u] = bkt[u] /\ seq'[u] = seq[u] /\ todo'[u] = todo[u]
<1> USE DEF ThreadTypes
<1>1. ASSUME Return(t)
      PROVE  /\ pc'[u] = pc[u] /\ cmd'[u] = cmd[u] /\ mid'[u] = mid[u]
             /\ bkt'[u] = bkt[u] /\ seq'[u] = seq[u] /\ todo'[u] = todo[u]
  BY <1>1 DEF Return
<1>2. CASE \/ ReturnCached(t) \/ RejectConflict(t) \/ RetryWaitExhausted(t)
           \/ EvaluateThrows(t) \/ MarkFailed(t)
  BY <1>1, <1>2 DEF ReturnCached, RejectConflict, RetryWaitExhausted,
                    EvaluateThrows, MarkFailed
<1>3. CASE RetryWait(t) \/ ProceedNew(t) BY <1>3 DEF RetryWait, ProceedNew
<1>4. CASE AllocateSequence(t) \/ AllocateThrows(t)
  BY <1>4 DEF AllocateSequence, AllocateThrows, locals
<1>5. CASE MarkProcessing(t) BY <1>1, <1>5 DEF MarkProcessing, locals
<1>6. CASE MarkCommitted(t) BY <1>1, <1>6 DEF MarkCommitted, locals
<1>7. CASE SaveMessage(t) \/ EnqueueOutboxEvent(t)
  BY <1>7 DEF SaveMessage, EnqueueOutboxEvent, Advance, locals
<1>8. CASE SavePendingDelivery(t) \/ SaveRecipientState(t)
  BY <1>8 DEF SavePendingDelivery, SaveRecipientState, Advance
<1> QED BY <1>2, <1>3, <1>4, <1>5, <1>6, <1>7, <1>8 DEF Locked

(* The thread that takes the step has stored what its next phase needs.    *)
LEMMA StoredByActor ==
    ASSUME SubmissionTypeOK, NEW t \in Threads, Locked(t), StoredBy(t), RowsKept
    PROVE  StoredBy(t)'
<1> USE DEF SubmissionTypeOK, ThreadTypes
<1>0. cmd[t] \in Commands BY LockedHasCommand
<1>1. ASSUME Return(t) PROVE StoredBy(t)' BY <1>1, StoredByVacuous DEF Return
<1>2. CASE \/ ReturnCached(t) \/ RejectConflict(t) \/ RetryWaitExhausted(t)
           \/ EvaluateThrows(t) \/ MarkFailed(t)
  BY <1>1, <1>2 DEF ReturnCached, RejectConflict, RetryWaitExhausted,
                    EvaluateThrows, MarkFailed
<1>3. CASE RetryWait(t) \/ ProceedNew(t)
  BY <1>3, StoredByVacuous DEF RetryWait, ProceedNew, AtEvaluate
<1>4. CASE AllocateSequence(t) \/ AllocateThrows(t)
  BY <1>4, StoredByVacuous DEF AllocateSequence, AllocateThrows
<1>5. CASE MarkProcessing(t) BY <1>1, <1>5, StoredByVacuous DEF MarkProcessing
<1>6. CASE MarkCommitted(t) BY <1>1, <1>6, StoredByVacuous DEF MarkCommitted
<1>7. CASE SaveMessage(t)
  <2>1. PICK o \in Outcomes : SaveMessage(t)!(o) BY <1>7 DEF SaveMessage
  <2>2. CASE o = "ok"
    <3>1. /\ pc'[t] = "pending" /\ todo'[t] = cmd'[t].targets
          /\ [mid |-> mid'[t], conv |-> cmd'[t].conv, bucket |-> bkt'[t],
              seq |-> seq'[t]] \in messages'
      BY <2>1, <2>2 DEF Advance, Applied
    <3> QED BY <3>1 DEF StoredBy
  <2>3. CASE o # "ok" BY <2>1, <2>3, StoredByVacuous DEF Advance
  <2> QED BY <2>2, <2>3
<1>8. CASE SavePendingDelivery(t)
  <2>1. PICK o \in Outcomes, d \in todo[t] : SavePendingDelivery(t)!(o, d)
    BY <1>8 DEF SavePendingDelivery
  <2>2. CASE o = "ok"
    <3>1. /\ [mid |-> mid'[t], conv |-> cmd'[t].conv, bucket |-> bkt'[t],
              seq |-> seq'[t]] \in messages'
          /\ \A e \in cmd[t].targets : e \in todo[t] \ {d}
                                       \/ <<mid[t], e>> \in pending'
          /\ cmd'[t] = cmd[t] /\ mid'[t] = mid[t]
      BY <2>1, <2>2 DEF StoredBy, Applied
    <3>2. CASE todo[t] = {d}
      <4>1. pc'[t] = "recipient" /\ todo'[t] = cmd'[t].targets BY <2>1, <2>2, <3>2 DEF Advance
      <4> QED BY <3>1, <3>2, <4>1 DEF StoredBy
    <3>3. CASE todo[t] # {d}
      <4>1. pc'[t] = "pending" /\ todo'[t] = todo[t] \ {d} BY <2>1, <2>2, <3>3 DEF Advance
      <4> QED BY <3>1, <4>1 DEF StoredBy
    <3> QED BY <3>2, <3>3
  <2>3. CASE o # "ok" BY <2>1, <2>3, StoredByVacuous DEF Advance
  <2> QED BY <2>2, <2>3
<1>9. CASE SaveRecipientState(t)
  <2>1. PICK o \in Outcomes, d \in todo[t] : SaveRecipientState(t)!(o, d)
    BY <1>9 DEF SaveRecipientState
  <2>2. CASE o = "ok"
    <3>1. /\ [mid |-> mid'[t], conv |-> cmd'[t].conv, bucket |-> bkt'[t],
              seq |-> seq'[t]] \in messages'
          /\ \A e \in cmd[t].targets : <<mid[t], e>> \in pending'
          /\ \A e \in cmd[t].targets : e \in todo[t] \ {d}
                                       \/ <<mid[t], e>> \in recipients'
          /\ cmd'[t] = cmd[t] /\ mid'[t] = mid[t]
          /\ todo'[t] = todo[t] \ {d}
      BY <2>1, <2>2 DEF StoredBy, Applied
    <3>2. CASE todo[t] = {d}
      <4>1. pc'[t] = "outbox" BY <2>1, <2>2, <3>2 DEF Advance
      <4> QED BY <3>1, <3>2, <4>1 DEF StoredBy
    <3>3. CASE todo[t] # {d}
      <4>1. pc'[t] = "recipient" BY <2>1, <2>2, <3>3 DEF Advance
      <4> QED BY <3>1, <4>1 DEF StoredBy
    <3> QED BY <3>2, <3>3
  <2>3. CASE o # "ok" BY <2>1, <2>3, StoredByVacuous DEF Advance
  <2> QED BY <2>2, <2>3
<1>10. CASE EnqueueOutboxEvent(t)
  <2>1. PICK o \in Outcomes : EnqueueOutboxEvent(t)!(o) BY <1>10 DEF EnqueueOutboxEvent
  <2>2. CASE o = "ok" BY <2>1, <2>2 DEF Advance, Applied, StoredBy, locals
  <2>3. CASE o # "ok" BY <2>1, <2>3, StoredByVacuous DEF Advance
  <2> QED BY <2>2, <2>3
<1> QED BY <1>2, <1>3, <1>4, <1>5, <1>6, <1>7, <1>8, <1>9, <1>10 DEF Locked

(* The records a thread's step leaves behind are backed by the tables.     *)
LEMMA CommittedStep ==
    ASSUME SubmissionTypeOK, NEW t \in Threads, Locked(t), StoredBy(t), RowsKept,
           CommittedIsDurable
    PROVE  CommittedIsDurable'
<1> USE DEF SubmissionTypeOK
<1>0. cmd[t] \in Commands /\ cmd[t].key \in Keys BY LockedHasCommand
<1>1. CASE MarkProcessing(t)
  <2>1. \A k \in Keys : idem'[k] = idem[k] \/ idem'[k].status # "Committed"
    BY <1>0, <1>1 DEF MarkProcessing, TableTypes
  <2> QED BY <2>1, CommittedStays
<1>2. CASE MarkFailed(t)
  <2>1. \A k \in Keys : idem'[k] = idem[k] \/ idem'[k].status # "Committed"
    BY <1>0, <1>2 DEF MarkFailed, TableTypes, IdemRecord
  <2> QED BY <2>1, CommittedStays
<1>3. CASE MarkCommitted(t)
  <2>1. pc[t] = "commit" BY <1>3 DEF MarkCommitted
  <2>2. PICK o \in Outcomes : MarkCommitted(t)!(o) BY <1>3 DEF MarkCommitted
  <2>3. CASE ~ Applied(o)
    <3>1. UNCHANGED idem BY <2>2, <2>3
    <3> QED BY <3>1, CommittedStays
  <2>4. CASE Applied(o)
    <3> DEFINE r == [mid |-> mid[t], conv |-> cmd[t].conv, fp |-> cmd[t].fp,
                     seq |-> seq[t], status |-> "Committed"]
    <3>1. idem' = [idem EXCEPT ![cmd[t].key] = r] BY <2>2, <2>4
    <3>2. ASSUME NEW k \in Keys, idem'[k] # None,
                 idem'[k].status = "Committed",
                 NEW c \in Commands, c.fp = idem'[k].fp
          PROVE  Durable(c, idem[k].mid, idem[k].seq)'
      <4>1. CASE k = cmd[t].key
        <5>1. idem'[k] = r BY <1>0, <3>1, <4>1 DEF TableTypes
        <5>2. Durable(c, mid[t], seq[t]) BY <2>1, <3>2, <5>1, ReadyToCommit
        <5> QED BY <5>1, <5>2 DEF RowsKept, Durable
      <4>2. CASE k # cmd[t].key
        <5>1. idem'[k] = idem[k] BY <1>0, <3>1, <4>2 DEF TableTypes
        <5>2. Durable(c, idem[k].mid, idem[k].seq) BY <3>2, <5>1 DEF CommittedIsDurable
        <5> QED BY <5>1, <5>2 DEF RowsKept, Durable
      <4> QED BY <4>1, <4>2
    <3> QED BY <3>2 DEF CommittedIsDurable
  <2> QED BY <2>3, <2>4
<1>4. CASE ~ (MarkProcessing(t) \/ MarkFailed(t) \/ MarkCommitted(t))
  <2>1. UNCHANGED idem
    BY <1>4 DEF Locked, ReturnCached, RejectConflict, RetryWait,
       RetryWaitExhausted, EvaluateThrows, ProceedNew, AllocateSequence,
       AllocateThrows, SaveMessage, SavePendingDelivery, SaveRecipientState,
       EnqueueOutboxEvent, tables
  <2> QED BY <2>1, CommittedStays
<1> QED BY <1>1, <1>2, <1>3, <1>4

(* The answers sent by a thread's step are backed by the tables.           *)
LEMMA AcceptedStep ==
    ASSUME SubmissionTypeOK, NEW t \in Threads, Locked(t), StoredBy(t), RowsKept,
           CommittedIsDurable, AcceptedIsDurable
    PROVE  AcceptedIsDurable'
<1> USE DEF SubmissionTypeOK
<1>0. cmd[t] \in Commands /\ cmd[t].key \in Keys BY LockedHasCommand
<1>1. CASE UNCHANGED answers BY <1>1, AcceptedStays
<1>2. ASSUME NEW m, NEW s, Durable(cmd[t], m, s),
             answers' = answers \cup {[cmd |-> cmd[t], mid |-> m, seq |-> s]}
      PROVE  AcceptedIsDurable'
  <2> SUFFICES ASSUME NEW a \in answers'
               PROVE  Durable(a.cmd, a.mid, a.seq)'
    BY DEF AcceptedIsDurable
  <2>1. Durable(a.cmd, a.mid, a.seq) BY <1>2 DEF AcceptedIsDurable
  <2> QED BY <2>1, DurableStays
<1>3. CASE ReturnCached(t)
  <2>1. /\ idem[cmd[t].key] # None
        /\ idem[cmd[t].key].status = "Committed"
        /\ idem[cmd[t].key].fp = cmd[t].fp
    BY <1>0, <1>3 DEF ReturnCached, AtEvaluate, EvaluateSubmission, TableTypes,
                      IdemRecord, Statuses
  <2>2. PICK m, s : m = idem[cmd[t].key].mid /\ s = idem[cmd[t].key].seq OBVIOUS
  <2>3. Durable(cmd[t], m, s) BY <1>0, <2>1, <2>2 DEF CommittedIsDurable
  <2> QED BY <1>2, <1>3, <2>2, <2>3 DEF ReturnCached
<1>4. CASE MarkCommitted(t)
  <2>1. PICK o \in Outcomes : MarkCommitted(t)!(o) BY <1>4 DEF MarkCommitted
  <2>2. CASE o = "ok"
    <3>1. PICK m, s : m = mid[t] /\ s = seq[t] OBVIOUS
    <3>2. Durable(cmd[t], m, s) BY <1>0, <2>1, <3>1, ReadyToCommit
    <3> QED BY <1>2, <2>1, <2>2, <3>1, <3>2
  <2>3. CASE o # "ok" BY <1>1, <2>1, <2>3
  <2> QED BY <2>2, <2>3
<1>5. CASE ~ (ReturnCached(t) \/ MarkCommitted(t))
  <2>1. UNCHANGED answers
    BY <1>5 DEF Locked, RejectConflict, RetryWait,
       RetryWaitExhausted, EvaluateThrows, ProceedNew, MarkProcessing,
       AllocateSequence, AllocateThrows, SaveMessage, SavePendingDelivery,
       SaveRecipientState, EnqueueOutboxEvent, MarkFailed
  <2> QED BY <1>1, <2>1
<1> QED BY <1>3, <1>4, <1>5

(* Every step keeps the durability invariant.                              *)
LEMMA DurabilityStep ==
    SubmissionTypeOK /\ DurabilityInv /\ [SubmissionNext]_submissionVars => DurabilityInv'
<1> SUFFICES ASSUME SubmissionTypeOK, DurabilityInv, [SubmissionNext]_submissionVars PROVE DurabilityInv'
  OBVIOUS
<1> USE DEF DurabilityInv
<1>0. RowsKept BY RowsAreKept
<1>1. ASSUME NEW t \in Threads, Locked(t) PROVE DurabilityInv'
  <2>1. ASSUME NEW u \in Threads PROVE StoredBy(u)'
    <3>1. CASE u = t BY <1>0, <1>1, <3>1, StoredByActor
    <3>2. CASE u # t BY <1>0, <1>1, <3>2, OthersUntouched, StoredByStays DEF SubmissionTypeOK
    <3> QED BY <3>1, <3>2
  <2>2. CommittedIsDurable' /\ AcceptedIsDurable' BY <1>0, <1>1, CommittedStep, AcceptedStep
  <2> QED BY <2>1, <2>2
<1>2. ASSUME UNCHANGED <<idem, answers>>,
             ASSUME NEW u \in Threads
             PROVE  \/ pc'[u] \in {"idle", "lock", "evaluate"}
                    \/ /\ pc'[u] = pc[u] /\ cmd'[u] = cmd[u]
                       /\ mid'[u] = mid[u] /\ bkt'[u] = bkt[u]
                       /\ seq'[u] = seq[u] /\ todo'[u] = todo[u]
      PROVE  DurabilityInv'
  <2>1. ASSUME NEW u \in Threads PROVE StoredBy(u)'
    <3>1. CASE pc'[u] \in {"idle", "lock", "evaluate"} BY <3>1, StoredByVacuous
    <3>2. CASE pc'[u] \notin {"idle", "lock", "evaluate"} BY <1>0, <1>2, <3>2, StoredByStays
    <3> QED BY <3>1, <3>2
  <2>2. CommittedIsDurable' /\ AcceptedIsDurable' BY <1>0, <1>2, CommittedStays, AcceptedStays
  <2> QED BY <2>1, <2>2
<1>3. ASSUME NEW t \in Threads, Submit(t) \/ AcquireStripe(t)
      PROVE  DurabilityInv'
  BY <1>2, <1>3
     DEF Submit, AcquireStripe, tables, locals, SubmissionTypeOK, ThreadTypes
<1>4. ASSUME NEW i \in Instances, Crash(i) PROVE DurabilityInv'
  BY <1>2, <1>4 DEF Crash, tables, SubmissionTypeOK, ThreadTypes
<1>5. CASE NextMonth BY <1>2, <1>5 DEF NextMonth, tables, locals
<1>6. CASE UNCHANGED submissionVars BY <1>2, <1>6 DEF submissionVars, tables, locals
<1> QED BY <1>1, <1>3, <1>4, <1>5, <1>6 DEF SubmissionNext

(***************************************************************************)
(* Every success answer stands for a completely stored message, for any    *)
(* number of threads and service instances, any crashes and failed calls.  *)
(***************************************************************************)
THEOREM AnswersAreDurable == SubmissionSpec => []AcceptedIsDurable
<1>1. SubmissionInit => DurabilityInv
  BY DEF SubmissionInit, DurabilityInv, StoredBy, CommittedIsDurable, AcceptedIsDurable
<1>2. DurabilityInv => AcceptedIsDurable BY DEF DurabilityInv
<1> QED BY <1>1, <1>2, SubmissionTypes, DurabilityStep, PTL DEF SubmissionSpec

-----------------------------------------------------------------------------
(***************************************************************************)
(* Finality of answers.  Holds when all threads belong to one service      *)
(* instance: the stripes that serialise the submissions of a key are in    *)
(* the memory of the process.                                              *)
(***************************************************************************)
SingleInstance == \A t, u \in Threads : Host[t] = Host[u]

(* The phases between the claim of the key and the end of the request.     *)
Claiming == {"claim", "allocate", "message", "pending", "recipient",
             "outbox", "commit", "fail"}

(* A thread past the lock guard owns the stripe of its key.                *)
StripeOwned ==
    \A t \in Threads : pc[t] \notin {"idle", "lock"} => lock[MyStripe(t)] = t

(* No answer was ever sent for a key that a thread is claiming.            *)
ClaimedIsUnanswered ==
    \A t \in Threads : pc[t] \in Claiming =>
        \A a \in answers : a.cmd.key # cmd[t].key

(* The record a claiming thread will overwrite is bound to its payload.    *)
ClaimedIsBound ==
    \A t \in Threads :
        pc[t] \in Claiming /\ idem[cmd[t].key] # None =>
            /\ idem[cmd[t].key].conv = cmd[t].conv
            /\ idem[cmd[t].key].fp = cmd[t].fp

FinalInv ==
    StripeOwned /\ AnswerIsFinal /\ ClaimedIsUnanswered /\ ClaimedIsBound

(* Threads of one instance that are past the lock work on different keys.  *)
LEMMA DifferentKeys ==
    ASSUME SingleInstance, StripeOwned,
           NEW t \in Threads, NEW u \in Threads, t # u,
           pc[t] \notin {"idle", "lock"}, pc[u] \notin {"idle", "lock"}
    PROVE  cmd[t].key # cmd[u].key
  BY DEF SingleInstance, StripeOwned, MyStripe

(* Only the owner of a stripe gives it back.                               *)
LEMMA StripeStep ==
    ASSUME SubmissionTypeOK, StripeOwned, [SubmissionNext]_submissionVars
    PROVE  StripeOwned'
<1> USE DEF SubmissionTypeOK, ThreadTypes, InstanceTypes
<1>1. ASSUME NEW t \in Threads, Locked(t) PROVE StripeOwned'
  <2>0. cmd[t] \in Commands /\ cmd[t].key \in Keys /\ pc[t] \notin {"idle", "lock"}
    BY <1>1, LockedHasCommand
  <2>1. MyStripe(t) \in Instances \X Stripes BY <2>0, HostAssumption DEF MyStripe
  <2>2. CASE Return(t)
    <3>1. ASSUME NEW u \in Threads, pc'[u] \notin {"idle", "lock"}
          PROVE  lock'[MyStripe(u)'] = u
      <4>1. u # t BY <2>2, <3>1 DEF Return
      <4>2. pc[u] = pc'[u] /\ cmd'[u] = cmd[u] BY <1>1, <4>1, OthersUntouched
      <4>3. lock[MyStripe(u)] = u /\ lock[MyStripe(t)] = t BY <2>0, <3>1, <4>2 DEF StripeOwned
      <4>4. MyStripe(u) # MyStripe(t) /\ MyStripe(u)' = MyStripe(u)
        BY <4>1, <4>2, <4>3 DEF MyStripe
      <4>5. cmd[u] \in Commands /\ cmd[u].key \in Keys BY <3>1, <4>2, CommandsAssumption
      <4>6. MyStripe(u) \in Instances \X Stripes BY <4>5, HostAssumption DEF MyStripe
      <4> QED BY <2>2, <4>3, <4>4, <4>6 DEF Return
    <3> QED BY <3>1 DEF StripeOwned
  <2>3. CASE ~ Return(t)
    <3>1. UNCHANGED <<lock, cmd>> /\ pc'[t] \notin {"idle", "lock"}
      BY <1>1, <2>0, <2>3 DEF Locked, ReturnCached, RejectConflict, RetryWait,
         RetryWaitExhausted, EvaluateThrows, ProceedNew, MarkProcessing,
         AllocateSequence, AllocateThrows, SaveMessage, SavePendingDelivery,
         SaveRecipientState, EnqueueOutboxEvent, MarkCommitted, MarkFailed,
         Advance, locals
    <3>2. \A u \in Threads : u # t => pc'[u] = pc[u] BY <1>1, OthersUntouched
    <3> QED BY <2>0, <3>1, <3>2 DEF StripeOwned, MyStripe
  <2> QED BY <2>2, <2>3
<1>2. ASSUME NEW t \in Threads, Submit(t) PROVE StripeOwned'
  BY <1>2 DEF Submit, StripeOwned, MyStripe
<1>3. ASSUME NEW t \in Threads, AcquireStripe(t) PROVE StripeOwned'
  <2>0. cmd[t] \in Commands /\ cmd[t].key \in Keys
    BY <1>3, CommandsAssumption DEF AcquireStripe
  <2>1. MyStripe(t) \in Instances \X Stripes /\ MyStripe(t)' = MyStripe(t)
    BY <1>3, <2>0, HostAssumption DEF MyStripe, AcquireStripe, locals
  <2>2. ASSUME NEW u \in Threads, pc'[u] \notin {"idle", "lock"}
        PROVE  lock'[MyStripe(u)'] = u
    <3>1. CASE u = t BY <1>3, <2>1, <3>1 DEF AcquireStripe
    <3>2. CASE u # t
      <4>1. pc[u] = pc'[u] /\ MyStripe(u)' = MyStripe(u)
        BY <1>3, <3>2 DEF AcquireStripe, MyStripe, locals
      <4>2. lock[MyStripe(u)] = u /\ MyStripe(u) # MyStripe(t)
        BY <1>3, <2>2, <4>1, HostAssumption DEF StripeOwned, AcquireStripe
      <4>3. cmd[u] \in Commands /\ cmd[u].key \in Keys BY <2>2, <4>1, CommandsAssumption
      <4>4. MyStripe(u) \in Instances \X Stripes BY <4>3, HostAssumption DEF MyStripe
      <4> QED BY <1>3, <4>1, <4>2, <4>4 DEF AcquireStripe
    <3> QED BY <3>1, <3>2
  <2> QED BY <2>2 DEF StripeOwned
<1>4. ASSUME NEW i \in Instances, Crash(i) PROVE StripeOwned'
  <2> SUFFICES ASSUME NEW u \in Threads, pc'[u] \notin {"idle", "lock"}
               PROVE  lock'[MyStripe(u)'] = u
    BY DEF StripeOwned
  <2>1. Host[u] # i /\ pc'[u] = pc[u] /\ cmd'[u] = cmd[u] BY <1>4 DEF Crash
  <2>2. lock[MyStripe(u)] = u /\ MyStripe(u)' = MyStripe(u) BY <2>1 DEF StripeOwned, MyStripe
  <2>3. cmd[u] \in Commands /\ cmd[u].key \in Keys BY <2>1, CommandsAssumption
  <2>4. MyStripe(u) \in Instances \X Stripes /\ MyStripe(u)[1] # i
    BY <2>1, <2>3, HostAssumption DEF MyStripe
  <2> QED BY <1>4, <2>2, <2>4 DEF Crash
<1>5. CASE NextMonth BY <1>5 DEF NextMonth, StripeOwned, MyStripe, locals
<1>6. CASE UNCHANGED submissionVars BY <1>6 DEF submissionVars, StripeOwned, MyStripe, locals
<1> QED BY <1>1, <1>2, <1>3, <1>4, <1>5, <1>6 DEF SubmissionNext

KeyInv == AnswerIsFinal /\ ClaimedIsUnanswered /\ ClaimedIsBound

(* A step that touches neither records nor answers and starts no claim.    *)
LEMMA QuietStep ==
    ASSUME KeyInv, UNCHANGED <<idem, answers>>,
           \A u \in Threads : pc'[u] \in Claiming =>
                                 pc[u] \in Claiming /\ cmd'[u] = cmd[u]
    PROVE  KeyInv'
  BY DEF KeyInv, AnswerIsFinal, ClaimedIsUnanswered, ClaimedIsBound

(* A claiming thread that rewrites only the record of its own key, bound   *)
(* to its own payload, and sends no answer.                                *)
LEMMA OwnRecordStep ==
    ASSUME SubmissionTypeOK, SingleInstance, StripeOwned, KeyInv,
           NEW t \in Threads, pc[t] \in Claiming, UNCHANGED answers,
           \A u \in Threads : pc'[u] \in Claiming =>
                                 pc[u] \in Claiming /\ cmd'[u] = cmd[u],
           \A k \in Keys : k # cmd[t].key => idem'[k] = idem[k],
           idem'[cmd[t].key] # None =>
              /\ idem'[cmd[t].key].conv = cmd[t].conv
              /\ idem'[cmd[t].key].fp = cmd[t].fp
    PROVE  KeyInv'
<1> USE DEF KeyInv
<1>0. \A u \in Threads : pc[u] \in Claiming => cmd[u].key \in Keys
  BY CommandsAssumption DEF SubmissionTypeOK, ThreadTypes, Claiming
<1>1. AnswerIsFinal'
  <2>1. \A a \in answers : a.cmd.key \in Keys /\ a.cmd.key # cmd[t].key
    BY CommandsAssumption DEF SubmissionTypeOK, HistoryTypes, ClaimedIsUnanswered
  <2> QED BY <2>1 DEF AnswerIsFinal
<1>2. ClaimedIsUnanswered' BY DEF ClaimedIsUnanswered
<1>3. ClaimedIsBound'
  <2> SUFFICES ASSUME NEW u \in Threads, pc'[u] \in Claiming,
                      idem'[cmd'[u].key] # None
               PROVE  /\ idem'[cmd'[u].key].conv = cmd'[u].conv
                      /\ idem'[cmd'[u].key].fp = cmd'[u].fp
    BY DEF ClaimedIsBound
  <2>1. pc[u] \in Claiming /\ cmd'[u] = cmd[u] /\ cmd[u].key \in Keys BY <1>0
  <2>2. CASE u = t BY <2>1, <2>2
  <2>3. CASE u # t
    <3>1. cmd[u].key # cmd[t].key BY <2>1, <2>3, DifferentKeys DEF Claiming
    <3> QED BY <2>1, <3>1 DEF ClaimedIsBound
  <2> QED BY <2>2, <2>3
<1> QED BY <1>1, <1>2, <1>3

(* A thread that answers for its key while no other thread claims it.      *)
LEMMA AnswerStep ==
    ASSUME SubmissionTypeOK, SingleInstance, StripeOwned, KeyInv,
           NEW t \in Threads, pc[t] \notin {"idle", "lock"},
           cmd[t] \in Commands, NEW m, NEW s,
           answers' = answers \cup {[cmd |-> cmd[t], mid |-> m, seq |-> s]},
           pc'[t] = "idle",
           \A u \in Threads : u # t => pc'[u] = pc[u] /\ cmd'[u] = cmd[u],
           \A k \in Keys : k # cmd[t].key => idem'[k] = idem[k],
           idem'[cmd[t].key] = [mid |-> m, conv |-> cmd[t].conv,
                                fp |-> cmd[t].fp, seq |-> s,
                                status |-> "Committed"],
           \A a \in answers : a.cmd.key = cmd[t].key =>
                                 idem'[cmd[t].key] = idem[cmd[t].key]
    PROVE  KeyInv'
<1> USE DEF KeyInv
<1>0. \A a \in answers : a.cmd.key \in Keys
  BY CommandsAssumption DEF SubmissionTypeOK, HistoryTypes
<1>1. AnswerIsFinal'
  <2>1. ASSUME NEW a \in answers'
        PROVE  idem'[a.cmd.key] = [mid |-> a.mid, conv |-> a.cmd.conv,
                                   fp |-> a.cmd.fp, seq |-> a.seq,
                                   status |-> "Committed"]
    <3>1. CASE a \in answers BY <1>0, <3>1 DEF AnswerIsFinal
    <3>2. CASE a = [cmd |-> cmd[t], mid |-> m, seq |-> s] BY <3>2
    <3> QED BY <2>1, <3>1, <3>2
  <2> QED BY <2>1 DEF AnswerIsFinal
<1>2. ASSUME NEW u \in Threads, pc'[u] \in Claiming
      PROVE  /\ u # t
             /\ pc[u] = pc'[u] /\ cmd'[u] = cmd[u]
             /\ cmd[u].key # cmd[t].key
             /\ cmd[u].key \in Keys
  <2>1. u # t BY <1>2 DEF Claiming
  <2>2. pc[u] \in Claiming /\ cmd[u] \in Commands
    BY <1>2, <2>1 DEF SubmissionTypeOK, ThreadTypes, Claiming
  <2>3. cmd[u].key # cmd[t].key BY <2>1, <2>2, DifferentKeys DEF Claiming
  <2> QED BY <2>1, <2>2, <2>3, CommandsAssumption
<1>3. ClaimedIsUnanswered' BY <1>2 DEF ClaimedIsUnanswered
<1>4. ClaimedIsBound' BY <1>2 DEF ClaimedIsBound
<1> QED BY <1>1, <1>3, <1>4

(* Every step of an instance keeps the finality invariant.                 *)
LEMMA KeyStep ==
    ASSUME SubmissionTypeOK, SingleInstance, StripeOwned, KeyInv, [SubmissionNext]_submissionVars
    PROVE  KeyInv'
<1> USE DEF SubmissionTypeOK
<1>1. ASSUME NEW t \in Threads, Locked(t) PROVE KeyInv'
  <2>0. cmd[t] \in Commands /\ cmd[t].key \in Keys /\ pc[t] \notin {"idle", "lock"}
    BY <1>1, LockedHasCommand
  <2>1. \A u \in Threads : u # t => pc'[u] = pc[u] /\ cmd'[u] = cmd[u] BY <1>1, OthersUntouched
  <2>2. ASSUME Return(t) PROVE pc'[t] = "idle" BY <2>2 DEF Return, ThreadTypes
  <2>3. CASE RejectConflict(t) \/ RetryWaitExhausted(t) \/ EvaluateThrows(t)
    BY <2>1, <2>2, <2>3, QuietStep DEF RejectConflict, RetryWaitExhausted,
       EvaluateThrows, Claiming, tables
  <2>4. CASE \/ RetryWait(t) \/ AllocateSequence(t) \/ AllocateThrows(t)
             \/ SaveMessage(t) \/ SavePendingDelivery(t)
             \/ SaveRecipientState(t) \/ EnqueueOutboxEvent(t)
    <3>1. UNCHANGED <<idem, answers, cmd>>
      BY <2>4 DEF RetryWait, AllocateSequence, AllocateThrows, SaveMessage,
         SavePendingDelivery, SaveRecipientState, EnqueueOutboxEvent, tables,
         locals
    <3>2. pc'[t] \in Claiming => pc[t] \in Claiming
      <4>1. CASE RetryWait(t) BY <4>1 DEF RetryWait
      <4>2. CASE ~ RetryWait(t)
        BY <2>4, <4>2 DEF AllocateSequence, AllocateThrows, SaveMessage,
           SavePendingDelivery, SaveRecipientState, EnqueueOutboxEvent, Claiming
      <4> QED BY <4>1, <4>2
    <3> QED BY <2>1, <3>1, <3>2, QuietStep
  <2>5. CASE ProceedNew(t)
    <3>1. /\ idem[cmd[t].key] = None \/ idem[cmd[t].key].status # "Committed"
          /\ idem[cmd[t].key] # None =>
               /\ idem[cmd[t].key].conv = cmd[t].conv
               /\ idem[cmd[t].key].fp = cmd[t].fp
      BY <2>0, <2>5 DEF ProceedNew, AtEvaluate, EvaluateSubmission
    <3>2. UNCHANGED <<idem, answers, cmd>> /\ pc'[t] = "claim"
      BY <2>5 DEF ProceedNew, tables, ThreadTypes
    <3>3. \A a \in answers : a.cmd.key # cmd[t].key
      <4> SUFFICES ASSUME NEW a \in answers, a.cmd.key = cmd[t].key
                   PROVE  FALSE
        OBVIOUS
      <4>1. idem[cmd[t].key] = [mid |-> a.mid, conv |-> a.cmd.conv,
                                fp |-> a.cmd.fp, seq |-> a.seq,
                                status |-> "Committed"]
        BY DEF KeyInv, AnswerIsFinal
      <4>2. idem[cmd[t].key] # None
        <5>1. a \in [cmd : Commands, mid : Nat, seq : Nat] BY DEF HistoryTypes
        <5>2. [mid |-> a.mid, conv |-> a.cmd.conv, fp |-> a.cmd.fp,
               seq |-> a.seq, status |-> "Committed"] \in IdemRecord
          BY <5>1, RecordTypes DEF Statuses
        <5> QED BY <4>1, <5>2, HostAssumption
      <4> QED BY <3>1, <4>1, <4>2
    <3> QED
      BY <2>1, <3>1, <3>2, <3>3
         DEF KeyInv, AnswerIsFinal, ClaimedIsUnanswered, ClaimedIsBound
  <2>6. CASE MarkProcessing(t)
    <3>1. PICK o \in Outcomes : MarkProcessing(t)!(o) BY <2>6 DEF MarkProcessing
    <3>2. pc[t] \in Claiming /\ UNCHANGED answers BY <3>1 DEF Claiming
    <3>3. pc'[t] \in Claiming => cmd'[t] = cmd[t] BY <2>2, <3>1 DEF Claiming, locals
    <3>4. /\ \A k \in Keys : k # cmd[t].key => idem'[k] = idem[k]
          /\ idem'[cmd[t].key] # None =>
              /\ idem'[cmd[t].key].conv = cmd[t].conv
              /\ idem'[cmd[t].key].fp = cmd[t].fp
      BY <2>0, <3>1, <3>2 DEF KeyInv, ClaimedIsBound, TableTypes
    <3> QED BY <2>1, <3>2, <3>3, <3>4, OwnRecordStep
  <2>7. CASE MarkFailed(t)
    <3>1. PICK o \in Outcomes : MarkFailed(t)!(o) BY <2>7 DEF MarkFailed
    <3>2. pc[t] \in Claiming /\ UNCHANGED answers /\ pc'[t] \notin Claiming
      BY <2>2, <3>1 DEF Claiming
    <3>4. /\ \A k \in Keys : k # cmd[t].key => idem'[k] = idem[k]
          /\ idem'[cmd[t].key] # None =>
              /\ idem'[cmd[t].key].conv = cmd[t].conv
              /\ idem'[cmd[t].key].fp = cmd[t].fp
      BY <2>0, <3>1, <3>2 DEF KeyInv, ClaimedIsBound, TableTypes, IdemRecord
    <3> QED BY <2>1, <3>2, <3>4, OwnRecordStep
  <2>8. CASE MarkCommitted(t)
    <3>1. PICK o \in Outcomes : MarkCommitted(t)!(o) BY <2>8 DEF MarkCommitted
    <3>2. pc[t] \in Claiming BY <3>1 DEF Claiming
    <3>3. CASE o = "ok"
      <4>1. PICK m, s : m = mid[t] /\ s = seq[t] OBVIOUS
      <4>2. answers' = answers \cup {[cmd |-> cmd[t], mid |-> m, seq |-> s]}
        BY <3>1, <3>3, <4>1
      <4>3. /\ \A k \in Keys : k # cmd[t].key => idem'[k] = idem[k]
            /\ idem'[cmd[t].key] = [mid |-> m, conv |-> cmd[t].conv,
                                    fp |-> cmd[t].fp, seq |-> s,
                                    status |-> "Committed"]
        BY <2>0, <3>1, <3>3, <4>1 DEF TableTypes, Applied
      <4>4. pc'[t] = "idle" BY <2>2, <3>1, <3>3
      <4>5. \A a \in answers : a.cmd.key # cmd[t].key BY <3>2 DEF KeyInv, ClaimedIsUnanswered
      <4> QED BY <2>0, <2>1, <4>2, <4>3, <4>4, <4>5, AnswerStep
    <3>4. CASE o # "ok"
      <4>1. UNCHANGED <<answers, cmd>> BY <3>1, <3>4 DEF locals
      <4>2. /\ \A k \in Keys : k # cmd[t].key => idem'[k] = idem[k]
            /\ idem'[cmd[t].key] # None =>
                /\ idem'[cmd[t].key].conv = cmd[t].conv
                /\ idem'[cmd[t].key].fp = cmd[t].fp
        BY <2>0, <3>1, <3>2 DEF KeyInv, ClaimedIsBound, TableTypes
      <4> QED BY <2>1, <3>2, <4>1, <4>2, OwnRecordStep
    <3> QED BY <3>3, <3>4
  <2>9. CASE ReturnCached(t)
    <3>1. /\ idem[cmd[t].key] \in IdemRecord
          /\ idem[cmd[t].key].status = "Committed"
          /\ idem[cmd[t].key].fp = cmd[t].fp
          /\ idem[cmd[t].key].conv = cmd[t].conv
      BY <2>0, <2>9 DEF ReturnCached, AtEvaluate, EvaluateSubmission,
                        TableTypes, IdemRecord, Statuses
    <3>2. PICK m, s : m = idem[cmd[t].key].mid /\ s = idem[cmd[t].key].seq OBVIOUS
    <3>3. idem[cmd[t].key] = [mid |-> m, conv |-> cmd[t].conv,
                              fp |-> cmd[t].fp, seq |-> s,
                              status |-> "Committed"]
      BY <3>1, <3>2 DEF IdemRecord
    <3>4. /\ answers' = answers \cup {[cmd |-> cmd[t], mid |-> m, seq |-> s]}
          /\ UNCHANGED idem
          /\ pc'[t] = "idle"
      BY <2>2, <2>9, <3>2 DEF ReturnCached, tables
    <3> QED BY <2>0, <2>1, <3>3, <3>4, AnswerStep
  <2> QED BY <1>1, <2>3, <2>4, <2>5, <2>6, <2>7, <2>8, <2>9 DEF Locked
<1>2. ASSUME NEW t \in Threads, Submit(t) \/ AcquireStripe(t) PROVE KeyInv'
  BY <1>2, QuietStep
     DEF Submit, AcquireStripe, tables, locals, ThreadTypes, Claiming
<1>3. ASSUME NEW i \in Instances, Crash(i) PROVE KeyInv'
  BY <1>3, QuietStep DEF Crash, tables, ThreadTypes, Claiming
<1>4. CASE NextMonth BY <1>4, QuietStep DEF NextMonth, tables, locals
<1>5. CASE UNCHANGED submissionVars BY <1>5, QuietStep DEF submissionVars, tables, locals
<1> QED BY <1>1, <1>2, <1>3, <1>4, <1>5 DEF SubmissionNext

(***************************************************************************)
(* Within one service instance an answered key keeps its COMMITTED record, *)
(* so every replay repeats the first answer.                               *)
(***************************************************************************)
THEOREM AnswersAreFinal ==
    ASSUME SingleInstance PROVE SubmissionSpec => []AnswerIsFinal
<1>1. SubmissionInit => StripeOwned /\ KeyInv
  BY DEF SubmissionInit, StripeOwned, KeyInv, AnswerIsFinal, ClaimedIsUnanswered,
         ClaimedIsBound, Claiming
<1>2. SubmissionTypeOK /\ (StripeOwned /\ KeyInv) /\ [SubmissionNext]_submissionVars
        => (StripeOwned /\ KeyInv)'
  BY StripeStep, KeyStep
<1>3. KeyInv => AnswerIsFinal BY DEF KeyInv
<1> QED BY <1>1, <1>2, <1>3, SubmissionTypes, PTL DEF SubmissionSpec

(* A step changes a stored record only without changing its binding.       *)
LEMMA BindingStep ==
    ASSUME SubmissionTypeOK, KeyInv, SubmissionNext, NEW k \in Keys, idem[k] # None
    PROVE  /\ idem'[k] # None
           /\ idem'[k].conv = idem[k].conv
           /\ idem'[k].fp = idem[k].fp
<1>1. CASE idem'[k] = idem[k] BY <1>1
<1>2. ASSUME NEW t \in Threads, Locked(t), idem'[k] # idem[k]
      PROVE  /\ idem'[k] # None
             /\ idem'[k].conv = idem[k].conv
             /\ idem'[k].fp = idem[k].fp
  <2>0. cmd[t] \in Commands /\ cmd[t].key \in Keys
    BY <1>2, LockedHasCommand DEF SubmissionTypeOK
  <2>1. MarkProcessing(t) \/ MarkCommitted(t) \/ MarkFailed(t)
    BY <1>2 DEF Locked, ReturnCached, RejectConflict, RetryWait,
       RetryWaitExhausted, EvaluateThrows, ProceedNew, AllocateSequence,
       AllocateThrows, SaveMessage, SavePendingDelivery, SaveRecipientState,
       EnqueueOutboxEvent, tables
  <2>2. pc[t] \in Claiming BY <2>1 DEF MarkProcessing, MarkCommitted, MarkFailed, Claiming
  <2>3. k = cmd[t].key
    BY <1>2, <2>0, <2>1
       DEF MarkProcessing, MarkCommitted, MarkFailed, SubmissionTypeOK, TableTypes
  <2>4. idem[k].conv = cmd[t].conv /\ idem[k].fp = cmd[t].fp
    BY <2>2, <2>3 DEF KeyInv, ClaimedIsBound
  <2>5. idem'[k] \in IdemRecord /\ idem'[k].conv = idem[k].conv
          /\ idem'[k].fp = idem[k].fp
    <3>1. CASE MarkFailed(t)
      BY <1>2, <2>0, <2>3, <3>1
         DEF MarkFailed, SubmissionTypeOK, TableTypes, IdemRecord, Statuses
    <3>2. ASSUME NEW s \in Nat, NEW st \in Statuses,
                 idem' = [idem EXCEPT ![cmd[t].key] =
                      [mid |-> mid[t], conv |-> cmd[t].conv, fp |-> cmd[t].fp,
                       seq |-> s, status |-> st]]
          PROVE  idem'[k] \in IdemRecord /\ idem'[k].conv = idem[k].conv
                   /\ idem'[k].fp = idem[k].fp
      <4>1. mid[t] \in Nat BY DEF SubmissionTypeOK, ThreadTypes
      <4> QED BY <2>0, <2>3, <2>4, <3>2, <4>1, RecordTypes DEF SubmissionTypeOK, TableTypes
    <3>3. CASE MarkProcessing(t) BY <1>2, <3>2, <3>3 DEF MarkProcessing, Statuses
    <3>4. CASE MarkCommitted(t)
      <4>1. PICK s \in Nat : s = seq[t] BY DEF SubmissionTypeOK, ThreadTypes
      <4>2. "Committed" \in Statuses BY DEF Statuses
      <4>3. idem' = [idem EXCEPT ![cmd[t].key] =
                      [mid |-> mid[t], conv |-> cmd[t].conv, fp |-> cmd[t].fp,
                       seq |-> s, status |-> "Committed"]]
        BY <1>2, <3>4, <4>1 DEF MarkCommitted
      <4> QED BY <3>2, <4>2, <4>3
    <3> QED BY <2>1, <3>1, <3>3, <3>4
  <2> QED BY <2>5, HostAssumption
<1>3. ASSUME ~ \E t \in Threads : Locked(t) PROVE idem'[k] = idem[k]
  BY <1>3 DEF SubmissionNext, Submit, AcquireStripe, Crash, NextMonth, tables
<1> QED BY <1>1, <1>2, <1>3

(***************************************************************************)
(* Within one service instance no step rebinds a stored key to another     *)
(* conversation or payload.                                                *)
(***************************************************************************)
THEOREM BindingsAreKept ==
    ASSUME SingleInstance PROVE SubmissionSpec => BindingNeverChanges
<1>1. SubmissionInit => StripeOwned /\ KeyInv
  BY DEF SubmissionInit, StripeOwned, KeyInv, AnswerIsFinal, ClaimedIsUnanswered,
         ClaimedIsBound, Claiming
<1>2. SubmissionTypeOK /\ (StripeOwned /\ KeyInv) /\ [SubmissionNext]_submissionVars
        => (StripeOwned /\ KeyInv)'
  BY StripeStep, KeyStep
<1>3. SubmissionTypeOK /\ KeyInv /\ [SubmissionNext]_submissionVars =>
        [\A k \in Keys : idem[k] # None =>
            /\ idem'[k] # None
            /\ idem'[k].conv = idem[k].conv
            /\ idem'[k].fp = idem[k].fp]_submissionVars
  BY BindingStep
<1> QED BY <1>1, <1>2, <1>3, SubmissionTypes, PTL DEF SubmissionSpec, BindingNeverChanges

-----------------------------------------------------------------------------
(***************************************************************************)
(* Uniqueness of sequences.  A stored sequence never exceeds the warm      *)
(* counter of its bucket, and a sequence that is allocated but not yet     *)
(* saved is neither stored nor held by another thread.                     *)
(***************************************************************************)

(* The counter thread t allocates conversation c, bucket b from.           *)
Counter(t, c, b) == counters[Host[t]][<<c, b>>]

CounterCovers ==
    \A t \in Threads, m \in messages :
        Counter(t, m.conv, m.bucket) # None =>
            m.seq <= Counter(t, m.conv, m.bucket)

UnsavedIsFresh ==
    \A t \in Threads : pc[t] = "message" =>
        /\ Counter(t, cmd[t].conv, bkt[t]) # None
        /\ seq[t] <= Counter(t, cmd[t].conv, bkt[t])
        /\ \A m \in messages : m.conv = cmd[t].conv /\ m.bucket = bkt[t] =>
                                 m.seq # seq[t]

UnsavedIsExclusive ==
    \A t, u \in Threads :
        /\ t # u /\ pc[t] = "message" /\ pc[u] = "message"
        /\ cmd[t].conv = cmd[u].conv /\ bkt[t] = bkt[u]
        => seq[t] # seq[u]

SequenceInv ==
    CounterCovers /\ UnsavedIsFresh /\ UnsavedIsExclusive /\ SequenceUnique

(* A step that allocates and saves nothing; counters stay or go cold with  *)
(* the threads that used them.                                             *)
LEMMA SequenceQuiet ==
    ASSUME SequenceInv, UNCHANGED messages,
           \A u \in Threads : pc'[u] = "message" =>
               /\ pc[u] = "message" /\ cmd'[u] = cmd[u]
               /\ bkt'[u] = bkt[u] /\ seq'[u] = seq[u]
               /\ counters'[Host[u]] = counters[Host[u]],
           \A u \in Threads, x \in Counters :
               \/ counters'[Host[u]][x] = counters[Host[u]][x]
               \/ counters'[Host[u]][x] = None,
           SubmissionTypeOK
    PROVE  SequenceInv'
<1> USE DEF SequenceInv, Counter
<1>1. CounterCovers'
  <2>1. \A m \in messages : <<m.conv, m.bucket>> \in Counters
    BY DEF SubmissionTypeOK, TableTypes, MessageRow, Counters
  <2> QED BY <2>1 DEF CounterCovers
<1>2. UnsavedIsFresh'
  <2> SUFFICES ASSUME NEW t \in Threads, pc'[t] = "message"
               PROVE  /\ Counter(t, cmd[t].conv, bkt[t])' # None
                      /\ (seq[t] <= Counter(t, cmd[t].conv, bkt[t]))'
                      /\ \A m \in messages' :
                           m.conv = cmd'[t].conv /\ m.bucket = bkt'[t] =>
                               m.seq # seq'[t]
    BY DEF UnsavedIsFresh
  <2>1. /\ pc[t] = "message" /\ cmd'[t] = cmd[t]
        /\ bkt'[t] = bkt[t] /\ seq'[t] = seq[t]
        /\ counters'[Host[t]] = counters[Host[t]]
    OBVIOUS
  <2> QED BY <2>1 DEF UnsavedIsFresh
<1>3. UnsavedIsExclusive' BY DEF UnsavedIsExclusive
<1>4. SequenceUnique' BY DEF SequenceUnique
<1> QED BY <1>1, <1>2, <1>3, <1>4

(* Allocation hands out a number above everything stored and allocated.    *)
LEMMA AllocateStep ==
    ASSUME SubmissionTypeOK, SingleInstance, SequenceInv,
           NEW t \in Threads, Locked(t), AllocateSequence(t)
    PROVE  SequenceInv'
<1> USE DEF SequenceInv, Counter
<1>0. cmd[t] \in Commands /\ cmd[t].conv \in Convs BY LockedHasCommand DEF SubmissionTypeOK
<1> DEFINE x == <<cmd[t].conv, bkt[t]>>
<1>1. x \in Counters /\ Host[t] \in Instances
  BY <1>0, HostAssumption DEF SubmissionTypeOK, ThreadTypes, Counters
<1>2. PICK last \in IF counters[Host[t]][x] = None
                    THEN LastSequence(cmd[t].conv, bkt[t])
                    ELSE {counters[Host[t]][x]} :
        /\ counters' = [counters EXCEPT ![Host[t]] =
                          [@ EXCEPT ![x] = last + 1]]
        /\ seq' = [seq EXCEPT ![t] = last + 1]
  BY DEF AllocateSequence
<1>3. last \in Nat
  <2>1. counters[Host[t]][x] \in Nat \cup {None} BY <1>1 DEF SubmissionTypeOK, InstanceTypes
  <2>2. LastSequence(cmd[t].conv, bkt[t]) \subseteq Nat
    BY DEF LastSequence, StoredSequences, SubmissionTypeOK, TableTypes, MessageRow
  <2> QED BY <1>2, <2>1, <2>2
<1>4. \A m \in messages : m.conv = cmd[t].conv /\ m.bucket = bkt[t] =>
                            m.seq <= last /\ m.seq \in Nat
  <2>0. \A m \in messages : m.seq \in Nat BY DEF SubmissionTypeOK, TableTypes, MessageRow
  <2>1. CASE counters[Host[t]][x] = None BY <1>2, <2>0, <2>1 DEF LastSequence, StoredSequences
  <2>2. CASE counters[Host[t]][x] # None BY <1>2, <2>0, <2>2 DEF CounterCovers
  <2> QED BY <2>1, <2>2
<1>5. /\ UNCHANGED <<messages, cmd, bkt>>
      /\ pc' = [pc EXCEPT ![t] = "message"]
  BY DEF AllocateSequence, tables
<1>6. \A u \in Threads : Host[u] = Host[t] BY DEF SingleInstance
<1>7. /\ counters'[Host[t]][x] = last + 1
      /\ \A y \in Counters : y # x =>
           counters'[Host[t]][y] = counters[Host[t]][y]
  <2>1. counters[Host[t]] \in [Counters -> Nat \cup {None}]
    BY <1>1 DEF SubmissionTypeOK, InstanceTypes
  <2>2. counters'[Host[t]] = [counters[Host[t]] EXCEPT ![x] = last + 1]
    BY <1>1, <1>2 DEF SubmissionTypeOK, InstanceTypes
  <2> QED BY <1>1, <2>1, <2>2
<1>8. /\ last + 1 # None
      /\ seq'[t] = last + 1
      /\ \A u \in Threads : u # t => seq'[u] = seq[u] /\ pc'[u] = pc[u]
  BY <1>2, <1>3, <1>5, HostAssumption DEF SubmissionTypeOK, ThreadTypes
<1>9. CounterCovers'
  <2> SUFFICES ASSUME NEW u \in Threads, NEW m \in messages,
                      counters'[Host[u]][<<m.conv, m.bucket>>] # None
               PROVE  m.seq <= counters'[Host[u]][<<m.conv, m.bucket>>]
    BY <1>5 DEF CounterCovers
  <2>1. <<m.conv, m.bucket>> \in Counters
    BY DEF SubmissionTypeOK, TableTypes, MessageRow, Counters
  <2>2. CASE <<m.conv, m.bucket>> = x BY <1>3, <1>4, <1>6, <1>7, <2>2
  <2>3. CASE <<m.conv, m.bucket>> # x BY <1>6, <1>7, <2>1, <2>3 DEF CounterCovers
  <2> QED BY <2>2, <2>3
<1>10. ASSUME NEW u \in Threads, u # t, pc'[u] = "message"
       PROVE  /\ pc[u] = "message"
              /\ <<cmd[u].conv, bkt[u]>> \in Counters
              /\ seq[u] \in Nat
              /\ <<cmd[u].conv, bkt[u]>> = x => seq[u] <= last
  <2>1. pc[u] = "message" BY <1>8, <1>10
  <2>2. cmd[u] \in Commands /\ seq[u] \in Nat /\ bkt[u] \in Buckets
    BY <2>1 DEF SubmissionTypeOK, ThreadTypes
  <2>3. <<cmd[u].conv, bkt[u]>> \in Counters BY <2>2, CommandsAssumption DEF Counters
  <2>4. ASSUME <<cmd[u].conv, bkt[u]>> = x PROVE seq[u] <= last
    <3>1. counters[Host[t]][x] # None /\ seq[u] <= counters[Host[t]][x]
      BY <1>6, <2>1, <2>4 DEF UnsavedIsFresh
    <3> QED BY <1>2, <3>1
  <2> QED BY <2>1, <2>2, <2>3, <2>4
<1>11. UnsavedIsFresh'
  <2> SUFFICES ASSUME NEW u \in Threads, pc'[u] = "message"
               PROVE  /\ counters'[Host[u]][<<cmd[u].conv, bkt[u]>>] # None
                      /\ seq'[u] <= counters'[Host[u]][<<cmd[u].conv, bkt[u]>>]
                      /\ \A m \in messages :
                           m.conv = cmd[u].conv /\ m.bucket = bkt[u] =>
                             m.seq # seq'[u]
    BY <1>5 DEF UnsavedIsFresh
  <2>1. CASE u = t BY <1>3, <1>4, <1>7, <1>8, <2>1
  <2>2. CASE u # t
    <3>1. /\ counters[Host[u]][<<cmd[u].conv, bkt[u]>>] # None
          /\ seq[u] <= counters[Host[u]][<<cmd[u].conv, bkt[u]>>]
          /\ \A m \in messages : m.conv = cmd[u].conv /\ m.bucket = bkt[u] =>
                                   m.seq # seq[u]
      BY <1>10, <2>2 DEF UnsavedIsFresh
    <3>2. CASE <<cmd[u].conv, bkt[u]>> = x BY <1>3, <1>6, <1>7, <1>8, <1>10, <2>2, <3>1, <3>2
    <3>3. CASE <<cmd[u].conv, bkt[u]>> # x BY <1>6, <1>7, <1>8, <1>10, <2>2, <3>1, <3>3
    <3> QED BY <3>2, <3>3
  <2> QED BY <2>1, <2>2
<1>12. UnsavedIsExclusive'
  <2> SUFFICES ASSUME NEW u \in Threads, NEW v \in Threads, u # v,
                      pc'[u] = "message", pc'[v] = "message",
                      cmd[u].conv = cmd[v].conv, bkt[u] = bkt[v]
               PROVE  seq'[u] # seq'[v]
    BY <1>5 DEF UnsavedIsExclusive
  <2>1. CASE u = t BY <1>3, <1>8, <1>10, <2>1
  <2>2. CASE v = t BY <1>3, <1>8, <1>10, <2>2
  <2>3. CASE u # t /\ v # t BY <1>8, <2>3 DEF UnsavedIsExclusive
  <2> QED BY <2>1, <2>2, <2>3
<1> QED BY <1>5, <1>9, <1>11, <1>12 DEF SequenceUnique

(* Saving a message turns its unsaved sequence into a stored one.          *)
LEMMA SaveStep ==
    ASSUME SubmissionTypeOK, SingleInstance, SequenceInv,
           NEW t \in Threads, Locked(t), SaveMessage(t)
    PROVE  SequenceInv'
<1> USE DEF SequenceInv, Counter
<1> DEFINE row == [mid |-> mid[t], conv |-> cmd[t].conv, bucket |-> bkt[t],
                   seq |-> seq[t]]
<1>1. /\ pc[t] = "message" /\ pc'[t] # "message"
      /\ UNCHANGED <<cmd, bkt, seq, counters>>
      /\ messages' = messages \/ messages' = messages \cup {row}
      /\ \A u \in Threads : pc'[u] = "message" => u # t /\ pc[u] = "message"
  BY DEF SaveMessage, Advance, SubmissionTypeOK, ThreadTypes
<1>2. \A u \in Threads : Host[u] = Host[t] BY DEF SingleInstance
<1>3. CounterCovers' BY <1>1, <1>2 DEF CounterCovers, UnsavedIsFresh
<1>4. UnsavedIsFresh' BY <1>1 DEF UnsavedIsFresh, UnsavedIsExclusive
<1>5. UnsavedIsExclusive' BY <1>1 DEF UnsavedIsExclusive
<1>6. SequenceUnique'
  <2>1. \A m \in messages :
          m.conv = row.conv /\ m.bucket = row.bucket => m.seq # row.seq
    BY <1>1 DEF UnsavedIsFresh
  <2> QED BY <1>1, <2>1 DEF SequenceUnique
<1> QED BY <1>3, <1>4, <1>5, <1>6

(* Every step of an instance keeps the sequence invariant.                 *)
LEMMA SequenceStep ==
    ASSUME SubmissionTypeOK, SingleInstance, SequenceInv, [SubmissionNext]_submissionVars
    PROVE  SequenceInv'
<1> USE DEF SubmissionTypeOK
<1>1. ASSUME NEW t \in Threads, Locked(t) PROVE SequenceInv'
  <2>1. CASE AllocateSequence(t) BY <1>1, <2>1, AllocateStep
  <2>2. CASE SaveMessage(t) BY <1>1, <2>2, SaveStep
  <2>3. CASE ~ AllocateSequence(t) /\ ~ SaveMessage(t)
    <3>1. UNCHANGED <<messages, counters>>
      BY <1>1, <2>3 DEF Locked, ReturnCached, RejectConflict, RetryWait,
         RetryWaitExhausted, EvaluateThrows, ProceedNew, MarkProcessing,
         AllocateThrows, SavePendingDelivery, SaveRecipientState,
         EnqueueOutboxEvent, MarkCommitted, MarkFailed, tables
    <3>2. pc'[t] # "message"
      <4>1. ASSUME Return(t) PROVE pc'[t] # "message" BY <4>1 DEF Return, ThreadTypes
      <4>2. CASE RetryWait(t) \/ ProceedNew(t) \/ AllocateThrows(t)
        BY <4>2 DEF RetryWait, AtEvaluate, ProceedNew, AllocateThrows,
                    ThreadTypes
      <4>3. CASE MarkProcessing(t) \/ MarkCommitted(t)
        BY <4>1, <4>3 DEF MarkProcessing, MarkCommitted, ThreadTypes
      <4>4. CASE \/ SavePendingDelivery(t) \/ SaveRecipientState(t)
                 \/ EnqueueOutboxEvent(t)
        BY <4>4 DEF SavePendingDelivery, SaveRecipientState,
                    EnqueueOutboxEvent, Advance, ThreadTypes
      <4>5. CASE \/ ReturnCached(t) \/ RejectConflict(t) \/ EvaluateThrows(t)
                 \/ RetryWaitExhausted(t) \/ MarkFailed(t)
        BY <4>1, <4>5 DEF ReturnCached, RejectConflict, EvaluateThrows,
                          RetryWaitExhausted, MarkFailed
      <4> QED BY <1>1, <2>3, <4>2, <4>3, <4>4, <4>5 DEF Locked
    <3> QED BY <1>1, <3>1, <3>2, OthersUntouched, SequenceQuiet
  <2> QED BY <2>1, <2>2, <2>3
<1>2. ASSUME NEW t \in Threads, Submit(t) \/ AcquireStripe(t)
      PROVE  SequenceInv'
  <2>1. UNCHANGED <<messages, counters, bkt, seq>>
    BY <1>2 DEF Submit, AcquireStripe, tables, locals
  <2>2. \A u \in Threads : pc'[u] = "message" =>
           pc[u] = "message" /\ cmd'[u] = cmd[u]
    BY <1>2 DEF Submit, AcquireStripe, locals, ThreadTypes
  <2> QED BY <2>1, <2>2, SequenceQuiet
<1>3. ASSUME NEW i \in Instances, Crash(i) PROVE SequenceInv'
  <2>1. ASSUME NEW u \in Threads, pc'[u] = "message"
        PROVE  /\ pc[u] = "message" /\ cmd'[u] = cmd[u]
               /\ bkt'[u] = bkt[u] /\ seq'[u] = seq[u]
               /\ counters'[Host[u]] = counters[Host[u]]
    BY <1>3, <2>1, HostAssumption DEF Crash, InstanceTypes
  <2>2. ASSUME NEW u \in Threads, NEW x \in Counters
        PROVE  \/ counters'[Host[u]][x] = counters[Host[u]][x]
               \/ counters'[Host[u]][x] = None
    BY <1>3, HostAssumption DEF Crash, InstanceTypes
  <2>3. UNCHANGED messages BY <1>3 DEF Crash, tables
  <2> QED BY <2>1, <2>2, <2>3, SequenceQuiet
<1>4. CASE NextMonth BY <1>4, SequenceQuiet DEF NextMonth, tables, locals
<1>5. CASE UNCHANGED submissionVars BY <1>5, SequenceQuiet DEF submissionVars, tables, locals
<1> QED BY <1>1, <1>2, <1>3, <1>4, <1>5 DEF SubmissionNext

(***************************************************************************)
(* Within one service instance no sequence number of a conversation bucket *)
(* is stored twice, restarts with a cold counter included.                 *)
(***************************************************************************)
THEOREM SequencesAreUnique ==
    ASSUME SingleInstance PROVE SubmissionSpec => []SequenceUnique
<1>1. SubmissionInit => SequenceInv
  BY DEF SubmissionInit, SequenceInv, CounterCovers, UnsavedIsFresh, UnsavedIsExclusive,
         SequenceUnique
<1>2. SubmissionTypeOK /\ SequenceInv /\ [SubmissionNext]_submissionVars => SequenceInv'
  BY SequenceStep
<1>3. SequenceInv => SequenceUnique BY DEF SequenceInv
<1> QED BY <1>1, <1>2, <1>3, SubmissionTypes, PTL DEF SubmissionSpec
=============================================================================
