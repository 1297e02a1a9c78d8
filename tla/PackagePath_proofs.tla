------------------------- MODULE PackagePath_proofs -------------------------
(***************************************************************************)
(* The inbound path, part by part and as a whole.                          *)
(*                                                                         *)
(* Reader: for every stream of packages and every way recv() can split it, *)
(* the invariants of VncBufferReader, and that its steps are steps of      *)
(* PackageStream.                                                          *)
(*                                                                         *)
(* Queue: for any number of producers and consumers, the mutex makes       *)
(* front() and pop() one step, so that what comes out is what went in, and *)
(* the queue's steps are steps of PackageChannel, also while an alarm's    *)
(* handler runs on top of one of the threads.                              *)
(*                                                                         *)
(* Path: what the processor takes are the peer's packages, whole, once, in *)
(* order, and field by field as they were set; what a push of them gets of *)
(* its own fields, and what of earlier ones.                               *)
(***************************************************************************)
EXTENDS PackagePath, AlarmQueue, TLAPS

-----------------------------------------------------------------------------
(* The strengthening that is inductive: the cache starts at a package      *)
(* boundary, it ends at the last byte received, and between two calls it   *)
(* holds less than the package at its front.                               *)
FrontAtBoundary ==
  /\ Len(delivered) <= NumPkgs
  /\ head = Start[Len(delivered)]
  /\ head + m_cachedSize = received
  /\ received <= Start[NumPkgs]

LessThanAPackage ==
  pc = "idle" => \/ m_cachedSize <= 4
                 \/ m_haveGotSize /\ m_cachedSize < m_pkgSize

IInv ==
  /\ TypeOK
  /\ FrontAtBoundary
  /\ PackagesIntact
  /\ SizeIsFresh
  /\ LessThanAPackage
  /\ CacheBounded

-----------------------------------------------------------------------------
(* Package lengths are numbers greater than four.                          *)
LEMMA PkgLenIsLong ==
  ASSUME NEW k \in 1..NumPkgs
  PROVE  /\ Start[k] \in Nat
         /\ Start[k - 1] \in Nat
         /\ PkgLen(k) \in Nat
         /\ PkgLen(k) > 4
<1>1. k - 1 \in 0..NumPkgs /\ k \in 0..NumPkgs /\ k - 1 < k
  BY StreamAssumption
<1>2. Start[k] > Start[k - 1] + 4
  BY <1>1, StreamAssumption
<1> QED
  BY <1>1, <1>2, StreamAssumption DEF PkgLen

(* Whatever the loop takes for the front package's length is its length.   *)
LEMMA FrontSizeIsNext ==
  ASSUME IInv, m_cachedSize > 4, NEW size \in FrontSize
  PROVE  /\ Len(delivered) < NumPkgs
         /\ size = PkgLen(Len(delivered) + 1)
<1> DEFINE d == Len(delivered)
<1>0. d \in 0..NumPkgs /\ head = Start[d] /\ head < Start[NumPkgs]
  BY StreamAssumption DEF IInv, TypeOK, FrontAtBoundary
<1>1. d < NumPkgs
  BY <1>0, StreamAssumption
<1>2. CASE m_haveGotSize
  BY <1>1, <1>2 DEF FrontSize, IInv, SizeIsFresh
<1>3. CASE ~m_haveGotSize
  <2>1. size \in Header(head)
    BY <1>3 DEF FrontSize
  <2>2. d + 1 \in 1..NumPkgs /\ Start[(d + 1) - 1] = head
    BY <1>0, <1>1, StreamAssumption
  <2>3. ASSUME NEW k \in 1..NumPkgs, Start[k - 1] = head
        PROVE  k = d + 1
    BY <1>0, <2>3, StreamAssumption
  <2>4. PICK k \in {i \in 1..NumPkgs : Start[i - 1] = head} : size = PkgLen(k)
    BY <2>1, <2>2 DEF Header
  <2> QED
    BY <1>1, <2>3, <2>4
<1> QED
  BY <1>2, <1>3

-----------------------------------------------------------------------------
LEMMA InitIInv == Init => IInv
<1> SUFFICES ASSUME Init
             PROVE  IInv
  OBVIOUS
<1> USE StreamAssumption DEF Init
<1>1. TypeOK
  <2>1. << >> \in Seq([at : Nat, len : Nat])
    OBVIOUS
  <2> QED
    BY <2>1 DEF TypeOK
<1>3. SizeIsFresh /\ LessThanAPackage /\ CacheBounded
  BY DEF SizeIsFresh, LessThanAPackage, CacheBounded
<1>2. FrontAtBoundary /\ PackagesIntact
  <2>1. Len(delivered) = 0
    OBVIOUS
  <2>2. 0 <= Start[NumPkgs]
    OBVIOUS
  <2> QED
    BY <2>1, <2>2 DEF FrontAtBoundary, PackagesIntact
<1> QED
  BY <1>1, <1>2, <1>3 DEF IInv

(* Between two calls the cache is short of the next package, which exists  *)
(* as long as bytes keep arriving: that bounds what an append allocates.   *)
LEMMA AddBufferIInv ==
  ASSUME IInv, NEW n \in 1..MaxRead, AddBuffer(n)
  PROVE  IInv'
<1> USE StreamAssumption DEF AddBuffer
<1>0. n \in Nat \ {0}
  OBVIOUS
<1>1. TypeOK'
  BY <1>0 DEF IInv, TypeOK, Grown
<1>2. FrontAtBoundary'
  <2>1. head' + m_cachedSize' = received' /\ received' <= Start[NumPkgs]
    BY <1>0 DEF IInv, TypeOK, FrontAtBoundary
  <2>2. Len(delivered') <= NumPkgs /\ head' = Start[Len(delivered')]
    BY DEF IInv, FrontAtBoundary
  <2> QED
    BY <2>1, <2>2 DEF FrontAtBoundary
<1>3. PackagesIntact' /\ SizeIsFresh' /\ LessThanAPackage'
  BY DEF IInv, PackagesIntact, SizeIsFresh, LessThanAPackage
<1>4. CacheBounded'
  <2> DEFINE d == Len(delivered)
  <2>1. d \in 0..NumPkgs /\ head = Start[d] /\ head < Start[NumPkgs]
    BY <1>0 DEF IInv, TypeOK, FrontAtBoundary
  <2>2. d + 1 \in 1..NumPkgs
    BY <2>1
  <2>3. PkgLen(d + 1) \in Nat /\ PkgLen(d + 1) > 4
    BY <2>2, PkgLenIsLong
  <2>4. m_cachedSize < PkgLen(d + 1)
    BY <2>3 DEF IInv, LessThanAPackage, SizeIsFresh, TypeOK
  <2>5. m_cachedSize + n < PkgLen(d + 1) + MaxRead
    BY <2>3, <2>4 DEF IInv, TypeOK
  <2>6. CASE m_allocSize < m_cachedSize + n
    <3>1. m_allocSize' = m_cachedSize + n /\ m_cachedSize' = m_cachedSize + n
      BY <2>6 DEF Grown
    <3>2. m_allocSize' < PkgLen(d + 1) + MaxRead
      BY <2>5, <3>1
    <3>3. m_cachedSize' <= m_allocSize'
      BY <1>0, <3>1 DEF IInv, TypeOK
    <3> QED
      BY <2>2, <3>2, <3>3 DEF CacheBounded, PkgLen
  <2>7. CASE ~(m_allocSize < m_cachedSize + n)
    BY <2>7 DEF CacheBounded, Grown, PkgLen, IInv, TypeOK
  <2> QED
    BY <2>6, <2>7
<1> QED
  BY <1>1, <1>2, <1>3, <1>4 DEF IInv

LEMMA DeliverIInv ==
  ASSUME IInv, Deliver
  PROVE  IInv'
<1> USE StreamAssumption
<1> DEFINE d == Len(delivered)
<1>1. PICK size \in FrontSize :
        /\ m_cachedSize >= size
        /\ m_pkgSize' = size
        /\ delivered' = IF size # 0
                        THEN Append(delivered, Slice(head, size))
                        ELSE delivered
        /\ MoveData(size)
  BY DEF Deliver, Complete
<1>2. /\ m_cachedSize > 4
      /\ m_haveGotSize' = FALSE
      /\ pc' \in {"idle", "next_package"}
      /\ pc' = "idle" => ~(m_cachedSize' > 4)
      /\ UNCHANGED <<received, m_allocSize>>
  BY DEF Deliver, AfterPackage
<1>3. d < NumPkgs /\ size = PkgLen(d + 1)
  BY <1>2, FrontSizeIsNext
<1>4. d \in Nat /\ d + 1 \in 1..NumPkgs /\ head = Start[d]
  BY <1>3 DEF IInv, TypeOK, FrontAtBoundary
<1>5. size \in Nat /\ size > 4 /\ Start[d + 1] = head + size
      /\ Start[d + 1] \in Nat /\ Start[d] \in Nat
  <2>1. /\ Start[d + 1] \in Nat
        /\ Start[(d + 1) - 1] \in Nat
        /\ PkgLen(d + 1) \in Nat
        /\ PkgLen(d + 1) > 4
    BY <1>4, PkgLenIsLong
  <2>2. (d + 1) - 1 = d
    BY <1>4
  <2>3. PkgLen(d + 1) = Start[d + 1] - Start[d]
    BY <2>2 DEF PkgLen
  <2> HIDE DEF d
  <2> QED
    BY <1>3, <1>4, <2>1, <2>2, <2>3
<1>6. /\ delivered' = Append(delivered, Slice(head, size))
      /\ delivered \in Seq([at : Nat, len : Nat])
      /\ Slice(head, size) \in [at : Nat, len : Nat]
  BY <1>1, <1>4, <1>5 DEF Slice, IInv, TypeOK
<1>7. /\ delivered' \in Seq([at : Nat, len : Nat])
      /\ Len(delivered') = d + 1
      /\ \A k \in 1..d : delivered'[k] = delivered[k]
      /\ delivered'[d + 1] = Slice(head, size)
  BY <1>6
<1>8. /\ head' = head + size
      /\ m_cachedSize' = m_cachedSize - size
      /\ m_cachedSize' \in Nat
      /\ m_cachedSize' <= m_cachedSize
  BY <1>1, <1>5 DEF MoveData, IInv, TypeOK
<1>9. TypeOK'
  BY <1>1, <1>2, <1>5, <1>7, <1>8 DEF IInv, TypeOK
<1>10. FrontAtBoundary'
  <2>1. Len(delivered') <= NumPkgs /\ head' = Start[Len(delivered')]
    BY <1>3, <1>4, <1>5, <1>7, <1>8
  <2>2. head' + m_cachedSize' = received' /\ received' <= Start[NumPkgs]
    BY <1>2, <1>5, <1>8 DEF IInv, TypeOK, FrontAtBoundary
  <2> QED
    BY <2>1, <2>2 DEF FrontAtBoundary
<1>11. PackagesIntact'
  <2>1. ASSUME NEW k \in 1..(d + 1)
        PROVE  delivered'[k] = Slice(Start[k - 1], PkgLen(k))
    <3>1. CASE k = d + 1
      BY <1>3, <1>4, <1>7, <3>1
    <3>2. CASE k \in 1..d
      BY <1>7, <3>2 DEF IInv, PackagesIntact
    <3> QED
      BY <1>4, <3>1, <3>2
  <2>2. d + 1 <= NumPkgs
    BY <1>3, <1>4
  <2> QED
    BY <1>7, <2>1, <2>2 DEF PackagesIntact, PkgLen
<1>12. SizeIsFresh' /\ LessThanAPackage' /\ CacheBounded'
  <2>1. SizeIsFresh' /\ LessThanAPackage'
    BY <1>2, <1>8 DEF SizeIsFresh, LessThanAPackage
  <2>2. CacheBounded'
    BY <1>2, <1>8 DEF IInv, TypeOK, CacheBounded, PkgLen
  <2> QED
    BY <2>1, <2>2
<1> QED
  BY <1>9, <1>10, <1>11, <1>12 DEF IInv

LEMMA IncompleteIInv ==
  ASSUME IInv, Incomplete
  PROVE  IInv'
<1> USE StreamAssumption
<1>1. PICK size \in FrontSize : ~Complete(size) /\ m_pkgSize' = size
  BY DEF Incomplete
<1>2. Len(delivered) < NumPkgs /\ size = PkgLen(Len(delivered) + 1)
  BY FrontSizeIsNext DEF Incomplete
<1>3. Len(delivered) + 1 \in 1..NumPkgs
  BY <1>2 DEF IInv, TypeOK
<1>4. size \in Nat /\ m_cachedSize < size
  BY <1>1, <1>2, <1>3, PkgLenIsLong DEF Complete, IInv, TypeOK
<1>5. TypeOK' /\ FrontAtBoundary' /\ PackagesIntact'
  BY <1>1, <1>4 DEF Incomplete, IInv, TypeOK, FrontAtBoundary, PackagesIntact
<1>6. SizeIsFresh' /\ LessThanAPackage'
  BY <1>1, <1>2, <1>4 DEF Incomplete, SizeIsFresh, LessThanAPackage, PkgLen
<1>7. CacheBounded'
  BY DEF Incomplete, IInv, CacheBounded, PkgLen
<1> QED
  BY <1>5, <1>6, <1>7 DEF IInv

LEMMA NextIInv == IInv /\ [Next]_vars => IInv'
<1> SUFFICES ASSUME IInv, [Next]_vars
             PROVE  IInv'
  OBVIOUS
<1>1. ASSUME NEW n \in 1..MaxRead, AddBuffer(n)
      PROVE  IInv'
  BY <1>1, AddBufferIInv
<1>2. CASE NoHeader
  BY <1>2 DEF NoHeader, IInv, TypeOK, FrontAtBoundary, PackagesIntact,
              SizeIsFresh, LessThanAPackage, CacheBounded, PkgLen
<1>3. CASE Incomplete
  BY <1>3, IncompleteIInv
<1>4. CASE Deliver
  BY <1>4, DeliverIInv
<1>5. CASE UNCHANGED vars
  BY <1>5 DEF vars, IInv, TypeOK, FrontAtBoundary, PackagesIntact,
              SizeIsFresh, LessThanAPackage, CacheBounded, PkgLen
<1> QED
  BY <1>1, <1>2, <1>3, <1>4, <1>5 DEF Next, NextPackage

LEMMA InvariantHolds == Init /\ [][Next]_vars => []IInv
  BY InitIInv, NextIInv, PTL

LEMMA SpecSteps == Spec => Init /\ [][Next]_vars
  BY PTL DEF Spec

-----------------------------------------------------------------------------
(* The types of the variables.                                             *)
THEOREM TypeCorrect == Spec => []TypeOK
<1>1. IInv => TypeOK
  BY DEF IInv
<1> QED
  BY <1>1, InvariantHolds, SpecSteps, PTL

(* What reaches the inbound queue is a prefix of the peer's packages.      *)
THEOREM DeliversIntact == Spec => []PackagesIntact
<1>1. IInv => PackagesIntact
  BY DEF IInv
<1> QED
  BY <1>1, InvariantHolds, SpecSteps, PTL

(* The length remembered across calls is the front package's.              *)
THEOREM RemembersFreshSize == Spec => []SizeIsFresh
<1>1. IInv => SizeIsFresh
  BY DEF IInv
<1> QED
  BY <1>1, InvariantHolds, SpecSteps, PTL

(* The cache is never overrun and stays within a package and a read.       *)
THEOREM StaysBounded == Spec => []CacheBounded
<1>1. IInv => CacheBounded
  BY DEF IInv
<1> QED
  BY <1>1, InvariantHolds, SpecSteps, PTL

(* Less than a package is cached when addBuffer has returned.              *)
LEMMA NothingHeldBack == IInv => NoneHeldBack
<1>1. ASSUME IInv, pc = "idle", NEW k \in 1..NumPkgs, Start[k] <= received,
             ~(Len(delivered) >= k)
      PROVE  FALSE
  <2> DEFINE d == Len(delivered)
  <2>1. d \in 0..NumPkgs /\ d < k /\ d + 1 \in 1..NumPkgs
    BY <1>1, StreamAssumption DEF IInv, TypeOK, FrontAtBoundary
  <2>2. Start[d + 1] <= Start[k]
    BY <1>1, <2>1, StreamAssumption
  <2>3. PkgLen(d + 1) \in Nat /\ PkgLen(d + 1) > 4
    BY <2>1, PkgLenIsLong
  <2>4. m_cachedSize < PkgLen(d + 1)
    BY <1>1, <2>3 DEF IInv, LessThanAPackage, SizeIsFresh, TypeOK
  <2>5. head = Start[d] /\ received = head + m_cachedSize
        /\ head \in Nat /\ m_cachedSize \in Nat
    BY <1>1 DEF IInv, FrontAtBoundary, TypeOK
  <2>6. received < Start[d + 1]
    BY <2>1, <2>4, <2>5, StreamAssumption DEF PkgLen
  <2> QED
    BY <1>1, <2>1, <2>2, <2>6, StreamAssumption DEF IInv, TypeOK
<1> QED
  BY <1>1 DEF NoneHeldBack

(* A call leaves no complete package behind.                               *)
THEOREM HoldsNoneBack == Spec => []NoneHeldBack
  BY NothingHeldBack, InvariantHolds, SpecSteps, PTL

(* Every step of addBuffer is a step of PackageStream or leaves what the   *)
(* abstract stream sees alone.                                             *)
THEOREM ImplementsPackageStream ==
  Spec => Stream!Init /\ [][Stream!Next]_(Stream!streamVars)
<1>1. Init => Stream!Init
  BY DEF Init, Stream!Init
<1>2. IInv /\ [Next]_vars => [Stream!Next]_(Stream!streamVars)
  <2> SUFFICES ASSUME IInv, [Next]_vars
               PROVE  [Stream!Next]_(Stream!streamVars)
    OBVIOUS
  <2> USE DEF Stream!Next, Stream!streamVars
  <2>1. ASSUME NEW n \in 1..MaxRead, AddBuffer(n)
        PROVE  Stream!Arrive
    BY <2>1 DEF AddBuffer, Stream!Arrive
  <2>2. CASE Deliver
    <3>1. PICK size \in FrontSize :
            /\ m_cachedSize >= size
            /\ delivered' = IF size # 0
                            THEN Append(delivered, Slice(head, size))
                            ELSE delivered
      BY <2>2 DEF Deliver, Complete
    <3>2. Len(delivered) < NumPkgs /\ size = PkgLen(Len(delivered) + 1)
      BY <2>2, FrontSizeIsNext DEF Deliver
    <3>3. Len(delivered) + 1 \in 1..NumPkgs
      BY <3>2, StreamAssumption DEF IInv, TypeOK
    <3>4. size \in Nat /\ size > 4 /\ Start[Len(delivered) + 1] = head + size
      BY <3>2, <3>3, PkgLenIsLong DEF PkgLen, IInv, FrontAtBoundary
    <3>5. Len(delivered') = Len(delivered) + 1
      BY <3>1, <3>4 DEF IInv, TypeOK
    <3>6. Start[Len(delivered) + 1] <= received
      BY <3>1, <3>4 DEF IInv, TypeOK, FrontAtBoundary
    <3> QED
      BY <2>2, <3>2, <3>5, <3>6 DEF Deliver, Stream!HandOver
  <2>3. CASE NoHeader
    BY <2>3 DEF NoHeader
  <2>4. CASE Incomplete
    BY <2>4 DEF Incomplete
  <2>5. CASE UNCHANGED vars
    BY <2>5 DEF vars
  <2> QED
    BY <2>1, <2>2, <2>3, <2>4, <2>5 DEF Next, NextPackage
<1> QED
  BY <1>1, <1>2, InvariantHolds, SpecSteps, PTL

-----------------------------------------------------------------------------
(* A thread is between taking and releasing the mutex exactly when it      *)
(* holds it.                                                               *)
InCriticalSection == {"push", "front", "pop"}

MutexHeld ==
  \A t \in Threads : place[t] \in InCriticalSection <=> m_mutex = t

(* Producers only run addPackage, within their bound.                      *)
ProducersAdd ==
  \A p \in Producers :
    /\ place[p] \in {"idle", "push", "signal"}
    /\ place[p] = "push" => added[p] < MaxPackages

QInv ==
  /\ QueueTypeOK
  /\ MutexHeld
  /\ ProducersAdd
  /\ FrontStays
  /\ ExactlyOnceInOrder

-----------------------------------------------------------------------------
(* Appending to the right operand of a concatenation.                      *)
LEMMA ConcatAppend ==
  ASSUME NEW S, NEW a \in Seq(S), NEW b \in Seq(S), NEW x \in S
  PROVE  a \o Append(b, x) = Append(a \o b, x)
  OBVIOUS

(* Moving the first element of the right operand to the left one.          *)
LEMMA ConcatHead ==
  ASSUME NEW S, NEW a \in Seq(S), NEW b \in Seq(S), b # << >>
  PROVE  Append(a, Head(b)) \o Tail(b) = a \o b
  OBVIOUS

(* The element of a concatenation just behind its left operand.            *)
LEMMA ConcatNext ==
  ASSUME NEW S, NEW a \in Seq(S), NEW b \in Seq(S), b # << >>
  PROVE  Len(a) < Len(a \o b) /\ (a \o b)[Len(a) + 1] = Head(b)
  OBVIOUS

-----------------------------------------------------------------------------
LEMMA InitQInv == QueueInit => QInv
<1> SUFFICES ASSUME QueueInit
             PROVE  QInv
  OBVIOUS
<1> USE ThreadAssumption, BoundAssumption DEF QueueInit
<1>1. QueueTypeOK
  <2>1. << >> \in Seq(Packages)
    OBVIOUS
  <2> QED
    BY <2>1 DEF QueueTypeOK, Threads
<1>2. MutexHeld /\ ProducersAdd /\ FrontStays
  BY DEF MutexHeld, InCriticalSection, ProducersAdd, FrontStays, Threads
<1>3. ExactlyOnceInOrder
  BY DEF ExactlyOnceInOrder
<1> QED
  BY <1>1, <1>2, <1>3 DEF QInv

(* A thread takes the free mutex and reads or changes nothing else.        *)
LEMMA LockQInv ==
  ASSUME QInv,
         NEW t \in Threads, NEW to \in InCriticalSection,
         Goto(t, "idle", to), Lock(t), to # "pop",
         t \in Producers => to = "push" /\ added[t] < MaxPackages,
         UNCHANGED <<added, m_data, waiting, front, waittime, pushed, taken>>
  PROVE  QInv'
<1> USE ThreadAssumption DEF Threads
<1>1. QueueTypeOK'
  BY DEF QInv, QueueTypeOK, Goto, Lock, InCriticalSection
<1>2. MutexHeld'
  BY DEF QInv, QueueTypeOK, MutexHeld, Goto, Lock, InCriticalSection
<1>3. ProducersAdd'
  BY DEF QInv, QueueTypeOK, ProducersAdd, Goto
<1>4. FrontStays'
  BY DEF QInv, QueueTypeOK, FrontStays, Goto
<1>5. ExactlyOnceInOrder'
  BY DEF QInv, ExactlyOnceInOrder
<1> QED
  BY <1>1, <1>2, <1>3, <1>4, <1>5 DEF QInv

LEMMA PushQInv ==
  ASSUME QInv, NEW p \in Producers, Push(p)
  PROVE  QInv'
<1> USE ThreadAssumption, BoundAssumption DEF Threads
<1> DEFINE package == [from |-> p, num |-> added[p] + 1]
<1>1. added[p] \in 0..MaxPackages /\ added[p] < MaxPackages
  BY DEF Push, Goto, QInv, QueueTypeOK, ProducersAdd
<1>2. package \in Packages
  BY <1>1, BoundAssumption DEF Packages
<1>3. /\ m_data' = Append(m_data, package)
      /\ pushed' = Append(pushed, package)
      /\ added' = [added EXCEPT ![p] = @ + 1]
      /\ place[p] = "push" /\ place' = [place EXCEPT ![p] = "signal"]
      /\ m_mutex' = NoThread
      /\ UNCHANGED <<waiting, front, waittime, taken>>
  BY DEF Push, Goto, Unlock
<1> HIDE DEF package
<1>4. QueueTypeOK'
  <2>1. m_data' \in Seq(Packages) /\ pushed' \in Seq(Packages)
    BY <1>2, <1>3 DEF QInv, QueueTypeOK
  <2>2. added' \in [Producers -> 0..MaxPackages]
    BY <1>1, <1>3 DEF QInv, QueueTypeOK
  <2> QED
    BY <1>3, <2>1, <2>2 DEF QInv, QueueTypeOK
<1>5. m_mutex = p
  BY <1>3 DEF QInv, MutexHeld, InCriticalSection
<1>6. MutexHeld'
  BY <1>3, <1>5 DEF QInv, QueueTypeOK, MutexHeld, InCriticalSection
<1>7. ProducersAdd'
  BY <1>3 DEF QInv, QueueTypeOK, ProducersAdd
<1>8. FrontStays'
  <2>1. \A c \in Consumers : place[c] # "pop"
    BY <1>5 DEF QInv, MutexHeld, InCriticalSection
  <2> QED
    BY <1>3, <2>1 DEF QInv, QueueTypeOK, FrontStays
<1>9. ExactlyOnceInOrder'
  <2>1. taken \o Append(m_data, package) = Append(taken \o m_data, package)
    BY <1>2, ConcatAppend DEF QInv, QueueTypeOK
  <2> QED
    BY <1>3, <2>1 DEF QInv, ExactlyOnceInOrder
<1> QED
  BY <1>4, <1>6, <1>7, <1>8, <1>9 DEF QInv

LEMMA PopQInv ==
  ASSUME QInv, NEW c \in Consumers, Pop(c)
  PROVE  QInv'
<1> USE ThreadAssumption DEF Threads
<1>1. /\ m_data # << >> /\ front[c] = Head(m_data)
      /\ m_mutex = c
      /\ place[c] = "pop" /\ place' = [place EXCEPT ![c] = "idle"]
      /\ m_mutex' = NoThread
      /\ front' = [front EXCEPT ![c] = NoPackage]
      /\ UNCHANGED <<added, waiting, waittime, pushed>>
  BY DEF Pop, Goto, Unlock, QInv, FrontStays, MutexHeld, InCriticalSection
<1>2. m_data' = Tail(m_data) /\ taken' = Append(taken, Head(m_data))
  BY <1>1 DEF Pop
<1>3. QueueTypeOK'
  <2>1. Head(m_data) \in Packages /\ Tail(m_data) \in Seq(Packages)
    BY <1>1 DEF QInv, QueueTypeOK
  <2>2. m_data' \in Seq(Packages) /\ taken' \in Seq(Packages)
    BY <1>2, <2>1 DEF QInv, QueueTypeOK
  <2> QED
    BY <1>1, <2>2 DEF QInv, QueueTypeOK
<1>4. MutexHeld'
  BY <1>1 DEF QInv, QueueTypeOK, MutexHeld, InCriticalSection
<1>5. ProducersAdd'
  BY <1>1 DEF QInv, QueueTypeOK, ProducersAdd
<1>6. FrontStays'
  <2>1. \A d \in Consumers \ {c} : place[d] # "pop"
    BY <1>1 DEF QInv, MutexHeld, InCriticalSection
  <2> QED
    BY <1>1, <2>1 DEF QInv, QueueTypeOK, FrontStays
<1>7. ExactlyOnceInOrder'
  <2>1. Append(taken, Head(m_data)) \o Tail(m_data) = taken \o m_data
    BY <1>1, ConcatHead DEF QInv, QueueTypeOK
  <2> QED
    BY <1>1, <1>2, <2>1 DEF QInv, ExactlyOnceInOrder
<1> QED
  BY <1>3, <1>4, <1>5, <1>6, <1>7 DEF QInv

(* The steps of getPackage that touch neither the data nor the mutex.      *)
LEMMA OutsideQInv ==
  ASSUME QInv, NEW c \in Consumers,
         \/ Clock(c)
         \/ TimedWait(c)
         \/ WaitRefused(c)
         \/ Timeout(c)
         \/ WaitOver(c)
  PROVE  QInv'
<1> USE ThreadAssumption, BoundAssumption DEF Threads
<1>1. /\ place' = place \/ \E to \in {"timedwait", "wait", "idle"} :
                       place' = [place EXCEPT ![c] = to]
      /\ place[c] \in {"clock", "timedwait", "wait"}
      /\ waiting' \subseteq waiting \cup {c}
      /\ UNCHANGED <<added, m_data, m_mutex, front, pushed, taken>>
  BY DEF Clock, TimedWait, WaitRefused, Timeout, WaitOver, Goto
<1>2. waittime' \in [Consumers -> Nat]
  <2>1. ASSUME NEW usec \in Usecs
        PROVE  Deadline(usec) \in Nat
    <3>1. usec \in Nat
      BY ClockAssumption, SMT
    <3>2. usec * 1000 \in Nat
      BY <3>1, SMT
    <3> QED
      BY <3>2, SMT DEF Deadline
  <2> QED
    BY <2>1 DEF Clock, TimedWait, WaitRefused, Timeout, WaitOver, QInv,
                QueueTypeOK
<1>3. QueueTypeOK'
  BY <1>1, <1>2 DEF QInv, QueueTypeOK
<1>4. MutexHeld' /\ ProducersAdd' /\ FrontStays'
  BY <1>1 DEF QInv, QueueTypeOK, MutexHeld, InCriticalSection, ProducersAdd,
              FrontStays
<1>5. ExactlyOnceInOrder'
  BY <1>1 DEF QInv, ExactlyOnceInOrder
<1> QED
  BY <1>3, <1>4, <1>5 DEF QInv

LEMMA NextQInv == QInv /\ [QueueNext]_queueVars => QInv'
<1> SUFFICES ASSUME QInv, [QueueNext]_queueVars
             PROVE  QInv'
  OBVIOUS
<1> USE ThreadAssumption
<1>1. ASSUME NEW p \in Producers, AddLock(p)
      PROVE  QInv'
  BY <1>1, LockQInv DEF AddLock, InCriticalSection, Threads
<1>2. ASSUME NEW p \in Producers, Push(p)
      PROVE  QInv'
  BY <1>2, PushQInv
<1>3. ASSUME NEW p \in Producers, Signal(p)
      PROVE  QInv'
  <2>1. /\ place[p] = "signal" /\ place' = [place EXCEPT ![p] = "idle"]
        /\ waiting' \subseteq waiting
        /\ UNCHANGED <<added, m_data, m_mutex, front, waittime, pushed, taken>>
    BY <1>3 DEF Signal, Goto
  <2>2. QueueTypeOK'
    BY <2>1 DEF QInv, QueueTypeOK, Threads
  <2>3. MutexHeld' /\ ProducersAdd' /\ FrontStays'
    BY <2>1 DEF QInv, QueueTypeOK, MutexHeld, InCriticalSection, ProducersAdd,
                FrontStays, Threads
  <2>4. ExactlyOnceInOrder'
    BY <2>1 DEF QInv, ExactlyOnceInOrder
  <2> QED
    BY <2>2, <2>3, <2>4 DEF QInv
<1>4. ASSUME NEW c \in Consumers, GetLock(c)
      PROVE  QInv'
  BY <1>4, LockQInv DEF GetLock, InCriticalSection, Threads
<1>5. ASSUME NEW c \in Consumers, ReadFront(c)
      PROVE  QInv'
  <2>1. /\ m_data # << >>
        /\ place[c] = "front" /\ place' = [place EXCEPT ![c] = "pop"]
        /\ front' = [front EXCEPT ![c] = Head(m_data)]
        /\ UNCHANGED <<added, m_data, m_mutex, waiting, waittime, pushed,
                       taken>>
    BY <1>5 DEF ReadFront, Goto
  <2>2. Head(m_data) \in Packages
    BY <2>1 DEF QInv, QueueTypeOK
  <2>3. QueueTypeOK'
    BY <2>1, <2>2 DEF QInv, QueueTypeOK, Threads
  <2>4. MutexHeld' /\ ProducersAdd' /\ FrontStays'
    BY <2>1 DEF QInv, QueueTypeOK, MutexHeld, InCriticalSection, ProducersAdd,
                FrontStays, Threads
  <2>5. ExactlyOnceInOrder'
    BY <2>1 DEF QInv, ExactlyOnceInOrder
  <2> QED
    BY <2>3, <2>4, <2>5 DEF QInv
<1>6. ASSUME NEW c \in Consumers, Pop(c)
      PROVE  QInv'
  BY <1>6, PopQInv
<1>7. ASSUME NEW c \in Consumers, Empty(c)
      PROVE  QInv'
  <2>1. /\ place[c] = "front" /\ place' = [place EXCEPT ![c] = "clock"]
        /\ m_mutex' = NoThread
        /\ UNCHANGED <<added, m_data, waiting, front, waittime, pushed, taken>>
    BY <1>7 DEF Empty, Goto, Unlock
  <2>2. m_mutex = c
    BY <2>1 DEF QInv, MutexHeld, InCriticalSection, Threads
  <2>3. QueueTypeOK'
    BY <2>1 DEF QInv, QueueTypeOK, Threads
  <2>4. MutexHeld' /\ ProducersAdd' /\ FrontStays'
    BY <2>1, <2>2 DEF QInv, QueueTypeOK, MutexHeld, InCriticalSection,
                      ProducersAdd, FrontStays, Threads
  <2>5. ExactlyOnceInOrder'
    BY <2>1 DEF QInv, ExactlyOnceInOrder
  <2> QED
    BY <2>3, <2>4, <2>5 DEF QInv
<1>8. ASSUME NEW c \in Consumers,
             \/ Clock(c)
             \/ TimedWait(c)
             \/ WaitRefused(c)
             \/ Timeout(c)
             \/ WaitOver(c)
      PROVE  QInv'
  BY <1>8, OutsideQInv
<1>9. CASE UNCHANGED queueVars
  BY <1>9 DEF queueVars, QInv, QueueTypeOK, MutexHeld, ProducersAdd,
              FrontStays, ExactlyOnceInOrder
<1> QED
  BY <1>1, <1>2, <1>3, <1>4, <1>5, <1>6, <1>7, <1>8, <1>9
  DEF QueueNext, AddPackage, GetPackage

LEMMA QueueInvariant == QueueInit /\ [][QueueNext]_queueVars => []QInv
  BY InitQInv, NextQInv, PTL

LEMMA QueueSpecSteps == QueueSpec => QueueInit /\ [][QueueNext]_queueVars
  BY DEF QueueSpec

(* Under the handler the queue takes its own steps only: a waiting thread  *)
(* that the handler ends leaves the queue as one whose time is over.       *)
LEMMA AlarmSteps == AlarmSpec => QueueInit /\ [][QueueNext]_queueVars
<1>1. AlarmInit => QueueInit
  BY DEF AlarmInit
<1>2. QInv /\ [AlarmNext]_alarmVars => [QueueNext]_queueVars
  <2> SUFFICES ASSUME QInv, AlarmNext \/ UNCHANGED alarmVars
               PROVE  QueueNext \/ UNCHANGED queueVars
    OBVIOUS
  <2>1. ASSUME NEW t \in Threads \ {Handler},
               AlarmFires(t) \/ LocksGroup(t) \/ UnlocksGroup(t)
        PROVE  UNCHANGED queueVars
    BY <2>1 DEF AlarmFires, LocksGroup, UnlocksGroup
  <2>2. CASE HandlerSends
    BY <2>2, HandlerAssumption, Zenon DEF HandlerSends, QueueNext, AddPackage
  <2>3. CASE HandlerExits
    <3>1. waiting \subseteq Consumers
      BY DEF QInv, QueueTypeOK
    <3> QED
      BY <2>3, <3>1, Zenon DEF HandlerExits, QueueNext, GetPackage
  <2>4. CASE \E p \in Producers \ {Handler} : Adds(p)
    BY <2>4, Zenon DEF Adds, InQueue, QueueNext
  <2>5. ASSUME NEW c \in Consumers, Gets(c) \/ WritesForEver(c)
        PROVE  QueueNext \/ UNCHANGED queueVars
    BY <2>5, Zenon DEF Gets, InQueue, WritesForEver, QueueNext
  <2>6. CASE UNCHANGED alarmVars
    BY <2>6 DEF alarmVars
  <2> QED
    BY <2>1, <2>2, <2>3, <2>4, <2>5, <2>6, Zenon DEF AlarmNext
<1> QED
  BY <1>1, <1>2, InitQInv, NextQInv, PTL DEF AlarmSpec

-----------------------------------------------------------------------------
(* The types of the variables.                                             *)
THEOREM QueueTypeCorrect == QueueSpec => []QueueTypeOK
<1>1. QInv => QueueTypeOK
  BY DEF QInv
<1> QED
  BY <1>1, QueueInvariant, QueueSpecSteps, PTL

(* No package is lost, doubled or overtaken.                               *)
THEOREM KeepsOrder == QueueSpec => []ExactlyOnceInOrder
<1>1. QInv => ExactlyOnceInOrder
  BY DEF QInv
<1> QED
  BY <1>1, QueueInvariant, QueueSpecSteps, PTL

(* The same with alarms.                                                   *)
THEOREM KeepsOrderUnderAlarms == AlarmSpec => []ExactlyOnceInOrder
<1>1. QInv => ExactlyOnceInOrder
  BY DEF QInv
<1> QED
  BY <1>1, QueueInvariant, AlarmSteps, PTL

(* The front read is the front removed.                                    *)
THEOREM FrontIsStable == QueueSpec => []FrontStays
<1>1. QInv => FrontStays
  BY DEF QInv
<1> QED
  BY <1>1, QueueInvariant, QueueSpecSteps, PTL

(* Pushing is the channel's Put, popping its Take; every other step leaves *)
(* the channel alone.                                                      *)
LEMMA StepsOfChannel ==
  QueueInit /\ [][QueueNext]_queueVars
    => Channel!Init /\ [][Channel!Next]_(Channel!channelVars)
<1>1. QueueInit => Channel!Init
  BY DEF QueueInit, Channel!Init
<1>2. QInv /\ [QueueNext]_queueVars => [Channel!Next]_(Channel!channelVars)
  <2> SUFFICES ASSUME QInv, QueueNext
               PROVE  \/ Channel!Put
                      \/ Channel!Take
                      \/ UNCHANGED <<pushed, taken>>
    BY DEF Channel!Next, Channel!channelVars, queueVars
  <2>1. ASSUME NEW p \in Producers, Push(p)
        PROVE  Channel!Put
    <3>1. added[p] + 1 \in 1..MaxPackages
      BY <2>1, BoundAssumption DEF Push, Goto, QInv, QueueTypeOK, ProducersAdd
    <3>2. [from |-> p, num |-> added[p] + 1] \in Packages
      BY <3>1 DEF Packages
    <3> QED
      BY <2>1, <3>2 DEF Push, Channel!Put
  <2>2. ASSUME NEW c \in Consumers, Pop(c)
        PROVE  Channel!Take
    <3>1. m_data # << >> /\ front[c] = Head(m_data)
      BY <2>2 DEF Pop, Goto, QInv, FrontStays
    <3>2. /\ Len(taken) < Len(pushed)
          /\ pushed[Len(taken) + 1] = Head(m_data)
      BY <3>1, ConcatNext DEF QInv, QueueTypeOK, ExactlyOnceInOrder
    <3> QED
      BY <2>2, <3>1, <3>2 DEF Pop, Channel!Take
  <2>3. ASSUME NEW p \in Producers, AddLock(p) \/ Signal(p)
        PROVE  UNCHANGED <<pushed, taken>>
    BY <2>3 DEF AddLock, Signal
  <2>4. ASSUME NEW c \in Consumers, GetPackage(c), ~Pop(c)
        PROVE  UNCHANGED <<pushed, taken>>
    BY <2>4 DEF GetPackage, GetLock, ReadFront, Empty, Clock, TimedWait,
                WaitRefused, Timeout, WaitOver
  <2> QED
    BY <2>1, <2>2, <2>3, <2>4 DEF QueueNext, AddPackage, GetPackage
<1> QED
  BY <1>1, <1>2, QueueInvariant, PTL

(* The safety part of ChannelWhileServed: with or without alarms.          *)
THEOREM ImplementsChannel ==
  AlarmSpec => Channel!Init /\ [][Channel!Next]_(Channel!channelVars)
  BY StepsOfChannel, AlarmSteps, PTL

-----------------------------------------------------------------------------
(* The handler runs on another thread, and one on top of a thread that     *)
(* holds the queue's mutex has not got beyond the lock.                    *)
Beneath ==
  /\ interrupted \in (Threads \ {Handler}) \cup {NoThread}
  /\ interrupted = NoThread \/ StuckInQueue
       => place[Handler] = "idle" /\ stage = "send"
  /\ stage = "exit" => place[Handler] = "idle"

StaysStuck ==
  (StuckInQueue => StuckInQueue') /\ (StuckInGroup => StuckInGroup')

LEMMA InitBeneath == AlarmInit => Beneath
  BY HandlerAssumption
  DEF AlarmInit, QueueInit, Beneath, StuckInQueue, Threads

(* What the steps of the others do to a mutex on which a handler waits.    *)
LEMMA OthersStep ==
  ASSUME QInv, Beneath, UNCHANGED <<interrupted, stage, group, left>>,
         \/ \E p \in Producers \ {Handler} : p # interrupted /\ AddPackage(p)
         \/ \E c \in Consumers : c # interrupted /\ GetPackage(c)
  PROVE  Beneath' /\ StaysStuck
<1> USE DEF StuckInQueue, StuckInGroup, StaysStuck
<1>1. Handler \in Threads /\ DOMAIN place = Threads
  BY HandlerAssumption DEF Threads, QInv, QueueTypeOK
<1>2. ASSUME NEW t \in Threads, t # interrupted, place[t] # "idle",
             StuckInQueue
      PROVE  place[t] \notin {"push", "front", "pop"}
  BY <1>2 DEF QInv, MutexHeld, InCriticalSection
<1>3. ASSUME NEW p \in Producers \ {Handler}, p # interrupted,
             AddPackage(p)
      PROVE  Beneath' /\ StaysStuck
  <2>1. p \in Threads
    BY DEF Threads
  <2>2. place'[Handler] = place[Handler]
    BY <1>1, <1>3, <2>1 DEF AddPackage, AddLock, Push, Signal, Goto
  <2>3. StuckInQueue => m_mutex' = m_mutex
    BY <1>2, <1>3, <2>1, ThreadAssumption
    DEF AddPackage, AddLock, Push, Signal, Goto, Lock, Beneath
  <2>4. m_mutex' \in {m_mutex, p, NoThread}
    BY <1>3 DEF AddPackage, AddLock, Push, Signal, Lock, Unlock
  <2> QED
    BY <1>3, <2>2, <2>3, <2>4 DEF Beneath
<1>4. ASSUME NEW c \in Consumers, c # interrupted, GetPackage(c)
      PROVE  Beneath' /\ StaysStuck
  <2>1. c \in Threads /\ c # Handler
    BY HandlerAssumption, ThreadAssumption DEF Threads
  <2>2. place'[Handler] = place[Handler]
    BY <1>1, <1>4, <2>1 DEF GetPackage, GetLock, ReadFront, Pop, Empty, Clock,
         TimedWait, WaitRefused, Timeout, WaitOver, Goto
  <2>3. StuckInQueue => m_mutex' = m_mutex
    BY <1>2, <1>4, <2>1, ThreadAssumption
    DEF GetPackage, GetLock, ReadFront, Pop, Empty, Clock,
        TimedWait, WaitRefused, Timeout, WaitOver, Goto, Lock, Beneath
  <2>4. m_mutex' \in {m_mutex, c, NoThread}
    BY <1>4 DEF GetPackage, GetLock, ReadFront, Pop, Empty, Clock,
         TimedWait, WaitRefused, Timeout, WaitOver, Lock, Unlock
  <2> QED
    BY <1>4, <2>2, <2>3, <2>4 DEF Beneath
<1> QED
  BY <1>3, <1>4

LEMMA NextBeneath ==
  ASSUME QInv, Beneath, [AlarmNext]_alarmVars
  PROVE  Beneath' /\ StaysStuck
<1> USE DEF StuckInQueue, StuckInGroup, StaysStuck
<1>1. Handler \in Threads /\ NoThread \notin Threads
      /\ DOMAIN place = Threads
  BY HandlerAssumption, ThreadAssumption DEF Threads, QInv, QueueTypeOK
<1>2. ASSUME NEW t \in Threads \ {Handler},
             AlarmFires(t) \/ LocksGroup(t) \/ UnlocksGroup(t)
      PROVE  Beneath' /\ StaysStuck
  BY <1>1, <1>2
  DEF AlarmFires, LocksGroup, UnlocksGroup, Runs, Beneath, queueVars
<1>3. CASE HandlerSends
  <2>1. CASE AddLock(Handler) /\ UNCHANGED stage
    BY <1>1, <1>3, <2>1 DEF HandlerSends, AddLock, Lock, Beneath
  <2>2. CASE Push(Handler) /\ UNCHANGED stage
    BY <1>1, <1>3, <2>2 DEF HandlerSends, Push, Goto, Unlock, Beneath
  <2>3. CASE Signal(Handler) /\ stage' = "exit"
    BY <1>1, <1>3, <2>3 DEF HandlerSends, Signal, Goto, Beneath
  <2> QED
    BY <1>3, <2>1, <2>2, <2>3 DEF HandlerSends
<1>4. CASE HandlerExits
  <2>1. ~StuckInQueue /\ ~StuckInGroup
    BY <1>1, <1>4 DEF HandlerExits, Beneath
  <2>2. QInv /\ place' = place
    BY <1>4 DEF HandlerExits, Timeout, queueVars
  <2>3. place[Handler] = "idle"
    BY <1>4 DEF HandlerExits, Beneath
  <2> QED
    BY <1>1, <1>4, <2>1, <2>2, <2>3 DEF HandlerExits, Beneath
<1>5. CASE \/ \E p \in Producers \ {Handler} : Adds(p)
           \/ \E c \in Consumers : Gets(c)
  <2>1. UNCHANGED <<interrupted, stage, group, left>>
    BY <1>5 DEF Adds, Gets, InQueue
  <2>2. \/ \E p \in Producers \ {Handler} : p # interrupted /\ AddPackage(p)
        \/ \E c \in Consumers : c # interrupted /\ GetPackage(c)
    BY <1>5, Zenon DEF Adds, Gets, InQueue, Runs
  <2> QED
    BY <2>1, <2>2, OthersStep
<1>6. ASSUME NEW c \in Consumers, WritesForEver(c)
      PROVE  Beneath' /\ StaysStuck
  BY <1>6 DEF WritesForEver, queueVars, Beneath
<1>7. CASE UNCHANGED alarmVars
  BY <1>7 DEF alarmVars, queueVars, Beneath
<1> QED
  BY <1>2, <1>3, <1>4, <1>5, <1>6, <1>7 DEF AlarmNext

(* Nobody releases a mutex, the queue's or the group's, on which a handler *)
(* waits on top of its holder: a stuck alarm stays stuck.                  *)
THEOREM StuckForEver == AlarmSpec => [][StaysStuck]_alarmVars
<1>1. AlarmSpec => []Beneath
  BY InitBeneath, NextBeneath, QueueInvariant, AlarmSteps, PTL DEF AlarmSpec
<1>2. QInv /\ Beneath /\ [AlarmNext]_alarmVars => [StaysStuck]_alarmVars
  BY NextBeneath
<1> QED
  BY <1>1, <1>2, QueueInvariant, AlarmSteps, PTL DEF AlarmSpec

-----------------------------------------------------------------------------
(* Division by a byte's number of values.                                  *)
LEMMA ByteSplit ==
  ASSUME NEW v \in Nat
  PROVE  /\ v \div Byte \in Nat
         /\ v % Byte \in 0..(Byte - 1)
         /\ v = (v \div Byte) * Byte + (v % Byte)
<1>1. Byte \in Nat /\ Byte > 0
  BY ByteAssumption
<1>2. v \div Byte \in Nat
  BY <1>1
<1>3. v % Byte \in 0..(Byte - 1)
  BY <1>1
<1>4. v = Byte * (v \div Byte) + (v % Byte)
  BY <1>1
<1>5. Byte * (v \div Byte) = (v \div Byte) * Byte
  BY <1>1, <1>2
<1> QED
  BY <1>2, <1>3, <1>4, <1>5

(* Dividing loses a factor of the bound.                                   *)
LEMMA ByteBound ==
  ASSUME NEW v \in Nat, NEW m \in Nat, v < m * Byte
  PROVE  v \div Byte < m
<1> DEFINE q == v \div Byte
<1>1. q \in Nat /\ v = q * Byte + (v % Byte) /\ v % Byte \in Nat
  BY ByteSplit, ByteAssumption
<1>2. SUFFICES ASSUME q >= m PROVE FALSE
  BY <1>1
<1>3. PICK d \in Nat : q = m + d
  <2>1. q - m \in Nat /\ q = m + (q - m)
    BY <1>1, <1>2
  <2> QED
    BY <2>1
<1> HIDE DEF q
<1>4. q * Byte = m * Byte + d * Byte
  BY <1>3, ByteAssumption
<1>5. d * Byte \in Nat /\ m * Byte \in Nat
  BY ByteAssumption
<1>6. m * Byte + d * Byte <= v
  BY <1>1, <1>4, <1>5
<1>7. m * Byte <= v
  BY <1>5, <1>6
<1> QED
  BY <1>5, <1>7

(* Four bytes give back the word they were made of.                        *)
LEMMA WordRoundTrip ==
  ASSUME NEW v \in 0..(Word - 1), NEW raw, NEW at \in Nat,
         \A i \in 1..4 : raw[at + i - 1] = BigEndian(v)[i]
  PROVE  Number(raw, at) = v
<1> DEFINE b == v \div Byte
           c == b \div Byte
           d == c \div Byte
<1>0. Byte \in Nat /\ v \in Nat
      /\ v < Byte * Byte * Byte * Byte
      /\ Byte * Byte \in Nat /\ Byte * Byte * Byte \in Nat
  BY ByteAssumption DEF Word
<1>1. b \in Nat /\ v = b * Byte + (v % Byte) /\ b < Byte * Byte * Byte
  BY <1>0, ByteSplit, ByteBound
<1>2. c \in Nat /\ b = c * Byte + (b % Byte) /\ c < Byte * Byte
  BY <1>0, <1>1, ByteSplit, ByteBound
<1>3. d \in Nat /\ c = d * Byte + (c % Byte) /\ d < Byte
  BY <1>0, <1>2, ByteSplit, ByteBound
<1>4. d % Byte = d
  BY <1>3, ByteAssumption
<1>5. /\ raw[at] = d /\ raw[at + 1] = c % Byte
      /\ raw[at + 2] = b % Byte /\ raw[at + 3] = v % Byte
  <2>1. BigEndian(v) = <<d % Byte, c % Byte, b % Byte, v % Byte>>
    BY DEF BigEndian
  <2>2. /\ raw[at + 1 - 1] = d % Byte /\ raw[at + 2 - 1] = c % Byte
        /\ raw[at + 3 - 1] = b % Byte /\ raw[at + 4 - 1] = v % Byte
    <3> HIDE DEF b, c, d
    <3> QED BY <2>1
  <2>3. /\ at + 1 - 1 = at /\ at + 2 - 1 = at + 1 /\ at + 3 - 1 = at + 2
        /\ at + 4 - 1 = at + 3
    OBVIOUS
  <2> HIDE DEF b, c, d
  <2> QED
    BY <1>4, <2>2, <2>3
<1>6. Number(raw, at)
        = ((d * Byte + (c % Byte)) * Byte + (b % Byte)) * Byte + (v % Byte)
  BY <1>5 DEF Number
<1> HIDE DEF b, c, d
<1> QED
  BY <1>1, <1>2, <1>3, <1>6

-----------------------------------------------------------------------------
(* The elements of a concatenation, and of a stretch of a sequence.        *)
LEMMA ConcatParts ==
  ASSUME NEW S, NEW a \in Seq(S), NEW b \in Seq(S)
  PROVE  /\ a \o b \in Seq(S)
         /\ Len(a \o b) = Len(a) + Len(b)
         /\ \A i \in 1..Len(a) : (a \o b)[i] = a[i]
         /\ \A i \in 1..Len(b) : (a \o b)[Len(a) + i] = b[i]
  OBVIOUS

LEMMA SubSeqParts ==
  ASSUME NEW S, NEW N \in Nat, NEW f \in [1..N -> S],
         NEW a \in Nat, NEW len \in Nat, a + len <= N
  PROVE  LET s == SubSeq(f, a + 1, a + len)
         IN  /\ s \in Seq(S)
             /\ Len(s) = len
             /\ \A i \in 1..len : s[i] = f[a + i]
<1>1. f \in Seq(S) /\ Len(f) = N
  OBVIOUS
<1> DEFINE s == SubSeq(f, a + 1, a + len)
<1>2. s \in Seq(S) /\ Len(s) = len
  BY <1>1
<1>3. ASSUME NEW i \in 1..len
      PROVE  s[i] = f[a + i]
  <2>1. i \in 1..((a + len) - (a + 1) + 1) /\ (a + 1) + i - 1 = a + i
    OBVIOUS
  <2> QED
    BY <1>1, <2>1
<1> QED
  BY <1>2, <1>3

(* Four more elements at the end of a sequence.                            *)
LEMMA AppendFour ==
  ASSUME NEW S, NEW a \in Seq(S), NEW w, NEW x, NEW y, NEW z,
         {w, x, y, z} \subseteq S
  PROVE  LET s == a \o <<w, x, y, z>>
         IN  /\ s \in Seq(S)
             /\ Len(s) = Len(a) + 4
             /\ \A i \in 1..Len(a) : s[i] = a[i]
             /\ s[Len(a) + 1] = w /\ s[Len(a) + 2] = x
             /\ s[Len(a) + 3] = y /\ s[Len(a) + 4] = z
<1>1. <<w, x, y, z>> \in Seq(S)
  OBVIOUS
<1> DEFINE t == <<w, x, y, z>>
<1>2. Len(t) = 4 /\ t[1] = w /\ t[2] = x /\ t[3] = y /\ t[4] = z
  OBVIOUS
<1> HIDE DEF t
<1> QED
  BY <1>1, <1>2 DEF t

(* The bytes of a word.                                                    *)
LEMMA BigEndianBytes ==
  ASSUME NEW v \in Nat
  PROVE  \E w, x, y, z \in 0..(Byte - 1) : BigEndian(v) = <<w, x, y, z>>
<1> DEFINE b == v \div Byte
           c == b \div Byte
<1>1. b \in Nat /\ v % Byte \in 0..(Byte - 1)
  BY ByteSplit
<1>2. c \in Nat /\ b % Byte \in 0..(Byte - 1)
  BY <1>1, ByteSplit
<1>3. c \div Byte \in Nat /\ c % Byte \in 0..(Byte - 1)
  BY <1>2, ByteSplit
<1>4. (c \div Byte) % Byte \in 0..(Byte - 1)
  BY <1>3, ByteSplit
<1>5. BigEndian(v)
        = <<(c \div Byte) % Byte, c % Byte, b % Byte, v % Byte>>
  BY DEF BigEndian
<1> HIDE DEF b, c
<1> QED
  BY <1>1, <1>2, <1>3, <1>4, <1>5

(* A word behind some bytes.                                               *)
LEMMA AppendWord ==
  ASSUME NEW a \in Seq(0..(Byte - 1)), NEW v \in Nat
  PROVE  LET s == a \o BigEndian(v)
         IN  /\ s \in Seq(0..(Byte - 1))
             /\ Len(s) = Len(a) + 4
             /\ \A i \in 1..Len(a) : s[i] = a[i]
             /\ \A i \in 1..4 : s[Len(a) + i] = BigEndian(v)[i]
<1>1. PICK w, x, y, z \in 0..(Byte - 1) : BigEndian(v) = <<w, x, y, z>>
  BY BigEndianBytes
<1> DEFINE s == a \o <<w, x, y, z>>
<1>2. /\ s \in Seq(0..(Byte - 1))
      /\ Len(s) = Len(a) + 4
      /\ \A i \in 1..Len(a) : s[i] = a[i]
      /\ s[Len(a) + 1] = w /\ s[Len(a) + 2] = x
      /\ s[Len(a) + 3] = y /\ s[Len(a) + 4] = z
  BY AppendFour
<1>3. ASSUME NEW i \in 1..4
      PROVE  s[Len(a) + i] = <<w, x, y, z>>[i]
  <2>1. i \in {1, 2, 3, 4}
    OBVIOUS
  <2> HIDE DEF s
  <2>2. /\ <<w, x, y, z>>[1] = w /\ <<w, x, y, z>>[2] = x
        /\ <<w, x, y, z>>[3] = y /\ <<w, x, y, z>>[4] = z
    OBVIOUS
  <2> QED
    BY <1>2, <2>1, <2>2
<1> HIDE DEF s
<1> QED
  BY <1>1, <1>2, <1>3 DEF s

(* What the Printed peer's packages are made of.                           *)
LEMMA PrintedParts ==
  ASSUME NEW k \in 1..NumPkgs
  PROVE  LET c == Sent[k]
             p == Printed(c)
         IN  /\ p = [c EXCEPT !.m_bufParam = p.m_bufParam]
             /\ c = [m_target |-> c.m_target, m_source |-> c.m_source,
                     m_version |-> 1, m_tag |-> c.m_tag,
                     m_command |-> c.m_command,
                     m_paramType |-> c.m_paramType,
                     m_bufParam |-> c.m_bufParam,
                     m_intParam |-> c.m_intParam,
                     m_jsonroot |-> c.m_jsonroot]
             /\ c.m_target \in 0..(Word - 1)
             /\ c.m_source \in 0..(Word - 1)
             /\ c.m_tag \in 0..(Word - 1)
             /\ c.m_command \in 0..(Word - 1)
             /\ c.m_paramType \in 0..3
             /\ p.m_bufParam \in Seq(0..(Byte - 1))
             /\ c.m_paramType = 0 => p.m_bufParam = << >>
             /\ IF c.m_paramType = 1
                THEN Unsigned(Atoi(p.m_bufParam)) = c.m_intParam
                ELSE c.m_intParam = 0
             /\ IF c.m_paramType = 3
                THEN Parse(p.m_bufParam) = c.m_jsonroot
                ELSE c.m_jsonroot = NoDocument
<1> DEFINE c == Sent[k]
           p == Printed(c)
<1> USE DEF CMD_ARGUMENT_TYPE_NONE, CMD_ARGUMENT_TYPE_INT32,
            CMD_ARGUMENT_TYPE_STRING, CMD_ARGUMENT_TYPE_KEYVALUE
<1>1. IsCreated(c)
  BY PathAssumption
<1>2. /\ c = [Create(c.m_source, c.m_target, c.m_command, c.m_tag) EXCEPT
                !.m_paramType = c.m_paramType, !.m_bufParam = c.m_bufParam,
                !.m_intParam = c.m_intParam, !.m_jsonroot = c.m_jsonroot]
      /\ {c.m_source, c.m_target, c.m_command, c.m_tag, c.m_intParam}
           \subseteq 0..(Word - 1)
      /\ c.m_paramType \in 0..3
      /\ c.m_paramType = 0 => c.m_bufParam = << >>
      /\ c.m_paramType # 1 => c.m_intParam = 0
      /\ c.m_paramType # 3 => c.m_jsonroot = NoDocument
  <2> HIDE DEF c
  <2> QED
    BY <1>1 DEF IsCreated
<1>3. /\ p.m_bufParam \in Seq(0..(Byte - 1))
      /\ c.m_paramType = 1 => Unsigned(Atoi(p.m_bufParam)) = c.m_intParam
      /\ c.m_paramType = 3 => Parse(p.m_bufParam) = c.m_jsonroot
  BY LibrariesAssumption
<1>4. c = [m_target |-> c.m_target, m_source |-> c.m_source,
           m_version |-> 1, m_tag |-> c.m_tag,
           m_command |-> c.m_command,
           m_paramType |-> c.m_paramType,
           m_bufParam |-> c.m_bufParam,
           m_intParam |-> c.m_intParam,
           m_jsonroot |-> c.m_jsonroot]
  <2> HIDE DEF c
  <2> QED
    BY <1>2 DEF Create, VncPackContent
<1>5. p = [c EXCEPT !.m_bufParam = p.m_bufParam]
      /\ (c.m_paramType \notin {1, 3} => p = c)
  <2> HIDE DEF c
  <2> QED
    BY <1>4 DEF Printed
<1> HIDE DEF c, p
<1> QED
  BY <1>2, <1>3, <1>4, <1>5 DEF c, p

(* Where makeNewProtocolBuffer puts the fields.                            *)
LEMMA ImageLayout ==
  ASSUME NEW k \in 1..NumPkgs
  PROVE  LET p == Printed(Sent[k])
             n == Len(p.m_bufParam)
         IN  /\ n \in Nat
             /\ \E S : Image(k) \in Seq(S)
             /\ Len(Image(k)) = 32 + n
             /\ \A i \in 1..4 :
                  /\ Image(k)[i] = BigEndian(32 + n)[i]
                  /\ Image(k)[4 + i] = BigEndian(p.m_target)[i]
                  /\ Image(k)[8 + i] = BigEndian(p.m_source)[i]
                  /\ Image(k)[16 + i] = BigEndian(p.m_command)[i]
                  /\ Image(k)[20 + i] = BigEndian(p.m_tag)[i]
                  /\ Image(k)[24 + i] = BigEndian(n)[i]
             /\ Image(k)[13] = 1
             /\ Image(k)[14] = p.m_paramType
             /\ \A i \in 1..n : Image(k)[28 + i] = p.m_bufParam[i]
<1> DEFINE p == Printed(Sent[k])
           n == Len(p.m_bufParam)
           B == 0..(Byte - 1)
           h1 == BigEndian(32 + n)
           h2 == h1 \o BigEndian(p.m_target)
           h3 == h2 \o BigEndian(p.m_source)
           h4 == h3 \o <<p.m_version % Byte, p.m_paramType % Byte, 0, 0>>
           h5 == h4 \o BigEndian(p.m_command)
           h6 == h5 \o BigEndian(p.m_tag)
           h7 == h6 \o BigEndian(n)
           body == h7 \o p.m_bufParam
           crc == BigEndian(Crc32(body))
<1>1. /\ p.m_bufParam \in Seq(B)
      /\ p.m_target \in Nat /\ p.m_source \in Nat
      /\ p.m_command \in Nat /\ p.m_tag \in Nat
      /\ p.m_version = 1 /\ p.m_paramType \in 0..3
  <2> DEFINE c == Sent[k]
  <2>1. /\ p = [c EXCEPT !.m_bufParam = p.m_bufParam]
        /\ c = [m_target |-> c.m_target, m_source |-> c.m_source,
                m_version |-> 1, m_tag |-> c.m_tag,
                m_command |-> c.m_command,
                m_paramType |-> c.m_paramType,
                m_bufParam |-> c.m_bufParam,
                m_intParam |-> c.m_intParam,
                m_jsonroot |-> c.m_jsonroot]
        /\ c.m_target \in 0..(Word - 1)
        /\ c.m_source \in 0..(Word - 1)
        /\ c.m_tag \in 0..(Word - 1)
        /\ c.m_command \in 0..(Word - 1)
        /\ c.m_paramType \in 0..3
        /\ p.m_bufParam \in Seq(B)
    BY PrintedParts
  <2>2. \A x \in 0..(Word - 1) : x \in Nat
    OBVIOUS
  <2> HIDE DEF c, p
  <2> QED
    BY <2>1, <2>2
<1>2. n \in Nat /\ Byte \in Nat /\ Byte > 10
  BY <1>1, ByteAssumption
<1> HIDE DEF p
<1>3. Image(k) = body \o crc
  BY DEF Image, MakeNewProtocolBuffer, PKG_FIXED_PART_SIZE, p
<1>4. /\ p.m_version % Byte = 1 /\ p.m_paramType % Byte = p.m_paramType
      /\ {1, p.m_paramType, 0, 0} \subseteq B
  <2>1. \A x \in 0..3 : x % Byte = x
    BY <1>2
  <2>2. 1 % Byte = 1 /\ p.m_paramType % Byte = p.m_paramType
    BY <1>1, <2>1
  <2>3. {1, p.m_paramType, 0, 0} \subseteq B
    BY <1>1, <1>2
  <2> QED
    BY <1>1, <2>2, <2>3
<1> HIDE DEF n, B
<1>5. h1 \in Seq(B) /\ Len(h1) = 4
  <2>1. 32 + n \in Nat
    BY <1>2
  <2>2. PICK w, x, y, z \in B : h1 = <<w, x, y, z>>
    BY <2>1, BigEndianBytes DEF B
  <2> HIDE DEF h1
  <2> QED
    BY <2>2
<1> HIDE DEF h1
<1>6. /\ h2 \in Seq(B) /\ Len(h2) = 8
      /\ \A i \in 1..4 : h2[i] = h1[i]
      /\ \A i \in 1..4 : h2[4 + i] = BigEndian(p.m_target)[i]
  <2>1. /\ h2 \in Seq(B) /\ Len(h2) = Len(h1) + 4
        /\ \A i \in 1..Len(h1) : h2[i] = h1[i]
        /\ \A i \in 1..4 : h2[Len(h1) + i] = BigEndian(p.m_target)[i]
    BY <1>1, <1>5, AppendWord DEF B
  <2> HIDE DEF h2
  <2> QED
    BY <1>1, <1>5, <2>1
<1> HIDE DEF h2
<1>7. /\ h3 \in Seq(B) /\ Len(h3) = 12
      /\ \A i \in 1..8 : h3[i] = h2[i]
      /\ \A i \in 1..4 : h3[8 + i] = BigEndian(p.m_source)[i]
  <2>1. /\ h3 \in Seq(B) /\ Len(h3) = Len(h2) + 4
        /\ \A i \in 1..Len(h2) : h3[i] = h2[i]
        /\ \A i \in 1..4 : h3[Len(h2) + i] = BigEndian(p.m_source)[i]
    BY <1>1, <1>6, AppendWord DEF B
  <2> HIDE DEF h3
  <2> QED
    BY <1>1, <1>6, <2>1
<1> HIDE DEF h3
<1>8. /\ h4 \in Seq(B) /\ Len(h4) = 16
      /\ \A i \in 1..12 : h4[i] = h3[i]
      /\ h4[13] = 1 /\ h4[14] = p.m_paramType
  <2>1. /\ h4 \in Seq(B) /\ Len(h4) = Len(h3) + 4
        /\ \A i \in 1..Len(h3) : h4[i] = h3[i]
        /\ h4[Len(h3) + 1] = 1 /\ h4[Len(h3) + 2] = p.m_paramType
    <3>1. h4 = h3 \o <<1, p.m_paramType, 0, 0>>
      BY <1>4
    <3>2. h3 \in Seq(B)
      BY <1>7
    <3> HIDE DEF h4
    <3> QED
      BY <1>4, <3>1, <3>2, AppendFour
  <2> HIDE DEF h4
  <2> QED
    BY <1>7, <2>1
<1> HIDE DEF h4
<1>9. /\ h5 \in Seq(B) /\ Len(h5) = 20
      /\ \A i \in 1..16 : h5[i] = h4[i]
      /\ \A i \in 1..4 : h5[16 + i] = BigEndian(p.m_command)[i]
  <2>1. /\ h5 \in Seq(B) /\ Len(h5) = Len(h4) + 4
        /\ \A i \in 1..Len(h4) : h5[i] = h4[i]
        /\ \A i \in 1..4 : h5[Len(h4) + i] = BigEndian(p.m_command)[i]
    BY <1>1, <1>8, AppendWord DEF B
  <2> HIDE DEF h5
  <2> QED
    BY <1>1, <1>8, <2>1
<1> HIDE DEF h5
<1>10. /\ h6 \in Seq(B) /\ Len(h6) = 24
       /\ \A i \in 1..20 : h6[i] = h5[i]
       /\ \A i \in 1..4 : h6[20 + i] = BigEndian(p.m_tag)[i]
  <2>1. /\ h6 \in Seq(B) /\ Len(h6) = Len(h5) + 4
        /\ \A i \in 1..Len(h5) : h6[i] = h5[i]
        /\ \A i \in 1..4 : h6[Len(h5) + i] = BigEndian(p.m_tag)[i]
    BY <1>1, <1>9, AppendWord DEF B
  <2> HIDE DEF h6
  <2> QED
    BY <1>1, <1>9, <2>1
<1> HIDE DEF h6
<1>11. /\ h7 \in Seq(B) /\ Len(h7) = 28
       /\ \A i \in 1..24 : h7[i] = h6[i]
       /\ \A i \in 1..4 : h7[24 + i] = BigEndian(n)[i]
  <2>1. /\ h7 \in Seq(B) /\ Len(h7) = Len(h6) + 4
        /\ \A i \in 1..Len(h6) : h7[i] = h6[i]
        /\ \A i \in 1..4 : h7[Len(h6) + i] = BigEndian(n)[i]
    BY <1>2, <1>10, AppendWord DEF B
  <2> HIDE DEF h7
  <2> QED
    BY <1>2, <1>10, <2>1
<1> HIDE DEF h7
<1>12. /\ body \in Seq(B) /\ Len(body) = 28 + n
       /\ \A i \in 1..28 : body[i] = h7[i]
       /\ \A i \in 1..n : body[28 + i] = p.m_bufParam[i]
  <2> DEFINE q == p.m_bufParam
  <2>1. q \in Seq(B) /\ Len(q) = n
    BY <1>1 DEF n
  <2> HIDE DEF q
  <2>0. h7 \in Seq(B) /\ q \in Seq(B)
    BY <1>11, <2>1
  <2>2. /\ h7 \o q \in Seq(B)
        /\ Len(h7 \o q) = Len(h7) + Len(q)
        /\ \A i \in 1..Len(h7) : (h7 \o q)[i] = h7[i]
        /\ \A i \in 1..Len(q) : (h7 \o q)[Len(h7) + i] = q[i]
    BY <2>0, ConcatParts
  <2> QED
    BY <1>11, <2>1, <2>2 DEF q
<1> HIDE DEF body
<1>13. PICK w, x, y, z : crc = <<w, x, y, z>>
  BY DEF BigEndian
<1> HIDE DEF crc
<1> DEFINE S == B \cup {w, x, y, z}
<1>14. body \in Seq(S)
  <2>1. B \subseteq S
    OBVIOUS
  <2>2. body \in Seq(B)
    BY <1>12
  <2> HIDE DEF S, B
  <2> QED
    BY <2>1, <2>2
<1>15. /\ Image(k) \in Seq(S)
       /\ Len(Image(k)) = Len(body) + 4
       /\ \A i \in 1..Len(body) : Image(k)[i] = body[i]
  <2>1. {w, x, y, z} \subseteq S
    OBVIOUS
  <2> HIDE DEF S
  <2> QED
    BY <1>3, <1>13, <1>14, <2>1, AppendFour
<1>16. Len(Image(k)) = 32 + n
  BY <1>2, <1>12, <1>15, SMTT(30)
<1>17. \A i \in 1..28 : Image(k)[i] = h7[i]
  <2>1. \A i \in 1..28 : i \in 1..(28 + n)
    BY <1>2
  <2> QED
    BY <1>12, <1>15, <2>1
<1>18. \A i \in 1..n : Image(k)[28 + i] = p.m_bufParam[i]
  <2>1. \A i \in 1..n : 28 + i \in 1..(28 + n)
    BY <1>2
  <2> QED
    BY <1>12, <1>15, <2>1
<1>19. ASSUME NEW i \in 1..4
       PROVE  /\ Image(k)[i] = h1[i]
              /\ Image(k)[4 + i] = BigEndian(p.m_target)[i]
              /\ Image(k)[8 + i] = BigEndian(p.m_source)[i]
              /\ Image(k)[16 + i] = BigEndian(p.m_command)[i]
              /\ Image(k)[20 + i] = BigEndian(p.m_tag)[i]
              /\ Image(k)[24 + i] = BigEndian(n)[i]
  <2>0. /\ 24 + i \in 1..28 /\ 20 + i \in 1..24 /\ 16 + i \in 1..20
        /\ 8 + i \in 1..12 /\ 4 + i \in 1..8
    OBVIOUS
  <2>1. Image(k)[24 + i] = BigEndian(n)[i]
    BY <1>11, <1>17, <2>0
  <2>2. \A j \in 1..24 : Image(k)[j] = h6[j]
    <3>1. \A j \in 1..24 : j \in 1..28
      OBVIOUS
    <3> QED
      BY <1>11, <1>17, <3>1
  <2>3. Image(k)[20 + i] = BigEndian(p.m_tag)[i]
    BY <1>10, <2>0, <2>2
  <2>4. \A j \in 1..20 : Image(k)[j] = h5[j]
    <3>1. \A j \in 1..20 : j \in 1..24
      OBVIOUS
    <3> QED
      BY <1>10, <2>2, <3>1
  <2>5. Image(k)[16 + i] = BigEndian(p.m_command)[i]
    BY <1>9, <2>0, <2>4
  <2>6. \A j \in 1..12 : Image(k)[j] = h3[j]
    <3>1. \A j \in 1..12 : j \in 1..16 /\ j \in 1..20
      OBVIOUS
    <3>2. \A j \in 1..12 : h4[j] = h3[j]
      BY <1>8, Zenon
    <3>3. \A j \in 1..16 : h5[j] = h4[j]
      BY <1>9, Zenon
    <3> QED
      BY <2>4, <3>1, <3>2, <3>3, Zenon
  <2>7. Image(k)[8 + i] = BigEndian(p.m_source)[i]
    BY <1>7, <2>6
  <2>8. \A j \in 1..8 : Image(k)[j] = h2[j]
    BY <1>7, <2>6
  <2> QED
    BY <1>6, <2>1, <2>3, <2>5, <2>7, <2>8
<1>20. Image(k)[13] = 1 /\ Image(k)[14] = p.m_paramType
  <2>1. ASSUME NEW j \in {13, 14}
        PROVE  Image(k)[j] = h4[j]
    <3>1. j \in 1..28 /\ j \in 1..24 /\ j \in 1..20 /\ j \in 1..16
      OBVIOUS
    <3>2. Image(k)[j] = h6[j]
      BY <1>11, <1>17, <3>1
    <3> QED
      BY <1>9, <1>10, <3>1, <3>2
  <2> QED
    BY <1>8, <2>1
<1>21. \E T : Image(k) \in Seq(T)
  BY <1>15
<1> QED
  BY <1>2, <1>16, <1>18, <1>19, <1>20, <1>21 DEF h1, n, p

(* A later package ends later.                                             *)
LEMMA StartMonotone ==
  ASSUME NEW x \in 0..NumPkgs, NEW y \in 0..NumPkgs, x <= y
  PROVE  Start[x] \in Nat /\ Start[y] \in Nat /\ Start[x] <= Start[y]
<1>1. x \in Int /\ y \in Int /\ Start[x] \in Nat /\ Start[y] \in Nat
  BY StreamAssumption
<1>2. CASE x = y
  BY <1>1, <1>2
<1>3. CASE x < y
  <2>1. Start[y] > Start[x] + 4
    BY <1>3, StreamAssumption
  <2> QED
    BY <1>1, <2>1
<1> QED
  BY <1>1, <1>2, <1>3

(* The bytes of a stretch of the stream.                                   *)
LEMMA RawIsImage ==
  ASSUME NEW k \in 1..NumPkgs
  PROVE  Raw(Slice(Start[k - 1], PkgLen(k))) = Image(k)
<1> DEFINE a == Start[k - 1]
           N == Start[NumPkgs]
           len == Len(Image(k))
<1>1. /\ a \in Nat /\ len \in Nat /\ N \in Nat
      /\ Start[k] = a + len /\ PkgLen(k) = len /\ Start[k] <= N
  <2>1. k \in 0..NumPkgs /\ k - 1 \in 0..NumPkgs /\ NumPkgs \in 0..NumPkgs
    BY StreamAssumption
  <2>2. a \in Nat /\ Start[k] \in Nat /\ N \in Nat
    BY <2>1, StreamAssumption
  <2>3. len \in Nat
    BY ImageLayout
  <2>4. Start[k] = a + len
    BY PathAssumption
  <2>5. Start[k] <= N
    BY <2>1, StartMonotone
  <2> HIDE DEF a, len, N
  <2> QED
    BY <2>2, <2>3, <2>4, <2>5 DEF PkgLen, a
<1>2. ASSUME NEW j \in 1..len
      PROVE  a + j \in 1..N /\ Bytes[a + j] = Image(k)[j]
  <2> DEFINE i == a + j
             In(m) == Start[m - 1] < i /\ i <= Start[m]
             c == CHOOSE m \in 1..NumPkgs : In(m)
  <2>1. i \in 1..N /\ i - a = j
    BY <1>1
  <2>2. In(k)
    BY <1>1
  <2>3. c \in 1..NumPkgs /\ In(c)
    BY <2>2
  <2>4. c = k
    <3> HIDE DEF c, i
    <3>1. /\ c \in 0..NumPkgs /\ c - 1 \in 0..NumPkgs
          /\ k \in 0..NumPkgs /\ k - 1 \in 0..NumPkgs /\ i \in Int
      BY <2>1, <2>3, StreamAssumption
    <3>2. /\ Start[c] \in Nat /\ Start[c - 1] \in Nat
          /\ Start[k] \in Nat /\ Start[k - 1] \in Nat
      BY <3>1, StreamAssumption
    <3>4. ~(c <= k - 1)
      BY <2>2, <2>3, <3>1, <3>2, StartMonotone
    <3>5. ~(k <= c - 1)
      BY <2>2, <2>3, <3>1, <3>2, StartMonotone
    <3> QED
      BY <3>1, <3>4, <3>5
  <2>5. Bytes[i] = Image(c)[i - Start[c - 1]]
    BY <2>1 DEF Bytes
  <2> HIDE DEF c, i
  <2> QED
    BY <2>1, <2>4, <2>5 DEF i
<1> DEFINE s == SubSeq(Bytes, a + 1, a + len)
           T == {Bytes[i] : i \in 1..N}
<1>3. Bytes \in [1..N -> T]
  BY DEF Bytes
<1>4. /\ s \in Seq(T) /\ Len(s) = len
      /\ \A j \in 1..len : s[j] = Bytes[a + j]
  <2>1. a + len <= N
    BY <1>1
  <2> HIDE DEF a, len, N, T
  <2> QED
    BY <1>1, <1>3, <2>1, SubSeqParts
<1>5. s = Image(k)
  <2>1. PICK U : Image(k) \in Seq(U)
    BY ImageLayout
  <2>2. \A j \in 1..len : s[j] = Image(k)[j]
    BY <1>2, <1>4
  <2>3. Len(Image(k)) = len
    OBVIOUS
  <2> HIDE DEF s, len
  <2> QED
    BY <1>1, <1>4, <2>1, <2>2, <2>3
<1>6. Raw(Slice(Start[k - 1], PkgLen(k))) = s
  BY <1>1 DEF Raw, Slice
<1> QED
  BY <1>5, <1>6

(* A word read where its bytes lie.                                        *)
LEMMA WordAt ==
  ASSUME NEW v \in 0..(Word - 1), NEW raw, NEW at \in Nat,
         \A i \in 1..4 : raw[at + i] = BigEndian(v)[i]
  PROVE  Number(raw, at + 1) = v
<1>1. ASSUME NEW i \in 1..4
      PROVE  raw[(at + 1) + i - 1] = BigEndian(v)[i]
  <2>1. (at + 1) + i - 1 = at + i
    OBVIOUS
  <2> QED
    BY <2>1
<1>2. at + 1 \in Nat
  OBVIOUS
<1> QED
  BY <1>1, <1>2, WordRoundTrip

(* A decoded package is the one its image was made of, and its image       *)
(* begins with its length.                                                 *)
LEMMA DecodeRoundTrip ==
  ASSUME NEW k \in 1..NumPkgs
  PROVE  /\ Decode(Image(k)) = Printed(Sent[k])
         /\ Number(Image(k), 1) = Len(Image(k))
<1> DEFINE c == Sent[k]
           p == Printed(c)
           n == Len(p.m_bufParam)
           raw == Image(k)
<1>1. /\ n \in Nat
      /\ \E S : raw \in Seq(S)
      /\ Len(raw) = 32 + n
      /\ \A i \in 1..4 :
           /\ raw[i] = BigEndian(32 + n)[i]
           /\ raw[4 + i] = BigEndian(p.m_target)[i]
           /\ raw[8 + i] = BigEndian(p.m_source)[i]
           /\ raw[16 + i] = BigEndian(p.m_command)[i]
           /\ raw[20 + i] = BigEndian(p.m_tag)[i]
           /\ raw[24 + i] = BigEndian(n)[i]
      /\ raw[13] = 1
      /\ raw[14] = p.m_paramType
      /\ \A i \in 1..n : raw[28 + i] = p.m_bufParam[i]
  BY ImageLayout
<1>2. /\ p = [c EXCEPT !.m_bufParam = p.m_bufParam]
      /\ c = [m_target |-> c.m_target, m_source |-> c.m_source,
              m_version |-> 1, m_tag |-> c.m_tag,
              m_command |-> c.m_command,
              m_paramType |-> c.m_paramType,
              m_bufParam |-> c.m_bufParam,
              m_intParam |-> c.m_intParam,
              m_jsonroot |-> c.m_jsonroot]
      /\ c.m_target \in 0..(Word - 1)
      /\ c.m_source \in 0..(Word - 1)
      /\ c.m_tag \in 0..(Word - 1)
      /\ c.m_command \in 0..(Word - 1)
      /\ c.m_paramType \in 0..3
      /\ p.m_bufParam \in Seq(0..(Byte - 1))
      /\ c.m_paramType = 0 => p.m_bufParam = << >>
      /\ IF c.m_paramType = 1
         THEN Unsigned(Atoi(p.m_bufParam)) = c.m_intParam
         ELSE c.m_intParam = 0
      /\ IF c.m_paramType = 3
         THEN Parse(p.m_bufParam) = c.m_jsonroot
         ELSE c.m_jsonroot = NoDocument
  BY PrintedParts
<1>3. Word \in Nat /\ 32 + n < Word
  <2>1. Len(raw) < Word
    BY PathAssumption
  <2>2. Word \in Nat
    <3>1. Byte \in Nat
      BY ByteAssumption
    <3>2. Byte * Byte \in Nat
      BY <3>1
    <3>3. Byte * Byte * Byte \in Nat
      BY <3>1, <3>2
    <3> QED
      BY <3>1, <3>3 DEF Word
  <2> HIDE DEF raw, n
  <2> QED
    BY <1>1, <2>1, <2>2
<1> HIDE DEF c, p, n, raw
<1>17. n \in Nat /\ Len(raw) = 32 + n
  BY <1>1, Zenon
<1>18. \E S : raw \in Seq(S)
  BY <1>1, Zenon
<1>19. /\ \A i \in 1..4 : raw[i] = BigEndian(32 + n)[i]
       /\ \A i \in 1..4 : raw[4 + i] = BigEndian(p.m_target)[i]
       /\ \A i \in 1..4 : raw[8 + i] = BigEndian(p.m_source)[i]
       /\ \A i \in 1..4 : raw[16 + i] = BigEndian(p.m_command)[i]
       /\ \A i \in 1..4 : raw[20 + i] = BigEndian(p.m_tag)[i]
       /\ \A i \in 1..4 : raw[24 + i] = BigEndian(n)[i]
  BY <1>1, Zenon
<1>20. raw[13] = 1 /\ raw[14] = p.m_paramType
  BY <1>1, Zenon
<1>21. \A i \in 1..n : raw[28 + i] = p.m_bufParam[i]
  BY <1>1, Zenon
<1>4. /\ p = [m_target |-> c.m_target, m_source |-> c.m_source,
              m_version |-> 1, m_tag |-> c.m_tag,
              m_command |-> c.m_command,
              m_paramType |-> c.m_paramType,
              m_bufParam |-> p.m_bufParam,
              m_intParam |-> c.m_intParam,
              m_jsonroot |-> c.m_jsonroot]
  BY <1>2
<1>5. /\ p.m_target = c.m_target /\ p.m_source = c.m_source
      /\ p.m_tag = c.m_tag /\ p.m_command = c.m_command
      /\ p.m_paramType = c.m_paramType
  BY <1>4
<1>6. n \in 0..(Word - 1) /\ 32 + n \in 0..(Word - 1)
  BY <1>3, <1>17
<1>16. /\ c.m_target \in 0..(Word - 1) /\ c.m_source \in 0..(Word - 1)
       /\ c.m_tag \in 0..(Word - 1) /\ c.m_command \in 0..(Word - 1)
  BY <1>2
<1>7. Number(raw, 5) = c.m_target
  <2>1. \A i \in 1..4 : raw[4 + i] = BigEndian(c.m_target)[i]
    BY <1>5, <1>19, Zenon
  <2>2. Number(raw, 4 + 1) = c.m_target
    BY <1>16, <2>1, WordAt
  <2> QED
    BY <2>2
<1>8. Number(raw, 9) = c.m_source
  <2>1. \A i \in 1..4 : raw[8 + i] = BigEndian(c.m_source)[i]
    BY <1>5, <1>19, Zenon
  <2>2. Number(raw, 8 + 1) = c.m_source
    BY <1>16, <2>1, WordAt
  <2> QED
    BY <2>2
<1>9. Number(raw, 17) = c.m_command /\ Number(raw, 21) = c.m_tag
  <2>1. \A i \in 1..4 : raw[16 + i] = BigEndian(c.m_command)[i]
    BY <1>5, <1>19, Zenon
  <2>2. \A i \in 1..4 : raw[20 + i] = BigEndian(c.m_tag)[i]
    BY <1>5, <1>19, Zenon
  <2>3. Number(raw, 16 + 1) = c.m_command
    BY <1>16, <2>1, WordAt
  <2>4. Number(raw, 20 + 1) = c.m_tag
    BY <1>16, <2>2, WordAt
  <2> QED
    BY <2>3, <2>4
<1>10. Number(raw, 25) = n
  <2>1. \A i \in 1..4 : raw[24 + i] = BigEndian(n)[i]
    BY <1>19, Zenon
  <2>2. Number(raw, 24 + 1) = n
    BY <1>6, <2>1, WordAt
  <2> QED
    BY <2>2
<1>11. Number(raw, 1) = 32 + n
  <2>1. \A i \in 1..4 : raw[0 + i] = BigEndian(32 + n)[i]
    <3>1. \A i \in 1..4 : 0 + i = i
      OBVIOUS
    <3> QED
      BY <1>19, <3>1, Zenon
  <2>2. Number(raw, 0 + 1) = 32 + n
    BY <1>6, <2>1, WordAt
  <2> QED
    BY <2>2
<1>12. SubSeq(raw, 29, 28 + n) = p.m_bufParam
  <2>1. PICK S : raw \in Seq(S)
    BY <1>18, Zenon
  <2>2. raw \in [1..(32 + n) -> S]
    BY <1>17, <2>1
  <2> DEFINE s == SubSeq(raw, 28 + 1, 28 + n)
  <2>3. s \in Seq(S) /\ Len(s) = n /\ \A i \in 1..n : s[i] = raw[28 + i]
    <3>1. n \in Nat /\ 32 + n \in Nat /\ 28 \in Nat /\ 28 + n <= 32 + n
      BY <1>17
    <3> HIDE DEF s
    <3> QED
      BY <2>2, <3>1, SubSeqParts DEF s
  <2>4. Len(p.m_bufParam) = n /\ \A i \in 1..n : s[i] = p.m_bufParam[i]
    BY <1>21, <2>3, Zenon DEF n
  <2> HIDE DEF s
  <2>5. s = p.m_bufParam
    BY <1>2, <2>3, <2>4
  <2> QED
    BY <2>5 DEF s
<1>13. raw[14] = c.m_paramType /\ raw[13] = 1 /\ ~(Len(raw) <= 8)
  <2>1. ~(Len(raw) <= 8)
    BY <1>17
  <2> QED
    BY <1>5, <1>20, <2>1, Zenon
<1>14. ContentOf(raw, Number(raw, 5), Number(raw, 9))
         = [m_target |-> c.m_target, m_source |-> c.m_source,
            m_version |-> 1, m_paramType |-> c.m_paramType,
            m_command |-> c.m_command, m_tag |-> c.m_tag,
            m_bufParam |-> p.m_bufParam,
            m_intParam |-> c.m_intParam,
            m_jsonroot |-> c.m_jsonroot]
  <2> DEFINE param == IF c.m_paramType = 0 THEN << >>
                      ELSE SubSeq(raw, 29, 28 + Number(raw, 25))
  <2>1. param = p.m_bufParam
    BY <1>2, <1>10, <1>12
  <2>2. ContentOf(raw, Number(raw, 5), Number(raw, 9))
          = [m_target |-> Number(raw, 5), m_source |-> Number(raw, 9),
             m_version |-> raw[13], m_paramType |-> raw[14],
             m_command |-> Number(raw, 17), m_tag |-> Number(raw, 21),
             m_bufParam |-> param,
             m_intParam |-> IF c.m_paramType = 1
                            THEN Unsigned(Atoi(param)) ELSE 0,
             m_jsonroot |-> IF c.m_paramType = 3
                            THEN Parse(param) ELSE NoDocument]
    BY <1>13 DEF ContentOf, CMD_ARGUMENT_TYPE_NONE, CMD_ARGUMENT_TYPE_INT32,
                 CMD_ARGUMENT_TYPE_KEYVALUE
  <2> HIDE DEF param
  <2>3. /\ (IF c.m_paramType = 1 THEN Unsigned(Atoi(param)) ELSE 0)
             = c.m_intParam
        /\ (IF c.m_paramType = 3 THEN Parse(param) ELSE NoDocument)
             = c.m_jsonroot
    BY <1>2, <2>1
  <2> QED
    BY <1>7, <1>8, <1>9, <1>13, <2>1, <2>2, <2>3
<1>15. Decode(raw) = p
  BY <1>4, <1>13, <1>14 DEF Decode
<1> QED
  BY <1>11, <1>15, <1>17 DEF raw, p, c

-----------------------------------------------------------------------------
(* Only the reader pushes, one package for each it has cut out, and its    *)
(* n-th is numbered n.                                                     *)
PushesWhatIsCut ==
  /\ Len(pushed) = added[Reader]
  /\ \A k \in 1..Len(pushed) : pushed[k].num = k
  /\ added[Reader] <= Len(delivered)
  /\ place[Reader] = "push" => added[Reader] < Len(delivered)

PathIInv == IInv /\ QInv /\ PushesWhatIsCut

(* Reader and queue each take their own steps only.                        *)
LEMMA PathStepParts ==
  ASSUME [PathNext]_pathVars
  PROVE  [Next]_vars /\ [QueueNext]_queueVars
<1>1. CASE Receives
  BY <1>1 DEF Receives, Next
<1>2. CASE Cuts
  BY <1>2 DEF Cuts, Next
<1>3. CASE HandsOver
  BY <1>3, EndsAssumption, Zenon DEF HandsOver, QueueNext
<1>4. CASE Takes
  BY <1>4, EndsAssumption, Zenon DEF Takes, QueueNext
<1>5. CASE UNCHANGED pathVars
  BY <1>5 DEF pathVars
<1> QED
  BY <1>1, <1>2, <1>3, <1>4, <1>5 DEF PathNext

(* The reader never takes back what it has cut out.                        *)
LEMMA DeliveredGrows ==
  ASSUME IInv, IInv', [Next]_vars
  PROVE  Len(delivered) <= Len(delivered')
<1>1. delivered' = delivered \/ \E x : delivered' = Append(delivered, x)
  BY DEF Next, NextPackage, AddBuffer, NoHeader, Incomplete, Deliver, vars
<1>2. delivered \in Seq([at : Nat, len : Nat])
  BY DEF IInv, TypeOK
<1>3. ASSUME NEW x, delivered' = Append(delivered, x)
      PROVE  Len(delivered') = Len(delivered) + 1
  BY <1>2, <1>3
<1>4. Len(delivered) \in Nat
  BY <1>2
<1> QED
  BY <1>1, <1>3, <1>4

LEMMA InitPathIInv == PathInit => PathIInv
<1> SUFFICES ASSUME PathInit
             PROVE  PathIInv
  OBVIOUS
<1>1. IInv /\ QInv
  <2>1. Init /\ QueueInit
    BY DEF PathInit
  <2>2. IInv
    BY <2>1, InitIInv
  <2> QED
    BY <2>1, <2>2, InitQInv
<1>2. PushesWhatIsCut
  <2>1. Len(pushed) = 0 /\ Len(delivered) = 0
    BY DEF PathInit, Init, QueueInit
  <2>2. added[Reader] = 0 /\ place[Reader] = "idle"
    BY EndsAssumption DEF PathInit, QueueInit, Threads
  <2> QED
    BY <2>1, <2>2 DEF PushesWhatIsCut
<1> QED
  BY <1>1, <1>2 DEF PathIInv

LEMMA PushOnPath ==
  ASSUME PathIInv, Push(Reader), delivered' = delivered
  PROVE  PushesWhatIsCut'
<1> DEFINE n == added[Reader]
           package == [from |-> Reader, num |-> n + 1]
<1>1. /\ place[Reader] = "push" /\ pushed' = Append(pushed, package)
      /\ added' = [added EXCEPT ![Reader] = n + 1]
      /\ place' = [place EXCEPT ![Reader] = "signal"]
  BY DEF Push, Goto
<1>2. /\ pushed \in Seq(Packages) /\ n \in Nat
      /\ added'[Reader] = n + 1 /\ place'[Reader] = "signal"
  BY <1>1, EndsAssumption, BoundAssumption
  DEF PathIInv, QInv, QueueTypeOK, Threads
<1>3. Len(pushed) = n /\ n < Len(delivered)
      /\ \A k \in 1..n : pushed[k].num = k
  BY <1>1 DEF PathIInv, PushesWhatIsCut
<1>4. Len(delivered) \in Nat
  BY DEF PathIInv, IInv, TypeOK
<1> HIDE DEF n
<1>5. /\ Len(pushed') = Len(pushed) + 1
      /\ pushed'[Len(pushed) + 1] = package
      /\ \A k \in 1..Len(pushed) : pushed'[k] = pushed[k]
  BY <1>1, <1>2
<1>6. ASSUME NEW k \in 1..Len(pushed')
      PROVE  pushed'[k].num = k
  <2>1. CASE k = n + 1
    BY <1>3, <1>5, <2>1
  <2>2. CASE k \in 1..n
    BY <1>3, <1>5, <2>2
  <2> QED
    BY <1>2, <1>3, <1>5, <2>1, <2>2
<1> QED
  BY <1>2, <1>3, <1>4, <1>5, <1>6 DEF PushesWhatIsCut

LEMMA NextPathIInv == PathIInv /\ [PathNext]_pathVars => PathIInv'
<1> SUFFICES ASSUME PathIInv, [PathNext]_pathVars
             PROVE  PathIInv'
  OBVIOUS
<1>1. [Next]_vars /\ [QueueNext]_queueVars
  BY PathStepParts
<1>2. IInv' /\ QInv'
  BY <1>1, NextIInv, NextQInv DEF PathIInv
<1> SUFFICES PushesWhatIsCut'
  BY <1>2 DEF PathIInv
<1>3. Len(delivered) <= Len(delivered')
  BY <1>1, <1>2, DeliveredGrows DEF PathIInv
<1>4. /\ Len(delivered) \in Nat /\ Len(delivered') \in Nat
      /\ added[Reader] \in Nat
  BY <1>2, EndsAssumption, BoundAssumption
  DEF PathIInv, IInv, TypeOK, QInv, QueueTypeOK
<1>5. CASE UNCHANGED <<pushed, added>> /\ place'[Reader] = place[Reader]
  BY <1>3, <1>4, <1>5 DEF PathIInv, PushesWhatIsCut
<1>6. CASE UNCHANGED queueVars
  BY <1>5, <1>6 DEF queueVars
<1>7. CASE HandsOver
  <2>0. delivered' = delivered
    BY <1>7 DEF HandsOver, vars
  <2>1. CASE AddLock(Reader)
    <3>1. added[Reader] < Len(delivered)
      BY <1>7, <2>1 DEF HandsOver, InAddPackage, AddLock, Goto
    <3> QED
      BY <2>0, <2>1, <3>1 DEF AddLock, PathIInv, PushesWhatIsCut
  <2>2. CASE Push(Reader)
    BY <2>0, <2>2, PushOnPath
  <2>3. CASE Signal(Reader)
    <3>1. place'[Reader] = "idle"
      BY <2>3, EndsAssumption
      DEF Signal, Goto, PathIInv, QInv, QueueTypeOK, Threads
    <3> QED
      BY <2>0, <2>3, <3>1 DEF Signal, PathIInv, PushesWhatIsCut
  <2> QED
    BY <1>7, <2>1, <2>2, <2>3 DEF HandsOver, AddPackage
<1>8. CASE Takes
  <2>1. GetPackage(Processor)
    BY <1>8 DEF Takes
  <2>2. UNCHANGED <<pushed, added>>
    BY <2>1 DEF GetPackage, GetLock, ReadFront, Pop, Empty, Clock,
                TimedWait, WaitRefused, Timeout, WaitOver
  <2>3. /\ Reader # Processor /\ Reader \in Threads
        /\ place \in [Threads -> {"idle", "push", "signal", "front", "pop",
                                  "clock", "timedwait", "wait"}]
    BY EndsAssumption, ThreadAssumption
    DEF Threads, PathIInv, QInv, QueueTypeOK
  <2>4. place'[Reader] = place[Reader]
    BY <2>1, <2>3 DEF GetPackage, GetLock, ReadFront, Pop, Empty, Clock,
                      TimedWait, WaitRefused, Timeout, WaitOver, Goto
  <2> QED
    BY <1>5, <2>2, <2>4
<1> QED
  BY <1>6, <1>7, <1>8 DEF PathNext, Receives, Cuts, pathVars

LEMMA PathInvariant == PathSpec => []PathIInv
  BY InitPathIInv, NextPathIInv, PTL DEF PathSpec

(* The k-th package taken is the peer's k-th.                              *)
LEMMA TakenIsCut ==
  ASSUME PathIInv
  PROVE  /\ Len(taken) \in Nat /\ Len(pushed) \in Nat
         /\ Len(taken) + Len(m_data) = Len(pushed)
         /\ Len(pushed) <= Len(delivered) /\ Len(delivered) <= NumPkgs
         /\ \A k \in 1..Len(taken) :
              k \in 1..NumPkgs /\ TakenRaw(k) = Image(k)
<1>1. /\ taken \in Seq(Packages) /\ m_data \in Seq(Packages)
      /\ pushed \in Seq(Packages) /\ taken \o m_data = pushed
  BY DEF PathIInv, QInv, QueueTypeOK, ExactlyOnceInOrder
<1>2. /\ Len(taken \o m_data) = Len(taken) + Len(m_data)
      /\ \A i \in 1..Len(taken) : (taken \o m_data)[i] = taken[i]
  <2>1. taken \in Seq(Packages) /\ m_data \in Seq(Packages)
    BY <1>1
  <2> QED
    BY <2>1, ConcatParts
<1>3. Len(pushed) <= Len(delivered) /\ Len(delivered) <= NumPkgs
  BY DEF PathIInv, PushesWhatIsCut, IInv, FrontAtBoundary
<1>4. /\ Len(taken) \in Nat /\ Len(m_data) \in Nat /\ Len(pushed) \in Nat
      /\ Len(delivered) \in Nat /\ NumPkgs \in Nat
  BY <1>1, StreamAssumption DEF PathIInv, IInv, TypeOK
<1>5. ASSUME NEW k \in 1..Len(taken)
      PROVE  k \in 1..NumPkgs /\ TakenRaw(k) = Image(k)
  <2>1. k \in 1..Len(pushed) /\ k \in 1..Len(delivered) /\ k \in 1..NumPkgs
    BY <1>1, <1>2, <1>3, <1>4
  <2>2. taken[k].num = k
    BY <1>1, <1>2, <2>1 DEF PathIInv, PushesWhatIsCut
  <2>3. delivered[k] = Slice(Start[k - 1], PkgLen(k))
    BY <2>1 DEF PathIInv, IInv, PackagesIntact
  <2> QED
    BY <2>1, <2>2, <2>3, RawIsImage DEF TakenRaw
<1> QED
  BY <1>1, <1>2, <1>3, <1>4, <1>5

LEMMA TakenContents == PathIInv => ContentsArrive
<1> SUFFICES ASSUME PathIInv, NEW k \in 1..Len(taken)
             PROVE  /\ Received[k] = Printed(Sent[k])
                    /\ Number(TakenRaw(k), 1) = Len(TakenRaw(k))
  BY DEF ContentsArrive
<1>1. k \in 1..NumPkgs /\ TakenRaw(k) = Image(k)
  BY TakenIsCut
<1>2. Received[k] = Decode(Image(k))
  BY <1>1 DEF Received
<1> QED
  BY <1>1, <1>2, DecodeRoundTrip

-----------------------------------------------------------------------------
(* On the path the reader and the queue are what the theorems above are    *)
(* about.                                                                  *)
LEMMA PathSteps ==
  PathSpec => /\ Init /\ [][Next]_vars
              /\ QueueInit /\ [][QueueNext]_queueVars
<1>1. PathInit => Init /\ QueueInit
  BY DEF PathInit
<1>2. [PathNext]_pathVars => [Next]_vars /\ [QueueNext]_queueVars
  BY PathStepParts
<1> QED
  BY <1>1, <1>2, PTL DEF PathSpec

(* What holds of the reader alone holds of it on the path.                 *)
THEOREM ReaderHoldsOnPath ==
  PathSpec => [](PackagesIntact /\ NoneHeldBack /\ CacheBounded)
<1>1. IInv => PackagesIntact /\ NoneHeldBack /\ CacheBounded
  BY NothingHeldBack DEF IInv
<1> QED
  BY <1>1, PathSteps, InvariantHolds, PTL

(* And what holds of the queue.                                            *)
THEOREM QueueHoldsOnPath == PathSpec => []ExactlyOnceInOrder
<1>1. QInv => ExactlyOnceInOrder
  BY DEF QInv
<1> QED
  BY <1>1, PathSteps, QueueInvariant, PTL

(* Every field of every package reaches the processor as it was set.       *)
THEOREM EveryFieldArrives == PathSpec => []ContentsArrive
  BY TakenContents, PathInvariant, PTL

-----------------------------------------------------------------------------
(* What a push gets.  The lookups of a package come one after the other.   *)
LEMMA Lookups ==
  ASSUME NEW n \in Nat \ {0}
  PROVE  /\ Of(2 * n - 1) = Sent[n] /\ Key(2 * n - 1) = Url
         /\ Of(2 * n) = Sent[n] /\ Key(2 * n) = Path
<1>1. (2 * n - 1 + 1) \div 2 = n /\ (2 * n + 1) \div 2 = n
  OBVIOUS
<1>2. (2 * n - 1) % 2 = 1 /\ (2 * n) % 2 = 0
  OBVIOUS
<1> QED
  BY <1>1, <1>2 DEF Of, Key

LEMMA NamesNothing ==
  ASSUME NEW v, NEW i \in Nat, IsLastNamed(v, i), ~Names(i + 1)
  PROVE  IsLastNamed(v, i + 1)
<1>1. CASE v = 0 /\ \A n \in 1..i : ~Names(n)
  BY <1>1 DEF IsLastNamed
<1>2. ASSUME NEW j \in 1..i, Names(j), v = Of(j).m_jsonroot[Key(j)],
             \A n \in (j + 1)..i : ~Names(n)
      PROVE  IsLastNamed(v, i + 1)
  <2>1. j \in 1..(i + 1) /\ \A n \in (j + 1)..(i + 1) : ~Names(n)
    BY <1>2
  <2> QED
    BY <1>2, <2>1 DEF IsLastNamed
<1> QED
  BY <1>1, <1>2 DEF IsLastNamed

LEMMA NamesIt ==
  ASSUME NEW i \in Nat, Names(i + 1)
  PROVE  IsLastNamed(Of(i + 1).m_jsonroot[Key(i + 1)], i + 1)
<1>1. i + 1 \in 1..(i + 1) /\ ((i + 1) + 1)..(i + 1) = {}
  OBVIOUS
<1> QED
  BY <1>1 DEF IsLastNamed

(* One package: its two lookups, in their order.                           *)
LEMMA ProcessLastNamed ==
  ASSUME NEW n \in 1..NumPkgs, NEW s, IsLastNamed(s, 2 * n - 2)
  PROVE  LET push == Process(Printed(Sent[n]), s)
             doc == Sent[n].m_jsonroot
         IN  /\ IsLastNamed(push.last, 2 * n)
             /\ IsPush(Sent[n]) =>
                  /\ IsLastNamed(push.url, 2 * n - 1)
                  /\ IsLastNamed(push.path, 2 * n)
                  /\ push.size = IF Size \in DOMAIN doc THEN doc[Size] ELSE 0
<1> DEFINE c == Sent[n]
           doc == c.m_jsonroot
           r == Printed(c)
           push == Process(r, s)
<1>1. /\ r = [c EXCEPT !.m_bufParam = r.m_bufParam]
      /\ c = [m_target |-> c.m_target, m_source |-> c.m_source,
              m_version |-> 1, m_tag |-> c.m_tag,
              m_command |-> c.m_command,
              m_paramType |-> c.m_paramType,
              m_bufParam |-> c.m_bufParam,
              m_intParam |-> c.m_intParam,
              m_jsonroot |-> c.m_jsonroot]
      /\ IF c.m_paramType = 3
         THEN Parse(r.m_bufParam) = c.m_jsonroot
         ELSE c.m_jsonroot = NoDocument
  BY PrintedParts
<1>2. DOMAIN NoDocument = {}
  BY DEF NoDocument
<1> HIDE DEF c, r
<1>3. /\ r.m_paramType = c.m_paramType /\ r.m_jsonroot = doc
      /\ IsPush(r) <=> IsPush(c)
  BY <1>1 DEF IsPush
<1>4. \A key : Has(r, key) <=> key \in DOMAIN doc
  BY <1>1, <1>2, <1>3 DEF Has, CMD_ARGUMENT_TYPE_KEYVALUE
<1>5. n \in Nat \ {0} /\ 2 * n - 2 \in Nat /\ 2 * n - 1 \in Nat
      /\ 2 * n - 2 + 1 = 2 * n - 1 /\ 2 * n - 1 + 1 = 2 * n
  BY StreamAssumption
<1>6. /\ Of(2 * n - 1) = c /\ Key(2 * n - 1) = Url
      /\ Of(2 * n) = c /\ Key(2 * n) = Path
  BY <1>5, Lookups DEF c
<1>7. /\ Names(2 * n - 1) <=> IsPush(c) /\ Url \in DOMAIN doc
      /\ Names(2 * n) <=> IsPush(c) /\ Path \in DOMAIN doc
  BY <1>6 DEF Names
<1>8. CASE ~IsPush(c)
  <2>1. push.last = s
    BY <1>3, <1>8 DEF Process
  <2>2. IsLastNamed(s, 2 * n - 1)
    BY <1>5, <1>7, <1>8, NamesNothing
  <2>3. IsLastNamed(s, 2 * n)
    BY <1>5, <1>7, <1>8, <2>2, NamesNothing
  <2> QED
    BY <1>8, <2>1, <2>3 DEF c, r, push
<1>9. CASE IsPush(c)
  <2>1. push = PushFile(r, s)
    BY <1>3, <1>9 DEF Process
  <2>2. /\ push.url = IF Url \in DOMAIN doc THEN doc[Url] ELSE s
        /\ push.path = IF Path \in DOMAIN doc THEN doc[Path] ELSE push.url
        /\ push.size = IF Size \in DOMAIN doc THEN doc[Size] ELSE 0
        /\ push.last = push.path
    BY <1>3, <1>4, <2>1 DEF PushFile, GetStringValue, GetIntValue
  <2> HIDE DEF push
  <2>3. IsLastNamed(push.url, 2 * n - 1)
    <3>1. CASE Url \in DOMAIN doc
      BY <1>5, <1>6, <1>7, <1>9, <2>2, <3>1, NamesIt
    <3>2. CASE Url \notin DOMAIN doc
      BY <1>5, <1>7, <2>2, <3>2, NamesNothing
    <3> QED
      BY <3>1, <3>2
  <2>4. IsLastNamed(push.path, 2 * n)
    <3>1. CASE Path \in DOMAIN doc
      BY <1>5, <1>6, <1>7, <1>9, <2>2, <3>1, NamesIt
    <3>2. CASE Path \notin DOMAIN doc
      BY <1>5, <1>7, <2>2, <2>3, <3>2, NamesNothing
    <3> QED
      BY <3>1, <3>2
  <2> QED
    BY <2>2, <2>3, <2>4 DEF c, r, push
<1> QED
  BY <1>8, <1>9

(* The inductive form: the static is the last field named so far.          *)
FieldsIInv ==
  /\ \E S : fields \in Seq(S)
  /\ Len(fields) = Len(taken)
  /\ IsLastNamed(static, 2 * Len(taken))
  /\ PushTakesLastNamed

LEMMA InitFieldsIInv == PathInit => FieldsIInv
<1> SUFFICES ASSUME PathInit
             PROVE  FieldsIInv
  OBVIOUS
<1>1. fields = << >> /\ taken = << >> /\ static = 0
  BY DEF PathInit, QueueInit
<1>2. fields \in Seq({}) /\ Len(fields) = 0 /\ Len(taken) = 0
  BY <1>1
<1>3. IsLastNamed(0, 0)
  BY DEF IsLastNamed
<1> QED
  BY <1>1, <1>2, <1>3 DEF FieldsIInv, PushTakesLastNamed

TakenImages ==
  \A k \in 1..Len(taken) : k \in 1..NumPkgs /\ TakenRaw(k) = Image(k)

LEMMA TakenIsImages == PathIInv => TakenImages
  BY TakenIsCut DEF TakenImages

LEMMA TakesFieldsIInv ==
  ASSUME PathIInv, PathIInv', FieldsIInv, Takes, taken' # taken
  PROVE  FieldsIInv'
<1> DEFINE n == Len(taken) + 1
           push == Process(Printed(Sent[n]), static)
<1>1. Pop(Processor)
  BY DEF Takes, GetPackage, GetLock, ReadFront, Empty, Clock, TimedWait,
         WaitRefused, Timeout, WaitOver
<1>2. /\ taken \in Seq(Packages) /\ taken' = Append(taken, front[Processor])
      /\ delivered' = delivered /\ front[Processor] \in Packages
  <2>1. m_data # << >> /\ front[Processor] = Head(m_data)
    BY <1>1, EndsAssumption DEF Pop, Goto, PathIInv, QInv, FrontStays
  <2> QED
    BY <1>1, <2>1 DEF Pop, Takes, vars, PathIInv, QInv, QueueTypeOK
<1>3. /\ n \in Nat \ {0} /\ Len(taken') = n
      /\ taken'[n] = front[Processor]
  BY <1>2
<1>4. /\ n \in 1..NumPkgs
      /\ Raw(delivered'[taken'[n].num]) = Image(n)
  <2>1. n \in 1..Len(taken')
    BY <1>3
  <2>2. \A k \in 1..Len(taken') :
          k \in 1..NumPkgs /\ Raw(delivered'[taken'[k].num]) = Image(k)
    <3>1. TakenImages'
      BY TakenIsImages, PTL
    <3> QED
      BY <3>1 DEF TakenImages, TakenRaw
  <2> HIDE DEF n
  <2> QED
    BY <2>1, <2>2
<1>5. Raw(delivered[front[Processor].num]) = Image(n)
  BY <1>2, <1>3, <1>4
<1>6. Decode(Image(n)) = Printed(Sent[n])
  BY <1>4, DecodeRoundTrip
<1>7. static' = push.last /\ fields' = Append(fields, push)
  BY <1>5, <1>6 DEF Takes, Processes
<1>8. IsLastNamed(static, 2 * n - 2)
  <2>1. 2 * Len(taken) = 2 * n - 2
    BY <1>2
  <2> QED
    BY <2>1 DEF FieldsIInv
<1>9. /\ IsLastNamed(push.last, 2 * n)
      /\ IsPush(Sent[n]) =>
           LET doc == Sent[n].m_jsonroot
           IN  /\ IsLastNamed(push.url, 2 * n - 1)
               /\ IsLastNamed(push.path, 2 * n)
               /\ push.size = IF Size \in DOMAIN doc THEN doc[Size] ELSE 0
  BY <1>4, <1>8, ProcessLastNamed
<1> HIDE DEF push
<1>10. PICK S : fields \in Seq(S)
  BY DEF FieldsIInv
<1>11. /\ fields' \in Seq(S \cup {push}) /\ Len(fields') = n
       /\ fields'[n] = push
       /\ \A k \in 1..Len(fields) : fields'[k] = fields[k]
  <2>1. Len(fields) = Len(taken) /\ fields \in Seq(S \cup {push})
    BY <1>10 DEF FieldsIInv
  <2> QED
    BY <1>2, <1>7, <2>1
<1>12. PushTakesLastNamed'
  <2> SUFFICES ASSUME NEW k \in 1..Len(fields'), IsPush(Sent[k])
               PROVE  LET doc == Sent[k].m_jsonroot
                      IN  /\ IsLastNamed(fields'[k].url, 2 * k - 1)
                          /\ IsLastNamed(fields'[k].path, 2 * k)
                          /\ fields'[k].size = IF Size \in DOMAIN doc
                                               THEN doc[Size] ELSE 0
    BY DEF PushTakesLastNamed
  <2>1. CASE k = n
    BY <1>9, <1>11, <2>1
  <2>2. CASE k # n
    <3>1. k \in 1..Len(fields)
      BY <1>3, <1>11, <2>2 DEF FieldsIInv
    <3> QED
      BY <1>11, <3>1 DEF FieldsIInv, PushTakesLastNamed
  <2> QED
    BY <2>1, <2>2
<1> QED
  BY <1>3, <1>7, <1>9, <1>11, <1>12 DEF FieldsIInv

LEMMA NextFieldsIInv ==
  ASSUME PathIInv, PathIInv', FieldsIInv, [PathNext]_pathVars
  PROVE  FieldsIInv'
<1>1. CASE Takes /\ taken' # taken
  BY <1>1, TakesFieldsIInv
<1>2. CASE UNCHANGED <<static, fields, taken>>
  BY <1>2 DEF FieldsIInv, PushTakesLastNamed
<1>3. CASE HandsOver
  BY <1>2, <1>3 DEF HandsOver, AddPackage, AddLock, Push, Signal
<1> QED
  BY <1>1, <1>2, <1>3
  DEF PathNext, Receives, Cuts, Takes, pathVars, queueVars

(* A push gets the fields it names; for one that is missing it gets the    *)
(* field named last before.                                                *)
THEOREM PushesTakeLastNamed == PathSpec => []PushTakesLastNamed
<1>1. PathSpec => []FieldsIInv
  <2>1. PathIInv /\ PathIInv' /\ FieldsIInv /\ [PathNext]_pathVars
          => FieldsIInv'
    BY NextFieldsIInv
  <2> QED
    BY <2>1, InitFieldsIInv, PathInvariant, PTL DEF PathSpec
<1>2. FieldsIInv => PushTakesLastNamed
  BY DEF FieldsIInv
<1> QED
  BY <1>1, <1>2, PTL

(* The steps of reader, queue and processor are steps of one PackageStream *)
(* whose packages are handed over where the processor takes them.          *)
THEOREM ImplementsPackageStreamEndToEnd ==
  PathSpec => EndToEnd!Init /\ [][EndToEnd!Next]_(EndToEnd!streamVars)
<1>1. PathInit => EndToEnd!Init
  BY DEF PathInit, Init, QueueInit, EndToEnd!Init
<1>2. PathIInv /\ PathIInv' /\ [PathNext]_pathVars
        => [EndToEnd!Next]_(EndToEnd!streamVars)
  <2> SUFFICES ASSUME PathIInv, PathIInv', [PathNext]_pathVars
               PROVE  \/ EndToEnd!Next
                      \/ UNCHANGED <<received, Len(taken)>>
    BY DEF EndToEnd!streamVars
  <2>1. CASE Receives
    BY <2>1 DEF Receives, AddBuffer, queueVars, EndToEnd!Next,
                EndToEnd!Arrive
  <2>2. CASE Cuts
    BY <2>2 DEF Cuts, NextPackage, NoHeader, Incomplete, Deliver, queueVars
  <2>3. CASE HandsOver
    BY <2>3 DEF HandsOver, AddPackage, AddLock, Push, Signal, vars
  <2>4. CASE Takes /\ ~Pop(Processor)
    BY <2>4 DEF Takes, vars, GetPackage, GetLock, ReadFront, Empty, Clock,
                TimedWait, WaitRefused, Timeout, WaitOver
  <2>5. CASE Takes /\ Pop(Processor)
    <3>1. received' = received /\ taken' = Append(taken, front[Processor])
      BY <2>5 DEF Takes, vars, Pop
    <3>2. m_data # << >> /\ m_data \in Seq(Packages)
          /\ taken \in Seq(Packages)
      BY <2>5, EndsAssumption
      DEF Pop, Goto, PathIInv, QInv, FrontStays, QueueTypeOK
    <3>3. Len(m_data) \in Nat /\ Len(m_data) > 0
          /\ Len(taken') = Len(taken) + 1
      BY <3>1, <3>2
    <3>4. /\ Len(taken) \in Nat
          /\ Len(taken) + Len(m_data) = Len(pushed)
          /\ Len(pushed) <= Len(delivered) /\ Len(delivered) <= NumPkgs
      BY TakenIsCut
    <3>5. /\ Len(delivered) \in 0..NumPkgs /\ head \in Nat
          /\ m_cachedSize \in Nat /\ received = head + m_cachedSize
          /\ head = Start[Len(delivered)] /\ NumPkgs \in Nat
      BY StreamAssumption DEF PathIInv, IInv, TypeOK, FrontAtBoundary
    <3>6. Len(taken) + 1 \in 0..NumPkgs /\ Len(taken) + 1 <= Len(delivered)
          /\ Len(taken) < NumPkgs
      BY <3>3, <3>4, <3>5
    <3>7. Start[Len(taken) + 1] <= received
      <4>1. /\ Start[Len(taken) + 1] \in Nat
            /\ Start[Len(taken) + 1] <= Start[Len(delivered)]
        BY <3>5, <3>6, StartMonotone
      <4> QED
        BY <3>5, <4>1
    <3> QED
      BY <3>1, <3>3, <3>6, <3>7 DEF EndToEnd!Next, EndToEnd!HandOver
  <2>6. CASE UNCHANGED pathVars
    BY <2>6 DEF pathVars, vars, queueVars
  <2> QED
    BY <2>1, <2>2, <2>3, <2>4, <2>5, <2>6 DEF PathNext
<1> QED
  BY <1>1, <1>2, PathInvariant, PTL DEF PathSpec
=============================================================================
