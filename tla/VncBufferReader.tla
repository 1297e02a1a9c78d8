-------------------------- MODULE VncBufferReader --------------------------
(***************************************************************************)
(* The framing of the inbound byte stream (VncBufferReader.cpp).  The      *)
(* reader thread passes whatever recv() returned to addBuffer(), which     *)
(* appends it to a cache and, while more than four bytes are cached, reads *)
(* the big-endian length at the front once (m_haveGotSize), waits for that *)
(* many bytes and hands the package to the inbound queue.  The queue is    *)
(* read by another thread, so each turn of the loop is a step of its own.  *)
(*                                                                         *)
(* The bytes are abstracted to their place in the peer's stream: package k *)
(* occupies the offsets Start[k-1] .. Start[k]-1, and the cache holds the  *)
(* m_cachedSize stream bytes from offset head on.                          *)
(***************************************************************************)
EXTENDS Integers, Sequences

CONSTANTS NumPkgs,     \* number of packages in the peer's stream
          Start,       \* Start[k]: stream offset just after package k
          MaxRead,     \* size of the buffer recv() fills
          InitAlloc    \* initial size of the cache

(* The peer writes well-formed packages.  Each is longer than the four     *)
(* bytes of its length field (makeNewProtocolBuffer never builds one below *)
(* PKG_FIXED_PART_SIZE = 32).                                              *)
ASSUME StreamAssumption ==
  /\ NumPkgs \in Nat
  /\ Start \in [0..NumPkgs -> Nat]
  /\ Start[0] = 0
  /\ \A i, j \in 0..NumPkgs : i < j => Start[j] > Start[i] + 4
  /\ MaxRead \in Nat \ {0}
  /\ InitAlloc \in Nat

VARIABLES received,       \* stream bytes given to addBuffer so far
          pc,             \* "idle" (no call) or "next_package" (in the loop)
          head,           \* stream offset of m_cacheBuff[0]
          m_cachedSize, m_allocSize, m_pkgSize, m_haveGotSize,
          delivered       \* the slices passed to m_commandIn->addPackage

vars == <<received, pc, head, m_cachedSize, m_allocSize, m_pkgSize,
          m_haveGotSize, delivered>>

PkgLen(k) == Start[k] - Start[k - 1]
Slice(at, len) == [at |-> at, len |-> len]

(* What the four bytes at an offset decode to: the package's length where  *)
(* a package starts, anything elsewhere.                                   *)
Header(at) ==
  IF \E k \in 1..NumPkgs : Start[k - 1] = at
  THEN {PkgLen(k) : k \in {i \in 1..NumPkgs : Start[i - 1] = at}}
  ELSE 0..Start[NumPkgs]

Init ==
  /\ received = 0
  /\ pc = "idle"
  /\ head = 0
  /\ m_cachedSize = 0
  /\ m_allocSize = InitAlloc
  /\ m_pkgSize = 0
  /\ m_haveGotSize = FALSE
  /\ delivered = << >>

(* Faulty: doubling, which one large read outruns.                         *)
GrownTwofold(need) ==
  IF m_allocSize < need THEN 2 * m_allocSize ELSE m_allocSize

(* The cache grows to exactly what is needed and never shrinks.            *)
Grown(need) == IF m_allocSize < need THEN need ELSE m_allocSize

(* recv() returned n > 0 bytes and addBuffer appended them.                *)
AddBuffer(n) ==
  /\ pc = "idle"
  /\ received + n <= Start[NumPkgs]
  /\ received' = received + n
  /\ m_allocSize' = Grown(m_cachedSize + n)
  /\ m_cachedSize' = m_cachedSize + n
  /\ pc' = "next_package"
  /\ UNCHANGED <<head, m_pkgSize, m_haveGotSize, delivered>>

(* Too little is cached to hold a length field and a byte more.            *)
NoHeader ==
  /\ pc = "next_package"
  /\ m_cachedSize <= 4
  /\ pc' = "idle"
  /\ UNCHANGED <<received, head, m_cachedSize, m_allocSize, m_pkgSize,
                 m_haveGotSize, delivered>>

(* The length of the package at the front: remembered, or read now.        *)
FrontSize == IF m_haveGotSize THEN {m_pkgSize} ELSE Header(head)

(* Faulty: complete although the four bytes of the length are missing.     *)
CompleteBody(size) == m_cachedSize + 4 >= size

Complete(size) == m_cachedSize >= size

(* The package is not complete: remember its length, return to recv().     *)
Incomplete ==
  /\ pc = "next_package"
  /\ m_cachedSize > 4
  /\ \E size \in FrontSize :
       /\ ~Complete(size)
       /\ m_pkgSize' = size
  /\ m_haveGotSize' = TRUE
  /\ pc' = "idle"
  /\ UNCHANGED <<received, head, m_cachedSize, m_allocSize, delivered>>

(* Faulty: the bytes behind the package stay where they are.               *)
MoveNothing(size) ==
  /\ head' = head
  /\ m_cachedSize' = m_cachedSize - size

(* After moveData the cache starts at the first byte behind the package.   *)
MoveData(size) ==
  /\ head' = head + size
  /\ m_cachedSize' = m_cachedSize - size

(* Faulty: one package per call.                                           *)
ReturnAtOnce(left) == "idle"

(* The goto: round again if more than four bytes are left.                 *)
AfterPackage(left) == IF left > 4 THEN "next_package" ELSE "idle"

(* The package is complete: hand it over, unless its length is zero, and   *)
(* drop its bytes.                                                         *)
Deliver ==
  /\ pc = "next_package"
  /\ m_cachedSize > 4
  /\ \E size \in FrontSize :
       /\ Complete(size)
       /\ m_pkgSize' = size
       /\ delivered' = IF size # 0
                       THEN Append(delivered, Slice(head, size))
                       ELSE delivered
       /\ MoveData(size)
  /\ m_haveGotSize' = FALSE
  /\ pc' = AfterPackage(m_cachedSize')
  /\ UNCHANGED <<received, m_allocSize>>

NextPackage == NoHeader \/ Incomplete \/ Deliver

Next == (\E n \in 1..MaxRead : AddBuffer(n)) \/ NextPackage

(* addBuffer runs to its end once called; nothing makes the peer send.     *)
Spec == Init /\ [][Next]_vars /\ WF_vars(NextPackage)
-----------------------------------------------------------------------------
TypeOK ==
  /\ received \in Nat
  /\ pc \in {"idle", "next_package"}
  /\ head \in Nat
  /\ m_cachedSize \in Nat
  /\ m_allocSize \in Nat
  /\ m_pkgSize \in Nat
  /\ m_haveGotSize \in BOOLEAN
  /\ delivered \in Seq([at : Nat, len : Nat])

(* However recv() splits the stream, what reaches the inbound queue is a   *)
(* prefix of the peer's packages: in order, whole, none twice, and none    *)
(* made of the bytes of two (addBuffer, lines 55-82).                      *)
PackagesIntact ==
  /\ Len(delivered) <= NumPkgs
  /\ \A k \in 1..Len(delivered) :
       delivered[k] = Slice(Start[k - 1], PkgLen(k))

(* When addBuffer has returned, no complete package is left behind in the  *)
(* cache: it would stay there until the peer's next byte (the goto of line *)
(* 78, the >= of line 66).                                                 *)
NoneHeldBack ==
  pc = "idle" =>
    \A k \in 1..NumPkgs : Start[k] <= received => Len(delivered) >= k

(* The length remembered across calls is that of the package at the front, *)
(* never that of one already delivered.                                    *)
SizeIsFresh ==
  m_haveGotSize =>
    /\ Len(delivered) < NumPkgs
    /\ m_pkgSize = PkgLen(Len(delivered) + 1)

(* Appending never writes past the allocation, and the allocation stays    *)
(* within one incomplete package plus one read.                            *)
CacheBounded ==
  /\ m_cachedSize <= m_allocSize
  /\ \/ m_allocSize <= InitAlloc
     \/ \E k \in 1..NumPkgs : m_allocSize < PkgLen(k) + MaxRead

(* What addBuffer implements; PackagePath goes on to the processor.        *)
Stream == INSTANCE PackageStream WITH handed <- Len(delivered)
=============================================================================
