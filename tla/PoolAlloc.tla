------------------------------ MODULE PoolAlloc ------------------------------
(***************************************************************************)
(* TPoolAllocator (MachineIndependent/PoolAlloc.cpp), the allocator under  *)
(* every symbol, node and string of a compile.  Memory comes in blocks: a  *)
(* page of PageSize bytes shared by small allocations, or a block of its   *)
(* own for an allocation that fits no page.  push() marks the pool; pop()  *)
(* gives up everything allocated since the mark and goes back to filling   *)
(* the page that was current then; pages are kept for reuse, larger blocks *)
(* go back to the heap.                                                    *)
(*                                                                         *)
(* The release build is modelled: guard blocks have no bytes.  One thread  *)
(* uses a pool, so an operation is one step.  The order of the free list   *)
(* is left out: any free page may be taken.                                *)
(***************************************************************************)
EXTENDS Integers, Sequences, FiniteSets

CONSTANTS Blocks,      \* the blocks the heap can hand out (operator new)
          NoBlock,     \* nullptr
          PageSize,    \* granularity of allocation from the OS
          HeaderSkip,  \* bytes of the header, rounded up to be aligned
          Alignment,   \* all allocations are aligned at this
          Sizes        \* the sizes callers ask for

ASSUME PoolAssumption ==
  /\ NoBlock \notin Blocks
  /\ Alignment \in Nat \ {0}
  /\ HeaderSkip \in Nat \ {0} /\ HeaderSkip % Alignment = 0
  /\ PageSize \in Nat /\ HeaderSkip < PageSize
  /\ Sizes \subseteq Nat

VARIABLES
  inUseList,          \* all memory being used, the current block last
  freeList,           \* pages that were popped
  pageCount,          \* block -> the page count in its header
  bytes,              \* block -> bytes obtained from the heap, 0 if none
  currentPageOffset,  \* next offset in the current page to allocate from
  stack,              \* where to allocate from after each pop
  frames              \* history: the regions callers hold, by mark

allocVars == <<inUseList, freeList, pageCount, bytes, currentPageOffset, stack, frames>>
headers == <<pageCount, bytes>>

-------------------------------------------------------------------------------
InUse == {inUseList[i] : i \in DOMAIN inUseList}
Current == IF inUseList = <<>> THEN NoBlock ELSE inUseList[Len(inUseList)]

\* How many blocks of the list remain when it is popped down to block b.
Depth(b) == IF b = NoBlock THEN 0
            ELSE CHOOSE i \in DOMAIN inUseList : inUseList[i] = b

Region(b, from, n) == [page |-> b, from |-> from, to |-> from + n]
Live == UNION {frames[f] : f \in DOMAIN frames}

\* (offset + alignmentMask) & ~alignmentMask, for a power of two.
RoundDown(n) == (n \div Alignment) * Alignment
RoundUp(n) == ((n + Alignment - 1) \div Alignment) * Alignment

\* The test for the common case, and the one for a block of its own.
FitsOneOver(n) == currentPageOffset + n <= PageSize + 1
Fits(n) == currentPageOffset + n <= PageSize

TooBigSansHeader(n) == n > PageSize
TooBig(n) == n + HeaderSkip > PageSize

PagesFor(n) == (n + HeaderSkip + PageSize - 1) \div PageSize

\* What pop() does with a block: back to the heap, or on the free list.
KeepAll(b) == FALSE
ToHeap(b) == pageCount[b] > 1

\* The offset that makes the next allocation come from a new block.
NewPageNext == PageSize

AfterMark == NewPageNext

\* A reused page leaves the free list.
LeaveOnList(b) == freeList
Unlink(b) == freeList \ {b}

DownTo(i) == Depth(stack[i].page)

\* Which offset a pop restores.
RestoreOffset(i) == stack[i].offset

\* stack.pop_back() once the blocks are given up.
DropMark(i) == SubSeq(stack, 1, i - 1)

\* The regions allocated while stack is empty belong to frame 1, those
\* allocated since push number i to frame i + 1.
Held(b, from, n) ==
  IF n = 0 THEN frames
  ELSE [frames EXCEPT ![Len(frames)] = @ \union {Region(b, from, n)}]

-------------------------------------------------------------------------------
(* The constructor ends in a push().                                         *)
PoolInit ==
  /\ inUseList = <<>> /\ freeList = {}
  /\ pageCount = [b \in Blocks |-> 0] /\ bytes = [b \in Blocks |-> 0]
  /\ currentPageOffset = PageSize
  /\ stack = <<[offset |-> PageSize, page |-> NoBlock]>>
  /\ frames = <<{}, {}>>

PushMark ==
  /\ stack' = Append(stack, [offset |-> currentPageOffset, page |-> Current])
  /\ currentPageOffset' = AfterMark
  /\ frames' = Append(frames, {})
  /\ UNCHANGED <<inUseList, freeList, headers>>

(* Pops the pool down to mark i: gives up the blocks above the marked one.   *)
PopTo(i) ==
  LET keep == DownTo(i)
      given == {inUseList[k] : k \in keep + 1 .. Len(inUseList)}
      heap == {b \in given : ToHeap(b)} IN
  /\ inUseList' = SubSeq(inUseList, 1, keep)
  /\ freeList' = freeList \union (given \ heap)
  /\ bytes' = [b \in Blocks |-> IF b \in heap THEN 0 ELSE bytes[b]]
  /\ currentPageOffset' = RestoreOffset(i)
  /\ stack' = DropMark(i)
  /\ frames' = SubSeq(frames, 1, i)
  /\ UNCHANGED pageCount

Pop == stack # <<>> /\ PopTo(Len(stack))

\* Without a mark pop() returns, popAll() has nothing to do.
PopEmpty == stack = <<>> /\ UNCHANGED allocVars

PopAll == stack # <<>> /\ PopTo(1)

AllocateInPage(n) ==
  /\ Fits(n)
  /\ currentPageOffset' = RoundUp(currentPageOffset + n)
  /\ frames' = Held(Current, currentPageOffset, n)
  /\ UNCHANGED <<inUseList, freeList, headers, stack>>

AllocateLarge(n) ==
  /\ ~Fits(n) /\ TooBig(n)
  /\ \E b \in Blocks :
       /\ bytes[b] = 0
       /\ bytes' = [bytes EXCEPT ![b] = n + HeaderSkip]
       /\ pageCount' = [pageCount EXCEPT ![b] = PagesFor(n)]
       /\ inUseList' = Append(inUseList, b)
       /\ frames' = Held(b, HeaderSkip, n)
  /\ currentPageOffset' = NewPageNext
  /\ UNCHANGED <<freeList, stack>>

\* A page from the free list if there is one, else from the heap.
Usable == IF freeList # {} THEN freeList ELSE {b \in Blocks : bytes[b] = 0}

AllocatePage(n) ==
  /\ ~Fits(n) /\ ~TooBig(n)
  /\ \E b \in Usable :
       /\ freeList' = Unlink(b)
       /\ bytes' = [bytes EXCEPT ![b] = IF b \in freeList THEN @ ELSE PageSize]
       /\ pageCount' = [pageCount EXCEPT ![b] = 1]
       /\ inUseList' = Append(inUseList, b)
       /\ frames' = Held(b, HeaderSkip, n)
  /\ currentPageOffset' = RoundUp(HeaderSkip + n)
  /\ UNCHANGED stack

Allocate(n) == AllocateInPage(n) \/ AllocateLarge(n) \/ AllocatePage(n)

PoolNext ==
  \/ PushMark \/ Pop \/ PopEmpty \/ PopAll
  \/ \E n \in Sizes : Allocate(n)

PoolSpec == PoolInit /\ [][PoolNext]_allocVars

-------------------------------------------------------------------------------
(* Types of the allocator's fields; there is one frame of callers' regions   *)
(* more than there are marks.                                                *)
PoolTypeOK ==
  /\ inUseList \in Seq(Blocks)
  /\ freeList \subseteq Blocks
  /\ pageCount \in [Blocks -> Nat] /\ bytes \in [Blocks -> Nat]
  /\ currentPageOffset \in Nat
  /\ stack \in Seq([offset : Nat, page : Blocks \union {NoBlock}])
  /\ frames \in Seq(SUBSET [page : Blocks, from : Nat, to : Nat])
  /\ Len(frames) = Len(stack) + 1

(* Every block obtained from the heap is on exactly one of the two lists,    *)
(* once: nothing leaks and no block is handed out twice.                     *)
BlocksPartitioned ==
  /\ \A i, j \in DOMAIN inUseList : inUseList[i] = inUseList[j] => i = j
  /\ InUse \intersect freeList = {}
  /\ InUse \union freeList = {b \in Blocks : bytes[b] > 0}

(* What callers hold lies behind the header of a block that is in use, ends  *)
(* in it and is aligned.                                                     *)
HeldInsideBlock ==
  \A r \in Live :
    /\ r.page \in InUse
    /\ HeaderSkip <= r.from /\ r.to <= bytes[r.page]
    /\ r.from % Alignment = 0

(* The lists and the callers agree on the heap.                              *)
HeapInOrder == BlocksPartitioned /\ HeldInsideBlock

(* The inductive invariant behind HeapInOrder and the refinement.            *)

\* A page is told from a larger block by its page count alone.
PagesTell ==
  /\ \A b \in freeList : bytes[b] = PageSize
  /\ \A b \in InUse : ~ToHeap(b) => bytes[b] = PageSize

\* What is allocated at an offset in block b, under the first n frames, lies
\* behind everything that these frames hold there.
RoomAt(b, offset, n) ==
  offset < PageSize =>
    /\ b \in InUse /\ bytes[b] = PageSize
    /\ HeaderSkip <= offset /\ offset % Alignment = 0
    /\ \A f \in 1 .. n : \A r \in frames[f] : r.page = b => r.to <= offset

RoomInCurrent == RoomAt(Current, currentPageOffset, Len(frames))

\* A mark is at a block that is in use, no deeper than an earlier mark's, and
\* what was held when it was set lies in the blocks up to that one.
MarksInOrder ==
  \A i \in DOMAIN stack :
    /\ stack[i].page \in InUse \union {NoBlock}
    /\ \A j \in 1 .. i : Depth(stack[j].page) <= Depth(stack[i].page)
    /\ \A f \in 1 .. i : \A r \in frames[f] : Depth(r.page) <= Depth(stack[i].page)
    /\ RoomAt(stack[i].page, stack[i].offset, i)

PoolIInv ==
  PoolTypeOK /\ HeapInOrder /\ PagesTell /\ RoomInCurrent /\ MarksInOrder

(* The allocator implements a mark-and-release store of regions.             *)
MarkReleaseStore == INSTANCE MarkRelease
MarkReleaseSpec == MarkReleaseStore!Spec
=============================================================================
