---------------------------- MODULE PoolAllocProofs ----------------------------
(***************************************************************************)
(* Proofs about PoolAlloc, for any number of blocks, any page size, header *)
(* and alignment, and any sizes that callers ask for.                      *)
(***************************************************************************)
EXTENDS PoolAlloc, SequenceTheorems, TLAPS

Regions == [page : Blocks, from : Nat, to : Nat]

(***************************************************************************)
(* Offsets and page counts.                                                *)
(***************************************************************************)

\* Rounding up gives an aligned offset that is not below its argument.
LEMMA RoundUpFacts ==
  ASSUME NEW n \in Nat
  PROVE  RoundUp(n) \in Nat /\ RoundUp(n) >= n /\ RoundUp(n) % Alignment = 0
BY PoolAssumption, SMT DEF PoolAssumption, RoundUp

\* A block of its own counts as more than one page (tAllocState::allocate).
LEMMA PagesForFacts ==
  ASSUME NEW n \in Nat, TooBig(n)
  PROVE  PagesFor(n) \in Nat /\ PagesFor(n) > 1
BY PoolAssumption, SMT DEF PoolAssumption, PagesFor, TooBig

\* The first k elements of a sequence.
LEMMA CutFacts ==
  ASSUME NEW S, NEW s \in Seq(S), NEW k \in 0 .. Len(s)
  PROVE  /\ SubSeq(s, 1, k) \in Seq(S) /\ Len(SubSeq(s, 1, k)) = k
         /\ \A i \in 1 .. k : SubSeq(s, 1, k)[i] = s[i]
         /\ DOMAIN SubSeq(s, 1, k) = 1 .. k
<1>1. /\ SubSeq(s, 1, k) \in Seq(S) /\ Len(SubSeq(s, 1, k)) = (IF 1 <= k THEN k - 1 + 1 ELSE 0)
      /\ \A i \in 1 .. k - 1 + 1 : SubSeq(s, 1, k)[i] = s[1 + i - 1]
  BY SubSeqProperties
<1> QED BY <1>1, LenProperties

(***************************************************************************)
(* The depth of a block in a list without repetitions.                     *)
(***************************************************************************)

DepthIn(list, b) ==
  IF b = NoBlock THEN 0 ELSE CHOOSE i \in DOMAIN list : list[i] = b

Members(list) == {list[i] : i \in DOMAIN list}
Unique(list) == \A i, j \in DOMAIN list : list[i] = list[j] => i = j

LEMMA DepthIs ==
  /\ \A b : Depth(b) = DepthIn(inUseList, b)
  /\ InUse = Members(inUseList)
BY DEF Depth, DepthIn, InUse, Members

LEMMA DepthFacts ==
  ASSUME NEW list \in Seq(Blocks), Unique(list)
  PROVE  /\ DepthIn(list, NoBlock) = 0
         /\ \A b \in Members(list) :
              DepthIn(list, b) \in 1 .. Len(list) /\ list[DepthIn(list, b)] = b
         /\ \A i \in 1 .. Len(list) : DepthIn(list, list[i]) = i
         /\ Members(list) \subseteq Blocks
<1>1. NoBlock \notin Blocks
  BY PoolAssumption DEF PoolAssumption
<1>2. DOMAIN list = 1 .. Len(list) /\ Members(list) \subseteq Blocks
  BY DEF Members
<1>3. ASSUME NEW b \in Members(list)
      PROVE  DepthIn(list, b) \in 1 .. Len(list) /\ list[DepthIn(list, b)] = b
  <2>1. \E i \in DOMAIN list : list[i] = b
    BY DEF Members
  <2> QED BY <1>1, <1>2, <2>1 DEF DepthIn
<1>4. \A i \in 1 .. Len(list) : DepthIn(list, list[i]) = i
  BY <1>2, <1>3 DEF Members, Unique
<1> QED BY <1>2, <1>3, <1>4 DEF DepthIn

\* A block put at the end of the list leaves the depth of the others alone.
LEMMA DepthAppend ==
  ASSUME NEW list \in Seq(Blocks), Unique(list), NEW b \in Blocks, b \notin Members(list)
  PROVE  /\ Unique(Append(list, b))
         /\ Members(Append(list, b)) = Members(list) \union {b}
         /\ DepthIn(Append(list, b), b) = Len(list) + 1
         /\ \A c \in Members(list) \union {NoBlock} :
              DepthIn(Append(list, b), c) = DepthIn(list, c)
<1> DEFINE longer == Append(list, b)
<1>1. /\ longer \in Seq(Blocks) /\ Len(longer) = Len(list) + 1 /\ longer[Len(list) + 1] = b
      /\ \A i \in 1 .. Len(list) : longer[i] = list[i]
      /\ DOMAIN list = 1 .. Len(list) /\ DOMAIN longer = 1 .. Len(list) + 1
  BY AppendProperties, LenProperties
<1> HIDE DEF longer
<1>2. Unique(longer)
  BY <1>1 DEF Unique, Members
<1>3. Members(longer) = Members(list) \union {b}
  BY <1>1 DEF Members
<1>4. ASSUME NEW c \in Members(list) PROVE DepthIn(longer, c) = DepthIn(list, c)
  <2>1. DepthIn(list, c) \in 1 .. Len(list) /\ list[DepthIn(list, c)] = c
    BY DepthFacts
  <2>2. longer[DepthIn(list, c)] = c /\ DepthIn(list, c) \in 1 .. Len(longer)
    BY <1>1, <2>1
  <2> QED BY <1>1, <1>2, <2>2, DepthFacts
<1>5. DepthIn(longer, b) = Len(list) + 1
  BY <1>1, <1>2, DepthFacts
<1>6. DepthIn(longer, NoBlock) = DepthIn(list, NoBlock)
  BY DEF DepthIn
<1> QED BY <1>2, <1>3, <1>4, <1>5, <1>6 DEF longer

\* Cutting the list at depth k keeps the blocks up to k, at their depths.
LEMMA DepthCut ==
  ASSUME NEW list \in Seq(Blocks), Unique(list), NEW k \in 0 .. Len(list)
  PROVE  /\ SubSeq(list, 1, k) \in Seq(Blocks) /\ Len(SubSeq(list, 1, k)) = k
         /\ Unique(SubSeq(list, 1, k))
         /\ \A b \in Members(list) :
              b \in Members(SubSeq(list, 1, k)) <=> DepthIn(list, b) <= k
         /\ Members(SubSeq(list, 1, k)) \subseteq Members(list)
         /\ \A b \in Members(SubSeq(list, 1, k)) \union {NoBlock} :
              DepthIn(SubSeq(list, 1, k), b) = DepthIn(list, b)
         /\ k > 0 => SubSeq(list, 1, k)[k] = list[k]
<1> DEFINE cut == SubSeq(list, 1, k)
<1>1. /\ cut \in Seq(Blocks) /\ Len(cut) = k
      /\ \A i \in 1 .. k : cut[i] = list[i]
      /\ DOMAIN list = 1 .. Len(list) /\ DOMAIN cut = 1 .. k
  BY CutFacts, LenProperties
<1> HIDE DEF cut
<1>2. Unique(cut)
  BY <1>1 DEF Unique
<1>3. Members(cut) \subseteq Members(list)
  BY <1>1 DEF Members
<1>4. ASSUME NEW b \in Members(list)
      PROVE  b \in Members(cut) <=> DepthIn(list, b) <= k
  <2>1. DepthIn(list, b) \in 1 .. Len(list) /\ list[DepthIn(list, b)] = b
    BY DepthFacts
  <2> QED BY <1>1, <2>1 DEF Members, Unique
<1>5. ASSUME NEW b \in Members(cut) PROVE DepthIn(cut, b) = DepthIn(list, b)
  <2>1. DepthIn(cut, b) \in 1 .. k /\ cut[DepthIn(cut, b)] = b
    BY <1>1, <1>2, DepthFacts
  <2>2. list[DepthIn(cut, b)] = b /\ DepthIn(cut, b) \in 1 .. Len(list)
    BY <1>1, <2>1
  <2> QED BY <2>2, DepthFacts
<1>6. DepthIn(cut, NoBlock) = DepthIn(list, NoBlock)
  BY DEF DepthIn
<1> QED BY <1>1, <1>2, <1>3, <1>4, <1>5, <1>6 DEF cut

(***************************************************************************)
(* The regions that callers hold.                                          *)
(***************************************************************************)

LEMMA LiveIs ==
  ASSUME PoolTypeOK
  PROVE  \A r : r \in Live <=> \E f \in 1 .. Len(frames) : r \in frames[f]
<1>1. DOMAIN frames = 1 .. Len(frames)
  BY LenProperties DEF PoolTypeOK
<1> QED BY <1>1 DEF Live

\* A region of some bytes joins the newest frame; one of none is not held.
LEMMA HeldFacts ==
  ASSUME PoolTypeOK, NEW b, NEW from \in Nat, NEW n \in Nat, n # 0 => b \in Blocks
  PROVE  /\ Held(b, from, n) \in Seq(SUBSET Regions)
         /\ Len(Held(b, from, n)) = Len(frames)
         /\ \A f \in 1 .. Len(frames) - 1 : Held(b, from, n)[f] = frames[f]
         /\ n = 0 => Held(b, from, n) = frames
         /\ n # 0 => Held(b, from, n)[Len(frames)]
                       = frames[Len(frames)] \union {Region(b, from, n)}
<1>1. frames \in Seq(SUBSET Regions) /\ Len(frames) \in Nat \ {0}
  BY DEF PoolTypeOK, Regions
<1>2. n # 0 => Region(b, from, n) \in Regions
  BY DEF Region, Regions
<1>3. CASE n = 0
  BY <1>1, <1>3 DEF Held
<1>4. CASE n # 0
  <2> DEFINE last == frames[Len(frames)] \union {Region(b, from, n)}
  <2>1. Held(b, from, n) = [frames EXCEPT ![Len(frames)] = last]
    BY <1>4 DEF Held
  <2>2. last \in SUBSET Regions /\ Len(frames) \in 1 .. Len(frames)
    BY <1>1, <1>2, <1>4, ElementOfSeq
  <2> HIDE DEF last
  <2>3. \A f \in 1 .. Len(frames) : Held(b, from, n)[f] = IF f = Len(frames) THEN last ELSE frames[f]
    BY <1>1, <2>1, <2>2, ExceptSeq
  <2>4. Held(b, from, n) \in Seq(SUBSET Regions) /\ Len(Held(b, from, n)) = Len(frames)
    BY <1>1, <2>1, <2>2, ExceptSeq
  <2> QED BY <1>1, <1>4, <2>3, <2>4 DEF last
<1> QED BY <1>3, <1>4

(***************************************************************************)
(* One lemma for each way the lists change.                                *)
(***************************************************************************)

\* What pop() and popAll() find: the blocks up to the mark stay, at their
\* depths, and so does all that was held when the mark was set.
LEMMA PopFacts ==
  ASSUME PoolIInv, NEW i \in 1 .. Len(stack)
  PROVE  /\ DownTo(i) \in 0 .. Len(inUseList)
         /\ stack[i].page = NoBlock <=> DownTo(i) = 0
         /\ DownTo(i) > 0 => inUseList[DownTo(i)] = stack[i].page
<1>1. inUseList \in Seq(Blocks) /\ Unique(inUseList)
  BY DEF PoolIInv, PoolTypeOK, HeapInOrder, BlocksPartitioned, Unique
<1>2. stack[i].page \in Members(inUseList) \union {NoBlock}
  BY DepthIs DEF PoolIInv, PoolTypeOK, MarksInOrder
<1>3. DownTo(i) = DepthIn(inUseList, stack[i].page)
  BY DepthIs DEF DownTo
<1>4. NoBlock \notin Blocks
  BY PoolAssumption DEF PoolAssumption
<1> QED BY <1>1, <1>2, <1>3, <1>4, DepthFacts

LEMMA TypePop ==
  ASSUME PoolIInv, NEW i \in 1 .. Len(stack), PopTo(i)
  PROVE  PoolTypeOK'
<1> USE DEF Regions
<1> DEFINE k == DownTo(i)
           heap == {b \in {inUseList[j] : j \in k + 1 .. Len(inUseList)} : ToHeap(b)}
           given == {inUseList[j] : j \in k + 1 .. Len(inUseList)}
<1>1. k \in 0 .. Len(inUseList)
  BY PopFacts
<1>2. PoolTypeOK
  BY DEF PoolIInv
<1>3. /\ inUseList' = SubSeq(inUseList, 1, k) /\ freeList' = freeList \union (given \ heap)
      /\ bytes' = [b \in Blocks |-> IF b \in heap THEN 0 ELSE bytes[b]]
      /\ stack' = SubSeq(stack, 1, i - 1) /\ frames' = SubSeq(frames, 1, i)
      /\ currentPageOffset' = stack[i].offset /\ pageCount' = pageCount
  BY DEF PopTo, RestoreOffset, DropMark
<1> HIDE DEF k, heap
<1>4. inUseList' \in Seq(Blocks)
  BY <1>1, <1>2, <1>3, CutFacts DEF PoolTypeOK
<1>5. freeList' \subseteq Blocks
  BY <1>1, <1>2, <1>3 DEF PoolTypeOK
<1>6. bytes' \in [Blocks -> Nat] /\ pageCount' \in [Blocks -> Nat]
  BY <1>2, <1>3 DEF PoolTypeOK
<1>7. stack' \in Seq([offset : Nat, page : Blocks \union {NoBlock}]) /\ Len(stack') = i - 1
  <2>1. i - 1 \in 0 .. Len(stack)
    OBVIOUS
  <2> QED BY <1>2, <1>3, <2>1, CutFacts DEF PoolTypeOK
<1>8. frames' \in Seq(SUBSET Regions) /\ Len(frames') = i
  <2>1. i \in 0 .. Len(frames)
    BY <1>2 DEF PoolTypeOK
  <2> QED BY <1>2, <1>3, <2>1, CutFacts DEF PoolTypeOK
<1>9. currentPageOffset' \in Nat
  <2>1. stack[i] \in [offset : Nat, page : Blocks \union {NoBlock}]
    BY <1>2, ElementOfSeq DEF PoolTypeOK
  <2> QED BY <1>3, <2>1
<1> QED BY <1>4, <1>5, <1>6, <1>7, <1>8, <1>9 DEF PoolTypeOK

LEMMA StepPop ==
  ASSUME PoolIInv, NEW i \in 1 .. Len(stack), PopTo(i)
  PROVE  PoolIInv'
<1> DEFINE k == DownTo(i)
           given == {inUseList[j] : j \in k + 1 .. Len(inUseList)}
           heap == {b \in given : ToHeap(b)}
<1>1. PoolTypeOK'
  BY TypePop
<1>2. /\ inUseList \in Seq(Blocks) /\ Unique(inUseList) /\ k \in 0 .. Len(inUseList)
      /\ InUse \subseteq Blocks /\ freeList \subseteq Blocks
      /\ InUse \intersect freeList = {} /\ InUse \union freeList = {b \in Blocks : bytes[b] > 0}
  BY PopFacts DEF PoolIInv, PoolTypeOK, HeapInOrder, BlocksPartitioned, Unique
<1>3. /\ Unique(inUseList')
      /\ \A b \in InUse : b \in InUse' <=> Depth(b) <= k
      /\ InUse' \subseteq InUse
      /\ \A b \in InUse' \union {NoBlock} : Depth(b)' = Depth(b)
      /\ Current' = stack[i].page
  <2>1. inUseList' = SubSeq(inUseList, 1, k)
    BY DEF PopTo
  <2>2. InUse' = Members(inUseList') /\ \A b : Depth(b)' = DepthIn(inUseList', b)
    BY DEF InUse, Members, Depth, DepthIn
  <2>3. Len(inUseList') = k /\ (k > 0 => inUseList'[k] = inUseList[k])
    BY <1>2, <2>1, DepthCut
  <2>4. Current' = stack[i].page
    BY <1>1, <1>2, <2>3, PopFacts, EmptySeq DEF Current, PoolTypeOK
  <2> HIDE DEF k
  <2> QED BY <1>2, <2>1, <2>2, <2>4, DepthCut, DepthIs
<1>4. given = InUse \ InUse'
  <2>1. \A j \in 1 .. Len(inUseList) : Depth(inUseList[j]) = j
    BY <1>2, DepthFacts, DepthIs
  <2>2. \A b \in InUse : \E j \in 1 .. Len(inUseList) : b = inUseList[j]
    BY <1>2 DEF InUse
  <2>3. \A j \in 1 .. Len(inUseList) : inUseList[j] \in InUse
    BY <1>2 DEF InUse
  <2> HIDE DEF k
  <2> QED BY <1>2, <1>3, <2>1, <2>2, <2>3
<1>5. /\ freeList' = freeList \union (given \ heap) /\ pageCount' = pageCount
      /\ bytes' = [b \in Blocks |-> IF b \in heap THEN 0 ELSE bytes[b]]
  BY DEF PopTo, headers
<1> HIDE DEF k, given
<1>6. \A b \in InUse' \union freeList : bytes'[b] = bytes[b]
  BY <1>2, <1>3, <1>4, <1>5
<1>7. BlocksPartitioned'
  <2>1. InUse' \intersect freeList' = {}
    BY <1>2, <1>3, <1>4, <1>5
  <2>2. InUse' \union freeList' = {b \in Blocks : bytes'[b] > 0}
    <3>1. InUse' \union freeList' = (InUse \union freeList) \ heap
      BY <1>2, <1>3, <1>4, <1>5
    <3> QED BY <1>2, <1>5, <3>1
  <2> QED BY <1>3, <2>1, <2>2 DEF BlocksPartitioned, Unique
<1>8. PagesTell'
  <2>1. \A b \in InUse : ~ToHeap(b) => bytes[b] = PageSize
    BY DEF PoolIInv, PagesTell
  <2>2. \A b \in freeList : bytes[b] = PageSize
    BY DEF PoolIInv, PagesTell
  <2>3. \A b \in given \ heap : ~ToHeap(b) /\ b \in InUse /\ bytes'[b] = bytes[b]
    BY <1>2, <1>4, <1>5
  <2>4. \A b : ToHeap(b)' <=> ToHeap(b)
    BY <1>5 DEF ToHeap
  <2> QED BY <1>3, <1>5, <1>6, <2>1, <2>2, <2>3, <2>4 DEF PagesTell
<1>9. /\ frames' = SubSeq(frames, 1, i) /\ Len(frames') = i
      /\ \A f \in 1 .. i : frames'[f] = frames[f]
      /\ Len(stack') = i - 1 /\ \A j \in 1 .. i - 1 : stack'[j] = stack[j]
      /\ Len(stack) + 1 = Len(frames) /\ Len(stack) \in Nat
      /\ DOMAIN stack = 1 .. Len(stack) /\ DOMAIN stack' = 1 .. Len(stack')
  <2>1. PoolTypeOK /\ frames' = SubSeq(frames, 1, i) /\ stack' = SubSeq(stack, 1, i - 1)
    BY DEF PopTo, DropMark, PoolIInv
  <2>2. i \in 0 .. Len(frames) /\ i - 1 \in 0 .. Len(stack)
    BY <2>1 DEF PoolTypeOK
  <2> QED BY <2>1, <2>2, CutFacts, LenProperties DEF PoolTypeOK
<1>10. \A f \in 1 .. i : \A r \in frames[f] : r \in Live /\ r.page \in InUse'
  <2>1. \A f \in 1 .. i : \A r \in frames[f] : Depth(r.page) <= k
    BY <1>9, DepthIs DEF PoolIInv, MarksInOrder, k, DownTo
  <2>2. \A f \in 1 .. i : \A r \in frames[f] : r \in Live
    BY <1>9, LiveIs DEF PoolIInv
  <2>3. \A r \in Live : r.page \in InUse
    BY DEF PoolIInv, HeapInOrder, HeldInsideBlock
  <2> QED BY <1>3, <2>1, <2>2, <2>3
<1>11. HeldInsideBlock'
  <2> SUFFICES ASSUME NEW r \in Live'
               PROVE  /\ r.page \in InUse'
                      /\ HeaderSkip <= r.from /\ r.to <= bytes'[r.page]
                      /\ r.from % Alignment = 0
    BY DEF HeldInsideBlock
  <2>1. PICK f \in 1 .. i : r \in frames[f]
    BY <1>1, <1>9 DEF Live, PoolTypeOK
  <2>2. r \in Live /\ r.page \in InUse'
    BY <1>10, <2>1
  <2> QED BY <1>6, <2>2 DEF PoolIInv, HeapInOrder, HeldInsideBlock
<1>12. \A j \in 1 .. i : stack[j].page \in InUse' \union {NoBlock}
  <2>1. \A j \in 1 .. i : stack[j].page \in InUse \union {NoBlock} /\ Depth(stack[j].page) <= k
    BY <1>9 DEF PoolIInv, MarksInOrder, k, DownTo
  <2> QED BY <1>3, <2>1
<1>13. ASSUME NEW j \in 1 .. i, NEW b, b = stack[j].page, NEW o, o = stack[j].offset
       PROVE  RoomAt(b, o, j)'
  <2>1. RoomAt(b, o, j)
    BY <1>9, <1>13 DEF PoolIInv, MarksInOrder
  <2>2. b \in InUse => b \in InUse'
    BY <1>2, <1>12, <1>13, PoolAssumption DEF PoolAssumption
  <2> QED BY <1>6, <1>9, <2>1, <2>2 DEF RoomAt
<1>14. RoomInCurrent'
  <2>1. currentPageOffset' = stack[i].offset
    BY DEF PopTo, RestoreOffset
  <2> QED BY <1>3, <1>9, <1>13, <2>1 DEF RoomInCurrent
<1>15. MarksInOrder'
  BY <1>3, <1>9, <1>10, <1>12, <1>13 DEF MarksInOrder, PoolIInv
<1> QED BY <1>1, <1>7, <1>8, <1>11, <1>14, <1>15 DEF PoolIInv, HeapInOrder

(***************************************************************************)
(* allocate(): in the current page, or in a block that was not in use.     *)
(***************************************************************************)

\* Regions are typed.
LEMMA LiveNat ==
  ASSUME PoolTypeOK
  PROVE  \A r \in Live : r \in Regions
<1>1. frames \in Seq(SUBSET Regions)
  BY DEF PoolTypeOK, Regions
<1> QED BY <1>1, LiveIs

\* Marks stay in order as long as the blocks and regions they see stay.
LEMMA MarksKept ==
  ASSUME PoolIInv, stack' = stack, Len(frames') = Len(frames),
         \A f \in 1 .. Len(frames) - 1 : frames'[f] = frames[f],
         InUse \subseteq InUse', \A c \in InUse : bytes'[c] = bytes[c],
         \A c \in InUse \union {NoBlock} : Depth(c)' = Depth(c)
  PROVE  MarksInOrder'
<1>1. /\ DOMAIN stack = 1 .. Len(stack) /\ Len(frames) = Len(stack) + 1 /\ Len(stack) \in Nat
      /\ InUse \subseteq Blocks
  BY LenProperties DEF PoolIInv, PoolTypeOK, InUse
<1>2. \A i \in 1 .. Len(stack) : \A f \in 1 .. i : frames'[f] = frames[f]
  BY <1>1
<1>3. \A f \in 1 .. Len(stack) : \A r \in frames[f] : r.page \in InUse
  BY <1>1, LiveIs DEF PoolIInv, HeapInOrder, HeldInsideBlock
<1>4. ASSUME NEW i \in 1 .. Len(stack), NEW b, b = stack[i].page, NEW o, o = stack[i].offset
      PROVE  RoomAt(b, o, i)'
  <2>1. RoomAt(b, o, i)
    BY <1>1, <1>4 DEF PoolIInv, MarksInOrder
  <2> QED BY <1>2, <2>1 DEF RoomAt
<1>5. ASSUME NEW i \in 1 .. Len(stack)
      PROVE  /\ stack[i].page \in InUse' \union {NoBlock}
             /\ \A j \in 1 .. i : Depth(stack[j].page)' <= Depth(stack[i].page)'
             /\ \A f \in 1 .. i : \A r \in frames'[f] : Depth(r.page)' <= Depth(stack[i].page)'
  <2>1. \A j \in 1 .. i : stack[j].page \in InUse \union {NoBlock}
    BY <1>1 DEF PoolIInv, MarksInOrder
  <2>2. \A j \in 1 .. i : Depth(stack[j].page)' = Depth(stack[j].page)
    BY <2>1
  <2>3. \A f \in 1 .. i : \A r \in frames[f] : Depth(r.page) <= Depth(stack[i].page)
    BY <1>1 DEF PoolIInv, MarksInOrder
  <2>4. \A j \in 1 .. i : Depth(stack[j].page) <= Depth(stack[i].page)
    BY <1>1 DEF PoolIInv, MarksInOrder
  <2>5. \A f \in 1 .. i : \A r \in frames'[f] : r \in frames[f] /\ r.page \in InUse
    BY <1>2, <1>3
  <2> QED BY <2>1, <2>2, <2>3, <2>4, <2>5
<1> QED BY <1>1, <1>4, <1>5 DEF MarksInOrder

\* What is held grows by a region apart from all others, behind the header of
\* its block and within it; nothing below the newest mark changes.
NewRegion(b, from, n) ==
  n # 0 => /\ b \in InUse' /\ from >= HeaderSkip /\ from % Alignment = 0
           /\ from + n <= bytes'[b]
           /\ \A r \in Live : r.page = b => r.to <= from

LEMMA HeldKept ==
  ASSUME PoolIInv, PoolTypeOK', NEW b, NEW from \in Nat, NEW n \in Nat,
         frames' = Held(b, from, n), NewRegion(b, from, n),
         InUse \subseteq InUse', \A c \in InUse : bytes'[c] = bytes[c]
  PROVE  /\ HeldInsideBlock'
         /\ Len(frames') = Len(frames)
         /\ \A f \in 1 .. Len(frames) - 1 : frames'[f] = frames[f]
         /\ \A r \in Live' : r \in Live \/ (n # 0 /\ r = Region(b, from, n))
<1>1. PoolTypeOK /\ InUse' \subseteq Blocks
  BY DEF PoolIInv, PoolTypeOK, InUse
<1>2. /\ Len(frames') = Len(frames) /\ Len(frames) \in Nat \ {0}
      /\ \A f \in 1 .. Len(frames) - 1 : frames'[f] = frames[f]
      /\ n = 0 => frames' = frames
      /\ n # 0 => frames'[Len(frames)] = frames[Len(frames)] \union {Region(b, from, n)}
  <2>1. n # 0 => b \in Blocks
    BY <1>1 DEF NewRegion
  <2>2. Len(frames) \in Nat \ {0}
    BY <1>1 DEF PoolTypeOK
  <2>3. /\ Len(frames') = Len(frames)
        /\ \A f \in 1 .. Len(frames) - 1 : frames'[f] = frames[f]
    <3>1. Len(Held(b, from, n)) = Len(frames)
      BY <1>1, <2>1, <2>2, HeldFacts
    <3>2. ASSUME NEW f \in 1 .. Len(frames) - 1 PROVE Held(b, from, n)[f] = frames[f]
      <4>1. f \in 1 .. Len(frames) /\ f # Len(frames)
        BY <2>2
      <4>2. CASE n = 0
        BY <4>2 DEF Held
      <4>3. CASE n # 0
        <5> DEFINE last == frames[Len(frames)] \union {Region(b, from, n)}
        <5>1. Held(b, from, n) = [frames EXCEPT ![Len(frames)] = last]
          BY <4>3 DEF Held
        <5>2. f \in DOMAIN frames
          BY <1>1, <4>1, LenProperties DEF PoolTypeOK
        <5> HIDE DEF last
        <5> QED BY <4>1, <5>1, <5>2
      <4> QED BY <4>2, <4>3
    <3> QED BY <3>1, <3>2
  <2>4. n = 0 => frames' = frames
    BY <1>1, <2>1, HeldFacts
  <2>5. n # 0 => frames'[Len(frames)] = frames[Len(frames)] \union {Region(b, from, n)}
    BY <1>1, <2>1, HeldFacts
  <2> QED BY <2>2, <2>3, <2>4, <2>5
<1>3. ASSUME NEW r \in Live' PROVE r \in Live \/ (n # 0 /\ r = Region(b, from, n))
  <2>1. PICK f \in 1 .. Len(frames) : r \in frames'[f]
    BY <1>2 DEF Live, PoolTypeOK
  <2>2. CASE f = Len(frames)
    BY <1>1, <1>2, <2>1, <2>2, LiveIs
  <2>3. CASE f # Len(frames)
    <3>1. r \in frames[f]
      BY <1>2, <2>1, <2>3
    <3> QED BY <1>1, <3>1, LiveIs
  <2> QED BY <2>2, <2>3
<1>4. ASSUME NEW r \in Live'
      PROVE  /\ r.page \in InUse'
             /\ HeaderSkip <= r.from /\ r.to <= bytes'[r.page]
             /\ r.from % Alignment = 0
  <2>1. CASE r \in Live
    BY <2>1 DEF PoolIInv, HeapInOrder, HeldInsideBlock
  <2>2. CASE n # 0 /\ r = Region(b, from, n)
    BY <2>2 DEF NewRegion, Region
  <2> QED BY <1>3, <2>1, <2>2
<1>5. HeldInsideBlock'
  BY <1>4 DEF HeldInsideBlock
<1> QED BY <1>2, <1>3, <1>5

\* The next offset leaves room if what is at it lies behind the new region.
LEMMA RoomKept ==
  ASSUME PoolIInv, PoolTypeOK', NEW b, NEW from \in Nat, NEW n \in Nat,
         NEW c \in InUse', bytes'[c] = PageSize, NEW o \in Nat,
         HeaderSkip <= o, o % Alignment = 0,
         \A r \in Live : r.page = c => r.to <= o,
         n # 0 /\ b = c => from + n <= o,
         \A r \in Live' : r \in Live \/ (n # 0 /\ r = Region(b, from, n))
  PROVE  RoomAt(c, o, Len(frames))'
<1>1. \A f \in 1 .. Len(frames') : \A r \in frames'[f] : r \in Live'
  <2>1. DOMAIN frames' = 1 .. Len(frames')
    BY LenProperties DEF PoolTypeOK
  <2> QED BY <2>1 DEF Live
<1>2. \A r \in Live' : r.page = c => r.to <= o
  BY DEF Region
<1> QED BY <1>1, <1>2 DEF RoomAt

LEMMA StepInPage ==
  ASSUME PoolIInv, NEW n \in Nat, AllocateInPage(n)
  PROVE  PoolIInv' /\ NewRegion(Current, currentPageOffset, n)
<1> DEFINE o == currentPageOffset
<1>1. PoolTypeOK /\ RoomAt(Current, o, Len(frames)) /\ o \in Nat /\ o + n <= PageSize
  BY DEF PoolIInv, RoomInCurrent, PoolTypeOK, AllocateInPage, Fits
<1>2. /\ UNCHANGED <<inUseList, freeList, bytes, pageCount, stack>>
      /\ currentPageOffset' = RoundUp(o + n) /\ frames' = Held(Current, o, n)
      /\ RoundUp(o + n) \in Nat /\ RoundUp(o + n) >= o + n /\ RoundUp(o + n) % Alignment = 0
  BY <1>1, RoundUpFacts DEF AllocateInPage, headers
<1>3. InUse' = InUse /\ Current' = Current /\ (\A c : Depth(c)' = Depth(c)) /\ InUse \subseteq Blocks
  BY <1>1, <1>2 DEF InUse, Current, Depth, PoolTypeOK
<1>4. ASSUME o < PageSize
      PROVE  /\ Current \in InUse /\ bytes[Current] = PageSize
             /\ HeaderSkip <= o /\ o % Alignment = 0
             /\ \A r \in Live : r.page = Current => r.to <= o
  BY <1>1, <1>4, LiveIs DEF RoomAt
<1>5. n # 0 => o < PageSize
  BY <1>1, PoolAssumption DEF PoolAssumption
<1>6. NewRegion(Current, o, n)
  BY <1>1, <1>2, <1>3, <1>4, <1>5 DEF NewRegion
<1>7. PoolTypeOK'
  <2>1. frames' \in Seq(SUBSET Regions) /\ Len(frames') = Len(frames)
    BY <1>1, <1>2, <1>3, <1>4, <1>5, HeldFacts
  <2> QED BY <1>1, <1>2, <2>1 DEF PoolTypeOK, Regions
<1> HIDE DEF o
<1>8. /\ HeldInsideBlock' /\ Len(frames') = Len(frames)
      /\ \A f \in 1 .. Len(frames) - 1 : frames'[f] = frames[f]
      /\ \A r \in Live' : r \in Live \/ (n # 0 /\ r = Region(Current, o, n))
  BY <1>1, <1>2, <1>3, <1>6, <1>7, HeldKept
<1>9. BlocksPartitioned' /\ PagesTell'
  BY <1>2, <1>3 DEF PoolIInv, HeapInOrder, BlocksPartitioned, PagesTell, ToHeap
<1>10. RoomInCurrent'
  <2>1. CASE currentPageOffset' < PageSize
    <3>1. o < PageSize /\ HeaderSkip <= currentPageOffset'
      BY <1>1, <1>2, <1>4, <2>1, PoolAssumption DEF PoolAssumption
    <3>2. \A r \in Live : r.page = Current => r.to <= currentPageOffset'
      <4>1. \A r \in Live : r.page = Current => r.to <= o /\ r.to \in Nat
        BY <1>1, <1>4, <3>1, LiveNat DEF Regions
      <4> QED BY <1>1, <1>2, <4>1
    <3>3. ASSUME NEW p, p = currentPageOffset', NEW c, c = Current PROVE RoomAt(c, p, Len(frames))'
      <4>1. /\ c \in InUse' /\ bytes'[c] = PageSize /\ p \in Nat /\ HeaderSkip <= p
            /\ p % Alignment = 0 /\ o + n <= p
        BY <1>2, <1>3, <1>4, <3>1, <3>3
      <4> QED BY <1>1, <1>7, <1>8, <3>2, <3>3, <4>1, RoomKept
    <3>4. Len(frames') = Len(frames)
      BY <1>8
    <3> QED BY <1>3, <3>3, <3>4 DEF RoomInCurrent
  <2> QED BY <2>1 DEF RoomInCurrent, RoomAt
<1>11. MarksInOrder'
  BY <1>1, <1>2, <1>3, <1>8, MarksKept
<1> QED BY <1>6, <1>7, <1>8, <1>9, <1>10, <1>11 DEF PoolIInv, HeapInOrder, o

\* A block that was not in use becomes the current one, with the region behind
\* its header.
TakesBlock(b, n, o) ==
  /\ b \in Blocks /\ b \notin InUse
  /\ inUseList' = Append(inUseList, b)
  /\ freeList' = freeList \ {b}
  /\ \A c \in Blocks \ {b} : bytes'[c] = bytes[c] /\ pageCount'[c] = pageCount[c]
  /\ bytes' \in [Blocks -> Nat] /\ pageCount' \in [Blocks -> Nat]
  /\ bytes'[b] >= HeaderSkip + n
  /\ ~ToHeap(b)' => bytes'[b] = PageSize
  /\ stack' = stack
  /\ frames' = Held(b, HeaderSkip, n)
  /\ currentPageOffset' = o
  /\ o < PageSize => bytes'[b] = PageSize /\ HeaderSkip + n <= o /\ o % Alignment = 0

LEMMA StepTakesBlock ==
  ASSUME PoolIInv, NEW b, NEW n \in Nat, NEW o \in Nat, TakesBlock(b, n, o)
  PROVE  PoolIInv' /\ NewRegion(b, HeaderSkip, n)
<1>1. /\ PoolTypeOK /\ BlocksPartitioned /\ HeldInsideBlock /\ PagesTell
      /\ Unique(inUseList) /\ inUseList \in Seq(Blocks) /\ InUse = Members(inUseList)
      /\ HeaderSkip \in Nat \ {0} /\ PageSize \in Nat
      /\ HeaderSkip % Alignment = 0
  BY DepthIs, PoolAssumption
  DEF PoolIInv, HeapInOrder, BlocksPartitioned, Unique, PoolTypeOK, PoolAssumption
<1>2. /\ InUse' = InUse \union {b} /\ Unique(inUseList') /\ Current' = b
      /\ \A c \in InUse \union {NoBlock} : Depth(c)' = Depth(c)
      /\ inUseList' \in Seq(Blocks) /\ InUse \subseteq Blocks
  <2>1. b \in Blocks /\ b \notin Members(inUseList) /\ inUseList' = Append(inUseList, b)
    BY <1>1 DEF TakesBlock
  <2>2. InUse' = Members(inUseList') /\ \A c : Depth(c)' = DepthIn(inUseList', c)
    BY DEF InUse, Members, Depth, DepthIn
  <2>3. /\ inUseList' \in Seq(Blocks) /\ inUseList' # <<>>
        /\ Len(inUseList') = Len(inUseList) + 1 /\ inUseList'[Len(inUseList) + 1] = b
    BY <1>1, <2>1, AppendProperties
  <2>4. Current' = b
    BY <2>3 DEF Current
  <2>5. Members(inUseList) \subseteq Blocks
    BY <1>1, DepthFacts
  <2> QED BY <1>1, <2>1, <2>2, <2>3, <2>4, <2>5, DepthAppend, DepthIs
<1>3. BlocksPartitioned'
  <2>1. InUse' \intersect freeList' = {}
    BY <1>1, <1>2 DEF BlocksPartitioned, TakesBlock
  <2>2. bytes'[b] > 0 /\ \A c \in Blocks \ {b} : bytes'[c] = bytes[c]
    BY <1>1 DEF TakesBlock
  <2>3. InUse' \union freeList' = {c \in Blocks : bytes'[c] > 0}
    BY <1>1, <1>2, <2>2 DEF BlocksPartitioned, TakesBlock
  <2> QED BY <1>2, <2>1, <2>3 DEF BlocksPartitioned, Unique
<1>4. \A c \in InUse : c # b /\ bytes'[c] = bytes[c] /\ (ToHeap(c)' <=> ToHeap(c))
  BY <1>2 DEF TakesBlock, ToHeap
<1>5. PagesTell'
  <2>1. \A c \in freeList' : bytes'[c] = PageSize
    BY <1>1 DEF PagesTell, TakesBlock, PoolTypeOK
  <2>2. \A c \in InUse' : ~ToHeap(c)' => bytes'[c] = PageSize
    BY <1>1, <1>2, <1>4 DEF PagesTell, TakesBlock
  <2> QED BY <2>1, <2>2 DEF PagesTell
<1>6. \A r \in Live : r.page \in InUse /\ r.page # b
  BY <1>1, <1>4 DEF HeldInsideBlock
<1>7. NewRegion(b, HeaderSkip, n)
  BY <1>1, <1>2, <1>6 DEF NewRegion, TakesBlock
<1>8. PoolTypeOK'
  <2>1. frames' \in Seq(SUBSET Regions) /\ Len(frames') = Len(frames)
    BY <1>1, HeldFacts DEF TakesBlock
  <2>2. freeList' \subseteq Blocks
    BY <1>1 DEF TakesBlock, PoolTypeOK
  <2> QED BY <1>1, <1>2, <2>1, <2>2 DEF PoolTypeOK, Regions, TakesBlock
<1>9. /\ HeldInsideBlock' /\ Len(frames') = Len(frames)
      /\ \A f \in 1 .. Len(frames) - 1 : frames'[f] = frames[f]
      /\ \A r \in Live' : r \in Live \/ (n # 0 /\ r = Region(b, HeaderSkip, n))
  <2>1. frames' = Held(b, HeaderSkip, n)
    BY DEF TakesBlock
  <2> QED BY <1>1, <1>2, <1>4, <1>7, <1>8, <2>1, HeldKept
<1>10. RoomInCurrent'
  <2>1. CASE o < PageSize
    <3>1. RoomAt(b, o, Len(frames))'
      <4>1. /\ b \in InUse' /\ bytes'[b] = PageSize /\ HeaderSkip + n <= o
            /\ o % Alignment = 0 /\ HeaderSkip <= o
        BY <1>1, <1>2, <2>1 DEF TakesBlock
      <4> QED BY <1>1, <1>6, <1>8, <1>9, <4>1, RoomKept
    <3> QED BY <1>2, <3>1 DEF RoomInCurrent, TakesBlock
  <2>2. CASE ~(o < PageSize)
    BY <2>2 DEF RoomInCurrent, RoomAt, TakesBlock
  <2> QED BY <2>1, <2>2
<1>11. MarksInOrder'
  <2>1. stack' = stack
    BY DEF TakesBlock
  <2> QED BY <1>2, <1>4, <1>9, <2>1, MarksKept
<1> QED BY <1>3, <1>5, <1>7, <1>8, <1>9, <1>10, <1>11 DEF PoolIInv, HeapInOrder

\* A large block comes from the heap; a page from the free list or the heap.
LEMMA LargeTakesBlock ==
  ASSUME PoolIInv, NEW n \in Nat, AllocateLarge(n)
  PROVE  \E b, o : o \in Nat /\ TakesBlock(b, n, o)
<1>1. PICK b \in Blocks :
        /\ bytes[b] = 0
        /\ bytes' = [bytes EXCEPT ![b] = n + HeaderSkip]
        /\ pageCount' = [pageCount EXCEPT ![b] = PagesFor(n)]
        /\ inUseList' = Append(inUseList, b)
        /\ frames' = Held(b, HeaderSkip, n)
  BY DEF AllocateLarge
<1>2. PagesFor(n) \in Nat /\ PagesFor(n) > 1
  BY PagesForFacts DEF AllocateLarge
<1>3. b \notin InUse /\ b \notin freeList
  BY <1>1 DEF PoolIInv, HeapInOrder, BlocksPartitioned
<1>4. /\ bytes \in [Blocks -> Nat] /\ pageCount \in [Blocks -> Nat]
      /\ HeaderSkip \in Nat /\ PageSize \in Nat
  BY PoolAssumption DEF PoolIInv, PoolTypeOK, PoolAssumption
<1>5. /\ stack' = stack /\ currentPageOffset' = PageSize /\ freeList' = freeList \ {b}
  BY <1>3 DEF AllocateLarge, NewPageNext
<1>6. TakesBlock(b, n, PageSize)
  BY <1>1, <1>2, <1>3, <1>4, <1>5 DEF TakesBlock, ToHeap
<1> QED BY <1>4, <1>6

LEMMA PageTakesBlock ==
  ASSUME PoolIInv, NEW n \in Nat, AllocatePage(n)
  PROVE  \E b, o : o \in Nat /\ TakesBlock(b, n, o)
<1>1. PICK b \in Usable :
        /\ freeList' = freeList \ {b}
        /\ bytes' = [bytes EXCEPT ![b] = IF b \in freeList THEN @ ELSE PageSize]
        /\ pageCount' = [pageCount EXCEPT ![b] = 1]
        /\ inUseList' = Append(inUseList, b)
        /\ frames' = Held(b, HeaderSkip, n)
  BY DEF AllocatePage, Unlink
<1>2. /\ bytes \in [Blocks -> Nat] /\ pageCount \in [Blocks -> Nat]
      /\ freeList \subseteq Blocks
      /\ HeaderSkip \in Nat /\ PageSize \in Nat /\ n + HeaderSkip <= PageSize
  BY PoolAssumption DEF PoolIInv, PoolTypeOK, PoolAssumption, AllocatePage, TooBig
<1>3. b \in Blocks /\ (b \in freeList \/ bytes[b] = 0)
  BY <1>1, <1>2 DEF Usable
<1>4. b \notin InUse /\ (b \in freeList => bytes[b] = PageSize)
  BY <1>3 DEF PoolIInv, HeapInOrder, BlocksPartitioned, PagesTell
<1>5. \A c \in Blocks \ {b} : bytes'[c] = bytes[c] /\ pageCount'[c] = pageCount[c]
  BY <1>1, <1>2
<1>6. /\ bytes'[b] = PageSize /\ pageCount'[b] = 1
      /\ bytes' \in [Blocks -> Nat] /\ pageCount' \in [Blocks -> Nat]
  BY <1>1, <1>2, <1>3, <1>4
<1>7. /\ stack' = stack /\ currentPageOffset' = RoundUp(HeaderSkip + n)
      /\ RoundUp(HeaderSkip + n) \in Nat /\ RoundUp(HeaderSkip + n) >= HeaderSkip + n
      /\ RoundUp(HeaderSkip + n) % Alignment = 0
  <2>1. HeaderSkip + n \in Nat
    BY <1>2
  <2>2. stack' = stack /\ currentPageOffset' = RoundUp(HeaderSkip + n)
    BY DEF AllocatePage
  <2> QED BY <2>1, <2>2, RoundUpFacts
<1>8. TakesBlock(b, n, RoundUp(HeaderSkip + n))
  BY <1>1, <1>2, <1>3, <1>4, <1>5, <1>6, <1>7 DEF TakesBlock, ToHeap
<1> QED BY <1>7, <1>8

\* push(): the mark is at the block and offset where allocation went on.
LEMMA StepPush ==
  ASSUME PoolIInv, PushMark
  PROVE  PoolIInv'
<1> DEFINE m == [offset |-> currentPageOffset, page |-> Current]
           n == Len(stack)
<1>1. /\ PoolTypeOK /\ BlocksPartitioned /\ HeldInsideBlock /\ PagesTell /\ MarksInOrder
      /\ RoomAt(Current, currentPageOffset, Len(frames))
      /\ Unique(inUseList) /\ inUseList \in Seq(Blocks) /\ PageSize \in Nat
  BY PoolAssumption
  DEF PoolIInv, HeapInOrder, BlocksPartitioned, Unique, PoolTypeOK, RoomInCurrent, PoolAssumption
<1>2. /\ UNCHANGED <<inUseList, freeList, bytes, pageCount>>
      /\ stack' = Append(stack, m) /\ frames' = Append(frames, {})
      /\ currentPageOffset' = PageSize
  BY DEF PushMark, AfterMark, NewPageNext, headers
<1>3. /\ InUse' = InUse /\ (\A c : Depth(c)' = Depth(c)) /\ InUse \subseteq Blocks
      /\ Current \in InUse \union {NoBlock} /\ Depth(Current) = Len(inUseList)
      /\ \A c \in InUse \union {NoBlock} : Depth(c) <= Len(inUseList)
  <2>1. InUse' = InUse /\ \A c : Depth(c)' = Depth(c)
    BY <1>2 DEF InUse, Depth
  <2>2. Len(inUseList) \in Nat /\ (inUseList # <<>> => Len(inUseList) \in 1 .. Len(inUseList))
    BY <1>1, EmptySeq
  <2>3. inUseList # <<>> => inUseList[Len(inUseList)] \in InUse
    BY <1>1, <2>2, LenProperties DEF InUse
  <2>4. Current \in InUse \union {NoBlock} /\ Depth(Current) = Len(inUseList)
    BY <1>1, <2>2, <2>3, DepthFacts, DepthIs, EmptySeq DEF Current
  <2>5. \A c \in InUse \union {NoBlock} : DepthIn(inUseList, c) <= Len(inUseList)
    BY <1>1, <2>2, DepthFacts, DepthIs
  <2>6. InUse \subseteq Blocks
    BY <1>1, DepthFacts, DepthIs
  <2> QED BY <2>1, <2>4, <2>5, <2>6, DepthIs
<1>4. /\ n \in Nat /\ Len(frames) = n + 1 /\ DOMAIN stack = 1 .. n /\ DOMAIN stack' = 1 .. n + 1
      /\ stack' \in Seq([offset : Nat, page : Blocks \union {NoBlock}])
      /\ frames' \in Seq(SUBSET Regions) /\ Len(frames') = n + 2 /\ Len(stack') = n + 1
      /\ \A i \in 1 .. n : stack'[i] = stack[i]
      /\ stack'[n + 1] = m
      /\ \A f \in 1 .. n + 1 : frames'[f] = frames[f]
      /\ frames'[n + 2] = {}
  <2>1. m \in [offset : Nat, page : Blocks \union {NoBlock}]
    BY <1>1, <1>3 DEF PoolTypeOK
  <2>2. /\ stack \in Seq([offset : Nat, page : Blocks \union {NoBlock}])
        /\ frames \in Seq(SUBSET Regions) /\ {} \in SUBSET Regions /\ Len(frames) = Len(stack) + 1
    BY <1>1 DEF PoolTypeOK, Regions
  <2> HIDE DEF m
  <2> QED BY <1>2, <2>1, <2>2, AppendProperties, LenProperties
<1>5. PoolTypeOK'
  BY <1>1, <1>2, <1>4 DEF PoolTypeOK, Regions
<1>6. BlocksPartitioned' /\ PagesTell'
  BY <1>1, <1>2, <1>3 DEF BlocksPartitioned, PagesTell, ToHeap
<1>7. Live' = Live
  <2>1. DOMAIN frames' = 1 .. n + 2 /\ DOMAIN frames = 1 .. n + 1
    BY <1>1, <1>4, <1>5, LenProperties DEF PoolTypeOK
  <2>2. \A f \in 1 .. n + 2 : f \in 1 .. n + 1 \/ frames'[f] = {}
    BY <1>4
  <2>3. \A f \in 1 .. n + 1 : f \in 1 .. n + 2 /\ frames'[f] = frames[f]
    BY <1>4
  <2> QED BY <2>1, <2>2, <2>3 DEF Live
<1>8. HeldInsideBlock'
  BY <1>1, <1>2, <1>3, <1>7 DEF HeldInsideBlock
<1>9. RoomInCurrent'
  BY <1>1, <1>2 DEF RoomInCurrent, RoomAt
<1>10. ASSUME NEW i \in 1 .. n + 1, NEW b, b = stack'[i].page, NEW o, o = stack'[i].offset
       PROVE  RoomAt(b, o, i)'
  <2>1. RoomAt(b, o, i)
    <3>1. CASE i \in 1 .. n
      BY <1>1, <1>4, <1>10, <3>1 DEF MarksInOrder
    <3>2. CASE i = n + 1
      BY <1>1, <1>4, <1>10, <3>2
    <3> QED BY <1>4, <3>1, <3>2
  <2>2. \A f \in 1 .. i : frames'[f] = frames[f]
    BY <1>4
  <2> QED BY <1>2, <1>3, <2>1, <2>2 DEF RoomAt
<1>11. ASSUME NEW i \in 1 .. n + 1
       PROVE  /\ stack'[i].page \in InUse \union {NoBlock}
              /\ \A j \in 1 .. i : Depth(stack'[j].page) <= Depth(stack'[i].page)
              /\ \A f \in 1 .. i : \A r \in frames[f] : Depth(r.page) <= Depth(stack'[i].page)
  <2>1. CASE i \in 1 .. n
    <3>1. \A j \in 1 .. i : stack'[j] = stack[j]
      BY <1>4, <2>1
    <3>2. i \in DOMAIN stack /\ stack'[i] = stack[i]
      BY <1>4, <2>1
    <3> QED BY <1>1, <3>1, <3>2 DEF MarksInOrder
  <2>2. CASE i = n + 1
    <3>1. stack'[i].page = Current
      BY <1>4, <2>2
    <3>2. \A j \in 1 .. n : stack[j].page \in InUse \union {NoBlock}
      BY <1>1, <1>4 DEF MarksInOrder
    <3>3. \A j \in 1 .. i : stack'[j].page \in InUse \union {NoBlock}
      BY <1>3, <1>4, <2>2, <3>1, <3>2
    <3>4. \A f \in 1 .. i : \A r \in frames[f] : r.page \in InUse
      BY <1>1, <1>4, <2>2, LiveIs DEF HeldInsideBlock
    <3> QED BY <1>3, <3>1, <3>3, <3>4
  <2> QED BY <1>4, <2>1, <2>2
<1>12. MarksInOrder'
  <2> HIDE DEF n
  <2>1. \A i \in DOMAIN stack' : RoomAt(stack[i].page, stack[i].offset, i)'
    BY <1>4, <1>10
  <2> QED BY <1>3, <1>4, <1>11, <2>1 DEF MarksInOrder
<1> QED BY <1>5, <1>6, <1>8, <1>9, <1>12 DEF PoolIInv, HeapInOrder

(***************************************************************************)
(* Theorems.                                                               *)
(***************************************************************************)

\* The constructor's first mark.
LEMMA PoolInitIInv == PoolInit => PoolIInv
<1> SUFFICES ASSUME PoolInit PROVE PoolIInv
  OBVIOUS
<1>1. /\ inUseList = <<>> /\ freeList = {} /\ currentPageOffset = PageSize /\ PageSize \in Nat
      /\ stack = <<[offset |-> PageSize, page |-> NoBlock]>> /\ frames = <<{}, {}>>
      /\ pageCount = [b \in Blocks |-> 0] /\ bytes = [b \in Blocks |-> 0]
  BY PoolAssumption DEF PoolInit, PoolAssumption
<1>2. PoolTypeOK
  BY <1>1 DEF PoolTypeOK
<1>3. InUse = {} /\ Current = NoBlock
  BY <1>1 DEF InUse, Current
<1>4. Live = {}
  BY <1>1 DEF Live
<1>5. HeapInOrder /\ PagesTell
  BY <1>1, <1>3, <1>4 DEF HeapInOrder, BlocksPartitioned, HeldInsideBlock, PagesTell
<1>6. RoomInCurrent
  BY <1>1 DEF RoomInCurrent, RoomAt
<1>7. MarksInOrder
  <2>1. DOMAIN stack = {1} /\ stack[1].page = NoBlock /\ stack[1].offset = PageSize
        /\ frames[1] = {} /\ 1 .. 1 = {1}
    BY <1>1
  <2>2. RoomAt(stack[1].page, stack[1].offset, 1)
    BY <1>1, <2>1 DEF RoomAt
  <2> QED BY <2>1, <2>2 DEF MarksInOrder, Depth
<1> QED BY <1>2, <1>5, <1>6, <1>7 DEF PoolIInv

\* A step that allocates takes room in the current page or takes a block.
LEMMA AllocateStep ==
  ASSUME PoolIInv, NEW n \in Sizes, Allocate(n)
  PROVE  /\ PoolIInv'
         /\ \E b, from : from \in Nat /\ NewRegion(b, from, n) /\ frames' = Held(b, from, n)
<1>1. n \in Nat /\ HeaderSkip \in Nat
  BY PoolAssumption DEF PoolAssumption
<1>2. CASE AllocateInPage(n)
  <2>1. currentPageOffset \in Nat /\ frames' = Held(Current, currentPageOffset, n)
    BY <1>2 DEF AllocateInPage, PoolIInv, PoolTypeOK
  <2> QED BY <1>1, <1>2, <2>1, StepInPage
<1>3. CASE AllocateLarge(n) \/ AllocatePage(n)
  <2>1. PICK b, o : o \in Nat /\ TakesBlock(b, n, o)
    BY <1>1, <1>3, LargeTakesBlock, PageTakesBlock
  <2>2. frames' = Held(b, HeaderSkip, n)
    BY <2>1 DEF TakesBlock
  <2> QED BY <1>1, <2>1, <2>2, StepTakesBlock
<1> QED BY <1>2, <1>3 DEF Allocate

LEMMA PoolStep == PoolIInv /\ [PoolNext]_allocVars => PoolIInv'
<1> SUFFICES ASSUME PoolIInv, [PoolNext]_allocVars PROVE PoolIInv'
  OBVIOUS
<1>1. CASE PushMark
  BY <1>1, StepPush
<1>2. CASE Pop \/ PopAll
  <2>1. PICK i \in {1, Len(stack)} : stack # <<>> /\ PopTo(i)
    BY <1>2 DEF Pop, PopAll
  <2>2. i \in 1 .. Len(stack)
    BY <2>1, EmptySeq DEF PoolIInv, PoolTypeOK
  <2> QED BY <2>1, <2>2, StepPop
<1>3. CASE UNCHANGED allocVars
  <2>1. /\ UNCHANGED <<inUseList, freeList, pageCount, bytes, currentPageOffset, stack, frames>>
        /\ InUse' = InUse /\ Live' = Live /\ Current' = Current
    BY <1>3 DEF allocVars, InUse, Live, Current
  <2>2. PoolTypeOK' /\ HeapInOrder' /\ PagesTell'
    BY <2>1 DEF PoolIInv, PoolTypeOK, HeapInOrder, BlocksPartitioned, HeldInsideBlock, PagesTell, ToHeap
  <2>3. RoomInCurrent'
    BY <2>1 DEF PoolIInv, RoomInCurrent, RoomAt
  <2>4. MarksInOrder'
    <3>1. \A c : Depth(c)' = Depth(c)
      BY <2>1 DEF Depth
    <3>2. \A f \in 1 .. Len(frames) - 1 : frames'[f] = frames[f]
      BY <2>1
    <3> QED BY <2>1, <3>1, <3>2, MarksKept
  <2> QED BY <2>2, <2>3, <2>4 DEF PoolIInv
<1>4. CASE \E n \in Sizes : Allocate(n)
  BY <1>4, AllocateStep
<1> QED BY <1>1, <1>2, <1>3, <1>4 DEF PoolNext, PopEmpty

\* The inductive invariant of the pool (push, pop, popAll, allocate).
THEOREM PoolInvariance == PoolSpec => []PoolIInv
BY PoolInitIInv, PoolStep, PTL DEF PoolSpec

\* Every block is on one list, once, and what callers hold lies behind the
\* header of a block in use, ends in it and is aligned.
THEOREM HeapStaysInOrder == PoolSpec => []HeapInOrder
<1>1. PoolIInv => HeapInOrder
  BY DEF PoolIInv
<1> QED BY <1>1, PoolInvariance, PTL
(***************************************************************************)
(* The allocator is a mark-and-release store.                              *)
(***************************************************************************)

\* What a step adds lies behind its block's other regions, apart from all.
LEMMA AllocateRefines ==
  ASSUME PoolIInv, NEW n \in Sizes, Allocate(n)
  PROVE  [MarkReleaseStore!Next]_frames
<1>1. PICK b, from : from \in Nat /\ NewRegion(b, from, n) /\ frames' = Held(b, from, n)
  BY AllocateStep
<1>2. n \in Nat
  BY PoolAssumption DEF PoolAssumption
<1>3. CASE n = 0
  BY <1>1, <1>3 DEF Held
<1>4. CASE n # 0
  <2> DEFINE r == Region(b, from, n)
  <2>1. PoolTypeOK /\ PoolTypeOK' /\ b \in InUse'
    BY <1>1, <1>4, AllocateStep DEF PoolIInv, NewRegion
  <2>2. b \in Blocks
    BY <2>1 DEF PoolTypeOK, InUse
  <2>3. /\ Held(b, from, n) \in Seq(SUBSET Regions) /\ Len(Held(b, from, n)) = Len(frames)
        /\ Held(b, from, n)[Len(frames)] = frames[Len(frames)] \union {r}
    BY <1>1, <1>2, <1>4, <2>1, <2>2, HeldFacts
  <2>4. DOMAIN frames' = DOMAIN frames
    BY <1>1, <2>1, <2>3, LenProperties DEF PoolTypeOK
  <2>5. r \in MarkReleaseStore!Region /\ r.from < r.to /\ r.page = b /\ r.from = from
    BY <1>1, <1>2, <1>4, <2>2 DEF Region, MarkReleaseStore!Region
  <2>6. \A s \in Live : MarkReleaseStore!Apart(r, s)
    BY <1>1, <1>4, <2>5 DEF NewRegion, MarkReleaseStore!Apart
  <2>7. frames' = [frames EXCEPT ![Len(frames)] = @ \union {r}]
    BY <1>1, <1>4 DEF Held
  <2>8. MarkReleaseStore!Live = Live
    BY DEF MarkReleaseStore!Live, Live
  <2>9. r \in frames'[Len(frames)]
    BY <1>1, <2>3
  <2> HIDE DEF r
  <2>10. MarkReleaseStore!Allocate
    BY <2>4, <2>5, <2>6, <2>7, <2>8, <2>9 DEF MarkReleaseStore!Allocate
  <2> QED BY <2>10 DEF MarkReleaseStore!Next
<1> QED BY <1>3, <1>4

\* pop() and popAll() release the frames above a mark, together.
LEMMA PopRefines ==
  ASSUME PoolIInv, NEW i \in 1 .. Len(stack), PopTo(i)
  PROVE  MarkReleaseStore!Next
<1>1. frames' = SubSeq(frames, 1, i) /\ i \in 1 .. Len(frames) - 1
  BY DEF PopTo, PoolIInv, PoolTypeOK
<1> QED BY <1>1 DEF MarkReleaseStore!Next, MarkReleaseStore!Release, MarkReleaseStore!ReleaseTo

\* The regions callers hold evolve as those of a mark-and-release store: an
\* allocation (TPoolAllocator::allocate) never overlaps a live region, and
\* pop() and popAll() give up what was allocated since a mark, all of it and
\* nothing else.
THEOREM PoolImplementsMarkRelease == PoolSpec => MarkReleaseSpec
<1>1. PoolInit => MarkReleaseStore!Init
  BY DEF PoolInit, MarkReleaseStore!Init
<1>2. PoolIInv /\ [PoolNext]_allocVars => [MarkReleaseStore!Next]_frames
  <2> SUFFICES ASSUME PoolIInv, [PoolNext]_allocVars PROVE [MarkReleaseStore!Next]_frames
    OBVIOUS
  <2>1. CASE PushMark
    BY <2>1 DEF PushMark, MarkReleaseStore!Next, MarkReleaseStore!Mark
  <2>2. CASE Pop \/ PopAll
    <3>1. PICK i \in {1, Len(stack)} : stack # <<>> /\ PopTo(i)
      BY <2>2 DEF Pop, PopAll
    <3>2. i \in 1 .. Len(stack)
      BY <3>1, EmptySeq DEF PoolIInv, PoolTypeOK
    <3> QED BY <3>1, <3>2, PopRefines
  <2>3. CASE UNCHANGED allocVars
    BY <2>3 DEF allocVars
  <2>4. ASSUME NEW n \in Sizes, Allocate(n) PROVE [MarkReleaseStore!Next]_frames
    BY <2>4, AllocateRefines
  <2> QED BY <2>1, <2>2, <2>3, <2>4 DEF PoolNext, PopEmpty
<1> QED BY <1>1, <1>2, PoolInvariance, PTL DEF PoolSpec, MarkReleaseSpec, MarkReleaseStore!Spec
=============================================================================
