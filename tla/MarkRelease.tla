----------------------------- MODULE MarkRelease -----------------------------
(***************************************************************************)
(* What a pool allocator promises (the comments of TPoolAllocator in       *)
(* Include/PoolAlloc.h): memory is handed out in regions that never        *)
(* overlap a live one, a mark opens a frame, and releasing the last mark   *)
(* gives up the regions of its frame, together, and no others.             *)
(***************************************************************************)
EXTENDS Naturals, Sequences

CONSTANT Blocks     \* the blocks of memory the heap can provide

VARIABLE frames     \* the live regions, by the mark they were allocated under

Region == [page : Blocks, from : Nat, to : Nat]

Apart(r, s) == r.page # s.page \/ r.to <= s.from \/ s.to <= r.from

Live == UNION {frames[f] : f \in DOMAIN frames}

Init == frames = <<{}, {}>>

Mark == frames' = Append(frames, {})

\* Gives up the frames above the first f; frame 1 is under no mark.
ReleaseTo(f) ==
  /\ f \in 1 .. Len(frames) - 1
  /\ frames' = SubSeq(frames, 1, f)

\* One more region, apart from every live one, in the newest frame.
Allocate ==
  /\ DOMAIN frames' = DOMAIN frames
  /\ \E r \in frames'[Len(frames)] :
       /\ r \in Region /\ r.from < r.to
       /\ \A s \in Live : Apart(r, s)
       /\ frames' = [frames EXCEPT ![Len(frames)] = @ \union {r}]

Release == \E f \in 1 .. Len(frames) - 1 : ReleaseTo(f)

Next == Mark \/ Release \/ Allocate

Spec == Init /\ [][Next]_frames
=============================================================================
