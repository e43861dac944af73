------------------------------- MODULE Sepia -------------------------------
(***************************************************************************)
(* The two sepia filters of laboratory work 5: the loop of image_sepia_c,  *)
(* and image_sepia_sse, which hands whole groups of four pixels to         *)
(* sepia_sse_apply and does the rest itself.  Buffers are byte by byte.    *)
(* Colours are counted in thousandths; the rounding of single-precision    *)
(* numbers is left out.                                                    *)
(***************************************************************************)
EXTENDS Integers

CONSTANTS
  MaxPixels,   \* bound on the images
  Sources      \* contents of the source buffer: functions from offsets to bytes

ASSUME SourcesAssumption ==
  /\ MaxPixels \in Nat
  /\ Sources \subseteq [0 .. 3 * MaxPixels - 1 -> 0 .. 255]

VARIABLES
  mode,      \* "c" or "sse"
  count,     \* pixel_count
  src, dst,
  pc,
  rdi, rsi,  \* offsets the vector loop reads and writes at
  rdx,       \* pixels left to the vector loop
  i          \* of the scalar loop

vars == <<mode, count, src, dst, pc, rdi, rsi, rdx, i>>

Garbage == -1

\* sepia_pixel_c and "new red", "new green", "new blue" of sepia_sse_apply.
NewRed(b, g, r)   == 393 * r + 769 * g + 189 * b
NewGreen(b, g, r) == 349 * r + 686 * g + 168 * b
NewBlue(b, g, r)  == 272 * r + 534 * g + 131 * b

clamp_to_byte(v) ==
  IF v < 0 THEN 0 ELSE IF v > 255000 THEN 255 ELSE (v + 500) \div 1000

\* The bytes of the pixel at offset o, blue first, after the filter.
sepia_pixel_c(o) ==
  LET b == src[o]  g == src[o + 1]  r == src[o + 2]
  IN  << clamp_to_byte(NewBlue(b, g, r)), clamp_to_byte(NewGreen(b, g, r)),
         clamp_to_byte(NewRed(b, g, r)) >>

\* Variant: the sum is not cut off before it is stored as a byte.
Saturated_not(v) == ((v + 500) \div 1000) % 256

\* maxps, minps, addps, cvttps2dq and the low byte of the result.
Saturated(v) ==
  LET bounded == IF v < 0 THEN 0 ELSE IF v > 255000 THEN 255000 ELSE v
  IN  ((bounded + 500) \div 1000) % 256

\* The three vectors: the blue, green and red bytes of the four pixels at rdi.
Lane(colour) == [n \in 0 .. 3 |-> src[rdi + 3 * n + colour]]

\* What is stored for byte k of the twelve.
Repacked(k) ==
  LET n == k \div 3
      b == Lane(0)[n]  g == Lane(1)[n]  r == Lane(2)[n]
      stored == << Saturated(NewBlue(b, g, r)), Saturated(NewGreen(b, g, r)),
                   Saturated(NewRed(b, g, r)) >>
  IN  stored[(k % 3) + 1]

\* pixel_count & ~3
simd_count(n) == (n \div 4) * 4

-----------------------------------------------------------------------------
\* A byte beyond the end of dst stands for all memory there.
Init ==
  /\ mode \in {"c", "sse"}
  /\ count \in 0 .. MaxPixels
  /\ src \in Sources
  /\ dst = [k \in 0 .. 3 * count |-> Garbage]
  /\ pc = "start"
  /\ rdi = 0
  /\ rsi = 0
  /\ rdx = 0
  /\ i = 0

\* image_create does not get its memory.
NoMemory ==
  /\ pc = "start"
  /\ count > 0
  /\ pc' = "failed"
  /\ UNCHANGED <<mode, count, src, dst, rdi, rsi, rdx, i>>

\* image_sepia_sse calls sepia_sse_apply.
StartVector ==
  /\ pc = "start"
  /\ mode = "sse"
  /\ simd_count(count) > 0
  /\ rdx' = simd_count(count)
  /\ pc' = "loop4"
  /\ UNCHANGED <<mode, count, src, dst, rdi, rsi, i>>

\* Nothing for the vector loop to do.
StartScalar ==
  /\ pc = "start"
  /\ mode = "sse" => simd_count(count) = 0
  /\ pc' = "scalar"
  /\ UNCHANGED <<mode, count, src, dst, rdi, rsi, rdx, i>>

\* .loop4 of sepia_sse_apply.
Loop4 ==
  /\ pc = "loop4"
  /\ rdx # 0
  /\ dst' = [k \in DOMAIN dst |-> IF k \in rsi .. rsi + 11 THEN Repacked(k - rsi) ELSE dst[k]]
  /\ rdi' = rdi + 12
  /\ rsi' = rsi + 12
  /\ rdx' = rdx - 4
  /\ UNCHANGED <<mode, count, src, pc, i>>

\* .finish, and the scalar loop begins behind the groups.
Loop4Ends ==
  /\ pc = "loop4"
  /\ rdx = 0
  /\ i' = simd_count(count)
  /\ pc' = "scalar"
  /\ UNCHANGED <<mode, count, src, dst, rdi, rsi, rdx>>

\* The loop of image_sepia_c, and the last one of image_sepia_sse.
Scalar ==
  /\ pc = "scalar"
  /\ i < count
  /\ dst' = [k \in DOMAIN dst |->
               IF k \in 3 * i .. 3 * i + 2 THEN sepia_pixel_c(3 * i)[k - 3 * i + 1] ELSE dst[k]]
  /\ i' = i + 1
  /\ UNCHANGED <<mode, count, src, pc, rdi, rsi, rdx>>

Return ==
  /\ pc = "scalar"
  /\ i >= count
  /\ pc' = "done"
  /\ UNCHANGED <<mode, count, src, dst, rdi, rsi, rdx, i>>

Returned == pc \in {"done", "failed"} /\ UNCHANGED vars

Next == NoMemory \/ StartVector \/ StartScalar \/ Loop4 \/ Loop4Ends \/ Scalar \/ Return \/ Returned

Spec == Init /\ [][Next]_vars

-----------------------------------------------------------------------------
(* What must hold *)

\* Both offsets and what is left stay within the buffer; bytes are bytes.
TypeOK ==
  /\ mode \in {"c", "sse"}
  /\ count \in 0 .. MaxPixels
  /\ src \in Sources
  /\ dst \in [0 .. 3 * count -> 0 .. 255 \union {Garbage}]
  /\ pc \in {"start", "loop4", "scalar", "done", "failed"}
  /\ rdi \in 0 .. 3 * count
  /\ rsi \in 0 .. 3 * count
  /\ rdx \in 0 .. count
  /\ i \in 0 .. count

\* Both filters make the same image: every pixel is the scalar filter's, whichever
\* loop it fell to, and nothing is written behind the last.
SameAsScalar ==
  pc = "done" =>
    /\ \A n \in 0 .. count - 1 :
         <<dst[3 * n], dst[3 * n + 1], dst[3 * n + 2]>> = sepia_pixel_c(3 * n)
    /\ dst[3 * count] = Garbage

\* No group of four begins that does not end inside both buffers: the loop only
\* tests whether pixels are left, so it relies on being given a multiple of four.
LoopsStayInside ==
  pc = "loop4" /\ rdx # 0 => rdi + 11 < 3 * count /\ rsi + 11 < 3 * count
=============================================================================
