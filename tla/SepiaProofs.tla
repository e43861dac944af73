---------------------------- MODULE SepiaProofs ----------------------------
(***************************************************************************)
(* For images of every size and contents, both filters write the scalar    *)
(* filter's pixels, each where it belongs, and nothing else; and whatever  *)
(* fails in the program around them, its status tells what is in the file. *)
(***************************************************************************)
EXTENDS SepiaCommand, TLAPS

\* What a pixel should be, colour by colour.
PixelRight(n) ==
  /\ dst[3 * n] = sepia_pixel_c(3 * n)[1]
  /\ dst[3 * n + 1] = sepia_pixel_c(3 * n)[2]
  /\ dst[3 * n + 2] = sepia_pixel_c(3 * n)[3]

\* The first p pixels are done, and nothing has been written behind them.
Written(p) ==
  /\ \A n \in 0 .. p - 1 : PixelRight(n)
  /\ \A k \in 3 * p .. 3 * count : dst[k] = Garbage

\* The vector loop stands between two pixels, with a multiple of four to go.
VectorState(m, q) ==
  /\ rdi = 3 * m
  /\ rsi = 3 * m
  /\ rdx = 4 * q
  /\ m + 4 * q = simd_count(count)
  /\ Written(m)

IInv ==
  /\ TypeOK
  /\ pc = "start" => Written(0) /\ rdi = 0 /\ rsi = 0 /\ i = 0
  /\ pc = "loop4" => \E m, q \in Nat : VectorState(m, q)
  /\ pc = "scalar" => Written(i)
  /\ pc = "done" => Written(count)

-----------------------------------------------------------------------------
(* The colours *)

\* Cutting off before the conversion and clamping after it come to the same.
LEMMA SaturatedIsClamped ==
  ASSUME NEW v \in Nat
  PROVE  Saturated(v) = clamp_to_byte(v) /\ clamp_to_byte(v) \in 0 .. 255
BY DEF Saturated, clamp_to_byte

LEMMA SumsAreNat ==
  ASSUME NEW b \in 0 .. 255, NEW g \in 0 .. 255, NEW r \in 0 .. 255
  PROVE  NewRed(b, g, r) \in Nat /\ NewGreen(b, g, r) \in Nat /\ NewBlue(b, g, r) \in Nat
BY DEF NewRed, NewGreen, NewBlue

\* The multiple of four that sepia_sse_apply is given.
LEMMA SimdCount ==
  ASSUME NEW n \in Nat
  PROVE  /\ simd_count(n) \in 0 .. n
         /\ \E q \in Nat : simd_count(n) = 4 * q
<1>1. n \div 4 \in Nat /\ 4 * (n \div 4) <= n
  OBVIOUS
<1>2. simd_count(n) = 4 * (n \div 4)
  BY <1>1 DEF simd_count
<1> QED BY <1>1, <1>2

\* The twelve bytes of a group are three of each of four pixels.
LEMMA TwelveBytes ==
  ASSUME NEW j \in 0 .. 11
  PROVE  \E lane \in 0 .. 3, c \in 0 .. 2 : j = 3 * lane + c
<1>1. j \div 3 \in 0 .. 3 /\ j % 3 \in 0 .. 2 /\ j = 3 * (j \div 3) + (j % 3)
  OBVIOUS
<1> QED BY <1>1

\* A source buffer has three bytes for each pixel.
LEMMA SourceBytes ==
  ASSUME TypeOK, NEW n \in 0 .. count - 1
  PROVE  src[3 * n] \in 0 .. 255 /\ src[3 * n + 1] \in 0 .. 255 /\ src[3 * n + 2] \in 0 .. 255
<1>1. src \in [0 .. 3 * MaxPixels - 1 -> 0 .. 255]
  BY SourcesAssumption DEF TypeOK
<1>2. /\ 3 * n \in 0 .. 3 * MaxPixels - 1
      /\ 3 * n + 1 \in 0 .. 3 * MaxPixels - 1
      /\ 3 * n + 2 \in 0 .. 3 * MaxPixels - 1
  BY SourcesAssumption DEF TypeOK
<1> QED BY <1>1, <1>2

LEMMA PixelBytes ==
  ASSUME TypeOK, NEW n \in 0 .. count - 1, NEW c \in 1 .. 3
  PROVE  sepia_pixel_c(3 * n)[c] \in 0 .. 255
<1> DEFINE b == src[3 * n]
           g == src[3 * n + 1]
           r == src[3 * n + 2]
<1>1. b \in 0 .. 255 /\ g \in 0 .. 255 /\ r \in 0 .. 255
  BY SourceBytes
<1>2. /\ clamp_to_byte(NewBlue(b, g, r)) \in 0 .. 255
      /\ clamp_to_byte(NewGreen(b, g, r)) \in 0 .. 255
      /\ clamp_to_byte(NewRed(b, g, r)) \in 0 .. 255
  <2> HIDE DEF b, g, r
  <2> QED BY <1>1, SumsAreNat, SaturatedIsClamped
<1>3. /\ sepia_pixel_c(3 * n)[1] = clamp_to_byte(NewBlue(b, g, r))
      /\ sepia_pixel_c(3 * n)[2] = clamp_to_byte(NewGreen(b, g, r))
      /\ sepia_pixel_c(3 * n)[3] = clamp_to_byte(NewRed(b, g, r))
  BY DEF sepia_pixel_c
<1>4. c = 1 \/ c = 2 \/ c = 3
  OBVIOUS
<1> HIDE DEF b, g, r
<1> QED BY <1>2, <1>3, <1>4

\* What the vector loop stores at a byte of pixel m + lane is that pixel's colour.
LEMMA RepackedIsPixel ==
  ASSUME TypeOK, NEW m \in Nat, NEW lane \in 0 .. 3, m + 3 < count, rdi = 3 * m
  PROVE  /\ Repacked(3 * lane) = sepia_pixel_c(3 * (m + lane))[1]
         /\ Repacked(3 * lane + 1) = sepia_pixel_c(3 * (m + lane))[2]
         /\ Repacked(3 * lane + 2) = sepia_pixel_c(3 * (m + lane))[3]
<1> DEFINE n == m + lane
           b == src[3 * n]
           g == src[3 * n + 1]
           r == src[3 * n + 2]
<1>1. n \in 0 .. count - 1
  BY DEF TypeOK
<1>2. b \in 0 .. 255 /\ g \in 0 .. 255 /\ r \in 0 .. 255
  BY <1>1, SourceBytes
<1>3. Lane(0)[lane] = b /\ Lane(1)[lane] = g /\ Lane(2)[lane] = r
  <2>1. rdi + 3 * lane = 3 * n
    OBVIOUS
  <2> QED BY <2>1 DEF Lane
<1>4. /\ (3 * lane) \div 3 = lane /\ (3 * lane) % 3 = 0
      /\ (3 * lane + 1) \div 3 = lane /\ (3 * lane + 1) % 3 = 1
      /\ (3 * lane + 2) \div 3 = lane /\ (3 * lane + 2) % 3 = 2
  OBVIOUS
<1>5. /\ Repacked(3 * lane) = Saturated(NewBlue(b, g, r))
      /\ Repacked(3 * lane + 1) = Saturated(NewGreen(b, g, r))
      /\ Repacked(3 * lane + 2) = Saturated(NewRed(b, g, r))
  <2> HIDE DEF b, g, r
  <2> QED BY <1>3, <1>4 DEF Repacked
<1>6. /\ Saturated(NewBlue(b, g, r)) = clamp_to_byte(NewBlue(b, g, r))
      /\ Saturated(NewGreen(b, g, r)) = clamp_to_byte(NewGreen(b, g, r))
      /\ Saturated(NewRed(b, g, r)) = clamp_to_byte(NewRed(b, g, r))
  <2> HIDE DEF b, g, r
  <2> QED BY <1>2, SumsAreNat, SaturatedIsClamped
<1>7. /\ sepia_pixel_c(3 * n)[1] = clamp_to_byte(NewBlue(b, g, r))
      /\ sepia_pixel_c(3 * n)[2] = clamp_to_byte(NewGreen(b, g, r))
      /\ sepia_pixel_c(3 * n)[3] = clamp_to_byte(NewRed(b, g, r))
  BY DEF sepia_pixel_c
<1> QED
  <2> HIDE DEF b, g, r
  <2> QED BY <1>5, <1>6, <1>7

-----------------------------------------------------------------------------
(* The steps *)

LEMMA InitInv == Init => IInv
<1> SUFFICES ASSUME Init PROVE IInv
  OBVIOUS
<1>1. TypeOK
  BY SourcesAssumption DEF Init, TypeOK, Garbage
<1>2. Written(0)
  BY DEF Init, Written
<1> QED
  BY <1>1, <1>2 DEF Init, IInv

LEMMA StartVectorKeeps == IInv /\ StartVector => IInv'
<1> SUFFICES ASSUME IInv, StartVector PROVE IInv'
  OBVIOUS
<1>1. count \in Nat
  BY SourcesAssumption DEF IInv, TypeOK
<1>2. TypeOK'
  BY <1>1, SimdCount DEF IInv, TypeOK, StartVector
<1>3. PICK q \in Nat : simd_count(count) = 4 * q
  BY <1>1, SimdCount
<1>4. Written(0)'
  BY DEF IInv, StartVector, Written, PixelRight, sepia_pixel_c
<1>5. VectorState(0, q)'
  BY <1>3, <1>4 DEF IInv, StartVector, VectorState
<1> QED
  BY <1>2, <1>5 DEF IInv, StartVector

LEMMA StartScalarKeeps == IInv /\ StartScalar => IInv'
<1> SUFFICES ASSUME IInv, StartScalar PROVE IInv'
  OBVIOUS
<1>1. TypeOK'
  BY DEF IInv, TypeOK, StartScalar
<1>2. Written(0)'
  BY DEF IInv, StartScalar, Written, PixelRight, sepia_pixel_c
<1> QED
  BY <1>1, <1>2 DEF IInv, StartScalar

\* Four more pixels are right, and the rest of the buffer is as before.
LEMMA Loop4Keeps == IInv /\ Loop4 => IInv'
<1> SUFFICES ASSUME IInv, Loop4 PROVE IInv'
  OBVIOUS
<1>a. dst' = [k \in DOMAIN dst |-> IF k \in rsi .. rsi + 11 THEN Repacked(k - rsi) ELSE dst[k]]
  BY DEF Loop4
<1>b. /\ pc = "loop4" /\ rdx # 0
      /\ rdi' = rdi + 12 /\ rsi' = rsi + 12 /\ rdx' = rdx - 4
      /\ UNCHANGED <<mode, count, src, pc, i>>
  BY DEF Loop4
<1>c. TypeOK /\ count \in Nat
  BY SourcesAssumption DEF IInv, TypeOK
<1>1. PICK m \in Nat, q \in Nat : VectorState(m, q)
  BY <1>b DEF IInv
<1>2. count \in Nat /\ dst \in [0 .. 3 * count -> 0 .. 255 \union {Garbage}] /\ TypeOK
  BY <1>c DEF TypeOK
<1>3. q # 0 /\ m + 4 <= count
  BY <1>1, <1>2, <1>b, SimdCount DEF VectorState
<1>4. ASSUME NEW lane \in 0 .. 3
      PROVE  /\ dst'[3 * (m + lane)] = sepia_pixel_c(3 * (m + lane))[1]
             /\ dst'[3 * (m + lane) + 1] = sepia_pixel_c(3 * (m + lane))[2]
             /\ dst'[3 * (m + lane) + 2] = sepia_pixel_c(3 * (m + lane))[3]
  <2>1. ASSUME NEW c \in 0 .. 2
        PROVE  dst'[3 * (m + lane) + c] = Repacked(3 * lane + c)
    <3>1. 3 * (m + lane) + c \in DOMAIN dst /\ 3 * (m + lane) + c \in rsi .. rsi + 11
      BY <1>1, <1>2, <1>3 DEF VectorState
    <3>2. (3 * (m + lane) + c) - rsi = 3 * lane + c
      BY <1>1 DEF VectorState
    <3> QED
      BY <1>a, <3>1, <3>2
  <2>2. /\ dst'[3 * (m + lane) + 0] = Repacked(3 * lane + 0)
        /\ dst'[3 * (m + lane) + 1] = Repacked(3 * lane + 1)
        /\ dst'[3 * (m + lane) + 2] = Repacked(3 * lane + 2)
    BY <2>1
  <2>3. 3 * (m + lane) + 0 = 3 * (m + lane) /\ 3 * lane + 0 = 3 * lane
    OBVIOUS
  <2>4. m + 3 < count /\ rdi = 3 * m
    BY <1>1, <1>2, <1>3 DEF VectorState
  <2> QED
    BY <1>2, <2>2, <2>3, <2>4, RepackedIsPixel
<1>5. \A k \in DOMAIN dst : k \notin 3 * m .. 3 * m + 11 => dst'[k] = dst[k]
  BY <1>1, <1>a DEF VectorState
<1>6. \A n \in 0 .. m + 3 : /\ dst'[3 * n] = sepia_pixel_c(3 * n)[1]
                            /\ dst'[3 * n + 1] = sepia_pixel_c(3 * n)[2]
                            /\ dst'[3 * n + 2] = sepia_pixel_c(3 * n)[3]
  <2> SUFFICES ASSUME NEW n \in 0 .. m + 3
               PROVE  /\ dst'[3 * n] = sepia_pixel_c(3 * n)[1]
                      /\ dst'[3 * n + 1] = sepia_pixel_c(3 * n)[2]
                      /\ dst'[3 * n + 2] = sepia_pixel_c(3 * n)[3]
    OBVIOUS
  <2>1. CASE n >= m
    <3>1. n - m \in 0 .. 3 /\ m + (n - m) = n
      BY <2>1
    <3> QED
      BY <3>1, <1>4
  <2>2. CASE n < m
    <3>1. PixelRight(n)
      BY <1>1, <2>2 DEF VectorState, Written
    <3>2. /\ 3 * n \in DOMAIN dst /\ 3 * n + 1 \in DOMAIN dst /\ 3 * n + 2 \in DOMAIN dst
          /\ 3 * n + 2 < 3 * m
      BY <1>2, <1>3, <2>2
    <3> QED
      BY <1>5, <3>1, <3>2 DEF PixelRight
  <2> QED
    BY <2>1, <2>2
<1>7. Written(m + 4)'
  <2>1. \A k \in 3 * (m + 4) .. 3 * count : dst'[k] = Garbage
    BY <1>1, <1>2, <1>5 DEF VectorState, Written
  <2>2. ASSUME NEW n \in 0 .. (m + 4) - 1
        PROVE  PixelRight(n)'
    <3>1. n \in 0 .. m + 3
      OBVIOUS
    <3>2. sepia_pixel_c(3 * n)' = sepia_pixel_c(3 * n)
      BY <1>b DEF sepia_pixel_c
    <3> QED
      BY <1>6, <3>1, <3>2 DEF PixelRight
  <2> QED
    BY <1>b, <2>1, <2>2 DEF Written
<1>8. VectorState(m + 4, q - 1)' /\ m + 4 \in Nat /\ q - 1 \in Nat
  BY <1>1, <1>3, <1>7, <1>b DEF VectorState, simd_count
<1>9. TypeOK'
  <2>1. ASSUME NEW k \in DOMAIN dst
        PROVE  dst'[k] \in 0 .. 255 \union {Garbage}
    <3>1. CASE k \in 3 * m .. 3 * m + 11
      <4>1. PICK n \in 0 .. count - 1, c \in 1 .. 3 : dst'[k] = sepia_pixel_c(3 * n)[c]
        <5>1. PICK lane \in 0 .. 3, c \in 0 .. 2 : k = 3 * (m + lane) + c
          <6>1. k - 3 * m \in 0 .. 11
            BY <3>1
          <6>2. PICK lane \in 0 .. 3, c \in 0 .. 2 : k - 3 * m = 3 * lane + c
            BY <6>1, TwelveBytes
          <6>3. k = 3 * (m + lane) + c
            BY <3>1, <6>2
          <6> QED
            BY <6>3
        <5>2. m + lane \in 0 .. count - 1
          BY <1>2, <1>3
        <5>3. CASE c = 0
          BY <1>4, <5>1, <5>2, <5>3
        <5>4. CASE c = 1
          BY <1>4, <5>1, <5>2, <5>4
        <5>5. CASE c = 2
          BY <1>4, <5>1, <5>2, <5>5
        <5> QED
          BY <5>3, <5>4, <5>5
      <4> QED
        BY <1>2, <4>1, PixelBytes
    <3>2. CASE k \notin 3 * m .. 3 * m + 11
      BY <1>2, <1>5, <3>2
    <3> QED
      BY <3>1, <3>2
  <2>2. dst' \in [0 .. 3 * count -> 0 .. 255 \union {Garbage}]
    BY <1>2, <1>a, <2>1
  <2>3. rdi' \in 0 .. 3 * count /\ rsi' \in 0 .. 3 * count /\ rdx' \in 0 .. count
    BY <1>1, <1>2, <1>3, <1>b DEF VectorState, TypeOK
  <2> QED
    BY <1>2, <1>b, <2>2, <2>3 DEF TypeOK
<1> QED
  BY <1>8, <1>9, <1>b DEF IInv

LEMMA Loop4EndsKeeps == IInv /\ Loop4Ends => IInv'
<1> SUFFICES ASSUME IInv, Loop4Ends PROVE IInv'
  OBVIOUS
<1>1. PICK m \in Nat, q \in Nat : VectorState(m, q)
  BY DEF IInv, Loop4Ends
<1>2. m = simd_count(count) /\ Written(m)
  BY <1>1 DEF VectorState, Loop4Ends
<1>3. TypeOK'
  BY SourcesAssumption, SimdCount DEF IInv, TypeOK, Loop4Ends
<1>4. Written(m)'
  BY <1>2 DEF Loop4Ends, Written, PixelRight, sepia_pixel_c
<1> QED
  BY <1>2, <1>3, <1>4 DEF IInv, Loop4Ends

\* One more pixel is right.
LEMMA ScalarKeeps == IInv /\ Scalar => IInv'
<1> SUFFICES ASSUME IInv, Scalar PROVE IInv'
  OBVIOUS
<1>a. dst' = [k \in DOMAIN dst |->
                IF k \in 3 * i .. 3 * i + 2 THEN sepia_pixel_c(3 * i)[k - 3 * i + 1] ELSE dst[k]]
  BY DEF Scalar
<1>b. /\ pc = "scalar" /\ i < count /\ i' = i + 1
      /\ UNCHANGED <<mode, count, src, pc, rdi, rsi, rdx>>
  BY DEF Scalar
<1>c. TypeOK /\ count \in Nat
  BY SourcesAssumption DEF IInv, TypeOK
<1>1. count \in Nat /\ dst \in [0 .. 3 * count -> 0 .. 255 \union {Garbage}] /\ TypeOK
  BY <1>c DEF TypeOK
<1>2. i \in 0 .. count - 1 /\ Written(i)
  BY <1>b, <1>c DEF IInv, TypeOK
<1>3. /\ dst'[3 * i] = sepia_pixel_c(3 * i)[1]
      /\ dst'[3 * i + 1] = sepia_pixel_c(3 * i)[2]
      /\ dst'[3 * i + 2] = sepia_pixel_c(3 * i)[3]
  <2>1. /\ 3 * i \in DOMAIN dst /\ 3 * i + 1 \in DOMAIN dst /\ 3 * i + 2 \in DOMAIN dst
        /\ 3 * i - 3 * i + 1 = 1 /\ 3 * i + 1 - 3 * i + 1 = 2 /\ 3 * i + 2 - 3 * i + 1 = 3
        /\ 3 * i \in 3 * i .. 3 * i + 2 /\ 3 * i + 1 \in 3 * i .. 3 * i + 2
        /\ 3 * i + 2 \in 3 * i .. 3 * i + 2
    BY <1>1, <1>2
  <2> QED
    BY <1>a, <2>1
<1>4. \A k \in DOMAIN dst : k \notin 3 * i .. 3 * i + 2 => dst'[k] = dst[k]
  BY <1>a
<1>5. Written(i)'
  <2>1. ASSUME NEW n \in 0 .. (i + 1) - 1
        PROVE  PixelRight(n)'
    <3>a. sepia_pixel_c(3 * n)' = sepia_pixel_c(3 * n)
      BY <1>b DEF sepia_pixel_c
    <3>1. CASE n = i
      BY <1>3, <3>1, <3>a DEF PixelRight
    <3>2. CASE n < i
      <4>1. PixelRight(n)
        BY <1>2, <3>2 DEF Written
      <4>2. /\ 3 * n \in DOMAIN dst /\ 3 * n + 1 \in DOMAIN dst /\ 3 * n + 2 \in DOMAIN dst
            /\ 3 * n + 2 < 3 * i
        BY <1>1, <1>2, <3>2
      <4>3. dst'[3 * n] = dst[3 * n] /\ dst'[3 * n + 1] = dst[3 * n + 1]
            /\ dst'[3 * n + 2] = dst[3 * n + 2]
        BY <1>2, <1>4, <4>2
      <4> QED
        BY <4>1, <4>3, <3>a DEF PixelRight
    <3> QED
      BY <1>2, <3>1, <3>2
  <2>2. \A k \in 3 * (i + 1) .. 3 * count : dst'[k] = Garbage
    BY <1>1, <1>2, <1>4 DEF Written
  <2>3. i' - 1 = (i + 1) - 1 /\ i' = i + 1 /\ count' = count
    BY <1>b
  <2> QED
    BY <2>1, <2>2, <2>3 DEF Written
<1>6. TypeOK'
  <2>1. ASSUME NEW k \in DOMAIN dst
        PROVE  dst'[k] \in 0 .. 255 \union {Garbage}
    <3>1. CASE k \in 3 * i .. 3 * i + 2
      <4>1. k - 3 * i + 1 \in 1 .. 3
        BY <1>2, <3>1
      <4>2. dst'[k] = sepia_pixel_c(3 * i)[k - 3 * i + 1]
        BY <1>a, <3>1
      <4> QED
        BY <1>1, <1>2, <4>1, <4>2, PixelBytes
    <3>2. CASE k \notin 3 * i .. 3 * i + 2
      BY <1>1, <1>4, <3>2
    <3> QED
      BY <3>1, <3>2
  <2>2. dst' \in [0 .. 3 * count -> 0 .. 255 \union {Garbage}]
    BY <1>1, <1>a, <2>1
  <2>3. i' \in 0 .. count
    BY <1>1, <1>2, <1>b
  <2> QED
    BY <1>b, <1>c, <2>2, <2>3 DEF TypeOK
<1> QED
  BY <1>5, <1>6, <1>b DEF IInv

LEMMA ReturnKeeps == IInv /\ Return => IInv'
<1> SUFFICES ASSUME IInv, Return PROVE IInv'
  OBVIOUS
<1>1. i = count
  BY SourcesAssumption DEF IInv, TypeOK, Return
<1>2. Written(count)'
  BY <1>1 DEF IInv, Return, Written, PixelRight, sepia_pixel_c
<1>3. TypeOK'
  BY DEF IInv, TypeOK, Return
<1> QED
  BY <1>2, <1>3 DEF IInv, Return

LEMMA StutterKeeps == IInv /\ UNCHANGED vars => IInv'
BY DEF IInv, vars, TypeOK, Written, VectorState, PixelRight, sepia_pixel_c, simd_count

\* Every step of either filter.
LEMMA FilterStep == IInv /\ (Next \/ UNCHANGED vars) => IInv'
<1> SUFFICES ASSUME IInv, Next \/ UNCHANGED vars PROVE IInv'
  OBVIOUS
<1>1. CASE NoMemory
  BY <1>1 DEF NoMemory, IInv, TypeOK
<1>2. CASE StartVector
  BY <1>2, StartVectorKeeps
<1>3. CASE StartScalar
  BY <1>3, StartScalarKeeps
<1>4. CASE Loop4
  BY <1>4, Loop4Keeps
<1>5. CASE Loop4Ends
  BY <1>5, Loop4EndsKeeps
<1>6. CASE Scalar
  BY <1>6, ScalarKeeps
<1>7. CASE Return
  BY <1>7, ReturnKeeps
<1>8. CASE Returned \/ UNCHANGED vars
  BY <1>8, StutterKeeps DEF Returned
<1> QED
  BY <1>1, <1>2, <1>3, <1>4, <1>5, <1>6, <1>7, <1>8 DEF Next

-----------------------------------------------------------------------------
(* The theorems *)

\* The invariant behind the others: at every step a whole number of pixels is done,
\* each is the scalar filter's, and nothing is written behind them.
THEOREM PixelsDoneAreRight == Spec => []IInv
<1>1. Init => IInv
  BY InitInv
<1>2. IInv /\ [Next]_vars => IInv'
  BY FilterStep
<1> QED
  BY <1>1, <1>2, PTL DEF Spec

\* Every variable keeps its type: in particular image_sepia_sse never leaves the
\* buffers, and every byte it stores is one.
THEOREM TypeCorrect == Spec => []TypeOK
<1>1. IInv => TypeOK
  BY DEF IInv
<1> QED
  BY <1>1, PixelsDoneAreRight, PTL

\* image_sepia_c and image_sepia_sse make the same image, for every number of pixels
\* and every source.
THEOREM FiltersAgree == Spec => []SameAsScalar
<1>1. IInv => SameAsScalar
  <2> SUFFICES ASSUME IInv, pc = "done" PROVE
        /\ \A n \in 0 .. count - 1 :
             <<dst[3 * n], dst[3 * n + 1], dst[3 * n + 2]>> = sepia_pixel_c(3 * n)
        /\ dst[3 * count] = Garbage
    BY DEF SameAsScalar
  <2>1. Written(count) /\ count \in Nat
    BY SourcesAssumption DEF IInv, TypeOK
  <2>2. ASSUME NEW n \in 0 .. count - 1
        PROVE  <<dst[3 * n], dst[3 * n + 1], dst[3 * n + 2]>> = sepia_pixel_c(3 * n)
    BY <2>1 DEF Written, PixelRight, sepia_pixel_c
  <2>3. dst[3 * count] = Garbage
    BY <2>1 DEF Written
  <2> QED
    BY <2>2, <2>3
<1> QED
  BY <1>1, PixelsDoneAreRight, PTL

\* sepia_sse_apply, which stops only when exactly no pixel is left, never begins a
\* group of four that ends outside the image.
THEOREM GroupsStayInside == Spec => []LoopsStayInside
<1>1. IInv => LoopsStayInside
  <2> SUFFICES ASSUME IInv, pc = "loop4", rdx # 0
               PROVE  rdi + 11 < 3 * count /\ rsi + 11 < 3 * count
    BY DEF LoopsStayInside
  <2>1. PICK m \in Nat, q \in Nat : VectorState(m, q)
    BY DEF IInv
  <2>2. count \in Nat
    BY SourcesAssumption DEF IInv, TypeOK
  <2> QED
    BY <2>1, <2>2, SimdCount DEF VectorState
<1> QED
  BY <1>1, PixelsDoneAreRight, PTL

-----------------------------------------------------------------------------
(* The program around the filters *)

\* The target holds the first bytes of the filtered image, or nothing yet.
TargetBegins ==
  /\ target \in Seq(0 .. 255 \union {Garbage})
  /\ target = <<>> \/ pc = "done"
  /\ Len(target) <= 3 * count
  /\ \A k \in 1 .. Len(target) : target[k] = dst[k - 1]

\* What main holds at each of its steps: the streams it has to close and the images
\* it has to destroy, an image to write once the filter has returned one, and a
\* whole file when it is going to report success.
MainHolds ==
  /\ step \in {"arguments", "open_source", "from_bmp", "filter", "open_target",
               "to_bmp", "close_target", "exit"}
  /\ step \in {"arguments", "open_source", "exit"} => streams = {} /\ buffers = {}
  /\ step = "from_bmp" => buffers = {}
  /\ step \in {"filter", "open_target"} => streams = {}
  /\ step \in {"open_target", "to_bmp", "close_target"} => pc = "done"
  /\ step \notin {"close_target", "exit"} => target = <<>>
  /\ step = "close_target" /\ write = "WRITE_OK" => Len(target) = 3 * count
  /\ step = "exit" /\ exitStatus = 0 /\ ~unsaved => Len(target) = 3 * count

CommandInv == IInv /\ TargetBegins /\ MainHolds

LEMMA CommandInitInv == CommandInit => CommandInv
<1> SUFFICES ASSUME CommandInit PROVE CommandInv
  OBVIOUS
<1>1. IInv /\ count \in Nat
  BY InitInv, SourcesAssumption DEF CommandInit, IInv, TypeOK
<1>2. TargetBegins
  BY <1>1 DEF CommandInit, TargetBegins
<1> QED
  BY <1>1, <1>2 DEF CommandInv, CommandInit, MainHolds

LEMMA CountFixed == Next => count' = count
BY DEF Next, NoMemory, StartVector, StartScalar, Loop4, Loop4Ends, Scalar, Return, Returned, vars

\* What has been written stays a beginning of the image when it is cut short.
LEMMA CutShort ==
  ASSUME NEW S, NEW s \in Seq(S), NEW k \in 0 .. Len(s)
  PROVE  /\ SubSeq(s, 1, k) \in Seq(S)
         /\ Len(SubSeq(s, 1, k)) = k
         /\ \A j \in 1 .. k : SubSeq(s, 1, k)[j] = s[j]
OBVIOUS

LEMMA FunctionIsSequence ==
  ASSUME NEW S, NEW n \in Nat, NEW s \in [1 .. n -> S]
  PROVE  s \in Seq(S) /\ Len(s) = n
OBVIOUS

LEMMA WrittenImageBegins ==
  ASSUME TypeOK
  PROVE  /\ WrittenImage \in Seq(0 .. 255 \union {Garbage})
         /\ Len(WrittenImage) = 3 * count
         /\ \A k \in 1 .. 3 * count : WrittenImage[k] = dst[k - 1]
<1>1. count \in Nat /\ dst \in [0 .. 3 * count -> 0 .. 255 \union {Garbage}]
  BY SourcesAssumption DEF TypeOK
<1>2. \A k \in 1 .. 3 * count : WrittenImage[k] = dst[k - 1] /\ dst[k - 1] \in 0 .. 255 \union {Garbage}
  BY <1>1 DEF WrittenImage
<1>3. WrittenImage \in [1 .. 3 * count -> 0 .. 255 \union {Garbage}]
  BY <1>1 DEF WrittenImage
<1>4. 3 * count \in Nat
  BY <1>1
<1> HIDE DEF WrittenImage
<1>5. WrittenImage \in Seq(0 .. 255 \union {Garbage}) /\ Len(WrittenImage) = 3 * count
  <2> DEFINE S == 0 .. 255 \union {Garbage}
             n == 3 * count
  <2>1. n \in Nat /\ WrittenImage \in [1 .. n -> S]
    BY <1>3, <1>4
  <2> HIDE DEF S, n
  <2>2. WrittenImage \in Seq(S) /\ Len(WrittenImage) = n
    BY <2>1, FunctionIsSequence
  <2> QED
    BY <2>2 DEF S, n
<1> QED
  BY <1>2, <1>5

\* Steps that leave the target and the images alone.
LEMMA TargetUntouched ==
  TargetBegins /\ UNCHANGED <<target, vars>> => TargetBegins'
BY DEF TargetBegins, vars

LEMMA FiltersKeeps == CommandInv /\ Filters => CommandInv'
<1> SUFFICES ASSUME CommandInv, Filters PROVE CommandInv'
  OBVIOUS
<1>1. IInv' /\ count \in Nat /\ count' = count
  <2>1. IInv /\ Next
    BY DEF CommandInv, Filters
  <2>2. IInv' /\ count' = count
    BY <2>1, FilterStep, CountFixed
  <2>3. count \in Nat
    BY <2>1, SourcesAssumption DEF IInv, TypeOK
  <2> QED
    BY <2>2, <2>3
<1>2. target = <<>> /\ target' = <<>> /\ step = "filter" /\ UNCHANGED mainVars
  BY DEF CommandInv, MainHolds, Filters, mainVars
<1>3. TargetBegins'
  BY <1>1, <1>2 DEF TargetBegins
<1>4. MainHolds'
  BY <1>2 DEF CommandInv, MainHolds, mainVars
<1> QED
  BY <1>1, <1>3, <1>4 DEF CommandInv

LEMMA WritingKeeps == CommandInv /\ to_bmp => CommandInv'
<1> SUFFICES ASSUME CommandInv, to_bmp PROVE CommandInv'
  OBVIOUS
<1>1. IInv' /\ TypeOK /\ pc = "done" /\ count \in Nat
  <2>1. UNCHANGED vars /\ step = "to_bmp" /\ IInv
    BY DEF CommandInv, to_bmp
  <2>2. IInv'
    BY <2>1, StutterKeeps
  <2>3. TypeOK /\ count \in Nat
    BY <2>1, SourcesAssumption DEF IInv, TypeOK
  <2> QED
    BY <2>1, <2>2, <2>3 DEF CommandInv, MainHolds
<1>2. UNCHANGED vars /\ step' = "close_target"
  BY DEF to_bmp, Goto
<1>3. PICK k \in 0 .. 3 * count :
        /\ target' = WrittenImage \/ target' = SubSeq(WrittenImage, 1, k)
        /\ write' = "WRITE_OK" => target' = WrittenImage
  BY <1>1, WrittenImageBegins DEF to_bmp
<1>4. /\ target' \in Seq(0 .. 255 \union {Garbage})
      /\ Len(target') <= 3 * count
      /\ \A j \in 1 .. Len(target') : target'[j] = dst[j - 1]
  <2>1. CASE target' = WrittenImage
    BY <1>1, <2>1, WrittenImageBegins
  <2>2. CASE target' = SubSeq(WrittenImage, 1, k)
    <3> DEFINE S == 0 .. 255 \union {Garbage}
    <3>1. WrittenImage \in Seq(S) /\ k \in 0 .. Len(WrittenImage)
      BY <1>1, WrittenImageBegins
    <3>2. /\ target' \in Seq(S) /\ Len(target') = k
          /\ \A j \in 1 .. k : target'[j] = WrittenImage[j]
      <4> HIDE DEF S
      <4> QED BY <2>2, <3>1, CutShort
    <3> QED
      BY <1>1, <3>2, WrittenImageBegins
  <2> QED
    BY <1>3, <2>1, <2>2
<1>5. TargetBegins'
  BY <1>1, <1>2, <1>4 DEF TargetBegins, vars
<1>6. MainHolds'
  BY <1>1, <1>2, <1>3, WrittenImageBegins DEF MainHolds, vars
<1> QED
  BY <1>1, <1>5, <1>6 DEF CommandInv

LEMMA ClosingKeeps == CommandInv /\ ClosesTarget => CommandInv'
<1> SUFFICES ASSUME CommandInv, ClosesTarget PROVE CommandInv'
  OBVIOUS
<1>1. /\ IInv' /\ pc = "done" /\ count \in Nat /\ TargetBegins
      /\ write = "WRITE_OK" => Len(target) = 3 * count
  <2>1. UNCHANGED vars /\ step = "close_target" /\ IInv /\ TargetBegins
    BY DEF CommandInv, ClosesTarget
  <2>2. IInv'
    BY <2>1, StutterKeeps
  <2>3. count \in Nat
    BY <2>1, SourcesAssumption DEF IInv, TypeOK
  <2> QED
    BY <2>1, <2>2, <2>3 DEF CommandInv, MainHolds
<1>2. /\ UNCHANGED vars /\ step' = "exit" /\ streams' = {} /\ buffers' = {}
      /\ exitStatus' = (IF write = "WRITE_OK" THEN 0 ELSE 1)
  BY DEF ClosesTarget, Exits
<1>3. \/ UNCHANGED <<target, unsaved>>
      \/ unsaved' /\ \E k \in 0 .. Len(target) - 1 : target' = SubSeq(target, 1, k)
  BY DEF ClosesTarget
<1>4. TargetBegins'
  <2>1. CASE UNCHANGED <<target, unsaved>>
    BY <1>1, <1>2, <2>1, TargetUntouched
  <2>2. ASSUME NEW k \in 0 .. Len(target) - 1, target' = SubSeq(target, 1, k)
        PROVE  TargetBegins'
    <3> DEFINE S == 0 .. 255 \union {Garbage}
    <3>1. target \in Seq(S) /\ k \in 0 .. Len(target)
      BY <1>1 DEF TargetBegins
    <3>2. /\ target' \in Seq(S) /\ Len(target') = k
          /\ \A j \in 1 .. k : target'[j] = target[j]
      <4> HIDE DEF S
      <4> QED BY <2>2, <3>1, CutShort
    <3>3. /\ pc' = pc /\ count' = count /\ dst' = dst /\ pc = "done"
          /\ k <= Len(target) /\ Len(target) \in Nat /\ Len(target) <= 3 * count
          /\ \A j \in 1 .. Len(target) : target[j] = dst[j - 1]
      BY <1>1, <1>2 DEF TargetBegins, vars
    <3>4. k \in Nat /\ k <= 3 * count
      BY <1>1, <3>3
    <3>5. ASSUME NEW j \in 1 .. k
          PROVE  target'[j] = dst'[j - 1]
      <4>1. j \in 1 .. Len(target)
        BY <3>3, <3>4
      <4> QED
        BY <4>1, <3>2, <3>3
    <3> QED
      BY <3>2, <3>3, <3>4, <3>5 DEF TargetBegins
  <2> QED
    BY <1>3, <2>1, <2>2
<1>5. MainHolds'
  BY <1>1, <1>2, <1>3 DEF MainHolds, vars
<1> QED
  BY <1>1, <1>4, <1>5 DEF CommandInv

\* Every other step of main opens or closes a stream, keeps or gives up an image.
LEMMA MainStepKeeps ==
  CommandInv /\ (ChecksArguments \/ OpensSource \/ from_bmp \/ FilterReturns \/ OpensTarget)
    => CommandInv'
<1> SUFFICES ASSUME CommandInv,
                    ChecksArguments \/ OpensSource \/ from_bmp \/ FilterReturns \/ OpensTarget
             PROVE  CommandInv'
  OBVIOUS
<1>1. UNCHANGED <<vars, target, write, unsaved>>
  BY DEF ChecksArguments, OpensSource, from_bmp, FilterReturns, OpensTarget, fileVars
<1>2. IInv' /\ TargetBegins'
  BY <1>1, StutterKeeps, TargetUntouched DEF CommandInv
<1>3. pc' = pc /\ count' = count /\ target' = target /\ unsaved' = unsaved
  BY <1>1 DEF vars
<1>4. MainHolds'
  <2>1. CASE ChecksArguments
    BY <1>3, <2>1 DEF CommandInv, MainHolds, ChecksArguments, Exits, Goto, fileVars
  <2>2. CASE OpensSource
    BY <1>3, <2>2 DEF CommandInv, MainHolds, OpensSource, Exits, Goto
  <2>3. CASE from_bmp
    BY <1>3, <2>3 DEF CommandInv, MainHolds, from_bmp, Exits, Goto
  <2>4. CASE FilterReturns
    BY <1>3, <2>4 DEF CommandInv, MainHolds, FilterReturns, Exits, Goto
  <2>5. CASE OpensTarget
    BY <1>3, <2>5 DEF CommandInv, MainHolds, OpensTarget, Exits, Goto
  <2> QED
    BY <2>1, <2>2, <2>3, <2>4, <2>5
<1> QED
  BY <1>2, <1>4 DEF CommandInv

THEOREM CommandInvariant == CommandSpec => []CommandInv
<1>1. CommandInv /\ [CommandNext]_allVars => CommandInv'
  <2> SUFFICES ASSUME CommandInv, [CommandNext]_allVars PROVE CommandInv'
    OBVIOUS
  <2>1. CASE UNCHANGED allVars
    <3>1. UNCHANGED vars /\ UNCHANGED mainVars
      BY <2>1 DEF allVars
    <3>2. IInv' /\ TargetBegins'
      BY <3>1, StutterKeeps, TargetUntouched DEF CommandInv, mainVars
    <3> QED
      BY <3>1, <3>2 DEF CommandInv, MainHolds, mainVars, vars
  <2>2. CASE Exited
    BY <2>1, <2>2 DEF Exited
  <2>3. CASE Filters
    BY <2>3, FiltersKeeps
  <2>4. CASE to_bmp
    BY <2>4, WritingKeeps
  <2>5. CASE ClosesTarget
    BY <2>5, ClosingKeeps
  <2> QED
    BY <2>1, <2>2, <2>3, <2>4, <2>5, MainStepKeeps DEF CommandNext
<1> QED
  BY CommandInitInv, <1>1, PTL DEF CommandSpec

\* However the sepia program ends, it holds nothing, its file begins like the scalar
\* filter's picture whichever mode was asked for, and status 0 means all of it unless
\* closing the file failed: for every picture.
THEOREM CommandTellsResult == CommandSpec => []ExitTellsResult
<1>1. CommandInv => ExitTellsResult
  <2> SUFFICES ASSUME CommandInv, step = "exit"
               PROVE  /\ streams = {} /\ buffers = {}
                      /\ \A k \in DOMAIN target :
                           target[k] = sepia_pixel_c(3 * ((k - 1) \div 3))[((k - 1) % 3) + 1]
                      /\ exitStatus = 0 /\ ~unsaved => Len(target) = 3 * count
    BY DEF ExitTellsResult
  <2>1. /\ streams = {} /\ buffers = {}
        /\ exitStatus = 0 /\ ~unsaved => Len(target) = 3 * count
    BY DEF CommandInv, MainHolds
  <2>2. ASSUME NEW k \in DOMAIN target
        PROVE  target[k] = sepia_pixel_c(3 * ((k - 1) \div 3))[((k - 1) % 3) + 1]
    <3>1. /\ k \in 1 .. Len(target) /\ Len(target) \in Nat /\ target # <<>>
      BY DEF CommandInv, TargetBegins
    <3>2. /\ pc = "done" /\ count \in Nat /\ k \in 1 .. 3 * count /\ target[k] = dst[k - 1]
      BY <3>1, SourcesAssumption DEF CommandInv, TargetBegins, IInv, TypeOK
    <3> DEFINE n == (k - 1) \div 3
               c == (k - 1) % 3
    <3>3. n \in 0 .. count - 1 /\ c \in 0 .. 2 /\ k - 1 = 3 * n + c
      BY <3>2
    <3>4. PixelRight(n)
      BY <3>2, <3>3 DEF CommandInv, IInv, Written
    <3> HIDE DEF n, c
    <3>5. target[k] = sepia_pixel_c(3 * n)[c + 1]
      <4> DEFINE pixel == sepia_pixel_c(3 * n)
      <4>1. dst[3 * n] = pixel[1] /\ dst[3 * n + 1] = pixel[2] /\ dst[3 * n + 2] = pixel[3]
        BY <3>4 DEF PixelRight
      <4>2. target[k] = dst[3 * n + c] /\ n \in Nat
        BY <3>2, <3>3
      <4>3. 3 * n + 0 = 3 * n /\ 0 + 1 = 1 /\ 1 + 1 = 2 /\ 2 + 1 = 3
        BY <4>2
      <4>4. c = 0 \/ c = 1 \/ c = 2
        BY <3>3
      <4> HIDE DEF pixel
      <4>5. target[k] = pixel[c + 1]
        BY <4>1, <4>2, <4>3, <4>4
      <4> QED
        BY <4>5 DEF pixel
    <3> QED
      BY <3>5 DEF n, c
  <2> QED
    BY <2>1, <2>2
<1> QED
  BY <1>1, CommandInvariant, PTL
=============================================================================
