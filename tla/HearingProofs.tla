---------------------------- MODULE HearingProofs ----------------------------
(***************************************************************************)
(* Proofs about Hearing, for every device, gate, transcript and bound: what *)
(* the user is told of a capture that comes to nothing, that the recording *)
(* does not show how the stream was cut, and that the gate keeps speech.   *)
(***************************************************************************)
EXTENDS Hearing, SequenceTheorems, FiniteSetTheorems, WellFoundedInduction, NaturalsInduction, TLAPS

\* The thread says once how opening the device went.
SaidOnce == /\ thread \in {"opening", "playing", "failing"} => ready = "none"
            /\ started => ready # "none"

\* Whoever holds the utterance is who tells: nobody yet, while the loop has the
\* handle; the loop, when it dropped it over an error; the worker, at the end of a job.
WhoTells == /\ session \in {"held", "job", "nobody"}
            /\ session = "held" => told = 0
            /\ session = "job" => told = IF phase = "ended" THEN 1 ELSE 0
            /\ session # "job" => phase = "none" /\ told \in {0, 1}
            /\ started /\ ready = "error" => session = "nobody" /\ told = 1

\* The device and its thread tell the user nothing.
LEMMA ThreadTellsNothing ==
  ASSUME SaidOnce, WhoTells, CaptureThread \/ \E chunk \in Chunks : Callback(chunk)
  PROVE  SaidOnce' /\ WhoTells'
<1>1. UNCHANGED <<session, started, phase, told>>
  BY DEF CaptureThread, Opens, OpenFails, SaysReady, Stops, StreamCloses, HandsOver, Callback,
         Handle, Work
<1>2. CASE SaysReady
  <2>1. ~started /\ thread' \in {"waiting", "ended"}
    BY <1>2 DEF SaysReady, SaidOnce
  <2> QED BY <1>1, <2>1 DEF SaidOnce, WhoTells
<1>3. CASE Opens \/ OpenFails \/ Stops \/ StreamCloses \/ HandsOver \/ \E chunk \in Chunks : Callback(chunk)
  <2>1. ready' = ready /\ (\/ thread' = thread \/ thread = "opening"
                           \/ thread' \in {"closing", "closed", "ended"})
    BY <1>3 DEF Opens, OpenFails, Stops, StreamCloses, HandsOver, Callback
  <2> QED BY <1>1, <2>1 DEF SaidOnce, WhoTells
<1> QED BY <1>2, <1>3 DEF CaptureThread

\* The loop tells when it gives up the handle over an error or a full queue.
LEMMA LoopTellsOnce ==
  ASSUME SaidOnce, WhoTells, Loop
  PROVE  SaidOnce' /\ WhoTells'
<1>1. UNCHANGED <<thread, ready, phase>> /\ session = "held" /\ told = 0 /\ phase = "none"
  BY DEF Loop, HearsReady, KeyReleased, Cancelled, Work, WhoTells
<1>2. CASE HearsReady
  BY <1>1, <1>2 DEF HearsReady, SaidOnce, WhoTells
<1>3. CASE KeyReleased \/ Cancelled
  BY <1>1, <1>3 DEF KeyReleased, Cancelled, SaidOnce, WhoTells
<1> QED BY <1>2, <1>3 DEF Loop

\* The worker tells when a job ends without a text.
LEMMA WorkerTellsOnce ==
  ASSUME SaidOnce, WhoTells, Worker
  PROVE  SaidOnce' /\ WhoTells'
<1>1. UNCHANGED <<thread, ready, session, started>> /\ session = "job"
  BY DEF Worker, Awaits, Receives, GraceElapses, Validates, Transcribes, WhisperFails,
         Handle, WhoTells
<1>2. phase # "ended" /\ (\/ Failed
                          \/ phase' \in {"awaiting", "gating", "hearing", "routed"} /\ told' = told)
  BY DEF Worker, Awaits, Receives, GraceElapses, Validates, Transcribes, WhisperFails
<1> QED BY <1>1, <1>2 DEF SaidOnce, WhoTells, Failed

\* Every step keeps to it.
LEMMA NextTellsOnce == SaidOnce /\ WhoTells /\ [Next]_vars => SaidOnce' /\ WhoTells'
<1>1. CASE UNCHANGED vars
  BY <1>1 DEF vars, SaidOnce, WhoTells
<1> QED BY <1>1, ThreadTellsNothing, LoopTellsOnce, WorkerTellsOnce DEF Next

\* main.rs, ready() and report(): the failure of a capture reaches the user through
\* the loop or through the worker, never through both and never through neither, in
\* whatever order the key, the device and the grace period come.
THEOREM ToldOnce == Spec => []FailureToldOnce
<1>1. Init => SaidOnce /\ WhoTells
  BY DEF Init, SaidOnce, WhoTells
<1>2. SaidOnce /\ WhoTells /\ [Next]_vars => (SaidOnce /\ WhoTells)'
  BY NextTellsOnce
<1>3. SaidOnce /\ WhoTells => FailureToldOnce
  BY DEF WhoTells, FailureToldOnce
<1> QED BY <1>1, <1>2, <1>3, PTL DEF Spec
-----------------------------------------------------------------------------
(* Types. *)

\* The smaller and the greater of two.
LEMMA OfTwo ==
  ASSUME NEW a \in Int, NEW b \in Int
  PROVE  /\ Max({a, b}) = IF a >= b THEN a ELSE b
         /\ Min({a, b}) = IF a <= b THEN a ELSE b
<1>1. \A x \in {a, b} : (\A y \in {a, b} : x >= y) => x = IF a >= b THEN a ELSE b
  OBVIOUS
<1>2. \E x \in {a, b} : \A y \in {a, b} : x >= y
  OBVIOUS
<1>3. \A x \in {a, b} : (\A y \in {a, b} : x =< y) => x = IF a <= b THEN a ELSE b
  OBVIOUS
<1>4. \E x \in {a, b} : \A y \in {a, b} : x =< y
  OBVIOUS
<1>5. Max({a, b}) = IF a >= b THEN a ELSE b
  BY <1>1, <1>2 DEF Max
<1>6. Min({a, b}) = IF a <= b THEN a ELSE b
  BY <1>3, <1>4 DEF Min
<1> QED BY <1>5, <1>6

\* Finitely many windows are complete.
LEMMA CompleteCounted ==
  ASSUME NEW i \in Nat, NEW n \in Nat
  PROVE  Cardinality(Complete(i, n)) \in Nat
<1>1. DstRate \in Nat
  BY RatesAreRates
<1>2. n * DstRate \in Nat
  BY <1>1
<1>3. Complete(i, n) \subseteq i..(i + n * DstRate)
  BY DEF Complete
<1>4. IsFiniteSet(i..(i + n * DstRate))
  BY <1>2, FS_Interval
<1> QED BY <1>3, <1>4, FS_Subset, FS_CardinalityType

\* What the resampler keeps is frames of the device, however many it drops.
LEMMA PushTyped ==
  ASSUME NEW input \in Seq(Levels), carry \in Seq(Levels), carryStart \in Nat, outIdx \in Nat
  PROVE  /\ Push(input).carry \in Seq(Levels)
         /\ Push(input).start \in Nat /\ Push(input).idx \in Nat
<1> DEFINE frames == carry \o input
           n == Cardinality(Complete(outIdx, carryStart + Len(frames)))
           d == Dropped(frames, carryStart, WindowStart(outIdx + n))
<1>1. frames \in Seq(Levels) /\ Len(frames) \in Nat
  OBVIOUS
<1> HIDE DEF frames
<1>2. n \in Nat
  <2>1. carryStart + Len(frames) \in Nat
    BY <1>1
  <2> QED BY <2>1, CompleteCounted
<1> HIDE DEF n
<1>3. WindowStart(outIdx + n) \in Int
  <2>1. (outIdx + n) * SrcRate \in Int
    BY <1>2, RatesAreRates
  <2> QED BY <2>1, RatesAreRates DEF WindowStart
<1>4. d \in 0..Len(frames)
  <2>1. PICK w \in Int : w = WindowStart(outIdx + n) - carryStart
    BY <1>3
  <2>2. PICK m \in Nat : m = Max({w, 0})
    BY OfTwo
  <2>3. PICK l \in Nat : l = Len(frames)
    BY <1>1
  <2>4. d = Min({m, l})
    BY <2>1, <2>2, <2>3 DEF Dropped
  <2>5. m \in Int /\ l \in Int
    OBVIOUS
  <2>6. Min({m, l}) = IF m <= l THEN m ELSE l
    BY <2>5, OfTwo, Zenon
  <2> QED BY <2>3, <2>4, <2>6
<1> HIDE DEF d
<1>5. SubSeq(frames, d + 1, Len(frames)) \in Seq(Levels)
  BY <1>1, <1>4, SubSeqProperties
<1>6. CASE SrcRate = DstRate
  BY <1>6 DEF Push
<1>7. CASE SrcRate # DstRate
  <2>1. /\ Push(input).carry = SubSeq(frames, d + 1, Len(frames))
        /\ Push(input).start = carryStart + d /\ Push(input).idx = outIdx + n
    BY <1>7 DEF Push, frames, n, d
  <2> QED BY <1>2, <1>4, <1>5, <2>1
<1> QED BY <1>6, <1>7

\* Every step keeps the types.
LEMMA NextTyped == TypeOK /\ [Next]_vars => TypeOK'
<1> SUFFICES ASSUME TypeOK, [Next]_vars PROVE TypeOK'
  OBVIOUS
<1>1. CASE CaptureThread
  BY <1>1 DEF CaptureThread, Opens, OpenFails, SaysReady, Stops, StreamCloses, HandsOver,
              TypeOK, Resampling, Handle, Work
<1>2. ASSUME NEW chunk \in Chunks, Callback(chunk) PROVE TypeOK'
  <2>1. chunk \in Seq(Levels)
    BY SizesAreSizes DEF Chunks
  <2>2. heard' \in Seq(Levels)
    BY <1>2, <2>1 DEF Callback, TypeOK
  <2>3. carry' \in Seq(Levels) /\ carryStart' \in Nat /\ outIdx' \in Nat
    BY <1>2, <2>1, PushTyped DEF Callback, TypeOK
  <2> QED BY <1>2, <2>2, <2>3 DEF Callback, TypeOK, Handle, Work
<1>3. CASE Loop
  <2>1. UNCHANGED <<heard, carry, carryStart, outIdx, thread, ready, done, phase, gate>>
    BY <1>3 DEF Loop, HearsReady, KeyReleased, Cancelled, Resampling, Work
  <2>2. session' \in {"held", "job", "nobody"} /\ told' \in Nat
    BY <1>3 DEF Loop, HearsReady, KeyReleased, Cancelled, TypeOK
  <2>3. started' \in BOOLEAN
    BY <1>3 DEF Loop, HearsReady, KeyReleased, Cancelled, TypeOK
  <2> QED BY <2>1, <2>2, <2>3 DEF TypeOK
<1>4. CASE Worker
  BY <1>4 DEF Worker, Awaits, Receives, GraceElapses, Validates, Transcribes, WhisperFails,
              Failed, TypeOK, Resampling, Handle
<1>5. CASE UNCHANGED vars
  BY <1>5 DEF vars, TypeOK, Resampling, Handle, Work
<1> QED BY <1>1, <1>2, <1>3, <1>4, <1>5 DEF Next

\* The start is of the types.
LEMMA InitTyped == Init => TypeOK
<1> SUFFICES ASSUME Init PROVE TypeOK
  OBVIOUS
<1>1. heard \in Seq(Levels) /\ carry \in Seq(Levels)
  BY DEF Init
<1>2. started \in BOOLEAN /\ gate \in Gates
  BY DEF Init
<1>3. told \in Nat /\ carryStart \in Nat /\ outIdx \in Nat
  BY DEF Init
<1> QED BY <1>1, <1>2, <1>3 DEF Init, TypeOK

\* audio.rs, vad.rs, asr.rs: the parts of an utterance keep their types, for every
\* device, gate and bound.
THEOREM HearingTyped == Spec => []TypeOK
BY InitTyped, NextTyped, PTL DEF Spec
-----------------------------------------------------------------------------
(* Numbers. *)

\* A set of natural numbers has a least one.
LEMMA Least ==
  ASSUME NEW T, T \subseteq Nat, T # {}
  PROVE  \E x \in T : \A y \in T : x <= y
<1> DEFINE R == OpToRel(<, Nat)
<1>1. PICK x \in T : \A y \in T : ~(<<y, x>> \in R)
  BY WFMin, NatLessThanWellFounded
<1>2. ASSUME NEW y \in T PROVE x <= y
  <2>1. y < x => <<y, x>> \in R
    BY DEF OpToRel
  <2> HIDE DEF R
  <2>2. ~(y < x)
    BY <1>1, <2>1
  <2> QED BY <2>2
<1> QED BY <1>2, Zenon

\* The first and the last of a bounded set of whole numbers.
LEMMA Extremes ==
  ASSUME NEW lo \in Int, NEW hi \in Int, NEW S, S \subseteq lo..hi, S # {}
  PROVE  /\ Min(S) \in S /\ \A x \in S : Min(S) <= x
         /\ Max(S) \in S /\ \A x \in S : x <= Max(S)
<1>1. \E m \in S : \A x \in S : m <= x
  <2> DEFINE T == {x - lo : x \in S}
  <2>1. \A x \in S : x - lo \in Nat
    OBVIOUS
  <2>2. PICK t \in T : \A y \in T : t <= y
    BY <2>1, Least
  <2>3. PICK m \in S : t = m - lo
    OBVIOUS
  <2>4. ASSUME NEW x \in S PROVE m <= x
    <3>1. t <= x - lo
      BY <2>2
    <3> QED BY <2>3, <3>1
  <2> QED BY <2>4
<1>2. \E m \in S : \A x \in S : x <= m
  <2> DEFINE T == {hi - x : x \in S}
  <2>1. \A x \in S : hi - x \in Nat
    OBVIOUS
  <2>2. PICK t \in T : \A y \in T : t <= y
    BY <2>1, Least
  <2>3. PICK m \in S : t = hi - m
    OBVIOUS
  <2>4. ASSUME NEW x \in S PROVE x <= m
    <3>1. t <= hi - x
      BY <2>2
    <3> QED BY <2>3, <3>1
  <2> QED BY <2>4
<1>3. S \subseteq Int
  OBVIOUS
<1>4. Min(S) \in S /\ \A x \in S : Min(S) <= x
  BY <1>1 DEF Min
<1>5. Max(S) \in S /\ \A x \in S : x <= Max(S)
  <2>1. \A m, x \in S : m >= x <=> x <= m
    BY <1>3
  <2>2. \E m \in S : \A x \in S : m >= x
    BY <1>2, <2>1
  <2>3. Max(S) \in S /\ \A x \in S : Max(S) >= x
    BY <2>2 DEF Max
  <2> QED BY <2>1, <2>3
<1> QED BY <1>4, <1>5

\* Multiplication respects order.
LEMMA Monotone ==
  ASSUME NEW a \in Int, NEW b \in Int, NEW d \in Nat, a <= b
  PROVE  a * d \in Int /\ b * d \in Int /\ a * d <= b * d
<1>1. PICK c \in Nat : b = a + c
  <2>1. b - a \in Nat /\ b = a + (b - a)
    OBVIOUS
  <2> QED BY <2>1
<1>2. b * d = a * d + c * d /\ c * d \in Nat /\ a * d \in Int
  BY <1>1
<1> QED BY <1>2

\* What a quotient is below, and above.
LEMMA Quotient ==
  ASSUME NEW x \in Int, NEW d \in Nat \ {0}, NEW a \in Int
  PROVE  /\ x \div d \in Int
         /\ x \div d <= a <=> x < (a + 1) * d
         /\ a <= x \div d <=> a * d <= x
<1>1. PICK q \in Int : q = x \div d
  OBVIOUS
<1>2. q * d \in Int /\ q * d <= x /\ x < q * d + d
  BY <1>1
<1>3. a * d \in Int /\ (a + 1) * d = a * d + d /\ (q + 1) * d = q * d + d
  OBVIOUS
<1>4. q <= a => x < (a + 1) * d
  <2>1. q <= a => q * d <= a * d
    BY Monotone
  <2> QED BY <1>2, <1>3, <2>1
<1>5. a < q => ~(x < (a + 1) * d)
  <2>1. a + 1 <= q => (a + 1) * d <= q * d
    BY Monotone
  <2> QED BY <1>2, <1>3, <2>1
<1>6. a <= q => a * d <= x
  <2>1. a <= q => a * d <= q * d
    BY Monotone
  <2> QED BY <1>2, <1>3, <2>1
<1>7. q < a => ~(a * d <= x)
  <2>1. q + 1 <= a => (q + 1) * d <= a * d
    BY Monotone
  <2> QED BY <1>2, <1>3, <2>1
<1> QED BY <1>1, <1>4, <1>5, <1>6, <1>7

\* The sum of one number, as the fold over a sequence computes it.
SumOfOne(x, g) ==
  g = [s \in SUBSET {1} |-> IF s = {} THEN 0
                            ELSE LET y == CHOOSE z \in s : TRUE IN <<x>>[y] + g[s \ {y}]]

\* The mean of one frame is the frame.
LEMMA MeanOfOne ==
  ASSUME NEW x \in Int
  PROVE  Mean(<<x>>) = x
<1>1. DOMAIN <<x>> = {1} /\ Len(<<x>>) = 1
  OBVIOUS
<1>2. Mean(<<x>>) = (CHOOSE g : SumOfOne(x, g))[{1}] \div 1
  BY <1>1 DEF Mean, FoldSeq, FoldFunction, FoldFunctionOnSet, MapThenFoldSet, SumOfOne
<1>3. \A s \in SUBSET {1} : s # {} => s = {1} /\ (CHOOSE z \in s : TRUE) = 1 /\ s \ {1} = {}
  <2> SUFFICES ASSUME NEW s \in SUBSET {1}, s # {}
               PROVE  s = {1} /\ (CHOOSE z \in s : TRUE) = 1 /\ s \ {1} = {}
    OBVIOUS
  <2>1. s = {1} /\ s \ {1} = {}
    OBVIOUS
  <2>2. (CHOOSE z \in s : TRUE) \in s
    OBVIOUS
  <2> QED BY <2>1, <2>2
<1>4. \A g : SumOfOne(x, g) => g[{1}] = x
  <2> SUFFICES ASSUME NEW g, SumOfOne(x, g) PROVE g[{1}] = x
    OBVIOUS
  <2>1. g[{}] = 0
    BY DEF SumOfOne
  <2>2. g[{1}] = <<x>>[1] + g[{}]
    <3>1. {1} \in SUBSET {1} /\ {1} # {}
      OBVIOUS
    <3>2. g[{1}] = LET y == CHOOSE z \in {1} : TRUE IN <<x>>[y] + g[{1} \ {y}]
      BY <3>1 DEF SumOfOne
    <3> QED BY <1>3, <3>1, <3>2
  <2> QED BY <2>1, <2>2
<1>5. \E g : SumOfOne(x, g)
  <2> DEFINE g == [s \in SUBSET {1} |-> IF s = {} THEN 0 ELSE x]
  <2>1. g[{}] = 0
    OBVIOUS
  <2>2. ASSUME NEW s \in SUBSET {1}, s # {}
        PROVE  g[s] = LET y == CHOOSE z \in s : TRUE IN <<x>>[y] + g[s \ {y}]
    <3>1. g[s] = x
      BY <2>2
    <3> HIDE DEF g
    <3>2. <<x>>[1] + g[s \ {1}] = x
      BY <2>1, <2>2, <1>3
    <3> QED BY <2>2, <1>3, <3>1, <3>2
  <2>3. g = [s \in SUBSET {1} |-> IF s = {} THEN 0
                            ELSE LET y == CHOOSE z \in s : TRUE IN <<x>>[y] + g[s \ {y}]]
    <3>1. g = [s \in SUBSET {1} |-> g[s]]
      OBVIOUS
    <3> HIDE DEF g
    <3> QED BY <2>1, <2>2, <3>1
  <2> HIDE DEF g
  <2>4. SumOfOne(x, g)
    BY <2>3 DEF SumOfOne
  <2> QED BY <2>4
<1>6. (CHOOSE g : SumOfOne(x, g))[{1}] = x
  BY <1>4, <1>5
<1> QED BY <1>2, <1>6

-----------------------------------------------------------------------------
(* The windows of the resampler. *)

\* Windows begin in order, at a frame, and each ends after it began.
LEMMA WindowTyped ==
  ASSUME NEW i \in Nat
  PROVE  /\ WindowStart(i) \in Nat /\ WindowEnd(i) \in Nat
         /\ WindowStart(i) < WindowEnd(i)
         /\ \A a \in Int : WindowEnd(i) <= a <=> WindowStart(i + 1) <= a /\ WindowStart(i) < a
<1>1. \A j \in Nat : WindowStart(j) \in Nat
  <2> SUFFICES ASSUME NEW j \in Nat PROVE WindowStart(j) \in Nat
    OBVIOUS
  <2>1. j * SrcRate \in Nat /\ 0 * DstRate <= j * SrcRate
    BY RatesAreRates
  <2>2. WindowStart(j) \in Int /\ 0 <= WindowStart(j)
    BY <2>1, Quotient, RatesAreRates DEF WindowStart
  <2> QED BY <2>2
<1>2. PICK s, e \in Nat : s = WindowStart(i) /\ e = WindowStart(i + 1)
  BY <1>1
<1>3. WindowEnd(i) = Max({e, s + 1})
  BY <1>2 DEF WindowEnd
<1>4. Max({e, s + 1}) = IF e >= s + 1 THEN e ELSE s + 1
  BY OfTwo
<1> QED BY <1>2, <1>3, <1>4

\* What is complete of a stream is a prefix of the windows, and within reach.
LEMMA Windows ==
  ASSUME NEW a \in Nat
  PROVE  \E n \in Nat : /\ \A j \in Nat : WindowEnd(j) <= a <=> j < n
                        /\ n <= a * DstRate
<1> DEFINE x == (a + 1) * DstRate - 1
           y == a * DstRate - 1
           p == x \div SrcRate
           q == y \div SrcRate
<1>1. x \in Nat /\ y \in Int /\ 0 <= y + 1 /\ a * DstRate \in Nat
  <2>1. (a + 1) * DstRate = a * DstRate + DstRate
    BY RatesAreRates
  <2>2. a * DstRate \in Nat
    BY RatesAreRates
  <2> QED BY <2>1, <2>2, RatesAreRates
<1>2. p \in Int /\ q \in Int
  BY <1>1, Quotient, RatesAreRates
<1>3. 0 <= p
  <2>1. 0 * SrcRate <= x
    BY <1>1, RatesAreRates
  <2> QED BY <1>1, <2>1, Quotient, RatesAreRates
<1>4. 0 <= q + 1
  <2>1. (-1) * SrcRate <= y
    BY <1>1, RatesAreRates
  <2>2. -1 <= q
    BY <1>1, <2>1, Quotient, RatesAreRates
  <2> QED BY <1>2, <2>2
<1>5. ASSUME NEW j \in Nat PROVE WindowEnd(j) <= a <=> j + 1 <= p /\ j <= q
  <2>1. j * SrcRate \in Int /\ (j + 1) * SrcRate \in Int
    BY RatesAreRates
  <2>2. WindowEnd(j) <= a <=> WindowStart(j + 1) <= a /\ WindowStart(j) <= a - 1
    <3>1. WindowStart(j) \in Nat /\ a \in Int
      BY WindowTyped
    <3>2. WindowEnd(j) <= a <=> WindowStart(j + 1) <= a /\ WindowStart(j) < a
      BY <3>1, WindowTyped, Zenon
    <3> QED BY <3>1, <3>2
  <2>3. WindowStart(j + 1) <= a <=> (j + 1) * SrcRate < (a + 1) * DstRate
    BY <2>1, Quotient, RatesAreRates DEF WindowStart
  <2>4. WindowStart(j) <= a - 1 <=> j * SrcRate < ((a - 1) + 1) * DstRate
    BY <2>1, Quotient, RatesAreRates DEF WindowStart
  <2>5. (j + 1) * SrcRate < (a + 1) * DstRate <=> (j + 1) * SrcRate <= x
    <3>1. (a + 1) * DstRate \in Int
      BY RatesAreRates
    <3> QED BY <2>1, <3>1
  <2>6. j * SrcRate < ((a - 1) + 1) * DstRate <=> j * SrcRate <= y
    <3>1. (a - 1) + 1 = a /\ a * DstRate \in Int
      BY RatesAreRates
    <3> QED BY <2>1, <3>1
  <2>7. (j + 1) * SrcRate <= x <=> j + 1 <= p
    BY <1>1, Quotient, RatesAreRates
  <2>8. j * SrcRate <= y <=> j <= q
    BY <1>1, Quotient, RatesAreRates
  <2> QED BY <2>2, <2>3, <2>4, <2>5, <2>6, <2>7, <2>8
<1>6. q + 1 <= a * DstRate
  <2>1. SUFFICES ASSUME a * DstRate <= q PROVE FALSE
    BY <1>1, <1>2
  <2>2. PICK m \in Nat : m = a * DstRate
    BY <1>1
  <2>3. m * SrcRate <= y
    BY <2>1, <2>2, <1>1, Quotient, RatesAreRates
  <2>4. m * 1 <= m * SrcRate
    <3>1. 1 * m <= SrcRate * m
      BY Monotone, RatesAreRates
    <3> QED BY <3>1, RatesAreRates
  <2> QED BY <2>2, <2>3, <2>4, RatesAreRates
<1> HIDE DEF p, q
<1>7. PICK n \in Nat : n = IF p <= q + 1 THEN p ELSE q + 1
  BY <1>2, <1>3, <1>4
<1>8. n <= a * DstRate
  BY <1>1, <1>2, <1>6, <1>7
<1>9. ASSUME NEW j \in Nat PROVE WindowEnd(j) <= a <=> j < n
  BY <1>2, <1>5, <1>7
<1> QED BY <1>8, <1>9

\* How many windows are complete from the i-th on.
LEMMA Counting ==
  ASSUME NEW a \in Nat, NEW n \in Nat, \A j \in Nat : WindowEnd(j) <= a <=> j < n,
         n <= a * DstRate, NEW i \in 0..n
  PROVE  Cardinality(Complete(i, a)) = n - i
<1>1. a * DstRate \in Nat
  BY RatesAreRates
<1>2. Complete(i, a) = i..(n - 1)
  <2>1. Complete(i, a) = {j \in i..(i + a * DstRate) : WindowEnd(j) <= a}
    BY DEF Complete
  <2>2. ASSUME NEW j \in Complete(i, a) PROVE j \in i..(n - 1)
    BY <1>1, <2>1
  <2>3. ASSUME NEW j \in i..(n - 1) PROVE j \in Complete(i, a)
    <3>1. j \in Nat /\ WindowEnd(j) <= a /\ j <= i + a * DstRate
      BY <1>1
    <3> QED BY <1>1, <2>1, <3>1
  <2> QED BY <2>2, <2>3
<1>3. Cardinality(i..(n - 1)) = IF i > n - 1 THEN 0 ELSE (n - 1) - i + 1
  BY FS_Interval
<1> QED BY <1>2, <1>3

-----------------------------------------------------------------------------
(* What the callbacks leave in the buffer. *)

\* Window i of the whole stream.
Exact(frames, i) == [from |-> WindowStart(i), upto |-> WindowEnd(i),
                     level |-> Mean(SubSeq(frames, WindowStart(i) + 1, WindowEnd(i)))]

\* As many of them as the buffer has room for.
Capped(n) == IF n <= MaxSamples THEN n ELSE MaxSamples

\* n windows of the stream are complete.
Windowed(frames, n) == \A j \in Nat : WindowEnd(j) <= Len(frames) <=> j < n

\* The resampler has used what is complete and has the rest.
Rest(frames, n, c, start) ==
  /\ start = IF WindowStart(n) <= Len(frames) THEN WindowStart(n) ELSE Len(frames)
  /\ c = SubSeq(frames, start + 1, Len(frames))

\* A ratio of one leaves the resampler as it was.
Consumed == IF SrcRate = DstRate THEN carry = <<>>
            ELSE Windowed(heard, outIdx) /\ Rest(heard, outIdx, carry, carryStart)

\* One pass, window by window.
LEMMA OnePassIs ==
  ASSUME NEW frames \in Seq(Levels), NEW n \in Nat, Windowed(frames, n)
  PROVE  OnePass(frames) = [k \in 1..Capped(n) |-> Exact(frames, k - 1)]
<1>1. Len(frames) \in Nat
  OBVIOUS
<1>2. PICK m \in Nat : /\ \A j \in Nat : WindowEnd(j) <= Len(frames) <=> j < m
                       /\ m <= Len(frames) * DstRate
  BY <1>1, Windows
<1>3. m = n
  <2>1. m < n => FALSE
    BY <1>2 DEF Windowed
  <2>2. n < m => FALSE
    BY <1>2 DEF Windowed
  <2> QED BY <2>1, <2>2
<1>4. Cardinality(Complete(0, Len(frames))) = n - 0
  BY <1>1, <1>2, <1>3, Counting
<1>5. Complete(0, Len(frames)) = {i \in 0..(Len(frames) * DstRate) : WindowEnd(i) <= Len(frames)}
  <2>1. 0 + Len(frames) * DstRate = Len(frames) * DstRate
    BY <1>1, RatesAreRates
  <2> QED BY <2>1 DEF Complete
<1>6. Cardinality({i \in 0..(Len(frames) * DstRate) : WindowEnd(i) <= Len(frames)}) = n
  <2>1. n - 0 = n
    OBVIOUS
  <2> QED BY <1>4, <1>5, <2>1, Zenon
<1>7. Min({n, MaxSamples}) = Capped(n)
  <2>1. n \in Int /\ MaxSamples \in Int
    BY SizesAreSizes
  <2> QED BY <2>1, OfTwo DEF Capped
<1> QED BY <1>6, <1>7 DEF OnePass, Exact

\* Windows that are complete stay as they are when more comes in.
LEMMA ExactStays ==
  ASSUME NEW s \in Seq(Levels), NEW t \in Seq(Levels), NEW i \in Nat, WindowEnd(i) <= Len(s)
  PROVE  Exact(s \o t, i) = Exact(s, i)
<1>1. WindowStart(i) \in Nat /\ WindowEnd(i) \in Nat /\ WindowStart(i) < WindowEnd(i)
  BY WindowTyped
<1>2. WindowStart(i) + 1 \in 1..Len(s) /\ WindowEnd(i) \in 1..Len(s)
  BY <1>1
<1>3. SubSeq(s \o t, WindowStart(i) + 1, WindowEnd(i)) = SubSeq(s, WindowStart(i) + 1, WindowEnd(i))
  BY <1>2, SubSeqOfConcat1
<1> QED BY <1>3 DEF Exact

\* More of a stream completes more windows.
LEMMA MoreWindows ==
  ASSUME NEW s \in Seq(Levels), NEW t \in Seq(Levels), NEW n \in Nat, Windowed(s, n)
  PROVE  \E m \in Nat : /\ Windowed(s \o t, m) /\ n <= m
                        /\ m <= Len(s \o t) * DstRate
<1>1. Len(s \o t) \in Nat /\ Len(s) <= Len(s \o t) /\ Len(s) \in Nat
  OBVIOUS
<1>2. PICK m \in Nat : /\ \A j \in Nat : WindowEnd(j) <= Len(s \o t) <=> j < m
                       /\ m <= Len(s \o t) * DstRate
  BY <1>1, Windows
<1>3. n <= m
  <2> SUFFICES ASSUME m < n PROVE FALSE
    OBVIOUS
  <2>1. WindowEnd(m) <= Len(s) /\ WindowEnd(m) \in Nat
    BY WindowTyped DEF Windowed
  <2>2. WindowEnd(m) <= Len(s \o t)
    BY <1>1, <2>1
  <2> QED BY <1>2, <2>2
<1> QED BY <1>2, <1>3 DEF Windowed

\* One sequence after another.
LEMMA Joint ==
  ASSUME NEW S, NEW s \in Seq(S), NEW t \in Seq(S)
  PROVE  /\ s \o t \in Seq(S) /\ Len(s \o t) = Len(s) + Len(t)
         /\ \A i \in 1..Len(s) : (s \o t)[i] = s[i]
         /\ \A i \in 1..Len(t) : (s \o t)[Len(s) + i] = t[i]
<1>1. s \o t \in Seq(S) /\ Len(s \o t) = Len(s) + Len(t) /\ Len(s) \in Nat /\ Len(t) \in Nat
  OBVIOUS
<1>2. \A i \in 1..(Len(s) + Len(t)) : (s \o t)[i] = IF i <= Len(s) THEN s[i] ELSE t[i - Len(s)]
  BY ConcatProperties
<1>3. ASSUME NEW i \in 1..Len(s) PROVE (s \o t)[i] = s[i]
  BY <1>1, <1>2
<1>4. ASSUME NEW i \in 1..Len(t) PROVE (s \o t)[Len(s) + i] = t[i]
  <2>1. Len(s) + i \in 1..(Len(s) + Len(t)) /\ ~(Len(s) + i <= Len(s)) /\ (Len(s) + i) - Len(s) = i
    BY <1>1
  <2> QED BY <1>2, <2>1
<1> QED BY <1>1, <1>3, <1>4

\* The carry and what comes in are the stream from where the carry starts.
LEMMA CarryContinues ==
  ASSUME NEW s \in Seq(Levels), NEW t \in Seq(Levels), NEW c \in 0..Len(s)
  PROVE  /\ SubSeq(s, c + 1, Len(s)) \o t = SubSeq(s \o t, c + 1, Len(s \o t))
         /\ Len(SubSeq(s \o t, c + 1, Len(s \o t))) = Len(s) + Len(t) - c
         /\ Len(s \o t) = Len(s) + Len(t)
<1> DEFINE a == SubSeq(s, c + 1, Len(s))
           b == SubSeq(s \o t, c + 1, Len(s \o t))
<1>1. s \o t \in Seq(Levels) /\ Len(s \o t) = Len(s) + Len(t)
  OBVIOUS
<1>2. /\ a \in Seq(Levels) /\ Len(a) = Len(s) - c
      /\ \A i \in 1..(Len(s) - c) : a[i] = s[c + i]
  <2>1. \A i \in (c + 1)..Len(s) : s[i] \in Levels
    OBVIOUS
  <2>2. /\ a \in Seq(Levels) /\ Len(a) = IF c + 1 <= Len(s) THEN Len(s) - (c + 1) + 1 ELSE 0
        /\ \A i \in 1..(Len(s) - (c + 1) + 1) : a[i] = s[(c + 1) + i - 1]
    BY <2>1, SubSeqProperties
  <2> HIDE DEF a
  <2> QED BY <2>2
<1>3. /\ b \in Seq(Levels) /\ Len(b) = Len(s \o t) - c
      /\ \A i \in 1..(Len(s \o t) - c) : b[i] = (s \o t)[c + i]
  <2>1. \A i \in (c + 1)..Len(s \o t) : (s \o t)[i] \in Levels
    BY <1>1
  <2>2. /\ b \in Seq(Levels)
        /\ Len(b) = IF c + 1 <= Len(s \o t) THEN Len(s \o t) - (c + 1) + 1 ELSE 0
        /\ \A i \in 1..(Len(s \o t) - (c + 1) + 1) : b[i] = (s \o t)[(c + 1) + i - 1]
    BY <1>1, <2>1, SubSeqProperties
  <2>3. PICK l \in Nat : l = Len(s \o t) /\ c <= l
    BY <1>1
  <2> DEFINE u == s \o t
  <2> HIDE DEF b, u
  <2>4. /\ b \in Seq(Levels) /\ Len(b) = IF c + 1 <= l THEN l - (c + 1) + 1 ELSE 0
        /\ \A i \in 1..(l - (c + 1) + 1) : b[i] = u[(c + 1) + i - 1]
    BY <2>2, <2>3 DEF u
  <2>5. Len(b) = l - c
    BY <2>3, <2>4
  <2>6. ASSUME NEW i \in 1..(l - c) PROVE b[i] = u[c + i]
    <3>1. i \in 1..(l - (c + 1) + 1) /\ (c + 1) + i - 1 = c + i
      BY <2>3
    <3> QED BY <2>4, <3>1
  <2> QED BY <2>3, <2>4, <2>5, <2>6 DEF u
<1> HIDE DEF a, b
<1>4. /\ a \o t \in Seq(Levels) /\ Len(a \o t) = Len(a) + Len(t)
      /\ \A i \in 1..Len(a) : (a \o t)[i] = a[i]
      /\ \A i \in 1..Len(t) : (a \o t)[Len(a) + i] = t[i]
  <2>1. a \in Seq(Levels) /\ t \in Seq(Levels)
    BY <1>2
  <2>2. a \o t \in Seq(Levels) /\ Len(a \o t) = Len(a) + Len(t)
    BY <2>1
  <2>3. \A i \in 1..Len(a) : (a \o t)[i] = a[i]
    BY <2>1, Joint
  <2>4. \A i \in 1..Len(t) : (a \o t)[Len(a) + i] = t[i]
    BY <2>1, Joint
  <2> QED BY <2>2, <2>3, <2>4
<1>5. ASSUME NEW i \in 1..Len(b) PROVE (a \o t)[i] = b[i]
  <2>1. b[i] = (s \o t)[c + i] /\ i \in 1..(Len(s) + Len(t) - c)
    BY <1>1, <1>3
  <2>2. CASE i <= Len(s) - c
    <3>1. c + i \in 1..Len(s) /\ i \in 1..(Len(s) - c)
      BY <2>1, <2>2
    <3>2. (s \o t)[c + i] = s[c + i]
      BY <3>1, Joint
    <3> QED BY <1>2, <1>4, <2>1, <3>1, <3>2
  <2>3. CASE i > Len(s) - c
    <3>1. PICK x \in 1..Len(t) : x = i - (Len(s) - c)
      BY <2>1, <2>3
    <3>2. c + i = Len(s) + x /\ i = Len(a) + x
      BY <1>2, <3>1
    <3>3. (s \o t)[Len(s) + x] = t[x]
      BY Joint
    <3> QED BY <1>4, <2>1, <3>2, <3>3
  <2>4. i <= Len(s) - c \/ i > Len(s) - c
    <3>1. i \in Int /\ Len(s) \in Int /\ c \in Int
      BY <2>1
    <3> QED BY <3>1
  <2> QED BY <2>2, <2>3, <2>4, Zenon
<1>6. Len(a \o t) = Len(b) /\ Len(b) = Len(s) + Len(t) - c
  <2>1. Len(s) \in Nat /\ Len(t) \in Nat
    OBVIOUS
  <2> QED BY <1>1, <1>2, <1>3, <1>4, <2>1
<1>7. a \o t = b
  <2>1. \A i \in 1..Len(a \o t) : (a \o t)[i] = b[i]
    BY <1>5, <1>6
  <2> QED BY <1>3, <1>4, <1>6, <2>1, SeqEqual
<1> QED BY <1>1, <1>6, <1>7 DEF a, b

\* What the buffer has room for is a prefix of what there would be without end.
LEMMA Joined ==
  ASSUME NEW S, NEW e \in [Nat -> S], NEW m \in Nat, NEW n \in Nat
  PROVE  [k \in 1..Capped(m) |-> e[k]]
           \o SubSeq([k \in 1..n |-> e[m + k]], 1,
                     Min({Max({MaxSamples - Capped(m), 0}), n}))
         = [k \in 1..Capped(m + n) |-> e[k]]
<1> DEFINE a == [k \in 1..Capped(m) |-> e[k]]
           o == [k \in 1..n |-> e[m + k]]
           r == Min({Max({MaxSamples - Capped(m), 0}), n})
           b == [k \in 1..Capped(m + n) |-> e[k]]
<1>1. MaxSamples \in Nat /\ Capped(m) \in Nat /\ Capped(m) <= MaxSamples
      /\ Capped(m + n) \in Nat
  BY SizesAreSizes DEF Capped
<1>2. r = Capped(m + n) - Capped(m) /\ r \in 0..n /\ (r > 0 => Capped(m) = m)
  <2>1. PICK x \in Nat : x = MaxSamples - Capped(m)
    BY <1>1
  <2>2. Max({MaxSamples - Capped(m), 0}) = x
    <3>1. Max({x, 0}) = x
      BY OfTwo
    <3> QED BY <2>1, <3>1
  <2>3. Min({x, n}) = IF x <= n THEN x ELSE n
    BY OfTwo
  <2>4. r = IF x <= n THEN x ELSE n
    BY <2>2, <2>3
  <2> HIDE DEF r
  <2> QED BY <1>1, <2>1, <2>4 DEF Capped
<1>3. a \in Seq(S) /\ Len(a) = Capped(m) /\ \A k \in 1..Capped(m) : a[k] = e[k]
  BY <1>1
<1>4. b \in Seq(S) /\ Len(b) = Capped(m + n) /\ \A k \in 1..Capped(m + n) : b[k] = e[k]
  BY <1>1
<1>5. o \in Seq(S) /\ Len(o) = n /\ \A k \in 1..n : o[k] = e[m + k]
  OBVIOUS
<1> HIDE DEF a, b, o, r
<1> DEFINE p == SubSeq(o, 1, r)
<1>6. p \in Seq(S) /\ Len(p) = r /\ \A k \in 1..r : p[k] = e[m + k]
  <2>1. \A k \in 1..r : o[k] \in S
    BY <1>2, <1>5
  <2>2. /\ p \in Seq(S) /\ Len(p) = IF 1 <= r THEN r - 1 + 1 ELSE 0
        /\ \A k \in 1..(r - 1 + 1) : p[k] = o[1 + k - 1]
    BY <1>2, <2>1, SubSeqProperties
  <2> HIDE DEF p
  <2> QED BY <1>2, <1>5, <2>2
<1> HIDE DEF p
<1>7. /\ a \o p \in Seq(S) /\ Len(a \o p) = Len(a) + Len(p)
      /\ \A k \in 1..Len(a) : (a \o p)[k] = a[k]
      /\ \A k \in 1..Len(p) : (a \o p)[Len(a) + k] = p[k]
  <2>1. a \in Seq(S) /\ p \in Seq(S)
    BY <1>3, <1>6
  <2>2. a \o p \in Seq(S) /\ Len(a \o p) = Len(a) + Len(p)
    BY <2>1
  <2>3. \A i \in 1..Len(a) : (a \o p)[i] = a[i]
    BY <2>1, Joint
  <2>4. \A i \in 1..Len(p) : (a \o p)[Len(a) + i] = p[i]
    BY <2>1, Joint
  <2> QED BY <2>2, <2>3, <2>4
<1>8. Len(a \o p) = Len(b)
  BY <1>1, <1>2, <1>3, <1>4, <1>6, <1>7
<1>9. ASSUME NEW k \in 1..Len(b) PROVE (a \o p)[k] = b[k]
  <2>1. k \in 1..Capped(m + n) /\ b[k] = e[k]
    BY <1>1, <1>4
  <2>2. CASE k <= Capped(m)
    <3>1. k \in 1..Len(a)
      BY <1>1, <1>3, <2>1, <2>2
    <3> QED BY <1>3, <1>7, <2>1, <3>1
  <2>3. CASE k > Capped(m)
    <3>1. PICK x \in 1..r : k = Capped(m) + x
      <4>1. k - Capped(m) \in 1..r /\ k = Capped(m) + (k - Capped(m))
        BY <1>1, <1>2, <2>1, <2>3
      <4> QED BY <4>1
    <3>2. Capped(m) = m /\ x \in 1..Len(p)
      BY <1>2, <1>6, <3>1
    <3>3. (a \o p)[k] = p[x] /\ p[x] = e[m + x]
      BY <1>3, <1>6, <1>7, <3>1, <3>2
    <3> QED BY <2>1, <3>1, <3>2, <3>3
  <2>4. k <= Capped(m) \/ k > Capped(m)
    <3>1. k \in Int /\ Capped(m) \in Int
      BY <1>1, <2>1
    <3> QED BY <3>1
  <2> QED BY <2>2, <2>3, <2>4, Zenon
<1>10. a \o p = b
  <2>1. \A k \in 1..Len(a \o p) : (a \o p)[k] = b[k]
    BY <1>8, <1>9
  <2> QED BY <1>4, <1>7, <1>8, <2>1, SeqEqual
<1> QED BY <1>10 DEF a, b, o, p, r

\* A part of a part.
LEMMA PartOfPart ==
  ASSUME NEW s \in Seq(Levels), NEW i \in 1..Len(s), NEW j \in 1..Len(s),
         NEW m \in 1..(j - i + 1), NEW n \in 1..(j - i + 1)
  PROVE  SubSeq(SubSeq(s, i, j), m, n) = SubSeq(s, i + m - 1, i + n - 1)
BY SubSeqOfSubSeq

\* Later windows begin later.
LEMMA WindowOrder ==
  ASSUME NEW i \in Nat, NEW j \in Nat, i <= j
  PROVE  WindowStart(i) <= WindowStart(j)
<1>1. i * SrcRate <= j * SrcRate /\ i * SrcRate \in Int /\ j * SrcRate \in Int
  BY Monotone, RatesAreRates
<1>2. PICK w \in Nat : w = WindowStart(i)
  BY WindowTyped
<1>3. w * DstRate <= i * SrcRate /\ w * DstRate \in Int
  <2>1. w <= (i * SrcRate) \div DstRate
    BY <1>2 DEF WindowStart
  <2> QED BY <1>1, <2>1, Quotient, RatesAreRates
<1>4. w <= (j * SrcRate) \div DstRate
  <2>1. w * DstRate <= j * SrcRate
    BY <1>1, <1>3
  <2> QED BY <1>1, <2>1, Quotient, RatesAreRates
<1> QED BY <1>2, <1>4 DEF WindowStart

\* With a ratio of one every frame is a window.
LEMMA UnitWindows ==
  ASSUME SrcRate = DstRate
  PROVE  /\ \A i \in Nat : WindowStart(i) = i /\ WindowEnd(i) = i + 1
         /\ \A s \in Seq(Levels) : Windowed(s, Len(s))
<1>1. ASSUME NEW i \in Nat PROVE WindowStart(i) = i
  <2>1. PICK d \in Nat \ {0} : d = DstRate
    BY RatesAreRates
  <2>2. i * d \in Int /\ i * d <= i * d /\ i * d < (i + 1) * d
    <3>1. (i + 1) * d = i * d + d
      OBVIOUS
    <3> QED BY <3>1
  <2>3. (i * d) \div d \in Int /\ (i * d) \div d <= i /\ i <= (i * d) \div d
    BY <2>2, Quotient
  <2> QED BY <2>1, <2>3 DEF WindowStart
<1>2. ASSUME NEW i \in Nat PROVE WindowEnd(i) = i + 1
  <2>1. WindowStart(i + 1) = i + 1 /\ WindowStart(i) + 1 = i + 1
    BY <1>1
  <2>2. Max({i + 1, i + 1}) = i + 1
    BY OfTwo
  <2> QED BY <2>1, <2>2 DEF WindowEnd
<1>3. ASSUME NEW s \in Seq(Levels) PROVE Windowed(s, Len(s))
  <2>1. PICK l \in Nat : l = Len(s)
    OBVIOUS
  <2>2. \A j \in Nat : j + 1 <= l <=> j < l
    OBVIOUS
  <2>3. \A j \in Nat : WindowEnd(j) <= l <=> j < l
    BY <1>2, <2>2
  <2> QED BY <2>1, <2>3 DEF Windowed
<1> QED BY <1>1, <1>2, <1>3

\* One frame is the window that begins at it.
LEMMA FrameIsExact ==
  ASSUME SrcRate = DstRate, NEW s \in Seq(Levels), NEW i \in 1..Len(s)
  PROVE  Exact(s, i - 1) = [from |-> i - 1, upto |-> i, level |-> s[i]]
<1>1. i \in Nat /\ i - 1 \in Nat /\ s[i] \in Int
  <2>1. s[i] \in Levels /\ Len(s) \in Nat
    OBVIOUS
  <2>2. s[i] \in Int
    BY <2>1, LevelsAreLevels
  <2>3. i \in Nat /\ i - 1 \in Nat
    BY <2>1
  <2> QED BY <2>2, <2>3
<1>2. WindowStart(i - 1) = i - 1 /\ WindowEnd(i - 1) = i /\ (i - 1) + 1 = i
  <2>1. PICK j \in Nat : j = i - 1 /\ j + 1 = i
    BY <1>1
  <2>2. WindowStart(j) = j /\ WindowEnd(j) = j + 1
    BY UnitWindows
  <2> QED BY <2>1, <2>2
<1>3. SubSeq(s, i, i) = <<s[i]>>
  <2>1. \A j \in i..i : s[j] \in Levels
    OBVIOUS
  <2>2. /\ SubSeq(s, i, i) \in Seq(Levels) /\ Len(SubSeq(s, i, i)) = IF i <= i THEN i - i + 1 ELSE 0
        /\ \A j \in 1..(i - i + 1) : SubSeq(s, i, i)[j] = s[i + j - 1]
    BY <1>1, <2>1, SubSeqProperties
  <2>3. PICK t \in Seq(Levels) : t = SubSeq(s, i, i)
    BY <2>2
  <2>4. Len(t) = 1
    BY <1>1, <2>2, <2>3
  <2>5. t[1] = s[i]
    <3>1. 1 \in 1..(i - i + 1) /\ i + 1 - 1 = i
      BY <1>1
    <3> QED BY <2>2, <2>3, <3>1
  <2>6. t = <<t[1]>>
    BY <2>4
  <2> QED BY <2>3, <2>5, <2>6
<1>4. Mean(<<s[i]>>) = s[i]
  BY <1>1, MeanOfOne
<1> QED BY <1>2, <1>3, <1>4 DEF Exact

\* push with a ratio of one: the frames as they are.
LEMMA PushedThrough ==
  ASSUME SrcRate = DstRate, heard \in Seq(Levels), NEW input \in Seq(Levels)
  PROVE  Push(input).out = [k \in 1..Len(input) |-> Exact(heard \o input, Len(heard) + k - 1)]
<1> DEFINE h == heard \o input
<1>1. Push(input).out = [k \in DOMAIN input |->
                          [from |-> Len(heard) + k - 1, upto |-> Len(heard) + k, level |-> input[k]]]
  BY DEF Push
<1>2. DOMAIN input = 1..Len(input)
  OBVIOUS
<1>3. ASSUME NEW k \in 1..Len(input)
      PROVE  Exact(h, Len(heard) + k - 1) =
               [from |-> Len(heard) + k - 1, upto |-> Len(heard) + k, level |-> input[k]]
  <2>1. h \in Seq(Levels) /\ Len(h) = Len(heard) + Len(input) /\ h[Len(heard) + k] = input[k]
    BY Joint
  <2>2. PICK i \in 1..Len(h) : i = Len(heard) + k
    BY <2>1
  <2> HIDE DEF h
  <2>3. Exact(h, i - 1) = [from |-> i - 1, upto |-> i, level |-> h[i]]
    BY <2>1, FrameIsExact
  <2> QED BY <2>1, <2>2, <2>3
<1> QED BY <1>1, <1>2, <1>3

\* push: what more is complete comes out, window by window, and the rest is kept.
LEMMA PushedWindows ==
  ASSUME SrcRate # DstRate, TypeOK, Windowed(heard, outIdx),
         Rest(heard, outIdx, carry, carryStart), NEW input \in Seq(Levels),
         NEW m \in Nat, Windowed(heard \o input, m), outIdx <= m,
         m <= Len(heard \o input) * DstRate
  PROVE  /\ Push(input).idx = m
         /\ Push(input).out = [k \in 1..(m - outIdx) |-> Exact(heard \o input, outIdx + k - 1)]
         /\ Rest(heard \o input, m, Push(input).carry, Push(input).start)
<1> DEFINE h == heard \o input
           frames == carry \o input
           n == Cardinality(Complete(outIdx, carryStart + Len(frames)))
           d == Dropped(frames, carryStart, WindowStart(outIdx + n))
<1>1. /\ heard \in Seq(Levels) /\ carry \in Seq(Levels) /\ carryStart \in Nat /\ outIdx \in Nat
      /\ h \in Seq(Levels) /\ Len(heard) \in Nat /\ Len(h) \in Nat
  BY DEF TypeOK
<1>2. /\ Push(input).out = [k \in 1..n |-> Sample(frames, carryStart, outIdx + k - 1)]
      /\ Push(input).carry = SubSeq(frames, d + 1, Len(frames))
      /\ Push(input).start = carryStart + d /\ Push(input).idx = outIdx + n
  BY DEF Push
<1>3. carryStart \in 0..Len(heard) /\ carryStart <= WindowStart(outIdx)
  <2>1. PICK w \in Nat : w = WindowStart(outIdx)
    BY <1>1, WindowTyped
  <2>2. carryStart = IF w <= Len(heard) THEN w ELSE Len(heard)
    BY <2>1 DEF Rest
  <2> QED BY <1>1, <2>1, <2>2
<1>4. /\ frames = SubSeq(h, carryStart + 1, Len(h)) /\ Len(h) = Len(heard) + Len(input)
      /\ carryStart + Len(frames) = Len(h)
  <2>1. carry = SubSeq(heard, carryStart + 1, Len(heard))
    BY DEF Rest
  <2>2. frames = SubSeq(h, carryStart + 1, Len(h)) /\ Len(h) = Len(heard) + Len(input)
        /\ Len(SubSeq(h, carryStart + 1, Len(h))) = Len(heard) + Len(input) - carryStart
    BY <1>1, <1>3, <2>1, CarryContinues
  <2>3. carryStart + (Len(heard) + Len(input) - carryStart) = Len(heard) + Len(input)
    BY <1>1
  <2> QED BY <2>2, <2>3
<1>5. n = m - outIdx /\ outIdx + n = m /\ n \in Nat
  <2>1. Cardinality(Complete(outIdx, Len(h))) = m - outIdx
    <3>1. \A j \in Nat : WindowEnd(j) <= Len(h) <=> j < m
      BY DEF Windowed
    <3>2. outIdx \in 0..m
      BY <1>1
    <3> QED BY <1>1, <3>1, <3>2, Counting
  <2> QED BY <1>1, <1>4, <2>1
<1>4a. frames \in Seq(Levels) /\ Len(frames) \in Nat
  BY <1>1
<1> HIDE DEF n, frames, h
<1>4b. PICK l \in Nat : l = Len(frames) /\ carryStart + l = Len(h) /\ l = Len(h) - carryStart
  <2>1. PICK l \in Nat : l = Len(frames)
    BY <1>4a
  <2>2. carryStart + l = Len(h)
    BY <1>4, <2>1
  <2>3. carryStart \in Nat
    BY <1>1
  <2>4. l = Len(h) - carryStart
    BY <2>2, <2>3
  <2> QED BY <2>1, <2>2, <2>4, Zenon
<1>6. carryStart <= Len(h) /\ carryStart <= WindowStart(m) /\ WindowStart(m) \in Nat
  <2>1. WindowStart(m) \in Nat
    BY WindowTyped
  <2>2. WindowStart(outIdx) <= WindowStart(m)
    BY <1>1, WindowOrder
  <2>3. WindowStart(outIdx) \in Nat
    BY <1>1, WindowTyped
  <2> QED BY <1>1, <1>3, <1>4, <2>1, <2>2, <2>3
<1>7. ASSUME NEW k \in 1..n
      PROVE  Sample(frames, carryStart, outIdx + k - 1) = Exact(h, outIdx + k - 1)
  <2>1. PICK i \in Nat : i = outIdx + k - 1 /\ i < m /\ outIdx <= i
    BY <1>1, <1>5
  <2>2. PICK s, e \in Nat : s = WindowStart(i) /\ e = WindowEnd(i) /\ s < e
    BY WindowTyped
  <2>3. e <= Len(h)
    BY <2>1, <2>2 DEF Windowed, h
  <2>4. carryStart <= s
    <3>1. WindowStart(outIdx) <= WindowStart(i)
      BY <1>1, <2>1, WindowOrder
    <3>2. WindowStart(outIdx) \in Nat
      BY <1>1, WindowTyped
    <3> QED BY <1>1, <1>3, <2>2, <3>1, <3>2
  <2>5. SubSeq(frames, s - carryStart + 1, e - carryStart) = SubSeq(h, s + 1, e)
    <3>1. /\ carryStart + 1 \in 1..Len(h) /\ Len(h) \in 1..Len(h)
          /\ s - carryStart + 1 \in 1..(Len(h) - (carryStart + 1) + 1)
          /\ e - carryStart \in 1..(Len(h) - (carryStart + 1) + 1)
      <4>1. PICK z, c \in Nat : z = Len(h) /\ c = carryStart
        BY <1>1
      <4>2. e <= z /\ c <= s
        BY <2>3, <2>4, <4>1
      <4> QED BY <2>2, <4>1, <4>2
    <3>2. SubSeq(SubSeq(h, carryStart + 1, Len(h)), s - carryStart + 1, e - carryStart)
            = SubSeq(h, carryStart + 1 + (s - carryStart + 1) - 1, carryStart + 1 + (e - carryStart) - 1)
      BY <1>1, <3>1, PartOfPart
    <3>3. carryStart + 1 + (s - carryStart + 1) - 1 = s + 1 /\ carryStart + 1 + (e - carryStart) - 1 = e
      BY <1>1
    <3> QED BY <1>4, <3>2, <3>3
  <2> QED BY <2>1, <2>2, <2>5 DEF Sample, Exact
<1>8. Push(input).out = [k \in 1..(m - outIdx) |-> Exact(h, outIdx + k - 1)]
  BY <1>2, <1>5, <1>7
<1>9. /\ d \in 0..Len(frames)
      /\ carryStart + d = IF WindowStart(m) <= Len(h) THEN WindowStart(m) ELSE Len(h)
  <2>1. PICK x \in Nat : x = WindowStart(m) - carryStart
    BY <1>1, <1>6
  <2>3. Max({x, 0}) = x
    BY OfTwo
  <2>4. Min({x, l}) = IF x <= l THEN x ELSE l
    <3>1. x \in Int /\ l \in Int
      OBVIOUS
    <3> QED BY <3>1, OfTwo, Zenon
  <2>5. d = IF x <= l THEN x ELSE l
    BY <1>5, <2>1, <1>4b, <2>3, <2>4 DEF Dropped
  <2> HIDE DEF d
  <2> QED BY <1>1, <1>6, <2>1, <1>4b, <2>5
<1> HIDE DEF d
<1>10. SubSeq(frames, d + 1, Len(frames)) = SubSeq(h, carryStart + d + 1, Len(h))
  <2>2. CASE d = l
    <3>1. SubSeq(frames, d + 1, l) = <<>> /\ SubSeq(h, carryStart + d + 1, Len(h)) = <<>>
      BY <1>1, <1>4b, <2>2, SubSeqEmpty
    <3> QED BY <1>4b, <3>1
  <2>3. CASE d < l
    <3>1. /\ carryStart + 1 \in 1..Len(h) /\ Len(h) \in 1..Len(h)
          /\ d + 1 \in 1..(Len(h) - (carryStart + 1) + 1)
          /\ l \in 1..(Len(h) - (carryStart + 1) + 1)
      BY <1>1, <1>9, <1>4b, <2>3
    <3>2. SubSeq(SubSeq(h, carryStart + 1, Len(h)), d + 1, l)
            = SubSeq(h, carryStart + 1 + (d + 1) - 1, carryStart + 1 + l - 1)
      BY <1>1, <3>1, PartOfPart
    <3>3. carryStart + 1 + (d + 1) - 1 = carryStart + d + 1 /\ carryStart + 1 + l - 1 = Len(h)
      <4>1. d \in Int /\ l \in Int
        BY <1>9, <1>4b
      <4> QED BY <1>1, <1>4b, <4>1
    <3> QED BY <1>4, <1>4b, <3>2, <3>3
  <2>4. d = l \/ d < l
    BY <1>9, <1>4b
  <2> QED BY <2>2, <2>3, <2>4
<1> QED BY <1>2, <1>5, <1>8, <1>9, <1>10 DEF Rest, h

\* What comes out is windows n to m of the stream.
ComesOut(out, frames, n, m) == out = [k \in 1..(m - n) |-> Exact(frames, n + k - 1)]

\* The buffer takes what comes out, up to its capacity.
LEMMA Recorded ==
  ASSUME NEW s \in Seq(Levels), NEW input \in Seq(Levels), NEW n \in Nat, NEW m \in Nat, n <= m,
         Windowed(s, n), Windowed(s \o input, m), buf = OnePass(s),
         NEW out, ComesOut(out, s \o input, n, m)
  PROVE  buf \o Kept(out) = OnePass(s \o input)
<1> DEFINE h == s \o input
           e == [k \in Nat |-> Exact(h, k - 1)]
           S == {Exact(h, k - 1) : k \in Nat}
<1>1. h \in Seq(Levels)
  OBVIOUS
<1>2. e \in [Nat -> S] /\ \A k \in Nat : e[k] = Exact(h, k - 1)
  OBVIOUS
<1>3. buf = [k \in 1..Capped(n) |-> e[k]]
  <2>1. buf = [k \in 1..Capped(n) |-> Exact(s, k - 1)]
    BY OnePassIs
  <2>2. ASSUME NEW k \in 1..Capped(n) PROVE Exact(s, k - 1) = e[k]
    <3>1. k \in Nat /\ k - 1 \in Nat /\ k - 1 < n
      BY SizesAreSizes DEF Capped
    <3>2. WindowEnd(k - 1) <= Len(s)
      BY <3>1 DEF Windowed
    <3> QED BY <1>2, <3>1, <3>2, ExactStays
  <2> HIDE DEF e
  <2> QED BY <2>1, <2>2
<1>4. out = [k \in 1..(m - n) |-> e[n + k]]
  <2>1. ASSUME NEW k \in 1..(m - n) PROVE Exact(h, n + k - 1) = e[n + k]
    OBVIOUS
  <2> HIDE DEF e
  <2> QED BY <2>1 DEF ComesOut
<1>5. OnePass(h) = [k \in 1..Capped(m) |-> e[k]]
  <2>1. OnePass(h) = [k \in 1..Capped(m) |-> Exact(h, k - 1)]
    BY <1>1, OnePassIs
  <2>2. ASSUME NEW k \in 1..Capped(m) PROVE Exact(h, k - 1) = e[k]
    <3>1. k \in Nat
      BY SizesAreSizes DEF Capped
    <3> QED BY <1>2, <3>1
  <2> HIDE DEF e
  <2> QED BY <2>1, <2>2
<1>6. Len(buf) = Capped(n) /\ Len(out) = m - n /\ m - n \in Nat /\ n + (m - n) = m
  <2>1. Capped(n) \in Nat /\ m - n \in Nat
    BY SizesAreSizes DEF Capped
  <2> HIDE DEF e
  <2> QED BY <1>3, <1>4, <2>1
<1>7. Kept(out) = SubSeq([k \in 1..(m - n) |-> e[n + k]], 1,
                         Min({Max({MaxSamples - Capped(n), 0}), m - n}))
  <2> HIDE DEF e
  <2> QED BY <1>4, <1>6 DEF Kept
<1> HIDE DEF e, S
<1>8. [k \in 1..Capped(n) |-> e[k]]
        \o SubSeq([k \in 1..(m - n) |-> e[n + k]], 1,
                  Min({Max({MaxSamples - Capped(n), 0}), m - n}))
      = [k \in 1..Capped(n + (m - n)) |-> e[k]]
  BY <1>2, <1>6, Joined
<1> QED BY <1>3, <1>5, <1>6, <1>7, <1>8

\* What was recorded is what one pass gives; the buffer is handed over once.
Recording == /\ done = "samples" => thread = "ended"
             /\ (IF done = "samples" THEN taken ELSE buf) = OnePass(heard)

\* A callback.
LEMMA CallbackRecords ==
  ASSUME TypeOK, Consumed, Recording, NEW chunk \in Chunks, Callback(chunk)
  PROVE  Consumed' /\ Recording'
<1>1. /\ chunk \in Seq(Levels) /\ heard \in Seq(Levels) /\ heard' = heard \o chunk
      /\ outIdx \in Nat /\ Len(heard) \in Nat
  <2>1. chunk \in Seq(Levels)
    BY SizesAreSizes DEF Chunks
  <2>2. heard \in Seq(Levels) /\ heard' = heard \o chunk /\ outIdx \in Nat
    BY DEF Callback, TypeOK
  <2>3. Len(heard) \in Nat
    BY <2>2
  <2> QED BY <2>1, <2>2, <2>3
<1>2. /\ carry' = Push(chunk).carry /\ carryStart' = Push(chunk).start /\ outIdx' = Push(chunk).idx
      /\ buf' = buf \o Kept(Push(chunk).out) /\ UNCHANGED <<thread, done, taken>>
      /\ done # "samples" /\ buf = OnePass(heard)
  BY DEF Callback, Recording
<1>3. CASE SrcRate = DstRate
  <2>1. Push(chunk).carry = carry
    BY <1>3 DEF Push
  <2>2. Windowed(heard, Len(heard)) /\ Windowed(heard \o chunk, Len(heard \o chunk))
    <3>1. heard \o chunk \in Seq(Levels)
      BY <1>1
    <3> QED BY <1>1, <1>3, <3>1, UnitWindows
  <2>3. PICK n, m, l \in Nat : n = Len(heard) /\ m = Len(heard \o chunk) /\ l = Len(chunk) /\ m - n = l
    <3>1. Len(heard \o chunk) = Len(heard) + Len(chunk) /\ Len(chunk) \in Nat
      BY <1>1
    <3> QED BY <1>1, <3>1
  <2>4. Push(chunk).out = [k \in 1..(m - n) |-> Exact(heard \o chunk, n + k - 1)]
    BY <1>1, <1>3, <2>3, PushedThrough
  <2>5. buf \o Kept(Push(chunk).out) = OnePass(heard \o chunk)
    <3>1. PICK out : out = Push(chunk).out
      OBVIOUS
    <3>2. /\ Windowed(heard, n) /\ Windowed(heard \o chunk, m) /\ n <= m /\ buf = OnePass(heard)
          /\ ComesOut(out, heard \o chunk, n, m)
      BY <1>2, <2>2, <2>3, <2>4, <3>1 DEF ComesOut
    <3>3. heard \in Seq(Levels) /\ chunk \in Seq(Levels)
      BY <1>1
    <3>4. buf \o Kept(out) = OnePass(heard \o chunk)
      BY <3>2, <3>3, Recorded
    <3> QED BY <3>1, <3>4
  <2> QED BY <1>1, <1>2, <1>3, <2>1, <2>5 DEF Consumed, Recording
<1>4. CASE SrcRate # DstRate
  <2>1. Windowed(heard, outIdx) /\ Rest(heard, outIdx, carry, carryStart)
    BY <1>4 DEF Consumed
  <2>2. PICK m \in Nat : /\ Windowed(heard \o chunk, m) /\ outIdx <= m
                         /\ m <= Len(heard \o chunk) * DstRate
    BY <1>1, <2>1, MoreWindows
  <2>3. /\ Push(chunk).idx = m
        /\ Push(chunk).out = [k \in 1..(m - outIdx) |-> Exact(heard \o chunk, outIdx + k - 1)]
        /\ Rest(heard \o chunk, m, Push(chunk).carry, Push(chunk).start)
    BY <1>1, <1>4, <2>1, <2>2, PushedWindows
  <2>4. buf \o Kept(Push(chunk).out) = OnePass(heard \o chunk)
    <3>0. PICK n \in Nat : n = outIdx
      BY <1>1
    <3>1. PICK out : n = outIdx /\ out = Push(chunk).out
      BY <3>0
    <3>2. /\ Windowed(heard, n) /\ Windowed(heard \o chunk, m) /\ n <= m /\ buf = OnePass(heard)
          /\ ComesOut(out, heard \o chunk, n, m)
      BY <1>2, <2>1, <2>2, <2>3, <3>1 DEF ComesOut
    <3>3. heard \in Seq(Levels) /\ chunk \in Seq(Levels)
      BY <1>1
    <3>4. buf \o Kept(out) = OnePass(heard \o chunk)
      BY <3>2, <3>3, Recorded
    <3> QED BY <3>1, <3>4
  <2> QED BY <1>1, <1>2, <1>4, <2>2, <2>3, <2>4 DEF Consumed, Recording
<1> QED BY <1>3, <1>4

\* Every step.
LEMMA NextRecords == TypeOK /\ Consumed /\ Recording /\ [Next]_vars => Consumed' /\ Recording'
<1> SUFFICES ASSUME TypeOK, Consumed, Recording, [Next]_vars PROVE Consumed' /\ Recording'
  OBVIOUS
<1>1. CASE \E chunk \in Chunks : Callback(chunk)
  BY <1>1, CallbackRecords
<1>2. CASE HandsOver
  <2>1. UNCHANGED <<heard, carry, carryStart, outIdx>> /\ thread' = "ended" /\ done' = "samples"
        /\ taken' = buf /\ done # "samples"
    BY <1>2 DEF HandsOver, Recording
  <2> QED BY <2>1 DEF Consumed, Recording
<1>3. CASE UNCHANGED vars \/ Loop \/ Worker \/ Opens \/ OpenFails \/ SaysReady \/ Stops \/ StreamCloses
  <2>1. UNCHANGED <<heard, carry, carryStart, outIdx, buf, taken>>
    BY <1>3 DEF vars, Resampling, Loop, HearsReady, KeyReleased, Cancelled, Worker, Awaits, Receives,
                GraceElapses, Validates, Transcribes, WhisperFails, Opens, OpenFails, SaysReady, Stops,
                StreamCloses
  <2>2. \/ UNCHANGED <<thread, done>>
        \/ thread # "ended" /\ done' \in {done, "error"}
    BY <1>3 DEF vars, Resampling, Loop, HearsReady, KeyReleased, Cancelled, Worker, Awaits, Receives,
                GraceElapses, Validates, Transcribes, WhisperFails, Opens, OpenFails, SaysReady, Stops,
                StreamCloses
  <2> QED BY <2>1, <2>2 DEF Consumed, Recording
<1> QED BY <1>1, <1>2, <1>3 DEF Next, CaptureThread

\* The start.
LEMMA InitRecords == Init => Consumed /\ Recording
<1> SUFFICES ASSUME Init PROVE Consumed /\ Recording
  OBVIOUS
<1>1. heard = <<>> /\ heard \in Seq(Levels) /\ Len(heard) = 0 /\ carry = <<>> /\ carryStart = 0
      /\ outIdx = 0 /\ buf = <<>> /\ done = "none"
  BY DEF Init
<1>2. Windowed(heard, 0)
  <2>1. ASSUME NEW j \in Nat PROVE ~(WindowEnd(j) <= 0)
    BY WindowTyped
  <2> QED BY <1>1, <2>1 DEF Windowed
<1>3. Rest(heard, 0, carry, 0)
  <2>1. WindowStart(0) \in Nat
    BY WindowTyped
  <2>2. (IF WindowStart(0) <= Len(heard) THEN WindowStart(0) ELSE Len(heard)) = 0
    BY <1>1, <2>1
  <2>3. SubSeq(heard, 0 + 1, Len(heard)) = <<>>
    BY <1>1, SubSeqEmpty
  <2> QED BY <1>1, <2>2, <2>3 DEF Rest
<1>4. OnePass(heard) = <<>>
  <2>1. OnePass(heard) = [k \in 1..Capped(0) |-> Exact(heard, k - 1)]
    BY <1>1, <1>2, OnePassIs
  <2>2. Capped(0) = 0
    BY SizesAreSizes DEF Capped
  <2> QED BY <2>1, <2>2
<1> QED BY <1>1, <1>2, <1>3, <1>4 DEF Consumed, Recording

\* The carry is less than a window.
LEMMA CarryBounded ==
  ASSUME TypeOK, Consumed
  PROVE  Len(carry) * DstRate < SrcRate + DstRate
<1>0. SrcRate \in Nat /\ DstRate \in Nat /\ 0 < SrcRate /\ 0 < DstRate
  BY RatesAreRates
<1>1. CASE SrcRate = DstRate
  <2>1. Len(carry) = 0
    BY <1>1 DEF Consumed
  <2> QED BY <1>0, <2>1
<1>2. CASE SrcRate # DstRate
  <2>1. PICK l \in Nat : l = Len(heard)
    BY DEF TypeOK
  <2>2. PICK w, v \in Nat : w = WindowStart(outIdx) /\ v = WindowStart(outIdx + 1)
    <3>1. outIdx \in Nat /\ outIdx + 1 \in Nat
      BY DEF TypeOK
    <3> QED BY <3>1, WindowTyped
  <2>3. ~(v <= l /\ w < l)
    <3>1. ~(WindowEnd(outIdx) <= l)
      BY <1>2, <2>1 DEF Consumed, Windowed, TypeOK
    <3> QED BY <2>2, <3>1, WindowTyped DEF TypeOK
  <2>4. Len(carry) = IF w < l THEN l - w ELSE 0
    <3>1. carryStart = (IF w <= l THEN w ELSE l) /\ carry = SubSeq(heard, carryStart + 1, l)
      BY <1>2, <2>1, <2>2 DEF Consumed, Rest
    <3>2. carryStart \in Nat /\ carryStart <= l
      BY <2>1, <2>2, <3>1
    <3>3. \A i \in (carryStart + 1)..l : heard[i] \in Levels
      BY <2>1, <3>2 DEF TypeOK
    <3>4. Len(SubSeq(heard, carryStart + 1, l)) = IF carryStart + 1 <= l THEN l - (carryStart + 1) + 1 ELSE 0
      BY <2>1, <3>2, <3>3, SubSeqProperties
    <3> QED BY <2>1, <2>2, <3>1, <3>2, <3>4
  <2>5. CASE w < l
    <3>1. Len(carry) + 1 <= v - w /\ Len(carry) \in Nat
      BY <2>1, <2>2, <2>3, <2>4, <2>5
    <3>2. outIdx * SrcRate \in Int /\ (outIdx + 1) * SrcRate = outIdx * SrcRate + SrcRate
          /\ (outIdx + 1) * SrcRate \in Int
      BY <1>0 DEF TypeOK
    <3>3. v * DstRate <= (outIdx + 1) * SrcRate
      <4>1. v <= ((outIdx + 1) * SrcRate) \div DstRate
        BY <2>2 DEF WindowStart
      <4> QED BY <2>2, <3>2, <4>1, Quotient, RatesAreRates
    <3>4. outIdx * SrcRate < (w + 1) * DstRate
      <4>1. (outIdx * SrcRate) \div DstRate <= w
        BY <2>2 DEF WindowStart
      <4> QED BY <2>2, <3>2, <4>1, Quotient, RatesAreRates
    <3>5. (Len(carry) + 1) * DstRate <= (v - w) * DstRate
      BY <1>0, <2>2, <3>1, Monotone
    <3>6. (v - w) * DstRate = v * DstRate - w * DstRate /\ (w + 1) * DstRate = w * DstRate + DstRate
          /\ (Len(carry) + 1) * DstRate = Len(carry) * DstRate + DstRate
      BY <1>0, <2>2, <3>1
    <3>7. v * DstRate \in Int /\ w * DstRate \in Int /\ Len(carry) * DstRate \in Int
      BY <1>0, <2>2, <3>1
    <3> QED BY <1>0, <3>2, <3>3, <3>4, <3>5, <3>6, <3>7
  <2>6. CASE ~(w < l)
    <3>1. Len(carry) = 0
      BY <2>4, <2>6
    <3> QED BY <1>0, <3>1
  <2> QED BY <2>5, <2>6
<1> QED BY <1>1, <1>2

\* The recording, and the bound of the carry.
LEMMA ChunksHold == TypeOK /\ Consumed /\ Recording => ChunksDoNotShow
BY CarryBounded DEF Recording, ChunksDoNotShow

-----------------------------------------------------------------------------
(* What the gate lets through. *)

\* A recording is a sequence.
LEMMA RecordingIsSequence ==
  ASSUME NEW frames \in Seq(Levels)
  PROVE  \E S : OnePass(frames) \in Seq(S)
<1>1. PICK n \in Nat : Windowed(frames, n)
  <2>1. Len(frames) \in Nat
    OBVIOUS
  <2> QED BY <2>1, Windows DEF Windowed
<1> DEFINE S == {Exact(frames, k - 1) : k \in 1..Capped(n)}
<1>2. Capped(n) \in Nat
  BY SizesAreSizes DEF Capped
<1>3. [k \in 1..Capped(n) |-> Exact(frames, k - 1)] \in Seq(S)
  <2>1. \A k \in 1..Capped(n) : Exact(frames, k - 1) \in S
    OBVIOUS
  <2> HIDE DEF S
  <2> QED BY <1>2, <2>1
<1> QED BY <1>1, <1>3, OnePassIs

\* A recording is cut.
LEMMA SpanTyped ==
  ASSUME NEW S, NEW t \in Seq(S), NEW a \in 0..Len(t), NEW b \in a..Len(t)
  PROVE  /\ Span(t, a, b) \in Seq(S) /\ Len(Span(t, a, b)) = b - a
         /\ \A i \in 1..(b - a) : Span(t, a, b)[i] = t[a + i]
<1> DEFINE p == Span(t, a, b)
<1>0. Len(t) \in Nat /\ a \in Nat /\ b \in Nat /\ a <= b /\ b <= Len(t)
  OBVIOUS
<1>1. \A i \in (a + 1)..b : t[i] \in S
  BY <1>0
<1>2. /\ p \in Seq(S) /\ Len(p) = IF a + 1 <= b THEN b - (a + 1) + 1 ELSE 0
      /\ \A i \in 1..(b - (a + 1) + 1) : p[i] = t[(a + 1) + i - 1]
  BY <1>0, <1>1, SubSeqProperties DEF Span
<1> HIDE DEF p
<1>3. p \in Seq(S) /\ Len(p) = b - a /\ \A i \in 1..(b - a) : p[i] = t[a + i]
  BY <1>0, <1>2
<1> QED BY <1>3 DEF p

\* The first samples of a recording.
Beginning(p, m) == SubSeq(p, 1, m)

\* What was cut is cut again.
LEMMA SpanIs ==
  ASSUME NEW S, NEW t \in Seq(S), NEW a \in 0..Len(t), NEW b \in a..Len(t), NEW m \in 0..(b - a)
  PROVE  /\ Beginning(Span(t, a, b), m) \in Seq(S) /\ Len(Beginning(Span(t, a, b), m)) = m
         /\ Beginning(Span(t, a, b), m) = Span(t, a, a + m)
<1> DEFINE p == Span(t, a, b)
           q == SubSeq(p, 1, m)
           r == SubSeq(t, a + 1, a + m)
<1>0. Len(t) \in Nat /\ a \in Nat /\ b \in Nat /\ m \in Nat /\ a <= b /\ b <= Len(t) /\ m <= b - a
  OBVIOUS
<1>1. p \in Seq(S) /\ Len(p) = b - a /\ \A i \in 1..(b - a) : p[i] = t[a + i]
  BY SpanTyped
<1>2. r \in Seq(S) /\ Len(r) = m /\ \A i \in 1..m : r[i] = t[a + i]
  <2>1. \A i \in (a + 1)..(a + m) : t[i] \in S
    BY <1>0
  <2>2. /\ r \in Seq(S) /\ Len(r) = IF a + 1 <= a + m THEN (a + m) - (a + 1) + 1 ELSE 0
        /\ \A i \in 1..((a + m) - (a + 1) + 1) : r[i] = t[(a + 1) + i - 1]
    BY <1>0, <2>1, SubSeqProperties
  <2> HIDE DEF r
  <2> QED BY <1>0, <2>2
<1> HIDE DEF p
<1>3. q \in Seq(S) /\ Len(q) = m /\ \A i \in 1..m : q[i] = p[i]
  <2>1. \A i \in 1..m : p[i] \in S
    BY <1>0, <1>1
  <2>2. /\ q \in Seq(S) /\ Len(q) = IF 1 <= m THEN m - 1 + 1 ELSE 0
        /\ \A i \in 1..(m - 1 + 1) : q[i] = p[1 + i - 1]
    BY <1>0, <2>1, SubSeqProperties
  <2> HIDE DEF q
  <2> QED BY <1>0, <2>2
<1> HIDE DEF q, r
<1>4. q = r
  <2>1. ASSUME NEW i \in 1..m PROVE q[i] = r[i]
    <3>1. i \in 1..(b - a)
      BY <1>0
    <3> QED BY <1>1, <1>2, <1>3, <3>1
  <2> QED BY <1>2, <1>3, <2>1, SeqEqual
<1> QED BY <1>3, <1>4 DEF p, q, r, Beginning, Span

\* finish, on the samples from a to b: what is left begins at a, and is long enough;
\* nothing is left only of what is too short.
LEMMA FinishIs ==
  ASSUME NEW S, NEW t \in Seq(S), NEW a \in 0..Len(t), NEW b \in a..Len(t),
         NEW r, r = Finish(Span(t, a, b))
  PROVE  /\ r = <<>> => a = b \/ b - a < MinMs * PerMs
         /\ r # <<>> => /\ a \in Pieces(t, r) /\ Admitted(r)
                        /\ Len(r) = b - a \/ Len(r) = MaxMs * PerMs
                        /\ Len(r) \in Nat
<1> DEFINE p == Span(t, a, b)
<1>0. /\ Len(t) \in Nat /\ a \in Nat /\ b \in Nat /\ a <= b /\ b <= Len(t)
      /\ PerMs \in Nat \ {0} /\ MinMs \in Nat /\ MaxMs \in Nat /\ 0 < MaxMs /\ MinMs <= MaxMs
  BY SizesAreSizes, PolicyHolds
<1>1. PICK least, most, l \in Nat : /\ least = MinMs * PerMs /\ most = MaxMs * PerMs /\ l = b - a
                                    /\ least <= most /\ 0 < most
  <2>1. MinMs * PerMs \in Nat /\ MaxMs * PerMs \in Nat /\ b - a \in Nat
    BY <1>0
  <2>2. MinMs * PerMs <= MaxMs * PerMs /\ 1 * PerMs <= MaxMs * PerMs
    BY <1>0, Monotone
  <2> QED BY <1>0, <2>1, <2>2
<1>2. p \in Seq(S) /\ Len(p) = l
  <2>1. Span(t, a, b) \in Seq(S) /\ Len(Span(t, a, b)) = b - a
    BY SpanTyped
  <2> QED BY <1>1, <2>1
<1>3. l \div PerMs < MinMs <=> l < least
  <2>1. MinMs <= l \div PerMs <=> MinMs * PerMs <= l
    BY <1>0, Quotient
  <2>2. l \div PerMs \in Int /\ l \in Int
    BY <1>0, Quotient
  <2> QED BY <1>0, <1>1, <2>1, <2>2
<1>4. PICK m \in Nat : m = (IF l <= most THEN l ELSE most)
  OBVIOUS
<1>5. Min({PerMs * MaxMs, Len(p)}) = m
  <2>1. PerMs * MaxMs = most
    BY <1>0, <1>1
  <2>2. most \in Int /\ l \in Int
    OBVIOUS
  <2>3. Min({most, l}) = IF most <= l THEN most ELSE l
    BY <2>2, OfTwo, Zenon
  <2>4. Min({most, l}) = m
    BY <1>4, <2>3
  <2> QED BY <1>2, <2>1, <2>4
<1> HIDE DEF p
<1>6. r = IF p = <<>> \/ l < least THEN <<>> ELSE SubSeq(p, 1, m)
  BY <1>2, <1>3, <1>5 DEF Finish, p
<1>7. p = <<>> <=> l = 0
  BY <1>2
<1>8. m \in 0..(b - a)
  BY <1>1, <1>4
<1>9. /\ SubSeq(p, 1, m) \in Seq(S) /\ Len(SubSeq(p, 1, m)) = m
      /\ SubSeq(p, 1, m) = SubSeq(t, a + 1, a + m)
  <2>1. /\ Beginning(Span(t, a, b), m) \in Seq(S) /\ Len(Beginning(Span(t, a, b), m)) = m
        /\ Beginning(Span(t, a, b), m) = Span(t, a, a + m)
    BY <1>8, SpanIs
  <2> QED BY <2>1 DEF p, Beginning, Span
<1>10. ASSUME r = <<>> PROVE a = b \/ b - a < MinMs * PerMs
  <2>1. CASE p = <<>> \/ l < least
    BY <1>0, <1>1, <1>7, <2>1
  <2>2. CASE ~(p = <<>> \/ l < least)
    <3>1. m = 0
      BY <1>6, <1>9, <1>10, <2>2
    <3> QED BY <1>1, <1>4, <1>7, <2>2, <3>1
  <2> QED BY <2>1, <2>2
<1>11. ASSUME r # <<>>
       PROVE  /\ a \in Pieces(t, r) /\ Admitted(r) /\ Len(r) \in Nat
              /\ Len(r) = b - a \/ Len(r) = MaxMs * PerMs
  <2>1. r = SubSeq(t, a + 1, a + m) /\ Len(r) = m /\ ~(l < least)
    BY <1>6, <1>9, <1>11
  <2>2. Admitted(r)
    <3>1. least <= m /\ m <= most
      BY <1>1, <1>4, <2>1
    <3>2. Len(r) >= least /\ Len(r) <= most
      BY <2>1, <3>1
    <3> QED BY <1>1, <3>2 DEF Admitted
  <2>3. a \in 0..(Len(t) - Len(r))
    BY <1>0, <1>1, <1>4, <2>1
  <2>4. a \in Pieces(t, r)
    BY <2>1, <2>3 DEF Pieces
  <2>5. Len(r) = b - a \/ Len(r) = MaxMs * PerMs
    BY <1>1, <1>4, <2>1
  <2> QED BY <2>1, <2>2, <2>4, <2>5
<1> QED BY <1>10, <1>11

\* Nothing passes for nothing.
LEMMA FinishOfNothing == Finish(<<>>) = <<>>
BY DEF Finish

\* trim_silence: from the first loud frame to the end of the last.
LEMMA TrimIs ==
  ASSUME NEW S, NEW t \in Seq(S), LoudFrames(t) # {}
  PROVE  \E a \in 0..Len(t) : \E b \in a..Len(t) :
           /\ a = Min(LoudFrames(t)) * Frame /\ a < b
           /\ b = Min({(Max(LoudFrames(t)) + 1) * Frame, Len(t)})
           /\ \A f \in LoudFrames(t) : (f + 1) * Frame <= b \/ b = Len(t)
           /\ TrimSilence(t) = Span(t, a, b)
<1> DEFINE loud == LoudFrames(t)
<1>1. PICK l \in Nat : l = Len(t)
  OBVIOUS
<1>2. PICK n \in Int : n = Frames(t) /\ \A x \in Int : x <= n <=> x * Frame <= l + Frame - 1
  <2>1. l + Frame - 1 \in Int /\ Frame \in Nat \ {0}
    BY SizesAreSizes
  <2> QED BY <1>1, <2>1, Quotient DEF Frames
<1>3. loud \subseteq 0..(n - 1)
  BY <1>2 DEF LoudFrames
<1>4. /\ Min(loud) \in loud /\ \A x \in loud : Min(loud) <= x
      /\ Max(loud) \in loud /\ \A x \in loud : x <= Max(loud)
  <2>1. 0 \in Int /\ n - 1 \in Int /\ loud # {}
    OBVIOUS
  <2> HIDE DEF loud
  <2> QED BY <1>3, <2>1, Extremes
<1> HIDE DEF loud
<1>5. PICK f, g \in Nat : f = Min(loud) /\ g = Max(loud) /\ f <= g /\ f + 1 <= n
  <2>1. Min(loud) \in 0..(n - 1) /\ Max(loud) \in 0..(n - 1)
    BY <1>3, <1>4
  <2>2. Min(loud) <= Max(loud)
    BY <1>4
  <2>3. Min(loud) \in Nat /\ Max(loud) \in Nat /\ Min(loud) + 1 <= n
    BY <1>2, <2>1
  <2> QED BY <2>2, <2>3
<1>6. PICK a, c \in Nat : a = f * Frame /\ c = (g + 1) * Frame /\ a + Frame <= c /\ a < l
  <2>1. Frame \in Nat /\ 0 < Frame
    BY SizesAreSizes
  <2>2. f * Frame \in Nat /\ (g + 1) * Frame \in Nat /\ (f + 1) * Frame = f * Frame + Frame
    BY <2>1
  <2>3. (f + 1) * Frame <= (g + 1) * Frame
    BY <1>5, <2>1, Monotone
  <2>4. (f + 1) * Frame <= l + Frame - 1
    BY <1>2, <1>5
  <2>5. f * Frame < l
    BY <2>1, <2>2, <2>4
  <2> QED BY <2>2, <2>3, <2>5
<1>7. Frame \in Nat /\ 0 < Frame
  BY SizesAreSizes
<1>8. PICK b \in Nat : b = (IF c <= l THEN c ELSE l) /\ b = Min({c, l})
  <2>1. c \in Int /\ l \in Int
    OBVIOUS
  <2>2. Min({c, l}) = IF c <= l THEN c ELSE l
    BY <2>1, OfTwo, Zenon
  <2> QED BY <2>2
<1>9. a \in 0..Len(t) /\ b \in a..Len(t) /\ a < b
  BY <1>1, <1>6, <1>7, <1>8
<1>10. ASSUME NEW x \in loud PROVE (x + 1) * Frame <= b \/ b = Len(t)
  <2>1. x \in Int /\ x + 1 <= g + 1
    BY <1>3, <1>4, <1>5
  <2>2. (x + 1) * Frame <= c /\ (x + 1) * Frame \in Int
    BY <1>6, <1>7, <2>1, Monotone
  <2> QED BY <1>1, <1>8, <2>2
<1>11. TrimSilence(t) = Span(t, a, b)
  <2>1. loud # {}
    BY DEF loud
  <2> QED BY <1>1, <1>5, <1>6, <1>8, <2>1 DEF TrimSilence, loud
<1>12. a = Min(loud) * Frame /\ b = Min({(Max(loud) + 1) * Frame, Len(t)})
  BY <1>1, <1>5, <1>6, <1>8
<1> QED BY <1>9, <1>10, <1>11, <1>12 DEF loud

\* The energy gate: it begins with the first loud frame and leaves none out but
\* for the cap; what it refuses is silent or too short.
LEMMA EnergyGate ==
  ASSUME NEW S, NEW t \in Seq(S), NEW r, r = Finish(TrimSilence(t))
  PROVE  /\ r # <<>> =>
              /\ Admitted(r)
              /\ \E k \in Pieces(t, r) :
                   /\ k = Min(LoudFrames(t)) * Frame
                   /\ Len(r) = MaxMs * PerMs
                        \/ \A f \in LoudFrames(t) : (f + 1) * Frame <= k + Len(r)
                                                    \/ k + Len(r) = Len(t)
         /\ r = <<>> =>
              \/ LoudFrames(t) = {}
              \/ Min({(Max(LoudFrames(t)) + 1) * Frame, Len(t)}) - Min(LoudFrames(t)) * Frame
                   < MinMs * PerMs
<1>1. CASE LoudFrames(t) = {}
  <2>1. TrimSilence(t) = <<>>
    BY <1>1 DEF TrimSilence
  <2> QED BY <1>1, <2>1, FinishOfNothing
<1>2. CASE LoudFrames(t) # {}
  <2>1. PICK a \in 0..Len(t) : \E b \in a..Len(t) :
           /\ a = Min(LoudFrames(t)) * Frame /\ a < b
           /\ b = Min({(Max(LoudFrames(t)) + 1) * Frame, Len(t)})
           /\ \A f \in LoudFrames(t) : (f + 1) * Frame <= b \/ b = Len(t)
           /\ TrimSilence(t) = Span(t, a, b)
    BY <1>2, TrimIs
  <2>2. PICK b \in a..Len(t) :
           /\ a = Min(LoudFrames(t)) * Frame /\ a < b
           /\ b = Min({(Max(LoudFrames(t)) + 1) * Frame, Len(t)})
           /\ \A f \in LoudFrames(t) : (f + 1) * Frame <= b \/ b = Len(t)
           /\ TrimSilence(t) = Span(t, a, b)
    BY <2>1
  <2>3. r = Finish(Span(t, a, b))
    BY <2>2
  <2>4. /\ r = <<>> => a = b \/ b - a < MinMs * PerMs
        /\ r # <<>> => /\ a \in Pieces(t, r) /\ Admitted(r)
                       /\ Len(r) = b - a \/ Len(r) = MaxMs * PerMs
                       /\ Len(r) \in Nat
    BY <2>3, FinishIs
  <2>5. a \in Int /\ b \in Int
    OBVIOUS
  <2>6. ASSUME r = <<>>
        PROVE  Min({(Max(LoudFrames(t)) + 1) * Frame, Len(t)}) - Min(LoudFrames(t)) * Frame
                 < MinMs * PerMs
    <3>1. b - a < MinMs * PerMs
      BY <2>2, <2>4, <2>5, <2>6
    <3> QED BY <2>2, <3>1, Zenon
  <2>7. ASSUME r # <<>>
        PROVE  \/ Len(r) = MaxMs * PerMs
               \/ \A f \in LoudFrames(t) : (f + 1) * Frame <= a + Len(r) \/ a + Len(r) = Len(t)
    <3>1. Len(r) = b - a => a + Len(r) = b
      BY <2>5
    <3> QED BY <2>2, <2>4, <2>7, <3>1, Zenon
  <2> QED BY <2>2, <2>4, <2>6, <2>7, Zenon
<1> QED BY <1>1, <1>2

\* Silero: any segments cut one piece out.
LEMMA SileroGate ==
  ASSUME NEW S, NEW t \in Seq(S), NEW segments \in Segments(t),
         NEW r, r = Finish(SpeechSpan(t, segments)), r # <<>>
  PROVE  Admitted(r) /\ Pieces(t, r) # {}
<1>1. t # <<>> /\ segments # {}
  <2>1. ASSUME t = <<>> \/ segments = {} PROVE SpeechSpan(t, segments) = <<>>
    BY <2>1 DEF SpeechSpan
  <2> QED BY <2>1, FinishOfNothing
<1>2. PICK l \in Nat : l = Len(t)
  OBVIOUS
<1>3. PICK hi \in Int : segments \subseteq ((-1)..hi) \X ((-1)..hi)
  <2>1. l \div PerCs + 1 \in Int
    <3>1. PerCs \in Nat \ {0} /\ l \in Int /\ 0 \in Int
      BY SizesAreSizes
    <3>2. l \div PerCs \in Int
      BY <3>1, Quotient
    <3> QED BY <3>2
  <2>2. PICK hi \in Int : hi = Len(t) \div PerCs + 1
    BY <1>2, <2>1
  <2>3. segments \subseteq ((-1)..hi) \X ((-1)..hi)
    BY <2>2 DEF Segments, kSubset
  <2> QED BY <2>3
<1> DEFINE firsts == {s[1] : s \in segments}
           lasts == {s[2] : s \in segments}
<1>4. Min(firsts) \in Int /\ Max(lasts) \in Int
  <2>1. firsts \subseteq (-1)..hi /\ firsts # {} /\ lasts \subseteq (-1)..hi /\ lasts # {}
    BY <1>1, <1>3
  <2>2. -1 \in Int
    OBVIOUS
  <2> HIDE DEF firsts, lasts
  <2>3. Min(firsts) \in firsts /\ Max(lasts) \in lasts
    BY <2>1, <2>2, Extremes
  <2>4. Min(firsts) \in (-1)..hi /\ Max(lasts) \in (-1)..hi
    BY <2>1, <2>3
  <2> QED BY <2>4
<1>5. PICK x, y \in Int : x = Min(firsts) * PerCs /\ y = Max(lasts) * PerCs
  <2> HIDE DEF firsts, lasts
  <2> QED BY <1>4, SizesAreSizes
<1>6. ASSUME NEW lo \in 0..l, NEW z \in Int
      PROVE  Min({Max({z, lo}), Len(t)}) \in lo..l
  <2>1. PICK u \in Int : u = Max({z, lo}) /\ u = IF z >= lo THEN z ELSE lo
    BY OfTwo
  <2>2. u \in Int /\ l \in Int
    OBVIOUS
  <2>3. Min({u, l}) = IF u <= l THEN u ELSE l
    BY <2>2, OfTwo, Zenon
  <2>4. Min({u, l}) \in lo..l
    BY <2>1, <2>3
  <2> QED BY <1>2, <2>1, <2>4
<1>7. PICK a \in 0..l : a = Min({Max({x, 0}), Len(t)})
  BY <1>2, <1>6
<1>8. PICK b \in a..l : b = Min({Max({y, a}), Len(t)})
  BY <1>6
<1>9. SpeechSpan(t, segments) = Span(t, a, b)
  BY <1>1, <1>5, <1>7, <1>8 DEF SpeechSpan
<1>10. r = Finish(Span(t, a, b)) /\ a \in 0..Len(t) /\ b \in a..Len(t)
  BY <1>2, <1>9
<1>11. a \in Pieces(t, r) /\ Admitted(r)
  BY <1>10, FinishIs
<1> QED BY <1>11
-----------------------------------------------------------------------------
\* While the gate is at work the recording is there and nobody else moves.
Gating == /\ phase = "gating" => done = "samples"
          /\ session # "job" => phase = "none"

LEMMA NextGates == TypeOK /\ Recording /\ Gating /\ [Next]_vars => Gating'
<1> SUFFICES ASSUME TypeOK, Recording, Gating, [Next]_vars PROVE Gating'
  OBVIOUS
<1>1. CASE CaptureThread \/ \E chunk \in Chunks : Callback(chunk)
  <2>1. UNCHANGED <<session, phase>>
    BY <1>1 DEF CaptureThread, Opens, OpenFails, SaysReady, Stops, StreamCloses, HandsOver, Callback,
                Handle, Work
  <2>2. done = "samples" => done' = done
    BY <1>1 DEF CaptureThread, Opens, OpenFails, SaysReady, Stops, StreamCloses, HandsOver, Callback,
                Recording
  <2> QED BY <2>1, <2>2 DEF Gating
<1>2. CASE Loop
  BY <1>2 DEF Loop, HearsReady, KeyReleased, Cancelled, Work, Gating
<1>3. CASE Worker
  <2>1. UNCHANGED <<done, session>> /\ session = "job"
    BY <1>3 DEF Worker, Awaits, Receives, GraceElapses, Validates, Transcribes, WhisperFails, Handle, Gating
  <2>2. phase' = "gating" => done # "none" /\ done # "error"
    BY <1>3 DEF Worker, Awaits, Receives, GraceElapses, Validates, Transcribes, WhisperFails, Failed,
                Gating
  <2>3. done \in {"none", "samples", "error"}
    BY DEF TypeOK
  <2> QED BY <2>1, <2>2, <2>3 DEF Gating
<1>4. CASE UNCHANGED vars
  BY <1>4 DEF vars, Gating, Handle, Work
<1> QED BY <1>1, <1>2, <1>3, <1>4 DEF Next

\* The gate's step, for whichever gate was loaded.
LEMMA GateStep == TypeOK /\ Recording /\ Gating /\ Next => PassesSpeech
<1> SUFFICES ASSUME TypeOK, Recording, Gating, Next, phase = "gating" PROVE PassesSpeech
  BY DEF PassesSpeech
<1>1. Validates
  <2>1. thread = "ended" /\ session = "job"
    BY DEF Recording, Gating
  <2>2. ~CaptureThread /\ ~Loop /\ ~(\E chunk \in Chunks : Callback(chunk))
    BY <2>1 DEF CaptureThread, Opens, OpenFails, SaysReady, Stops, StreamCloses, HandsOver, Callback,
                Loop, HearsReady, KeyReleased, Cancelled
  <2> QED BY <2>2 DEF Next, Worker, Awaits, Receives, GraceElapses, Transcribes, WhisperFails
<1>2. PICK S : taken \in Seq(S)
  <2>1. taken = OnePass(heard) /\ heard \in Seq(Levels)
    BY DEF Recording, Gating, TypeOK
  <2> QED BY <2>1, RecordingIsSequence
<1>3. /\ speech' \in Validated(taken)
      /\ phase' = IF speech' = <<>> THEN "ended" ELSE "hearing"
  BY <1>1 DEF Validates, Failed
<1>4. PICK r : r = speech'
  OBVIOUS
<1>5. CASE r = Finish(TrimSilence(taken))
  <2>1. CASE r = <<>>
    BY <1>2, <1>3, <1>4, <1>5, <2>1, EnergyGate DEF PassesSpeech
  <2>2. CASE r # <<>>
    BY <1>2, <1>3, <1>4, <1>5, <2>2, EnergyGate DEF PassesSpeech
  <2> QED BY <2>1, <2>2
<1>6. CASE r # Finish(TrimSilence(taken))
  <2>1. gate = "silero" /\ \E segments \in Segments(taken) : r = Finish(SpeechSpan(taken, segments))
    BY <1>3, <1>4, <1>6 DEF Validated
  <2>2. CASE r = <<>>
    BY <1>3, <1>4, <2>1, <2>2 DEF PassesSpeech
  <2>3. CASE r # <<>>
    <3>1. Admitted(r) /\ Pieces(taken, r) # {}
      BY <1>2, <2>1, <2>3, SileroGate
    <3> QED BY <1>3, <1>4, <2>1, <2>3, <3>1 DEF PassesSpeech
  <2> QED BY <2>2, <2>3
<1> QED BY <1>5, <1>6

\* audio.rs, vad.rs: however the callbacks cut the stream, the recording is what one
\* pass over it gives, and what the gate lets through is one piece of it, of an
\* admitted length, with every loud frame that the cap does not cut; for every ratio
\* of rates, every capacity, every gate and every length of the stream.
THEOREM SpeechWhole == Spec => SpeechArrivesWhole
<1> DEFINE Kind == TypeOK /\ Consumed /\ Recording /\ Gating
<1>1. Init => Kind
  BY InitTyped, InitRecords DEF Init, Gating
<1>2. Kind /\ [Next]_vars => Kind'
  BY NextTyped, NextRecords, NextGates
<1>3. Kind => ChunksDoNotShow
  BY ChunksHold
<1>4. Kind /\ [Next]_vars => [PassesSpeech]_vars
  BY GateStep
<1> HIDE DEF Kind
<1>5. Spec => []ChunksDoNotShow
  BY <1>1, <1>2, <1>3, PTL DEF Spec
<1>6. Spec => GateKeepsSpeech
  BY <1>1, <1>2, <1>4, PTL DEF Spec, GateKeepsSpeech
<1> QED BY <1>5, <1>6, PTL DEF SpeechArrivesWhole
=============================================================================
