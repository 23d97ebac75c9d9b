------------------------ MODULE ProgramParts_proofs ------------------------
(***************************************************************************)
(* The example programs that stream by DMA (DmaStream), those that wait    *)
(* for interrupts (InterruptApp), the order of the calls of all of them    *)
(* (Programs), and MCPrograms, which runs one of these.  StreamInv is the  *)
(* inductive invariant of the first: where the chunks are that the buffers *)
(* hold and await.  CountInv is that of the second, CallsInv of the third. *)
(***************************************************************************)
EXTENDS MCPrograms, SequenceTheorems, TLAPS

----------------------------------------------------------------------------
\* Which buffer a chunk is in

\* The quotient and the remainder of a number of chunks by the number of buffers.
LEMMA Quotients ==
  ASSUME NEW k \in Nat
  PROVE  /\ k \div NumBuffers \in Nat /\ k % NumBuffers \in Nat /\ k % NumBuffers < NumBuffers
         /\ k = (k \div NumBuffers) * NumBuffers + (k % NumBuffers)
BY NumBuffersAssumption

\* What makes the quotient and the remainder.
LEMMA RemainderIs ==
  ASSUME NEW q \in Nat, NEW r \in Nat, r < NumBuffers
  PROVE  (q * NumBuffers + r) % NumBuffers = r
<1> DEFINE k == q * NumBuffers + r
<1>1. k \in Nat /\ q * NumBuffers \in Nat
  BY NumBuffersAssumption
<1>2. PICK p \in Nat, m \in Nat : p = k \div NumBuffers /\ m = k % NumBuffers /\ m < NumBuffers
                                 /\ k = p * NumBuffers + m
  BY <1>1, Quotients
<1>3. p = q
  <2>1. ASSUME p < q PROVE FALSE
    <3>1. q * NumBuffers >= (p + 1) * NumBuffers
      BY <1>2, <2>1, NumBuffersAssumption
    <3>2. (p + 1) * NumBuffers = p * NumBuffers + NumBuffers /\ p * NumBuffers \in Nat
      BY <1>2, NumBuffersAssumption
    <3> QED BY <1>1, <1>2, <3>1, <3>2, NumBuffersAssumption
  <2>2. ASSUME p > q PROVE FALSE
    <3>1. p * NumBuffers >= (q + 1) * NumBuffers
      BY <1>2, <2>2, NumBuffersAssumption
    <3>2. (q + 1) * NumBuffers = q * NumBuffers + NumBuffers
      BY NumBuffersAssumption
    <3> QED BY <1>1, <1>2, <3>1, <3>2, NumBuffersAssumption
  <2> QED BY <2>1, <2>2
<1> QED BY <1>1, <1>2, <1>3

\* The buffers of the same chunk, of the one a round later, and of the next.
LEMMA BufferOf ==
  ASSUME NEW k \in Nat
  PROVE  /\ k % NumBuffers \in Buffers
         /\ (k + NumBuffers) % NumBuffers = k % NumBuffers
         /\ (k + 1) % NumBuffers = ((k % NumBuffers) + 1) % NumBuffers
<1>1. PICK q \in Nat, r \in Nat : r = k % NumBuffers /\ r < NumBuffers /\ k = q * NumBuffers + r
  BY Quotients
<1>2. k % NumBuffers \in Buffers
  BY <1>1, NumBuffersAssumption DEF Buffers
<1>3. (k + NumBuffers) % NumBuffers = k % NumBuffers
  <2>1. k + NumBuffers = (q + 1) * NumBuffers + r
    BY <1>1, NumBuffersAssumption
  <2>2. ((q + 1) * NumBuffers + r) % NumBuffers = r
    BY <1>1, RemainderIs
  <2> QED BY <1>1, <2>1, <2>2
<1>4. (k + 1) % NumBuffers = (r + 1) % NumBuffers
  <2>1. CASE r + 1 < NumBuffers
    <3>1. k + 1 = q * NumBuffers + (r + 1)
      BY <1>1, NumBuffersAssumption
    <3>2. (q * NumBuffers + (r + 1)) % NumBuffers = r + 1
      BY <1>1, <2>1, RemainderIs
    <3>3. r + 1 = 0 * NumBuffers + (r + 1)
      BY NumBuffersAssumption
    <3>4. (0 * NumBuffers + (r + 1)) % NumBuffers = r + 1
      BY <2>1, RemainderIs
    <3> QED BY <3>1, <3>2, <3>3, <3>4
  <2>2. CASE r + 1 = NumBuffers
    <3>1. k + 1 = (q + 1) * NumBuffers + 0 /\ r + 1 = 1 * NumBuffers + 0
      BY <1>1, <2>2, NumBuffersAssumption
    <3>2. ((q + 1) * NumBuffers + 0) % NumBuffers = 0 /\ (1 * NumBuffers + 0) % NumBuffers = 0
      BY RemainderIs, NumBuffersAssumption
    <3> QED BY <3>1, <3>2
  <2> QED BY <1>1, <2>1, <2>2, NumBuffersAssumption
<1> QED BY <1>1, <1>2, <1>3, <1>4

\* Chunks less than a round apart are in different buffers.
LEMMA OtherBuffer ==
  ASSUME NEW j \in Nat, NEW k \in Nat, j < k, k < j + NumBuffers
  PROVE  j % NumBuffers # k % NumBuffers
<1> SUFFICES ASSUME j % NumBuffers = k % NumBuffers PROVE FALSE
  OBVIOUS
<1>1. PICK p \in Nat, r \in Nat : r = j % NumBuffers /\ r < NumBuffers /\ j = p * NumBuffers + r
  BY Quotients
<1>2. PICK q \in Nat, m \in Nat : m = k % NumBuffers /\ k = q * NumBuffers + m
  BY Quotients
<1>3. q * NumBuffers > p * NumBuffers /\ q * NumBuffers < p * NumBuffers + NumBuffers
  BY <1>1, <1>2, NumBuffersAssumption
<1>4. CASE q <= p
  <2>1. q * NumBuffers <= p * NumBuffers
    BY <1>1, <1>2, <1>4, NumBuffersAssumption
  <2> QED BY <1>3, <2>1, NumBuffersAssumption
<1>5. CASE q >= p + 1
  <2>1. q * NumBuffers >= (p + 1) * NumBuffers
    BY <1>1, <1>2, <1>5, NumBuffersAssumption
  <2>2. (p + 1) * NumBuffers = p * NumBuffers + NumBuffers
    BY <1>1, NumBuffersAssumption
  <2> QED BY <1>3, <2>1, <2>2, NumBuffersAssumption
<1> QED BY <1>1, <1>2, <1>4, <1>5

----------------------------------------------------------------------------
\* The programs that stream by DMA

\* Where chunk k is written to, and where a stream's requests write.
Place(k) == IF Direct THEN k ELSE k % NumBuffers
Asked    == IF Direct THEN 0 .. Amount[app] - 1 ELSE Buffers

\* Before the end of the program, and its Cleanup.
Looping == pc \in {"loop", "enter", "drain", "leave", "late", "clear", "stop"}

ThreadStates == {"idle", "in", "stuck", "gone"}

StreamTypes ==
  /\ app \in Apps
  /\ chunk \in [Streams -> 0 .. MaxChunks[app]]
  /\ requests \in [Streams -> [Buffers -> SUBSET Asked]]
  /\ memory \in [Streams -> [Destinations -> 0 .. MaxChunks[app]]]
  /\ answered \in [Streams -> [Buffers -> Nat]]
  /\ thread \in [Streams -> [Buffers -> ThreadStates]]
  /\ section \in {Free, MainThread} \cup (Streams \X Buffers)
  /\ filled \in [Streams -> [Buffers -> BOOLEAN]]
  /\ ints \in [Streams -> Nat]
  /\ current = [s \in Streams |-> ints[s] % NumBuffers]
  /\ offset = [s \in Streams |-> NumBuffers + ints[s]]
  /\ DOMAIN output = Streams
  /\ at \in Streams

\* A buffer is with the driver, or the callback is due, or it is filled.
OneOf(s, b) ==
  /\ \A d, e \in requests[s][b] : d = e
  /\ requests[s][b] # {} => answered[s][b] = 0 /\ ~filled[s][b]
  /\ answered[s][b] \in {0, 1}
  /\ filled[s][b] => answered[s][b] = 0

\* Of the chunks that the buffers are for, those that were sampled are in their
\* place, with no request that could overwrite them, and the others are awaited.
BufferHolds(s, k) ==
  LET b == k % NumBuffers
  IN  IF k < chunk[s]
        THEN requests[s][b] = {} /\ memory[s][Place(k)] = k + 1
        ELSE requests[s][b] \subseteq {Place(k)} /\ answered[s][b] = 0 /\ ~filled[s][b]

InOrder(s) ==
  /\ ints[s] <= chunk[s] /\ chunk[s] <= ints[s] + NumBuffers
  /\ \A k \in ints[s] .. ints[s] + NumBuffers - 1 : BufferHolds(s, k)
  /\ output[s] \in Seq(Nat) /\ \A i \in 1 .. Len(output[s]) : output[s][i] = i
  /\ Looping => Len(output[s]) = ints[s]

Apart == failed = {} => \A s \in Active, b \in Buffers : OneOf(s, b)
Sorted == failed = {} => \A s \in Active \ lost : InOrder(s)

StreamInv == StreamTypes /\ Apart /\ Sorted

\* Each buffer of a stream awaits the chunk of its number.
LEMMA StreamInvInit == Init => StreamInv
<1> SUFFICES ASSUME Init PROVE StreamInv
  OBVIOUS
<1>1. app \in Apps /\ MaxChunks[app] \in Nat /\ Amount[app] \in Nat
  BY MaxChunksAssumption, AmountAssumption DEF Init
<1>2. Direct => NumBuffers <= Amount[app]
  BY <1>1, AmountAssumption, NumBuffersAssumption DEF Direct
<1>3. Buffers \subseteq Asked
  BY <1>1, <1>2, NumBuffersAssumption DEF Asked, Buffers
<1>4. 0 % NumBuffers = 0 /\ NumBuffers + 0 = NumBuffers
  BY NumBuffersAssumption
<1>5. \A s \in Streams : /\ chunk[s] = 0 /\ ints[s] = 0 /\ output[s] = <<>>
                         /\ \A b \in Buffers : /\ requests[s][b] = IF s \in Active THEN {b} ELSE {}
                                               /\ answered[s][b] = 0 /\ ~filled[s][b]
  BY DEF Init
<1>6. StreamTypes
  <2>1. requests \in [Streams -> [Buffers -> SUBSET Asked]]
    BY <1>3 DEF Init
  <2>2. memory \in [Streams -> [Destinations -> 0 .. MaxChunks[app]]]
    BY <1>1 DEF Init
  <2>3. thread \in [Streams -> [Buffers -> ThreadStates]]
    BY DEF Init, ThreadStates
  <2>4. current = [s \in Streams |-> ints[s] % NumBuffers]
        /\ offset = [s \in Streams |-> NumBuffers + ints[s]]
    BY <1>4, <1>5 DEF Init
  <2>5. "adc" \in Streams
    BY DEF Streams
  <2> QED BY <1>1, <2>1, <2>2, <2>3, <2>4, <2>5 DEF Init, StreamTypes
<1>7. Active \subseteq Streams
  BY DEF Active, Streams
<1>8. Apart
  <2> SUFFICES ASSUME NEW s \in Active, NEW b \in Buffers PROVE OneOf(s, b)
    BY DEF Apart
  <2>1. requests[s][b] = {b} /\ answered[s][b] = 0 /\ ~filled[s][b]
    BY <1>5, <1>7
  <2> QED BY <2>1 DEF OneOf
<1>9. Sorted
  <2> SUFFICES ASSUME NEW s \in Active PROVE InOrder(s)
    BY DEF Sorted
  <2>1. chunk[s] = 0 /\ ints[s] = 0 /\ output[s] = <<>>
    BY <1>5, <1>7
  <2>2. ASSUME NEW k \in 0 .. 0 + NumBuffers - 1 PROVE BufferHolds(s, k)
    <3>1. k \in Nat /\ k < NumBuffers /\ k \in Buffers /\ k = 0 * NumBuffers + k
      BY <2>2, NumBuffersAssumption DEF Buffers
    <3>2. k % NumBuffers = k
      BY <3>1, RemainderIs
    <3>3. requests[s][k] = {k} /\ answered[s][k] = 0 /\ ~filled[s][k]
      BY <1>5, <1>7, <3>1
    <3> QED BY <2>1, <3>1, <3>2, <3>3 DEF BufferHolds, Place
  <2>3. ints[s] .. ints[s] + NumBuffers - 1 = 0 .. 0 + NumBuffers - 1
    BY <2>1
  <2>4. 0 <= NumBuffers + 0 /\ Len(<<>>) = 0 /\ <<>> \in Seq(Nat)
    BY NumBuffersAssumption
  <2> QED BY <2>1, <2>2, <2>3, <2>4, NumBuffersAssumption DEF InOrder
<1> QED BY <1>6, <1>8, <1>9 DEF StreamInv

\* A function of streams and buffers with one value replaced.
LEMMA OneReplaced ==
  ASSUME NEW T, NEW f \in [Streams -> [Buffers -> T]], NEW s \in Streams, NEW b \in Buffers,
         NEW v \in T, NEW g, g = [f EXCEPT ![s][b] = v]
  PROVE  /\ g \in [Streams -> [Buffers -> T]] /\ g[s][b] = v
         /\ \A r \in Streams : r # s => g[r] = f[r]
         /\ \A c \in Buffers : c # b => g[s][c] = f[s][c]
OBVIOUS

\* What only reads the data, and does not come back into the loop.
StreamData ==
  <<app, chunk, requests, memory, answered, filled, ints, current, offset, output, lost, failed>>

\* A step that leaves the data alone keeps the invariant.
LEMMA QuietKeeps ==
  ASSUME StreamInv, UNCHANGED StreamData, Looping' => Looping,
         thread' \in [Streams -> [Buffers -> ThreadStates]],
         section' \in {Free, MainThread} \cup (Streams \X Buffers), at' \in Streams
  PROVE  StreamInv'
<1> USE DEF StreamData
<1>1. StreamTypes'
  BY DEF StreamInv, StreamTypes, Asked, Direct, Destinations
<1>2. Apart'
  BY DEF StreamInv, Apart, OneOf, Active
<1>3. Sorted'
  <2> SUFFICES ASSUME failed = {}, NEW s \in Active \ lost PROVE InOrder(s)'
    BY DEF Sorted, Active
  <2>1. InOrder(s)
    BY DEF StreamInv, Sorted
  <2>2. \A k : BufferHolds(s, k)' <=> BufferHolds(s, k)
    BY DEF BufferHolds, Place, Direct
  <2> QED BY <2>1, <2>2 DEF InOrder
<1> QED BY <1>1, <1>2, <1>3 DEF StreamInv

\* A stream that a step does not touch.
LEMMA OtherStream ==
  ASSUME NEW r, InOrder(r), app' = app, chunk'[r] = chunk[r], requests'[r] = requests[r],
         memory'[r] = memory[r], answered'[r] = answered[r], filled'[r] = filled[r],
         ints'[r] = ints[r], output'[r] = output[r], Looping' => Looping
  PROVE  InOrder(r)'
<1>1. \A k : BufferHolds(r, k)' <=> BufferHolds(r, k)
  BY DEF BufferHolds, Place, Direct
<1> QED BY <1>1 DEF InOrder

\* A chunk goes to the request that waits for it.
LEMMA SampleKeeps ==
  ASSUME StreamInv, NEW s \in Streams, Sample(s)
  PROVE  StreamInv'
<1> DEFINE b == chunk[s] % NumBuffers
<1>1. chunk[s] \in Nat /\ b \in Buffers /\ s \in Active /\ chunk[s] < MaxChunks[app]
      /\ MaxChunks[app] \in Nat /\ app \in Apps /\ Amount[app] \in Nat
  BY BufferOf, MaxChunksAssumption, AmountAssumption DEF Sample, StreamInv, StreamTypes
<1>2. PICK d \in requests[s][b] :
        /\ requests' = [requests EXCEPT ![s][b] = requests[s][b] \ {d}]
        /\ memory' = [memory EXCEPT ![s][d] = chunk[s] + 1]
  BY DEF Sample
<1>3. /\ chunk' = [chunk EXCEPT ![s] = chunk[s] + 1]
      /\ answered' = [answered EXCEPT ![s][b] = answered[s][b] + 1]
      /\ UNCHANGED <<app, thread, section, filled, current, offset, ints, output, at, failed, lost, pc>>
  BY DEF Sample, flags, progress, control
<1> HIDE DEF b
<1>4. requests \in [Streams -> [Buffers -> SUBSET Asked]] /\ answered \in [Streams -> [Buffers -> Nat]]
      /\ memory \in [Streams -> [Destinations -> 0 .. MaxChunks[app]]]
      /\ chunk \in [Streams -> 0 .. MaxChunks[app]]
  BY DEF StreamInv, StreamTypes
<1>5. d \in Asked /\ d \in Destinations
  <2>1. d \in Asked
    BY <1>1, <1>2, <1>4
  <2>2. Direct => d \in 0 .. Amount[app] - 1 /\ Amount[app] <= NumBuffers + MaxChunks[app]
    BY <1>1, <2>1, AmountAssumption, NumBuffersAssumption DEF Asked, Direct
  <2>3. ~Direct => d \in 0 .. NumBuffers - 1
    BY <2>1 DEF Asked, Buffers
  <2> QED BY <1>1, <2>1, <2>2, <2>3, NumBuffersAssumption DEF Destinations
<1>6. /\ requests' \in [Streams -> [Buffers -> SUBSET Asked]]
      /\ requests'[s][b] = requests[s][b] \ {d}
      /\ \A r \in Streams : r # s => requests'[r] = requests[r]
      /\ \A c \in Buffers : c # b => requests'[s][c] = requests[s][c]
  <2>1. requests[s][b] \ {d} \in SUBSET Asked
    BY <1>1, <1>4
  <2> QED BY <1>1, <1>2, <1>4, <2>1, OneReplaced
<1>7. /\ answered' \in [Streams -> [Buffers -> Nat]] /\ answered'[s][b] = answered[s][b] + 1
      /\ \A r \in Streams : r # s => answered'[r] = answered[r]
      /\ \A c \in Buffers : c # b => answered'[s][c] = answered[s][c]
  <2>1. answered[s][b] + 1 \in Nat
    BY <1>1, <1>4
  <2> QED BY <1>1, <1>3, <1>4, <2>1, OneReplaced
<1>8. /\ memory' \in [Streams -> [Destinations -> 0 .. MaxChunks[app]]] /\ memory'[s][d] = chunk[s] + 1
      /\ \A r \in Streams : r # s => memory'[r] = memory[r]
      /\ \A e \in Destinations : e # d => memory'[s][e] = memory[s][e]
  <2>1. chunk[s] + 1 \in 0 .. MaxChunks[app]
    BY <1>1
  <2> QED BY <1>1, <1>2, <1>4, <1>5, <2>1
<1>9. /\ chunk' \in [Streams -> 0 .. MaxChunks[app]] /\ chunk'[s] = chunk[s] + 1
      /\ \A r \in Streams : r # s => chunk'[r] = chunk[r]
  <2>1. chunk[s] + 1 \in 0 .. MaxChunks[app]
    BY <1>1
  <2> QED BY <1>3, <1>4, <2>1
<1>10. StreamTypes'
  BY <1>3, <1>6, <1>7, <1>8, <1>9 DEF StreamInv, StreamTypes, Asked, Direct, Destinations
<1>11. Apart'
  <2> SUFFICES ASSUME failed = {}, NEW r \in Active, NEW c \in Buffers PROVE OneOf(r, c)'
    BY <1>3 DEF Apart, Active
  <2>1. r \in Streams /\ OneOf(r, c)
    BY DEF StreamInv, Apart, Active, Streams
  <2>2. CASE r # s
    BY <1>3, <1>6, <1>7, <2>1, <2>2 DEF OneOf
  <2>3. CASE r = s /\ c # b
    BY <1>3, <1>6, <1>7, <2>1, <2>3 DEF OneOf
  <2>4. CASE r = s /\ c = b
    <3>1. requests[s][b] # {} /\ \A e, f \in requests[s][b] : e = f
      BY <1>2, <2>1, <2>4 DEF OneOf
    <3>2. answered[s][b] = 0 /\ ~filled[s][b]
      BY <2>1, <2>4, <3>1 DEF OneOf
    <3>3. requests'[s][b] = {} /\ answered'[s][b] = 1 /\ ~filled'[s][b]
      BY <1>2, <1>3, <1>6, <1>7, <3>1, <3>2
    <3> QED BY <2>4, <3>3 DEF OneOf
  <2> QED BY <2>2, <2>3, <2>4
<1>12. Sorted'
  <2> SUFFICES ASSUME failed = {}, NEW r \in Active \ lost PROVE InOrder(r)'
    BY <1>3 DEF Sorted, Active
  <2>1. r \in Streams /\ InOrder(r)
    BY DEF StreamInv, Sorted, Active, Streams
  <2>2. CASE r # s
    BY <1>3, <1>6, <1>7, <1>8, <1>9, <2>1, <2>2, OtherStream DEF Looping
  <2>3. CASE r = s
    <3>1. PICK n \in Nat, m \in Nat : n = ints[s] /\ m = chunk[s]
      BY <1>1 DEF StreamInv, StreamTypes
    <3>2. /\ n <= m /\ m <= n + NumBuffers
          /\ \A k \in n .. n + NumBuffers - 1 : BufferHolds(s, k)
      BY <2>1, <2>3, <3>1 DEF InOrder
    <3>3. m # n + NumBuffers
      <4> SUFFICES ASSUME m = n + NumBuffers PROVE FALSE
        OBVIOUS
      <4>1. n % NumBuffers = b
        BY <3>1, BufferOf DEF b
      <4>2. n < m /\ n \in n .. n + NumBuffers - 1
        BY NumBuffersAssumption
      <4>3. requests[s][b] = {}
        BY <3>1, <3>2, <4>1, <4>2 DEF BufferHolds
      <4> QED BY <1>2, <4>3
    <3>4. m \in n .. n + NumBuffers - 1
      BY <3>2, <3>3, NumBuffersAssumption
    <3>5. requests[s][b] \subseteq {Place(m)}
      BY <3>1, <3>2, <3>4 DEF BufferHolds, b
    <3>6. d = Place(m) /\ requests'[s][b] = {}
      BY <1>2, <1>6, <3>5
    <3>7. ASSUME NEW k \in n .. n + NumBuffers - 1 PROVE BufferHolds(s, k)'
      <4>1. k \in Nat /\ k % NumBuffers \in Buffers /\ BufferHolds(s, k) /\ Place(k)' = Place(k)
        BY <1>3, <3>2, <3>7, BufferOf, NumBuffersAssumption DEF Place, Direct
      <4>2. CASE k = m
        BY <1>8, <1>9, <3>1, <3>6, <4>1, <4>2 DEF BufferHolds, b
      <4>3. CASE k < m
        <5>1. k % NumBuffers # m % NumBuffers
          BY <3>2, <3>4, <3>7, <4>1, <4>3, OtherBuffer, NumBuffersAssumption
        <5>2. k % NumBuffers # b /\ Place(k) # d
          BY <3>1, <3>6, <4>3, <5>1 DEF b, Place
        <5>3. requests[s][k % NumBuffers] = {} /\ memory[s][Place(k)] = k + 1
          BY <3>1, <4>1, <4>3 DEF BufferHolds
        <5>4. requests'[s][k % NumBuffers] = {}
          BY <1>6, <4>1, <5>2, <5>3
        <5>5. memory'[s][Place(k)] = k + 1
          BY <1>2, <1>4, <5>2, <5>3
        <5>6. k < chunk'[s]
          BY <1>9, <3>1, <4>3
        <5> QED BY <4>1, <5>4, <5>5, <5>6 DEF BufferHolds
      <4>4. CASE k > m
        <5>1. m < k /\ k < m + NumBuffers
          BY <3>1, <3>2, <3>4, <3>7, <4>1, <4>4, NumBuffersAssumption
        <5>2. k % NumBuffers # m % NumBuffers
          BY <4>1, <5>1, OtherBuffer
        <5>3. k % NumBuffers # b /\ ~(k < chunk[s]) /\ ~(k < chunk'[s])
          BY <1>9, <3>1, <4>4, <5>2 DEF b
        <5>4. /\ requests[s][k % NumBuffers] \subseteq {Place(k)}
              /\ answered[s][k % NumBuffers] = 0 /\ ~filled[s][k % NumBuffers]
          BY <4>1, <5>3 DEF BufferHolds
        <5> QED BY <1>3, <1>6, <1>7, <4>1, <5>3, <5>4 DEF BufferHolds
      <4> QED BY <4>1, <4>2, <4>3, <4>4
    <3>8. n <= m + 1 /\ m + 1 <= n + NumBuffers
      BY <3>1, <3>2, <3>4, NumBuffersAssumption
    <3>9. ints'[s] = n /\ chunk'[s] = m + 1 /\ output'[s] = output[s] /\ (Looping' <=> Looping)
      BY <1>3, <1>9, <3>1 DEF Looping
    <3> QED BY <2>1, <2>3, <3>1, <3>7, <3>8, <3>9 DEF InOrder
  <2> QED BY <2>2, <2>3
<1> QED BY <1>10, <1>11, <1>12 DEF StreamInv

\* A chunk for which no request waits: the order is not claimed of the stream any more.
LEMMA LoseKeeps ==
  ASSUME StreamInv, NEW s \in Streams, Lose(s)
  PROVE  StreamInv'
<1>1. /\ chunk' = [chunk EXCEPT ![s] = chunk[s] + 1] /\ lost' = lost \cup {s}
      /\ chunk[s] < MaxChunks[app] /\ MaxChunks[app] \in Nat
      /\ UNCHANGED <<app, requests, memory, answered, thread, section, filled, current, offset, ints,
                     output, at, failed, pc>>
  BY MaxChunksAssumption DEF Lose, flags, progress, control, StreamInv, StreamTypes
<1>2. chunk' \in [Streams -> 0 .. MaxChunks[app]] /\ \A r \in Streams : r # s => chunk'[r] = chunk[r]
  <2>1. chunk \in [Streams -> 0 .. MaxChunks[app]]
    BY DEF StreamInv, StreamTypes
  <2>2. chunk[s] + 1 \in 0 .. MaxChunks[app]
    BY <1>1, <2>1
  <2> QED BY <1>1, <2>1, <2>2
<1>3. StreamTypes'
  BY <1>1, <1>2 DEF StreamInv, StreamTypes, Asked, Direct, Destinations
<1>4. Apart'
  BY <1>1 DEF StreamInv, Apart, OneOf, Active
<1>5. Sorted'
  <2> SUFFICES ASSUME failed = {}, NEW r \in Active \ lost, r # s PROVE InOrder(r)'
    BY <1>1 DEF Sorted, Active
  <2>1. r \in Streams /\ InOrder(r)
    BY DEF StreamInv, Sorted, Active, Streams
  <2> QED BY <1>1, <1>2, <2>1, OtherStream DEF Looping
<1> QED BY <1>3, <1>4, <1>5 DEF StreamInv

\* A callback tells that its buffer is filled.
LEMMA CallbackKeeps ==
  ASSUME StreamInv, NEW s \in Streams, NEW b \in Buffers, CallbackEnters(s, b)
  PROVE  StreamInv'
<1>1. /\ section' = <<s, b>> /\ thread' = [thread EXCEPT ![s][b] = "in"]
      /\ answered' = [answered EXCEPT ![s][b] = answered[s][b] - 1] /\ answered[s][b] > 0
      /\ filled' = [filled EXCEPT ![s][b] = TRUE]
      /\ UNCHANGED <<app, chunk, requests, memory, current, offset, ints, output, at, failed, lost, pc>>
  BY DEF CallbackEnters, progress, control
<1>2. answered \in [Streams -> [Buffers -> Nat]] /\ filled \in [Streams -> [Buffers -> BOOLEAN]]
      /\ thread \in [Streams -> [Buffers -> ThreadStates]]
  BY DEF StreamInv, StreamTypes
<1>3. /\ answered' \in [Streams -> [Buffers -> Nat]] /\ answered'[s][b] = answered[s][b] - 1
      /\ \A r \in Streams : r # s => answered'[r] = answered[r]
      /\ \A c \in Buffers : c # b => answered'[s][c] = answered[s][c]
  <2>1. answered[s][b] - 1 \in Nat
    BY <1>1, <1>2
  <2> QED BY <1>1, <1>2, <2>1, OneReplaced
<1>4. /\ filled' \in [Streams -> [Buffers -> BOOLEAN]] /\ filled'[s][b]
      /\ \A r \in Streams : r # s => filled'[r] = filled[r]
      /\ \A c \in Buffers : c # b => filled'[s][c] = filled[s][c]
  BY <1>1, <1>2, OneReplaced
<1>5. thread' \in [Streams -> [Buffers -> ThreadStates]]
  <2>1. "in" \in ThreadStates
    BY DEF ThreadStates
  <2> QED BY <1>1, <1>2, <2>1, OneReplaced
<1>6. StreamTypes'
  BY <1>1, <1>3, <1>4, <1>5 DEF StreamInv, StreamTypes, Asked, Direct, Destinations
<1>7. failed = {} /\ s \in Active => requests[s][b] = {} /\ answered[s][b] = 1
  BY <1>1 DEF StreamInv, Apart, OneOf
<1>8. Apart'
  <2> SUFFICES ASSUME failed = {}, NEW r \in Active, NEW c \in Buffers PROVE OneOf(r, c)'
    BY <1>1 DEF Apart, Active
  <2>1. r \in Streams /\ OneOf(r, c)
    BY DEF StreamInv, Apart, Active, Streams
  <2>2. CASE r # s
    BY <1>1, <1>3, <1>4, <2>1, <2>2 DEF OneOf
  <2>3. CASE r = s /\ c # b
    BY <1>1, <1>3, <1>4, <2>1, <2>3 DEF OneOf
  <2>4. CASE r = s /\ c = b
    <3>1. requests'[s][b] = {} /\ answered'[s][b] = 0
      BY <1>1, <1>3, <1>7, <2>4
    <3> QED BY <2>4, <3>1 DEF OneOf
  <2> QED BY <2>2, <2>3, <2>4
<1>9. Sorted'
  <2> SUFFICES ASSUME failed = {}, NEW r \in Active \ lost PROVE InOrder(r)'
    BY <1>1 DEF Sorted, Active
  <2>1. r \in Streams /\ InOrder(r)
    BY DEF StreamInv, Sorted, Active, Streams
  <2>2. CASE r # s
    BY <1>1, <1>3, <1>4, <2>1, <2>2, OtherStream DEF Looping
  <2>3. CASE r = s
    <3>1. ASSUME NEW k \in ints[s] .. ints[s] + NumBuffers - 1 PROVE BufferHolds(s, k)'
      <4>1. BufferHolds(s, k) /\ k % NumBuffers \in Buffers /\ Place(k)' = Place(k)
        <5>1. k \in Nat
          BY <3>1, NumBuffersAssumption DEF StreamInv, StreamTypes
        <5> QED BY <1>1, <2>1, <2>3, <5>1, BufferOf DEF InOrder, Place, Direct
      <4>2. CASE k < chunk[s]
        BY <1>1, <4>1, <4>2 DEF BufferHolds
      <4>3. CASE ~(k < chunk[s])
        <5>1. k % NumBuffers # b
          BY <1>7, <2>3, <4>1, <4>3 DEF BufferHolds
        <5> QED BY <1>1, <1>3, <1>4, <4>1, <4>3, <5>1 DEF BufferHolds
      <4> QED BY <4>2, <4>3
    <3>2. UNCHANGED <<ints, chunk, output>> /\ (Looping' <=> Looping)
      BY <1>1 DEF Looping
    <3> QED BY <2>1, <2>3, <3>1, <3>2 DEF InOrder
  <2> QED BY <2>2, <2>3
<1> QED BY <1>6, <1>8, <1>9 DEF StreamInv

\* A callback that uses the deleted section; the answer it takes is lost.
LEMMA UsesDeletedKeeps ==
  ASSUME StreamInv, NEW s \in Streams, NEW b \in Buffers, UsesDeleted(s, b)
  PROVE  StreamInv'
<1>1. /\ UNCHANGED <<app, chunk, requests, memory, section, filled, current, offset, ints, output, at,
                     failed, lost>>
      /\ Looping' => Looping
  BY DEF UsesDeleted, flags, progress, control, Looping
<1>2. answered \in [Streams -> [Buffers -> Nat]] /\ thread \in [Streams -> [Buffers -> ThreadStates]]
  BY DEF StreamInv, StreamTypes
<1>3. thread' \in [Streams -> [Buffers -> ThreadStates]]
  <2>1. CASE UNCHANGED thread
    BY <1>2, <2>1
  <2>2. ASSUME NEW t \in {"idle", "stuck"}, thread' = [thread EXCEPT ![s][b] = t]
        PROVE  thread' \in [Streams -> [Buffers -> ThreadStates]]
    <3>1. t \in ThreadStates
      BY DEF ThreadStates
    <3> QED BY <1>2, <2>2, <3>1, OneReplaced
  <2> QED BY <2>1, <2>2 DEF UsesDeleted
<1>4. CASE UNCHANGED answered
  BY <1>1, <1>3, <1>4, QuietKeeps DEF StreamData, StreamInv, StreamTypes
<1>5. CASE answered' = [answered EXCEPT ![s][b] = answered[s][b] - 1] /\ answered[s][b] > 0
  <2>1. /\ answered' \in [Streams -> [Buffers -> Nat]] /\ answered'[s][b] = answered[s][b] - 1
        /\ \A r \in Streams : r # s => answered'[r] = answered[r]
        /\ \A c \in Buffers : c # b => answered'[s][c] = answered[s][c]
    <3>1. answered[s][b] - 1 \in Nat
      BY <1>2, <1>5
    <3> QED BY <1>2, <1>5, <3>1, OneReplaced
  <2>2. StreamTypes'
    BY <1>1, <1>3, <2>1 DEF StreamInv, StreamTypes, Asked, Direct, Destinations
  <2>3. Apart'
    <3> SUFFICES ASSUME failed = {}, NEW r \in Active, NEW c \in Buffers PROVE OneOf(r, c)'
      BY <1>1 DEF Apart, Active
    <3>1. r \in Streams /\ OneOf(r, c)
      BY DEF StreamInv, Apart, Active, Streams
    <3>2. CASE r # s \/ c # b
      BY <1>1, <2>1, <3>1, <3>2 DEF OneOf
    <3>3. CASE r = s /\ c = b
      <4>1. requests'[s][b] = {} /\ answered'[s][b] = 0
        BY <1>1, <1>5, <2>1, <3>1, <3>3 DEF OneOf
      <4> QED BY <3>3, <4>1 DEF OneOf
    <3> QED BY <3>2, <3>3
  <2>4. Sorted'
    <3> SUFFICES ASSUME failed = {}, NEW r \in Active \ lost PROVE InOrder(r)'
      BY <1>1 DEF Sorted, Active
    <3>1. r \in Streams /\ InOrder(r)
      BY DEF StreamInv, Sorted, Active, Streams
    <3>2. CASE r # s
      BY <1>1, <2>1, <3>1, <3>2, OtherStream
    <3>3. CASE r = s
      <4>1. ASSUME NEW k \in ints[s] .. ints[s] + NumBuffers - 1 PROVE BufferHolds(s, k)'
        <5>1. BufferHolds(s, k) /\ k % NumBuffers \in Buffers /\ Place(k)' = Place(k)
          <6>1. k \in Nat
            BY <4>1, NumBuffersAssumption DEF StreamInv, StreamTypes
          <6> QED BY <1>1, <3>1, <3>3, <6>1, BufferOf DEF InOrder, Place, Direct
        <5>2. CASE k < chunk[s]
          BY <1>1, <5>1, <5>2 DEF BufferHolds
        <5>3. CASE ~(k < chunk[s])
          <6>1. k % NumBuffers # b
            BY <1>5, <5>1, <5>3 DEF BufferHolds
          <6> QED BY <1>1, <2>1, <5>1, <5>3, <6>1 DEF BufferHolds
        <5> QED BY <5>2, <5>3
      <4> QED BY <1>1, <3>1, <3>3, <4>1 DEF InOrder
    <3> QED BY <3>2, <3>3
  <2> QED BY <2>2, <2>3, <2>4 DEF StreamInv
<1> QED BY <1>4, <1>5 DEF UsesDeleted

\* A callback thread that has failed: nothing is claimed of the data any more.
LEMMA ThreadFailureKeeps ==
  ASSUME StreamInv, NEW s \in Streams, NEW b \in Buffers, NEW other \in Buffers,
         ThreadFails(s, b, other)
  PROVE  StreamInv'
<1>1. /\ section' = <<s, b>> /\ thread' = [thread EXCEPT ![s][b] = "in"]
      /\ filled' = [filled EXCEPT ![s][other] = TRUE] /\ failed' # {}
      /\ UNCHANGED <<app, chunk, requests, memory, answered, current, offset, ints, output, at>>
  BY DEF ThreadFails, board, progress, control
<1>2. /\ thread' \in [Streams -> [Buffers -> ThreadStates]]
      /\ filled' \in [Streams -> [Buffers -> BOOLEAN]]
  <2>1. "in" \in ThreadStates /\ thread \in [Streams -> [Buffers -> ThreadStates]]
        /\ filled \in [Streams -> [Buffers -> BOOLEAN]]
    BY DEF ThreadStates, StreamInv, StreamTypes
  <2> QED BY <1>1, <2>1, OneReplaced
<1>3. StreamTypes'
  BY <1>1, <1>2 DEF StreamInv, StreamTypes, Asked, Direct, Destinations
<1> QED BY <1>1, <1>3 DEF StreamInv, Apart, Sorted

\* Main takes the next chunk and requests its buffer again, or a call of it fails.
LEMMA DrainKeeps ==
  ASSUME StreamInv, Drain
  PROVE  StreamInv'
<1>1. at \in Streams /\ ints[at] \in Nat /\ current[at] = ints[at] % NumBuffers
      /\ offset[at] = NumBuffers + ints[at]
      /\ app \in Apps /\ Amount[app] \in Nat /\ MaxChunks[app] \in Nat
  BY MaxChunksAssumption, AmountAssumption DEF StreamInv, StreamTypes
<1>2. PICK n \in Nat, b \in Nat : n = ints[at] /\ b = n % NumBuffers
  BY <1>1, Quotients
<1>3. /\ b \in Buffers /\ (n + 1) % NumBuffers = (b + 1) % NumBuffers
      /\ (NumBuffers + n) % NumBuffers = b /\ NumBuffers + n \in Nat
  <2>1. n + NumBuffers = NumBuffers + n /\ NumBuffers + n \in Nat
    BY <1>1, <1>2, NumBuffersAssumption
  <2>2. n % NumBuffers \in Buffers /\ (n + NumBuffers) % NumBuffers = n % NumBuffers
        /\ (n + 1) % NumBuffers = ((n % NumBuffers) + 1) % NumBuffers
    BY <1>1, <1>2, BufferOf
  <2> QED BY <1>1, <1>2, <2>1, <2>2
<1> DEFINE value == memory[at][IF Direct THEN n ELSE b]
<1>4. /\ filled[at][b] /\ filled' = [filled EXCEPT ![at][b] = FALSE]
      /\ output' = [output EXCEPT ![at] = Append(output[at], value)]
      /\ UNCHANGED <<app, chunk, memory, answered, thread, section, at, failed, lost>>
      /\ Looping
  BY <1>1, <1>2 DEF Drain, Unfilled, Looping
<1>5. \/ /\ requests' = [requests EXCEPT ![at][b] =
                           IF Asks THEN requests[at][b] \cup {Destination(at)} ELSE requests[at][b]]
         /\ ints' = [ints EXCEPT ![at] = ints[at] + 1]
         /\ current' = [current EXCEPT ![at] = (b + 1) % NumBuffers]
         /\ offset' = [offset EXCEPT ![at] = offset[at] + 1]
      \/ UNCHANGED <<requests, ints, current, offset>> /\ ~Looping'
  BY <1>1, <1>2 DEF Drain, NextBuffer, Fails, Looping
<1> HIDE DEF value
<1>6. /\ requests \in [Streams -> [Buffers -> SUBSET Asked]]
      /\ filled \in [Streams -> [Buffers -> BOOLEAN]]
      /\ ints \in [Streams -> Nat] /\ DOMAIN output = Streams
      /\ current = [s \in Streams |-> ints[s] % NumBuffers]
      /\ offset = [s \in Streams |-> NumBuffers + ints[s]]
  BY DEF StreamInv, StreamTypes
<1>7. /\ filled' \in [Streams -> [Buffers -> BOOLEAN]] /\ ~filled'[at][b]
      /\ \A r \in Streams : r # at => filled'[r] = filled[r]
      /\ \A c \in Buffers : c # b => filled'[at][c] = filled[at][c]
  BY <1>1, <1>2, <1>3, <1>4, <1>6, OneReplaced
<1>8. /\ DOMAIN output' = Streams /\ output'[at] = Append(output[at], value)
      /\ \A r \in Streams : r # at => output'[r] = output[r]
  BY <1>1, <1>2, <1>4, <1>6
<1>9. Destination(at) = Place(NumBuffers + n) /\ (Asks => Destination(at) \in Asked)
  BY <1>1, <1>2, <1>3, NumBuffersAssumption DEF Destination, Place, Asks, Asked
\* Which requests are left of the buffer, in either case.
<1>10. /\ requests' \in [Streams -> [Buffers -> SUBSET Asked]]
       /\ requests'[at][b] \subseteq requests[at][b] \cup {Place(NumBuffers + n)}
       /\ \A r \in Streams : r # at => requests'[r] = requests[r]
       /\ \A c \in Buffers : c # b => requests'[at][c] = requests[at][c]
  <2>1. CASE UNCHANGED requests
    BY <1>6, <2>1
  <2>2. ASSUME NEW new \in SUBSET Asked, new \subseteq requests[at][b] \cup {Place(NumBuffers + n)},
               requests' = [requests EXCEPT ![at][b] = new]
        PROVE  /\ requests' \in [Streams -> [Buffers -> SUBSET Asked]]
               /\ requests'[at][b] \subseteq requests[at][b] \cup {Place(NumBuffers + n)}
               /\ \A r \in Streams : r # at => requests'[r] = requests[r]
               /\ \A c \in Buffers : c # b => requests'[at][c] = requests[at][c]
    BY <1>1, <1>2, <1>3, <1>6, <2>2, OneReplaced
  <2>3. requests[at][b] \in SUBSET Asked
    BY <1>1, <1>2, <1>3, <1>6
  <2>4. CASE /\ Asks
             /\ requests' = [requests EXCEPT ![at][b] = requests[at][b] \cup {Destination(at)}]
    <3>1. requests[at][b] \cup {Destination(at)} \in SUBSET Asked
      BY <1>9, <2>3, <2>4
    <3> QED BY <1>9, <2>2, <2>4, <3>1
  <2>5. CASE requests' = [requests EXCEPT ![at][b] = requests[at][b]]
    BY <2>2, <2>3, <2>5
  <2> QED BY <1>5, <2>1, <2>4, <2>5
<1>11. /\ ints' \in [Streams -> Nat]
       /\ current' = [s \in Streams |-> ints'[s] % NumBuffers]
       /\ offset' = [s \in Streams |-> NumBuffers + ints'[s]]
       /\ \A r \in Streams : r # at => ints'[r] = ints[r]
       /\ (ints'[at] = n /\ ~Looping' /\ UNCHANGED requests) \/ ints'[at] = n + 1
  <2>1. CASE UNCHANGED <<requests, ints, current, offset>> /\ ~Looping'
    BY <1>1, <1>2, <1>6, <2>1
  <2>2. CASE /\ ints' = [ints EXCEPT ![at] = ints[at] + 1]
             /\ current' = [current EXCEPT ![at] = (b + 1) % NumBuffers]
             /\ offset' = [offset EXCEPT ![at] = offset[at] + 1]
    <3>1. /\ ints' \in [Streams -> Nat] /\ ints'[at] = n + 1
          /\ \A r \in Streams : r # at => ints'[r] = ints[r]
      BY <1>1, <1>2, <1>6, <2>2
    <3>2. NumBuffers + n + 1 = NumBuffers + (n + 1)
      BY <1>1, <1>2, NumBuffersAssumption
    <3>3. current' = [s \in Streams |-> ints'[s] % NumBuffers]
      BY <1>1, <1>2, <1>3, <1>6, <2>2, <3>1
    <3>4. offset' = [s \in Streams |-> NumBuffers + ints'[s]]
      BY <1>1, <1>2, <1>6, <2>2, <3>1, <3>2
    <3> QED BY <3>1, <3>3, <3>4
  <2> QED BY <1>1, <1>2, <1>5, <2>1, <2>2
<1>12. StreamTypes'
  BY <1>4, <1>7, <1>8, <1>10, <1>11 DEF StreamInv, StreamTypes, Asked, Direct, Destinations
<1>13. Apart'
  <2> SUFFICES ASSUME failed = {}, NEW r \in Active, NEW c \in Buffers PROVE OneOf(r, c)'
    BY <1>4 DEF Apart, Active
  <2>1. r \in Streams /\ OneOf(r, c)
    BY DEF StreamInv, Apart, Active, Streams
  <2>2. CASE r # at \/ c # b
    <3>1. /\ requests'[r][c] = requests[r][c] /\ filled'[r][c] = filled[r][c]
          /\ answered'[r][c] = answered[r][c]
      BY <1>4, <1>7, <1>10, <2>1, <2>2
    <3> QED BY <2>1, <3>1 DEF OneOf
  <2>3. CASE r = at /\ c = b
    <3>1. requests[at][b] = {} /\ answered[at][b] = 0
      BY <1>4, <2>1, <2>3 DEF OneOf
    <3>2. \A d, e \in requests'[at][b] : d = e
      BY <1>10, <3>1
    <3> QED BY <1>4, <1>7, <2>3, <3>1, <3>2 DEF OneOf
  <2> QED BY <2>2, <2>3
<1>14. Sorted'
  <2> SUFFICES ASSUME failed = {}, NEW r \in Active \ lost PROVE InOrder(r)'
    BY <1>4 DEF Sorted, Active
  <2>1. r \in Streams /\ InOrder(r)
    BY DEF StreamInv, Sorted, Active, Streams
  <2>2. CASE r # at
    BY <1>4, <1>7, <1>8, <1>10, <1>11, <2>1, <2>2, OtherStream
  <2>3. CASE r = at
    <3>1. PICK m \in Nat : m = chunk[at]
      BY <1>1, <1>2 DEF StreamInv, StreamTypes
    <3>2. /\ n <= m /\ m <= n + NumBuffers /\ Len(output[at]) = n
          /\ \A k \in n .. n + NumBuffers - 1 : BufferHolds(at, k)
          /\ output[at] \in Seq(Nat) /\ \A i \in 1 .. n : output[at][i] = i
      BY <1>1, <1>2, <1>4, <2>1, <2>3, <3>1 DEF InOrder
    <3>3. n < m /\ requests[at][b] = {} /\ value = n + 1 /\ answered[at][b] = 0
      <4>1. n \in n .. n + NumBuffers - 1
        BY <1>1, <1>2, NumBuffersAssumption
      <4>2. BufferHolds(at, n)
        BY <3>2, <4>1
      <4>3. n < m
        BY <1>1, <1>2, <1>4, <3>1, <4>2 DEF BufferHolds
      <4>4. requests[at][b] = {} /\ memory[at][Place(n)] = n + 1
        BY <1>1, <1>2, <3>1, <4>2, <4>3 DEF BufferHolds
      <4>5. OneOf(at, b)
        BY <1>3, <2>3 DEF StreamInv, Apart
      <4> QED BY <1>1, <1>2, <1>4, <4>3, <4>4, <4>5 DEF OneOf, value, Place
    <3>4. /\ output'[at] \in Seq(Nat) /\ Len(output'[at]) = n + 1
          /\ \A i \in 1 .. n + 1 : output'[at][i] = i
      BY <1>1, <1>2, <1>8, <3>2, <3>3
    <3>5. ASSUME NEW k \in n + 1 .. n + NumBuffers - 1 PROVE BufferHolds(at, k)'
      <4>1. k \in Nat /\ k \in n .. n + NumBuffers - 1 /\ n < k /\ k < n + NumBuffers
        BY <1>1, <1>2, <3>5, NumBuffersAssumption
      <4>2. k % NumBuffers # b /\ k % NumBuffers \in Buffers
        BY <1>1, <1>2, <4>1, OtherBuffer, BufferOf
      <4>3. BufferHolds(at, k) /\ Place(k)' = Place(k)
        BY <1>4, <3>2, <4>1 DEF Place, Direct
      <4>4. /\ requests'[at][k % NumBuffers] = requests[at][k % NumBuffers]
            /\ filled'[at][k % NumBuffers] = filled[at][k % NumBuffers]
        BY <1>7, <1>10, <4>2
      <4> QED BY <1>4, <4>3, <4>4 DEF BufferHolds
    <3>6. CASE ints'[at] = n /\ ~Looping' /\ UNCHANGED requests
      <4>1. BufferHolds(at, n)'
        <5>1. n \in n .. n + NumBuffers - 1
          BY <1>1, <1>2, NumBuffersAssumption
        <5>2. BufferHolds(at, n) /\ Place(n)' = Place(n)
          BY <1>4, <3>2, <5>1 DEF Place, Direct
        <5> QED BY <1>4, <3>1, <3>3, <3>6, <5>2 DEF BufferHolds
      <4>2. \A k \in n .. n + NumBuffers - 1 : k = n \/ k \in n + 1 .. n + NumBuffers - 1
        BY <1>1, <1>2, NumBuffersAssumption
      <4>3. \A k \in n .. n + NumBuffers - 1 : BufferHolds(at, k)'
        BY <3>5, <4>1, <4>2
      <4> QED BY <1>4, <2>3, <3>1, <3>2, <3>4, <3>6, <4>3 DEF InOrder
    <3>7. CASE ints'[at] = n + 1
      <4>1. BufferHolds(at, NumBuffers + n)'
        <5>1. /\ requests'[at][b] \subseteq {Place(NumBuffers + n)}
              /\ Place(NumBuffers + n)' = Place(NumBuffers + n)
          BY <1>4, <1>10, <3>3 DEF Place, Direct
        <5>2. ~(NumBuffers + n < chunk'[at])
          BY <1>1, <1>2, <1>4, <3>1, <3>2, NumBuffersAssumption
        <5> QED BY <1>3, <1>4, <1>7, <3>3, <5>1, <5>2 DEF BufferHolds
      <4>2. \A k \in n + 1 .. n + 1 + NumBuffers - 1 :
              k = NumBuffers + n \/ k \in n + 1 .. n + NumBuffers - 1
        BY ONLY n \in Nat, NumBuffersAssumption
      <4>3. \A k \in n + 1 .. n + 1 + NumBuffers - 1 : BufferHolds(at, k)'
        BY <3>5, <4>1, <4>2
      <4>4. n + 1 <= m /\ m <= n + 1 + NumBuffers /\ chunk'[at] = m
        BY <1>1, <1>2, <1>4, <3>1, <3>2, <3>3, NumBuffersAssumption
      <4>5. ints'[at] + NumBuffers - 1 = n + 1 + NumBuffers - 1
            /\ Len(output'[at]) = ints'[at]
        BY <3>4, <3>7
      <4> QED BY <1>4, <2>3, <3>4, <3>7, <4>3, <4>4, <4>5 DEF InOrder
    <3> QED BY <1>1, <1>11, <3>6, <3>7
  <2> QED BY <2>2, <2>3
<1> QED BY <1>1, <1>12, <1>13, <1>14 DEF StreamInv

\* The steps of the threads, and main's, that only read the data.
QuietStep ==
  \/ HandleInterrupt \/ CtrlC \/ LoopEnds \/ Look \/ Enter \/ Leave \/ ClearFlags
  \/ ClearInterrupts \/ Stop \/ DeleteSection \/ StopDma \/ Close
  \/ \E s \in Streams, b \in Buffers :
       CallbackLeaves(s, b) \/ RemoveCallback(s, b) \/ RemoveFails(s, b)

\* They keep the invariant.
LEMMA QuietStepKeeps ==
  ASSUME StreamInv, QuietStep
  PROVE  StreamInv'
<1>1. /\ thread \in [Streams -> [Buffers -> ThreadStates]] /\ at \in Streams
      /\ section \in {Free, MainThread} \cup (Streams \X Buffers)
  BY DEF StreamInv, StreamTypes
<1> DEFINE Keeps == /\ UNCHANGED StreamData /\ (Looping' => Looping)
                    /\ thread' \in [Streams -> [Buffers -> ThreadStates]]
                    /\ section' \in {Free, MainThread} \cup (Streams \X Buffers) /\ at' \in Streams
<1> SUFFICES Keeps
  BY QuietKeeps
<1> USE DEF StreamData, Looping, board, flags, progress, control
<1>2. CASE HandleInterrupt
  BY <1>1, <1>2 DEF HandleInterrupt, Fails
<1>3. CASE CtrlC
  BY <1>1, <1>3 DEF CtrlC
<1>4. CASE LoopEnds
  BY <1>1, <1>4 DEF LoopEnds
<1>5. CASE Look
  BY <1>1, <1>5 DEF Look
<1>6. CASE Enter
  <2>1. at' \in Streams
    BY <1>6 DEF Enter, FirstOf, Streams
  <2>2. Looping' => Looping
    BY <1>6 DEF Enter
  <2>3. UNCHANGED StreamData /\ UNCHANGED thread /\ section' = MainThread
    BY <1>6 DEF Enter
  <2> QED BY <1>1, <2>1, <2>2, <2>3
<1>7. CASE Leave
  BY <1>1, <1>7 DEF Leave
<1>8. CASE ClearFlags
  BY <1>1, <1>8 DEF ClearFlags
<1>9. CASE ClearInterrupts
  BY <1>1, <1>9 DEF ClearInterrupts, Fails
<1>10. CASE Stop
  BY <1>1, <1>10 DEF Stop, Fails
<1>11. CASE DeleteSection
  BY <1>1, <1>11 DEF DeleteSection
<1>12. CASE StopDma
  BY <1>1, <1>12 DEF StopDma, Fails
<1>13. CASE Close
  BY <1>1, <1>13 DEF Close
<1>14. ASSUME NEW s \in Streams, NEW b \in Buffers, CallbackLeaves(s, b) PROVE Keeps
  <2>1. thread' \in [Streams -> [Buffers -> ThreadStates]]
    <3>1. PICK t \in {"gone", "idle"} : thread' = [thread EXCEPT ![s][b] = t]
      BY <1>14 DEF CallbackLeaves
    <3>2. t \in ThreadStates
      BY DEF ThreadStates
    <3> QED BY <1>1, <3>1, <3>2, OneReplaced
  <2> QED BY <1>1, <1>14, <2>1 DEF CallbackLeaves
<1>15. ASSUME NEW s \in Streams, NEW b \in Buffers, RemoveCallback(s, b) PROVE Keeps
  <2>1. thread' \in [Streams -> [Buffers -> ThreadStates]]
    <3>1. "gone" \in ThreadStates /\ thread' = [thread EXCEPT ![s][b] = "gone"]
      BY <1>15 DEF ThreadStates, RemoveCallback
    <3> QED BY <1>1, <3>1, OneReplaced
  <2> QED BY <1>1, <1>15, <2>1 DEF RemoveCallback
<1>16. ASSUME NEW s \in Streams, NEW b \in Buffers, RemoveFails(s, b) PROVE Keeps
  BY <1>1, <1>16 DEF RemoveFails
<1> QED
  BY <1>2, <1>3, <1>4, <1>5, <1>6, <1>7, <1>8, <1>9, <1>10, <1>11, <1>12, <1>13, <1>14, <1>15, <1>16
  DEF QuietStep

\* Every step keeps the invariant.
LEMMA StreamInvStep == StreamInv /\ [Next]_vars => StreamInv'
<1> SUFFICES ASSUME StreamInv, [Next]_vars PROVE StreamInv'
  OBVIOUS
<1>1. CASE UNCHANGED vars
  <2>1. UNCHANGED StreamData /\ UNCHANGED <<pc, thread, section, at>>
    BY <1>1 DEF vars, board, flags, progress, control, StreamData
  <2> QED BY <2>1, QuietKeeps DEF Looping, StreamInv, StreamTypes
<1>2. CASE QuietStep
  BY <1>2, QuietStepKeeps
<1>3. ASSUME NEW s \in Streams, Sample(s) \/ Lose(s) PROVE StreamInv'
  BY <1>3, SampleKeeps, LoseKeeps
<1>4. ASSUME NEW s \in Streams, NEW b \in Buffers, CallbackEnters(s, b) \/ UsesDeleted(s, b)
      PROVE  StreamInv'
  BY <1>4, CallbackKeeps, UsesDeletedKeeps
<1>5. ASSUME NEW s \in Streams, NEW b \in Buffers, NEW other \in Buffers, ThreadFails(s, b, other)
      PROVE  StreamInv'
  BY <1>5, ThreadFailureKeeps
<1>6. CASE Drain
  BY <1>6, DrainKeeps
<1>7. \/ QuietStep \/ Drain \/ UNCHANGED vars
      \/ \E s \in Streams : Sample(s) \/ Lose(s)
      \/ \E s \in Streams, b \in Buffers :
           \/ CallbackEnters(s, b) \/ UsesDeleted(s, b)
           \/ \E other \in Buffers : ThreadFails(s, b, other)
  BY Zenon DEF Next, Main, Callback, QuietStep
<1> QED BY ONLY <1>1, <1>2, <1>3, <1>4, <1>5, <1>6, <1>7

\* What the invariant is for.
LEMMA StreamInvImplies == StreamInv => TypeOK /\ DataIsSound
<1> SUFFICES ASSUME StreamInv PROVE TypeOK /\ DataIsSound
  OBVIOUS
<1>1. app \in Apps /\ Amount[app] \in Nat /\ MaxChunks[app] \in Nat
      /\ (Direct => Amount[app] <= NumBuffers + MaxChunks[app])
  BY MaxChunksAssumption, AmountAssumption DEF StreamInv, StreamTypes, Direct
<1>2. Asked \subseteq Destinations
  BY <1>1, NumBuffersAssumption DEF Asked, Destinations, Buffers
<1>3. TypeOK
  <2>1. current \in [Streams -> Buffers]
    <3>1. \A s \in Streams : ints[s] % NumBuffers \in Buffers
      BY BufferOf DEF StreamInv, StreamTypes
    <3> QED BY <3>1 DEF StreamInv, StreamTypes
  <2>2. \A s \in Streams, b \in Buffers : requests[s][b] \subseteq Destinations
    BY <1>2 DEF StreamInv, StreamTypes
  <2> QED BY <2>1, <2>2 DEF TypeOK, StreamInv, StreamTypes, ThreadStates
<1>4. FilledIsOurs
  BY DEF FilledIsOurs, StreamInv, Apart, OneOf
<1>5. DataFits
  <2> SUFFICES ASSUME Direct, NEW s \in Active, NEW b \in Buffers, NEW d \in requests[s][b]
               PROVE  d < Amount[app]
    BY DEF DataFits
  <2>1. d \in Asked
    BY DEF StreamInv, StreamTypes, Active, Streams
  <2> QED BY <1>1, <2>1 DEF Asked
<1>6. TakenInOrder
  BY DEF TakenInOrder, StreamInv, Sorted, InOrder
<1> QED BY <1>3, <1>4, <1>5, <1>6 DEF DataIsSound, RequestsAreSafe

\* The threads, the flags and the variables of a streaming program are what they
\* are declared to be, with any number of buffers, chunks and failures.
THEOREM StreamTyped == Spec => []TypeOK
BY StreamInvInit, StreamInvStep, StreamInvImplies, PTL DEF Spec

\* Whatever the order in which the board samples, the callback threads of the
\* buffers run and main looks, and whatever fails: the driver never writes where
\* main reads nor past the end of the data, and main takes the chunks in the order
\* they were sampled, each once, unless the board found no request for one or a
\* callback thread failed.
THEOREM DataSound == Spec => []DataIsSound
BY StreamInvInit, StreamInvStep, StreamInvImplies, PTL DEF Spec

----------------------------------------------------------------------------
\* What a streaming program is told of, it notices

\* The inductive invariant of the programs that clear the flag where they look at the
\* buffers: they have one stream, and clear its flag when the buffer that is taken next is
\* not filled; from then on a callback that fills it sets the flag again.
NoticeInv ==
  /\ occurred \in [Streams -> BOOLEAN]
  /\ app \in ClearsInOrder =>
       /\ at = "adc" /\ todo \subseteq {"adc"} /\ (pc = "enter" => "adc" \in todo)
       /\ pc \notin {"leave", "late"}
       /\ pc \in {"loop", "enter", "clear"} /\ filled["adc"][current["adc"]] => occurred["adc"]

LEMMA NoticeInit == Init => NoticeInv
<1> SUFFICES ASSUME Init PROVE NoticeInv
  OBVIOUS
<1>1. 0 \in Buffers
  BY NumBuffersAssumption DEF Buffers
<1>2. ~filled["adc"][current["adc"]]
  BY <1>1 DEF Init, Streams
<1> QED BY <1>2 DEF Init, NoticeInv, Streams

LEMMA NoticeStep == StreamInv /\ NoticeInv /\ [Next]_vars => NoticeInv'
<1> SUFFICES ASSUME StreamTypes, NoticeInv, [Next]_vars PROVE NoticeInv'
  BY DEF StreamInv
<1>1. app \in ClearsInOrder => Active = {"adc"} /\ ~ClearsLate
  BY DEF ClearsInOrder, Active, ClearsLate
<1> USE DEF NoticeInv, Streams, board, flags, progress, control, Fails, Fault
<1>2. CASE UNCHANGED vars
  BY <1>2 DEF vars
<1>3. ASSUME NEW s \in Streams, Sample(s) \/ Lose(s) PROVE NoticeInv'
  BY <1>3 DEF Sample, Lose
<1>4. ASSUME NEW s \in Streams, NEW b \in Buffers, NEW f \in Buffers,
             \/ CallbackEnters(s, b) /\ f = b
             \/ ThreadFails(s, b, f)
      PROVE  NoticeInv'
  <2>1. /\ occurred' = [occurred EXCEPT ![s] = TRUE] /\ filled' = [filled EXCEPT ![s][f] = TRUE]
        /\ UNCHANGED <<app, at, todo, pc, current>>
    BY <1>4 DEF CallbackEnters, ThreadFails
  <2>2. s # "adc" => filled'["adc"] = filled["adc"] /\ occurred'["adc"] = occurred["adc"]
    BY <2>1 DEF StreamTypes
  <2>3. s = "adc" => occurred'["adc"] = TRUE
    BY <2>1
  <2>4. occurred' \in [Streams -> BOOLEAN]
    BY <2>1
  <2> QED BY <1>1, <2>1, <2>2, <2>3, <2>4
<1>5. ASSUME NEW s \in Streams, NEW b \in Buffers, CallbackLeaves(s, b) \/ UsesDeleted(s, b)
      PROVE  NoticeInv'
  BY <1>1, <1>5 DEF CallbackLeaves, UsesDeleted
<1>6. CASE Look
  BY <1>1, <1>6 DEF Look
<1>7. CASE Enter
  BY <1>1, <1>7 DEF Enter, FirstOf
<1>8. CASE Drain
  <2>1. /\ UNCHANGED <<app, occurred, todo, at>>
        /\ pc' \in {"drain", "leave", "cleanup"}
        /\ pc' = "leave" => StopsEarly(at)
    BY <1>8 DEF Drain
  <2>2. app \in ClearsInOrder => ~StopsEarly(at)
    BY DEF StopsEarly, ClearsInOrder
  <2> QED BY <1>1, <2>1, <2>2
<1>9. CASE Leave
  <2>1. /\ occurred' = [occurred EXCEPT ![at] = FALSE] /\ UNCHANGED <<app, at, filled, current>>
        /\ todo' = todo \ {at}
        /\ pc = "leave" \/ (pc = "drain" /\ ~filled[at][current[at]])
    BY <1>9 DEF Leave
  <2>2. app \in ClearsInOrder => todo' = {} /\ pc' \in {"loop", "clear"}
    BY <1>1, <1>9, <2>1 DEF Leave
  <2> QED BY <1>1, <2>1, <2>2
<1>10. CASE ClearFlags
  BY <1>1, <1>10 DEF ClearFlags
<1>11. CASE ClearInterrupts
  BY <1>1, <1>11 DEF ClearInterrupts
<1>12. CASE HandleInterrupt \/ CtrlC \/ LoopEnds \/ Stop \/ DeleteSection \/ StopDma \/ Close
  BY <1>1, <1>12 DEF HandleInterrupt, CtrlC, LoopEnds, Stop, DeleteSection, StopDma, Close
<1>13. ASSUME NEW s \in Streams, NEW b \in Buffers, RemoveCallback(s, b) \/ RemoveFails(s, b)
       PROVE  NoticeInv'
  BY <1>1, <1>13 DEF RemoveCallback, RemoveFails
<1> QED
  BY ONLY [Next]_vars, <1>2, <1>3, <1>4, <1>5, <1>6, <1>7, <1>8, <1>9, <1>10, <1>11, <1>12, <1>13, Zenon
  DEF Next, Main, Callback

\* Whatever callbacks run between main's looks at the flag and at the buffers: when it
\* looks again and the buffer that it takes next is filled, the flag is set.
THEOREM DataNoticed == Spec => []ReportedIsNoticed
<1>1. StreamInv /\ NoticeInv => ReportedIsNoticed
  BY DEF NoticeInv, ReportedIsNoticed, ClearsInOrder, Active
<1> QED BY <1>1, StreamInvInit, StreamInvStep, NoticeInit, NoticeStep, PTL DEF Spec

----------------------------------------------------------------------------
\* The programs that wait for interrupts

\* Before the main loop reads the register; after it has read it.
Awaiting == iPc \in {"loop", "waited", "check", "take", "read", "overrun", "late"}
Answering == iPc \in {"answer", "clear"}

\* The inductive invariant.  Of the events, one may be in the register that has not been counted yet.
CountInv ==
  \/ iGuessed
  \/ /\ iCounted <= iEvents
     /\ Awaiting /\ "counted" \in iRaised => iCounted < iEvents
     /\ Answering /\ "counted" \in iRaised \ iStatus => iCounted < iEvents

\* Waiter!TypeOK, one variable at a time.
WaiterFlags ==
  /\ iOccurred \in BOOLEAN /\ iResult \in BOOLEAN /\ iCopied \in BOOLEAN /\ iBroken \in BOOLEAN
  /\ iDeleted \in BOOLEAN /\ iExiting \in BOOLEAN /\ iFailing \in BOOLEAN /\ iGuessed \in BOOLEAN
WaiterTypes ==
  /\ iApp \in InterruptApps /\ iRaised \subseteq Waiter!Enabled
  /\ iEvents \in Nat /\ iEvents <= MaxEvents
  /\ iPending \in Nat /\ iThread \in {"idle", "in", "stuck", "gone"}
  /\ iSection \in {"free", "main", "callback"} /\ iStatus \subseteq Waiter!Sources
  /\ iCounted \in Nat
  /\ iRounds \in Nat /\ iRounds <= Goal
  /\ iFaults \in Nat /\ iFaults <= InterruptFaults

\* Nothing is left out.
LEMMA WaiterTyped == WaiterTypes /\ WaiterFlags => Waiter!TypeOK
BY WaiterAssumption DEF WaiterTypes, WaiterFlags, Waiter!TypeOK

\* Nothing has occurred and nothing is counted.
LEMMA WaiterInit == Waiter!Init => WaiterTypes /\ WaiterFlags /\ CountInv
<1>1. Waiter!Init => WaiterTypes
  BY WaiterAssumption DEF Waiter!Init, WaiterTypes
<1>2. Waiter!Init => WaiterFlags
  BY Zenon DEF Waiter!Init, WaiterFlags
<1>3. Waiter!Init => CountInv
  BY DEF Waiter!Init, CountInv
<1> QED BY <1>1, <1>2, <1>3

\* Every step keeps the types,
LEMMA WaiterTypeStep == WaiterTypes /\ [Waiter!Next]_iVars => WaiterTypes'
<1> SUFFICES ASSUME WaiterTypes, [Waiter!Next]_iVars PROVE WaiterTypes'
  OBVIOUS
<1> USE WaiterAssumption DEF WaiterTypes, Waiter!Enabled, Waiter!Sources, Waiter!interrupt,
    Waiter!callback, Waiter!lock, Waiter!counts, Waiter!CallFails, Waiter!Fault, Waiter!Succeeds
<1>1. CASE UNCHANGED iVars
  BY <1>1 DEF iVars
<1>2. ASSUME NEW source \in Waiter!Sources, Waiter!Raise(source) PROVE WaiterTypes'
  BY <1>2 DEF Waiter!Raise
<1>3. CASE Waiter!CallbackEnters
  BY <1>3 DEF Waiter!CallbackEnters
<1>4. CASE Waiter!CallbackLeaves
  BY <1>4 DEF Waiter!CallbackLeaves
<1>5. CASE Waiter!ThreadFails
  BY <1>5 DEF Waiter!ThreadFails
<1>6. CASE Waiter!UsesDeleted
  BY <1>6 DEF Waiter!UsesDeleted
<1>7. CASE Waiter!CtrlC
  BY <1>7 DEF Waiter!CtrlC
<1>8. CASE Waiter!StartAgain
  BY <1>8 DEF Waiter!StartAgain
<1>9. CASE Waiter!LoopEnds
  BY <1>9 DEF Waiter!LoopEnds
<1>10. CASE Waiter!Look
  BY <1>10 DEF Waiter!Look
<1>11. CASE Waiter!Poll
  <2>1. iRounds < Goal
    <3>1. iApp \in Waiter!Polling /\ ~Waiter!LoopDone
      BY <1>11 DEF Waiter!Poll, Waiter!MayLoop
    <3>2. ~(iRounds >= Goal)
      BY ONLY <3>1 DEF Waiter!LoopDone, Waiter!Polling
    <3> QED BY <3>2
  <2> QED BY <1>11, <2>1 DEF Waiter!Poll
<1>12. CASE Waiter!Waited
  BY <1>12 DEF Waiter!Waited
<1>13. CASE Waiter!CheckResult
  BY <1>13 DEF Waiter!CheckResult
<1>14. CASE Waiter!Take
  BY <1>14 DEF Waiter!Take
<1>15. CASE Waiter!ReadStatus
  <2>1. /\ UNCHANGED <<iApp, iRaised, iEvents, iPending, iThread, iSection, iRounds>>
        /\ iFaults' = iFaults \/ (iFaults < InterruptFaults /\ iFaults' = iFaults + 1)
        /\ iStatus' = iRaised \/ iStatus' \in SUBSET Waiter!Sources \/ iStatus' = iStatus
        /\ iCounted' = iCounted \/ iCounted' = iCounted + 1
    BY <1>15 DEF Waiter!ReadStatus
  <2>2. iFaults' \in Nat /\ iFaults' <= InterruptFaults /\ iCounted' \in Nat
    BY <2>1
  <2>3. iRaised' \subseteq Waiter!Enabled' /\ iStatus' \subseteq Waiter!Sources
    BY <2>1
  <2> QED BY <2>1, <2>2, <2>3
<1>16. CASE Waiter!AnswerDio
  BY <1>16 DEF Waiter!AnswerDio
<1>17. CASE Waiter!ClearMask
  <2>1. /\ UNCHANGED <<iApp, iEvents, iPending, iThread, iSection, iRounds, iStatus, iCounted>>
        /\ iFaults' = iFaults \/ (iFaults < InterruptFaults /\ iFaults' = iFaults + 1)
        /\ iRaised' = {} \/ iRaised' = iRaised
    BY <1>17 DEF Waiter!ClearMask, Waiter!AfterClear
  <2>2. iFaults' \in Nat /\ iFaults' <= InterruptFaults
    BY <2>1
  <2>3. iRaised' \subseteq Waiter!Enabled'
    BY <2>1
  <2> QED BY <2>1, <2>2, <2>3
<1>18. CASE Waiter!ClearOverrun
  BY <1>18 DEF Waiter!ClearOverrun
<1>19. CASE Waiter!ClearFlag
  BY <1>19 DEF Waiter!ClearFlag
<1>20. CASE Waiter!StopTimers
  BY <1>20 DEF Waiter!StopTimers
<1>21. CASE Waiter!DeleteSection
  BY <1>21 DEF Waiter!DeleteSection
<1>22. CASE Waiter!RemoveCallback
  BY <1>22 DEF Waiter!RemoveCallback
<1>23. CASE Waiter!RemoveFails
  BY <1>23 DEF Waiter!RemoveFails
<1>24. CASE Waiter!Close
  BY <1>24 DEF Waiter!Close
<1> QED
  BY ONLY [Waiter!Next]_iVars,
     <1>1, <1>2, <1>3, <1>4, <1>5, <1>6, <1>7, <1>8, <1>9, <1>10, <1>11, <1>12,
     <1>13, <1>14, <1>15, <1>16, <1>17, <1>18, <1>19, <1>20, <1>21, <1>22, <1>23, <1>24, Zenon
  DEF Waiter!Next, Waiter!Main, Waiter!Callback

\* the flags, which stay Boolean,
LEMMA WaiterFlagStep == WaiterFlags /\ [Waiter!Next]_iVars => WaiterFlags'
<1> SUFFICES ASSUME WaiterFlags, [Waiter!Next]_iVars PROVE WaiterFlags'
  OBVIOUS
<1> USE DEF WaiterFlags, Waiter!interrupt, Waiter!callback, Waiter!lock, Waiter!counts,
    Waiter!CallFails, Waiter!Fault, Waiter!Succeeds
<1>1. CASE UNCHANGED iVars
  BY <1>1, Zenon DEF iVars
<1>2. ASSUME NEW source \in Waiter!Sources, Waiter!Raise(source) PROVE WaiterFlags'
  BY <1>2, Zenon DEF Waiter!Raise
<1>3. CASE Waiter!CallbackEnters
  BY <1>3, Zenon DEF Waiter!CallbackEnters
<1>4. CASE Waiter!CallbackLeaves
  BY <1>4, Zenon DEF Waiter!CallbackLeaves
<1>5. CASE Waiter!ThreadFails
  BY <1>5, Zenon DEF Waiter!ThreadFails
<1>6. CASE Waiter!UsesDeleted
  BY <1>6, Zenon DEF Waiter!UsesDeleted
<1>7. CASE Waiter!CtrlC
  BY <1>7, Zenon DEF Waiter!CtrlC
<1>8. CASE Waiter!StartAgain
  BY <1>8, Zenon DEF Waiter!StartAgain
<1>9. CASE Waiter!LoopEnds
  BY <1>9, Zenon DEF Waiter!LoopEnds
<1>10. CASE Waiter!Look
  BY <1>10, Zenon DEF Waiter!Look
<1>11. CASE Waiter!Poll
  BY <1>11, Zenon DEF Waiter!Poll
<1>12. CASE Waiter!Waited
  BY <1>12, Zenon DEF Waiter!Waited
<1>13. CASE Waiter!CheckResult
  BY <1>13, Zenon DEF Waiter!CheckResult
<1>14. CASE Waiter!Take
  BY <1>14, Zenon DEF Waiter!Take
<1>15. CASE Waiter!ReadStatus
  BY <1>15, Zenon DEF Waiter!ReadStatus
<1>16. CASE Waiter!AnswerDio
  BY <1>16, Zenon DEF Waiter!AnswerDio
<1>17. CASE Waiter!ClearMask
  BY <1>17, Zenon DEF Waiter!ClearMask
<1>18. CASE Waiter!ClearOverrun
  BY <1>18, Zenon DEF Waiter!ClearOverrun
<1>19. CASE Waiter!ClearFlag
  BY <1>19, Zenon DEF Waiter!ClearFlag
<1>20. CASE Waiter!StopTimers
  BY <1>20, Zenon DEF Waiter!StopTimers
<1>21. CASE Waiter!DeleteSection
  BY <1>21, Zenon DEF Waiter!DeleteSection
<1>22. CASE Waiter!RemoveCallback
  BY <1>22, Zenon DEF Waiter!RemoveCallback
<1>23. CASE Waiter!RemoveFails
  BY <1>23, Zenon DEF Waiter!RemoveFails
<1>24. CASE Waiter!Close
  BY <1>24, Zenon DEF Waiter!Close
<1> QED
  BY ONLY [Waiter!Next]_iVars,
     <1>1, <1>2, <1>3, <1>4, <1>5, <1>6, <1>7, <1>8, <1>9, <1>10, <1>11, <1>12,
     <1>13, <1>14, <1>15, <1>16, <1>17, <1>18, <1>19, <1>20, <1>21, <1>22, <1>23, <1>24, Zenon
  DEF Waiter!Next, Waiter!Main, Waiter!Callback

\* and the count.
LEMMA WaiterCountStep == WaiterTypes /\ CountInv /\ [Waiter!Next]_iVars => CountInv'
<1> SUFFICES ASSUME WaiterTypes, CountInv, ~iGuessed', [Waiter!Next]_iVars PROVE CountInv'
  BY DEF CountInv
<1> USE DEF WaiterTypes, CountInv, Awaiting, Answering, Waiter!interrupt, Waiter!callback, Waiter!lock,
    Waiter!counts, Waiter!CallFails, Waiter!Fault, Waiter!Succeeds
<1>1. CASE UNCHANGED iVars
  BY <1>1 DEF iVars
<1>2. ASSUME NEW source \in Waiter!Sources, Waiter!Raise(source) PROVE CountInv'
  BY <1>2 DEF Waiter!Raise
<1>3. CASE Waiter!CallbackEnters
  BY <1>3 DEF Waiter!CallbackEnters
<1>4. CASE Waiter!CallbackLeaves
  BY <1>4 DEF Waiter!CallbackLeaves
<1>5. CASE Waiter!ThreadFails
  BY <1>5 DEF Waiter!ThreadFails
<1>6. CASE Waiter!UsesDeleted
  BY <1>6 DEF Waiter!UsesDeleted
<1>7. CASE Waiter!CtrlC
  BY <1>7 DEF Waiter!CtrlC
<1>8. CASE Waiter!StartAgain
  BY <1>8 DEF Waiter!StartAgain
<1>9. CASE Waiter!LoopEnds
  BY <1>9 DEF Waiter!LoopEnds
<1>10. CASE Waiter!Look
  BY <1>10 DEF Waiter!MayLoop, Waiter!Look, Waiter!ChecksFirst
<1>11. CASE Waiter!Poll
  BY <1>11 DEF Waiter!MayLoop, Waiter!Poll, Waiter!HeedsCtrlC
<1>12. CASE Waiter!Waited
  BY <1>12 DEF Waiter!Waited
<1>13. CASE Waiter!CheckResult
  BY <1>13 DEF Waiter!CheckResult
<1>14. CASE Waiter!Take
  BY <1>14 DEF Waiter!Take
<1>15. CASE Waiter!ReadStatus
  BY <1>15 DEF Waiter!ReadStatus
<1>16. CASE Waiter!AnswerDio
  BY <1>16 DEF Waiter!AnswerDio
<1>17. CASE Waiter!ClearMask
  BY <1>17 DEF Waiter!ClearMask, Waiter!AfterClear
<1>18. CASE Waiter!ClearOverrun
  BY <1>18 DEF Waiter!ClearOverrun, Waiter!AfterOverrun
<1>19. CASE Waiter!ClearFlag
  BY <1>19 DEF Waiter!ClearFlag
<1>20. CASE Waiter!StopTimers
  BY <1>20 DEF Waiter!StopTimers
<1>21. CASE Waiter!DeleteSection
  BY <1>21 DEF Waiter!DeleteSection
<1>22. CASE Waiter!RemoveCallback
  BY <1>22 DEF Waiter!RemoveCallback, Waiter!AfterRemove
<1>23. CASE Waiter!RemoveFails
  BY <1>23 DEF Waiter!RemoveFails
<1>24. CASE Waiter!Close
  BY <1>24 DEF Waiter!Close
<1> QED
  BY ONLY [Waiter!Next]_iVars,
     <1>1, <1>2, <1>3, <1>4, <1>5, <1>6, <1>7, <1>8, <1>9, <1>10, <1>11, <1>12,
     <1>13, <1>14, <1>15, <1>16, <1>17, <1>18, <1>19, <1>20, <1>21, <1>22, <1>23, <1>24, Zenon
  DEF Waiter!Next, Waiter!Main, Waiter!Callback

\* The variables of a program that waits for interrupts are what they are declared
\* to be, and no interrupt is counted twice, whatever comes between the read of the
\* INT register and its clearing, unless the register could not be read.
THEOREM Waits == Waiter!Spec => [](Waiter!TypeOK /\ Waiter!CountedOnce)
<1>1. Waiter!Init => WaiterTypes /\ WaiterFlags /\ CountInv
  BY WaiterInit
<1>2. WaiterTypes /\ WaiterFlags /\ CountInv /\ [Waiter!Next]_Waiter!vars
        => (WaiterTypes /\ WaiterFlags /\ CountInv)'
  <2>1. UNCHANGED Waiter!vars => UNCHANGED iVars
    BY DEF Waiter!vars, Waiter!interrupt, Waiter!callback, Waiter!lock, Waiter!counts, iVars
  <2> QED BY <2>1, WaiterTypeStep, WaiterFlagStep, WaiterCountStep
<1>3. WaiterTypes /\ WaiterFlags /\ CountInv => Waiter!TypeOK /\ Waiter!CountedOnce
  BY WaiterTyped DEF CountInv, Waiter!CountedOnce
<1> QED BY <1>1, <1>2, <1>3, PTL DEF Waiter!Spec

----------------------------------------------------------------------------
\* The interrupts that the board has raised are noticed

\* Where main is before it leaves the loop or fails.
Circling == {"loop", "waited", "check", "take", "read", "answer", "clear", "overrun", "late"}

\* The inductive invariant: in the loop the section still exists, and the callback thread
\* does unless it has met an error, so that an interrupt is queued for it; it sets the flag
\* when it takes the interrupt, and main, having cleared the flag, goes on to clear the
\* register before it looks at the flag again.
WakeInv ==
  /\ iDeleted => iPc \notin Circling
  /\ iApp \notin Waiter!Polling /\ iPc \in Circling /\ iThread = "gone" => iBroken
  /\ iPc = "late" => iApp = "TimerInterrupt"
  /\ Waiter!RaisedIsNoticed

LEMMA WakeInit == Waiter!Init => WakeInv
BY DEF Waiter!Init, WakeInv, Waiter!RaisedIsNoticed, Circling

LEMMA WakeStep == WaiterTypes /\ WaiterFlags /\ WakeInv /\ [Waiter!Next]_iVars => WakeInv'
<1> SUFFICES ASSUME WaiterTypes, WaiterFlags, WakeInv, [Waiter!Next]_iVars PROVE WakeInv'
  OBVIOUS
<1> USE DEF WaiterTypes, WaiterFlags, WakeInv, Waiter!RaisedIsNoticed, Circling, Waiter!interrupt,
    Waiter!callback, Waiter!lock, Waiter!counts, Waiter!CallFails, Waiter!Fault, Waiter!Succeeds
<1>1. CASE UNCHANGED iVars
  BY <1>1 DEF iVars
<1>2. ASSUME NEW source \in Waiter!Sources, Waiter!Raise(source) PROVE WakeInv'
  BY <1>2 DEF Waiter!Raise
<1>3. CASE Waiter!CallbackEnters
  BY <1>3 DEF Waiter!CallbackEnters
<1>4. CASE Waiter!CallbackLeaves
  BY <1>4 DEF Waiter!CallbackLeaves
<1>5. CASE Waiter!ThreadFails
  BY <1>5 DEF Waiter!ThreadFails
<1>6. CASE Waiter!UsesDeleted
  BY <1>6 DEF Waiter!UsesDeleted
<1>7. CASE Waiter!CtrlC
  BY <1>7 DEF Waiter!CtrlC
<1>8. CASE Waiter!StartAgain
  BY <1>8 DEF Waiter!StartAgain
<1>9. CASE Waiter!LoopEnds
  BY <1>9 DEF Waiter!LoopEnds
<1>10. CASE Waiter!Look
  BY <1>10 DEF Waiter!Look, Waiter!MayLoop, Waiter!ChecksFirst
<1>11. CASE Waiter!Poll
  BY <1>11 DEF Waiter!Poll, Waiter!MayLoop, Waiter!HeedsCtrlC
<1>12. CASE Waiter!Waited
  BY <1>12 DEF Waiter!Waited
<1>13. CASE Waiter!CheckResult
  BY <1>13 DEF Waiter!CheckResult, Waiter!ClearsLate
<1>14. CASE Waiter!Take
  BY <1>14 DEF Waiter!Take
<1>15. CASE Waiter!ReadStatus
  BY <1>15 DEF Waiter!ReadStatus
<1>16. CASE Waiter!AnswerDio
  BY <1>16 DEF Waiter!AnswerDio
<1>17. CASE Waiter!ClearMask
  BY <1>17 DEF Waiter!ClearMask, Waiter!AfterClear
<1>18. CASE Waiter!ClearOverrun
  BY <1>18 DEF Waiter!ClearOverrun, Waiter!AfterOverrun, Waiter!ClearsLate
<1>19. CASE Waiter!ClearFlag
  BY <1>19 DEF Waiter!ClearFlag
<1>20. CASE Waiter!StopTimers
  BY <1>20 DEF Waiter!StopTimers
<1>21. CASE Waiter!DeleteSection
  BY <1>21 DEF Waiter!DeleteSection
<1>22. CASE Waiter!RemoveCallback
  BY <1>22 DEF Waiter!RemoveCallback, Waiter!AfterRemove
<1>23. CASE Waiter!RemoveFails
  BY <1>23 DEF Waiter!RemoveFails
<1>24. CASE Waiter!Close
  BY <1>24 DEF Waiter!Close
<1> QED
  BY ONLY [Waiter!Next]_iVars,
     <1>1, <1>2, <1>3, <1>4, <1>5, <1>6, <1>7, <1>8, <1>9, <1>10, <1>11, <1>12,
     <1>13, <1>14, <1>15, <1>16, <1>17, <1>18, <1>19, <1>20, <1>21, <1>22, <1>23, <1>24, Zenon
  DEF Waiter!Next, Waiter!Main, Waiter!Callback

\* Whichever part of the loop the callbacks run in: an interrupt that main will not come
\* to by itself has set the flag, or its callback is still to come.
THEOREM InterruptsNoticed == Waiter!Spec => []Waiter!RaisedIsNoticed
<1>1. WaiterTypes /\ WaiterFlags /\ WakeInv /\ [Waiter!Next]_Waiter!vars
        => (WaiterTypes /\ WaiterFlags /\ WakeInv)'
  <2>1. UNCHANGED Waiter!vars => UNCHANGED iVars
    BY DEF Waiter!vars, Waiter!interrupt, Waiter!callback, Waiter!lock, Waiter!counts, iVars
  <2> QED BY <2>1, WaiterTypeStep, WaiterFlagStep, WakeStep
<1>2. WakeInv => Waiter!RaisedIsNoticed
  BY DEF WakeInv
<1> QED BY <1>1, <1>2, WaiterInit, WakeInit, PTL DEF Waiter!Spec

----------------------------------------------------------------------------
\* The programs as texts of calls

\* A program without a main loop begins with the second part.
LEMMA CallsInit == Program!Init => Program!TypeOK
<1> SUFFICES ASSUME Program!Init PROVE Program!TypeOK
  OBVIOUS
<1>1. pProgram \in Program!Programs /\ pPlace = 1 /\ pFaults = 0 /\ pEnded = "no" /\ pIgnored = {}
  BY DEF Program!Init
<1>2. /\ pPart \in {1, 2} /\ Program!Text[pProgram][pPart] # <<>>
      /\ Program!Text[pProgram][pPart] \in Seq(STRING \X STRING)
  BY <1>1, TextAssumption DEF Program!Init, Program!None
<1>3. Len(Program!Text[pProgram][pPart]) \in Nat /\ Len(Program!Text[pProgram][pPart]) > 0
  BY <1>2, EmptySeq
<1> QED BY <1>1, <1>2, <1>3, ProgramFaultsAssumption DEF Program!TypeOK

\* A call that works is followed by the next, and one that fails by Cleanup's first.
LEMMA CallsStep == Program!TypeOK /\ [Program!Next]_pVars => Program!TypeOK'
<1> SUFFICES ASSUME Program!TypeOK, [Program!Next]_pVars PROVE Program!TypeOK'
  OBVIOUS
<1> DEFINE length(k) == Len(Program!Text[pProgram][k])
<1>1. /\ pProgram \in Program!Programs /\ pPart \in 1 .. 3 /\ pPlace \in 1 .. length(pPart)
      /\ pFaults \in 0 .. ProgramFaults /\ pEnded \in {"no", "done", "failed"}
      /\ pIgnored \subseteq Program!Unchecked(pProgram)
  BY DEF Program!TypeOK
<1>2. /\ \A k \in 1 .. 3 : length(k) \in Nat
      /\ length(2) > 0 /\ (Program!Text[pProgram][3] # Program!None => length(3) > 0)
  BY <1>1, TextAssumption, EmptySeq DEF Program!None
<1> HIDE DEF length
<1>3. SUFFICES /\ pProgram' = pProgram /\ pPart' \in 1 .. 3 /\ pPlace' \in 1 .. length(pPart')
               /\ pFaults' \in 0 .. ProgramFaults /\ pEnded' \in {"no", "done", "failed"}
               /\ pIgnored' \subseteq Program!Unchecked(pProgram)
  BY <1>1 DEF Program!TypeOK, length
<1>4. CASE UNCHANGED pVars
  BY <1>1, <1>4 DEF pVars
<1>5. CASE Program!Works \/ Program!Ignores
  <2>1. /\ pProgram' = pProgram /\ pFaults' = pFaults /\ Program!Advances
        /\ pIgnored' \subseteq Program!Unchecked(pProgram)
    BY <1>1, <1>5 DEF Program!Works, Program!Ignores
  <2>2. \/ pPlace < length(pPart) /\ pPlace' = pPlace + 1 /\ pPart' = pPart /\ pEnded' = pEnded
        \/ pPart' = 2 /\ pPlace' = 1 /\ pEnded' = pEnded
        \/ pEnded' \in {"failed", "done"} /\ pPart' = pPart /\ pPlace' = pPlace
    BY <2>1 DEF Program!Advances, Program!FirstOfRest, length
  <2> QED BY <1>1, <1>2, <2>1, <2>2
<1>6. CASE Program!Fails
  <2>1. pProgram' = pProgram /\ pEnded = "no" /\ pIgnored' = pIgnored
    BY <1>6 DEF Program!Fails
  <2>2. \/ Program!Text[pProgram][3] # Program!None /\ pPart' = 3 /\ pPlace' = 1 /\ pEnded' = pEnded
        \/ pEnded' = "failed" /\ pPart' = pPart /\ pPlace' = pPlace
    BY <1>6 DEF Program!Fails
  <2>3. pFaults' = pFaults \/ (pFaults < ProgramFaults /\ pFaults' = pFaults + 1)
    BY <1>6 DEF Program!Fails, Program!MayFail
  <2>4. pFaults' \in 0 .. ProgramFaults
    BY <1>1, <2>3, ProgramFaultsAssumption
  <2> QED BY <1>1, <1>2, <2>1, <2>2, <2>4
<1> QED BY <1>4, <1>5, <1>6 DEF Program!Next

\* A program is at one of its calls, however many calls fail.
THEOREM CallsTyped == Program!Spec => []Program!TypeOK
<1>1. UNCHANGED Program!vars => UNCHANGED pVars
  BY DEF Program!vars, pVars
<1>2. Program!TypeOK /\ [Program!Next]_Program!vars => Program!TypeOK'
  BY <1>1, CallsStep
<1> QED BY <1>2, CallsInit, PTL DEF Program!Spec

----------------------------------------------------------------------------
\* The order of the programs' calls

\* The course of a program is its first two texts, one after the other.
LEMMA CourseIs ==
  ASSUME NEW p \in Program!Programs
  PROVE  /\ \A k \in 1 .. 3 : Len(Program!Text[p][k]) \in Nat
         /\ Len(Program!Text[p][1]) \in Nat /\ Len(Program!Text[p][2]) \in Nat
         /\ Course(p) \in Seq(STRING \X STRING)
         /\ Len(Course(p)) = Len(Program!Text[p][1]) + Len(Program!Text[p][2])
         /\ \A i \in 1 .. Len(Program!Text[p][1]) : Course(p)[i] = Program!Text[p][1][i]
         /\ \A i \in 1 .. Len(Program!Text[p][2]) :
              Course(p)[Len(Program!Text[p][1]) + i] = Program!Text[p][2][i]
<1> DEFINE S == STRING \X STRING
           one == Program!Text[p][1]
           two == Program!Text[p][2]
<1>1. one \in Seq(S) /\ two \in Seq(S) /\ \A k \in 1 .. 3 : Len(Program!Text[p][k]) \in Nat
  BY TextAssumption
<1>2. Course(p) = one \o two
  BY DEF Course
<1> HIDE DEF one, two, S
<1>3. /\ one \o two \in Seq(S) /\ Len(one \o two) = Len(one) + Len(two)
      /\ \A i \in 1 .. Len(one) + Len(two) :
           (one \o two)[i] = IF i <= Len(one) THEN one[i] ELSE two[i - Len(one)]
  BY <1>1, ConcatProperties
<1>4. Len(one) \in Nat /\ Len(two) \in Nat
  BY <1>1
<1>5. /\ \A i \in 1 .. Len(one) : (one \o two)[i] = one[i]
      /\ \A i \in 1 .. Len(two) : (one \o two)[Len(one) + i] = two[i]
  BY <1>3, <1>4
<1>6. one \o two \in Seq(S) /\ Len(one \o two) = Len(one) + Len(two)
  BY <1>3
<1> QED BY <1>1, <1>2, <1>4, <1>5, <1>6 DEF one, two, S

\* After one more call: what stood before it and is not undone by it, and the call itself.
LEMMA StandingNext ==
  ASSUME NEW p, NEW n \in Nat \ {0}, NEW s
  PROVE  Standing(p, s, n + 1) <=>
           \/ Standing(p, s, n) /\ ~Program!Undoes(Course(p)[n], s)
           \/ s = Course(p)[n] /\ Program!Lasting(s)
<1>1. ASSUME Standing(p, s, n + 1)
      PROVE  \/ Standing(p, s, n) /\ ~Program!Undoes(Course(p)[n], s)
             \/ s = Course(p)[n] /\ Program!Lasting(s)
  <2>1. PICK i \in 1 .. n :
          /\ Course(p)[i] = s /\ Program!Lasting(s)
          /\ \A j \in i + 1 .. n : ~Program!Undoes(Course(p)[j], s)
    BY <1>1 DEF Standing
  <2>2. CASE i = n
    BY <2>1, <2>2
  <2>3. CASE i # n
    <3>1. i \in 1 .. n - 1 /\ n \in i + 1 .. n /\ \A j \in i + 1 .. n - 1 : j \in i + 1 .. n
      BY <2>1, <2>3
    <3> QED BY <2>1, <3>1 DEF Standing
  <2> QED BY <2>2, <2>3
<1>2. ASSUME Standing(p, s, n), ~Program!Undoes(Course(p)[n], s) PROVE Standing(p, s, n + 1)
  <2>1. PICK i \in 1 .. n - 1 :
          /\ Course(p)[i] = s /\ Program!Lasting(s)
          /\ \A j \in i + 1 .. n - 1 : ~Program!Undoes(Course(p)[j], s)
    BY <1>2 DEF Standing
  <2>2. i \in 1 .. n + 1 - 1 /\ \A j \in i + 1 .. n + 1 - 1 : j \in i + 1 .. n - 1 \/ j = n
    BY <2>1
  <2> QED BY <1>2, <2>1, <2>2 DEF Standing
<1>3. ASSUME s = Course(p)[n], Program!Lasting(s) PROVE Standing(p, s, n + 1)
  <2>1. n \in 1 .. n + 1 - 1 /\ n + 1 .. n + 1 - 1 = {}
    OBVIOUS
  <2> QED BY <1>3, <2>1 DEF Standing
<1> QED BY <1>1, <1>2, <1>3

\* Nothing stands before the first call, and nothing after the last one.
LEMMA StandingEnds ==
  ASSUME NEW p \in Program!Programs, NEW s
  PROVE  ~Standing(p, s, 1) /\ ~Standing(p, s, Len(Course(p)) + 1)
<1>1. Len(Course(p)) \in Nat
  BY CourseIs
<1>2. ASSUME NEW i \in 1 .. Len(Course(p)), Program!Lasting(Course(p)[i])
      PROVE  \E j \in i + 1 .. Len(Course(p)) : Program!Undoes(Course(p)[j], Course(p)[i])
  BY <1>2, EndAssumption
<1>3. Len(Course(p)) + 1 - 1 = Len(Course(p)) /\ 1 .. 1 - 1 = {}
  BY <1>1
<1> QED BY <1>2, <1>3 DEF Standing

\* Whatever stands, the board is open, for it was opened first and is closed last.
LEMMA BoardStands ==
  ASSUME NEW p \in Program!Programs, NEW n \in 1 .. Len(Course(p)), NEW s, Standing(p, s, n)
  PROVE  Standing(p, Program!Open, n)
<1>1. Len(Course(p)) \in Nat
  BY CourseIs
<1>2. PICK i \in 1 .. n - 1 : Course(p)[i] = s /\ Program!Lasting(s)
                              /\ \A j \in i + 1 .. n - 1 : ~Program!Undoes(Course(p)[j], s)
  BY DEF Standing
<1>3. CASE s[1] = "Board_Open"
  <2>1. i \in 1 .. Len(Course(p))
    BY <1>1, <1>2
  <2>2. s = Program!Open
    BY <1>2, <1>3, <2>1, OpenAssumption
  <2> QED BY <2>2
<1>4. CASE s[1] # "Board_Open"
  <2>1. s[1] \notin Program!Boardless
    BY <1>2, <1>4 DEF Program!Lasting, Program!Passing, Program!Boardless
  <2>2. i \in 1 .. Len(Course(p))
    BY <1>1, <1>2
  <2>3. Standing(p, Program!Open, i)
    BY <1>2, <2>1, <2>2, OpenAssumption
  <2>4. PICK k \in 1 .. i - 1 :
          /\ Course(p)[k] = Program!Open /\ Program!Lasting(Program!Open)
          /\ \A j \in k + 1 .. i - 1 : ~Program!Undoes(Course(p)[j], Program!Open)
    BY <2>3 DEF Standing
  <2>5. \A j \in i .. n - 1 : ~Program!Undoes(Course(p)[j], Program!Open)
    <3> SUFFICES ASSUME NEW j \in i .. n - 1 PROVE ~Program!Undoes(Course(p)[j], Program!Open)
      OBVIOUS
    <3>1. j \in 1 .. Len(Course(p)) /\ j # Len(Course(p))
      BY <1>1, <1>2
    <3> QED BY <3>1, OpenAssumption
  <2>6. k \in 1 .. n - 1 /\ \A j \in k + 1 .. n - 1 : j \in k + 1 .. i - 1 \/ j \in i .. n - 1
    BY <1>1, <1>2, <2>4
  <2> QED BY <2>4, <2>5, <2>6 DEF Standing
<1> QED BY <1>3, <1>4

\* The number of the next call on the course, before Cleanup.
Position == pPlace + (IF pPart = 1 THEN 0 ELSE Len(Program!Text[pProgram][1]))

\* Before Cleanup what is in force stands on the course, and what stands there is in
\* force or has failed without the program's looking at it.
OnCourse ==
  pPart # 3 /\ pEnded # "done" =>
    /\ \A s \in pInForce : Standing(pProgram, s, Position)
    /\ \A s : Standing(pProgram, s, Position) => s \in pInForce \cup pIgnored
    /\ pEnded = "no" => pFaults = 0

\* In a Cleanup that one failing call has led to, the calls that are left undo what is
\* in force, and the board is open as long as there is something.
CleaningUp ==
  /\ pPart = 3 => pFaults > 0
  /\ pPart = 3 /\ pProgram # "TimerInterrupt" /\ pFaults = 1 =>
       IF pEnded = "no"
         THEN /\ \A s \in pInForce : \E j \in pPlace .. Len(Program!Text[pProgram][3]) :
                   Program!Undoes(Program!Text[pProgram][3][j], s)
              /\ pInForce # {} => Program!Open \in pInForce
         ELSE pInForce = {}

CallsInv ==
  /\ Program!TypeOK /\ OnCourse /\ CleaningUp
  /\ ~pEarly
  /\ pEnded = "done" => pInForce = {}

LEMMA CallsInvInit == Program!Init => CallsInv
<1> SUFFICES ASSUME Program!Init PROVE CallsInv
  OBVIOUS
<1>1. /\ pProgram \in Program!Programs /\ pPlace = 1 /\ pInForce = {} /\ pEnded = "no"
      /\ pFaults = 0 /\ pEarly = FALSE /\ pIgnored = {}
      /\ pPart = IF Program!Text[pProgram][1] = Program!None THEN 2 ELSE 1
  BY DEF Program!Init
<1>2. Position = 1
  BY <1>1 DEF Position, Program!None
<1>3. \A s : ~Standing(pProgram, s, Position)
  BY <1>1, <1>2, StandingEnds
<1> QED BY <1>1, <1>3, CallsInit DEF CallsInv, OnCourse, CleaningUp

\* On its course a program is at the call of its position, and the library refuses none.
LEMMA AtPosition ==
  ASSUME CallsInv, pPart # 3, pEnded = "no"
  PROVE  /\ pProgram \in Program!Programs /\ Position \in 1 .. Len(Course(pProgram))
         /\ Program!Step = Course(pProgram)[Position]
         /\ ~Program!MustFail
         /\ Program!Step[1] \notin Program!OfBoard \cup Program!Boardless => Program!Block \in pInForce
<1>1. /\ pProgram \in Program!Programs /\ pPart \in {1, 2}
      /\ pPlace \in 1 .. Len(Program!Text[pProgram][pPart])
  BY DEF CallsInv, Program!TypeOK
<1>2. Position \in 1 .. Len(Course(pProgram)) /\ Program!Step = Course(pProgram)[Position]
  <2> DEFINE one == Program!Text[pProgram][1]
             two == Program!Text[pProgram][2]
             course == Course(pProgram)
  <2>1. /\ Len(one) \in Nat /\ Len(two) \in Nat /\ Len(course) = Len(one) + Len(two)
        /\ \A i \in 1 .. Len(one) : course[i] = one[i]
        /\ \A i \in 1 .. Len(two) : course[Len(one) + i] = two[i]
    BY <1>1, CourseIs
  <2>2. /\ pPart = 1 => Position = pPlace /\ pPlace \in 1 .. Len(one) /\ Program!Step = one[pPlace]
        /\ pPart = 2 => /\ Position = pPlace + Len(one) /\ pPlace \in 1 .. Len(two)
                        /\ Program!Step = two[pPlace]
    BY <1>1 DEF Position, Program!Step
  <2> HIDE DEF one, two, course
  <2>3. Position \in 1 .. Len(course) /\ Program!Step = course[Position]
    BY <1>1, <2>1, <2>2
  <2> QED BY <2>3 DEF course
<1>3. \A s \in {Program!Open, Program!Block} : Standing(pProgram, s, Position) => s \in pInForce
  <2> SUFFICES ASSUME NEW s \in {Program!Open, Program!Block}, Standing(pProgram, s, Position)
               PROVE  s \in pInForce
    OBVIOUS
  <2>1. s \in pInForce \cup pIgnored /\ pIgnored \subseteq Program!Unchecked(pProgram)
    BY DEF CallsInv, OnCourse, Program!TypeOK
  <2>2. s \notin Program!Unchecked(pProgram)
    BY <1>1, UncheckedAssumption
  <2> QED BY <2>1, <2>2
<1>4. Program!Step[1] \notin Program!Boardless => Program!Open \in pInForce
  BY <1>1, <1>2, <1>3, OpenAssumption
<1>5. Program!Step[1] \notin Program!OfBoard \cup Program!Boardless => Program!Block \in pInForce
  BY <1>1, <1>2, <1>3, OpenAssumption
<1>6. Program!Step[1] \in Program!DmaFunctions => Program!Step[1] \notin Program!OfBoard \cup Program!Boardless
  BY DEF Program!DmaFunctions, Program!OfBoard, Program!Boardless
<1> QED BY <1>1, <1>2, <1>4, <1>5, <1>6 DEF Program!MustFail

\* A program on its course comes to the next call, or has made the last one.
LEMMA CourseGoesOn ==
  ASSUME CallsInv, Program!Advances, pPart # 3, pEnded = "no",
         pProgram' = pProgram, pFaults' = pFaults, ~pEarly',
         \A s \in pInForce' : Standing(pProgram, s, Position + 1),
         \A s : Standing(pProgram, s, Position + 1) => s \in pInForce' \cup pIgnored'
  PROVE  OnCourse' /\ CleaningUp' /\ ~pEarly' /\ (pEnded' = "done" => pInForce' = {})
<1>1. pProgram \in Program!Programs /\ Position \in 1 .. Len(Course(pProgram))
  BY AtPosition
<1>2. pPart \in {1, 2} /\ pPlace \in 1 .. Len(Program!Text[pProgram][pPart])
  BY DEF CallsInv, Program!TypeOK
<1>3. PICK n : n = Position
  OBVIOUS
<1>4. \/ pPart' \in {1, 2} /\ pEnded' = "no" /\ Position' = n + 1
      \/ pPart' = pPart /\ pEnded' = "done" /\ n = Len(Course(pProgram))
  <2> DEFINE one == Len(Program!Text[pProgram][1])
             two == Len(Program!Text[pProgram][2])
             here == Len(Program!Text[pProgram][pPart])
             all == Len(Course(pProgram))
  <2>1. one \in Nat /\ two \in Nat /\ all = one + two
    BY <1>1, CourseIs
  <2>2. /\ n = pPlace + (IF pPart = 1 THEN 0 ELSE one)
        /\ Position' = pPlace' + (IF pPart' = 1 THEN 0 ELSE one)
    BY <1>3 DEF Position
  <2>3. pPlace \in 1 .. here /\ (pPart = 1 => here = one) /\ (pPart = 2 => here = two)
    BY <1>2
  <2>4. \/ pPlace < here /\ pPlace' = pPlace + 1 /\ pPart' = pPart /\ pEnded' = pEnded
        \/ pPlace = here /\ pPart = 1 /\ pPart' = 2 /\ pPlace' = 1 /\ pEnded' = pEnded
        \/ /\ ~(pPlace < here) /\ ~(pPlace = here /\ pPart = 1)
           /\ pEnded' = "done" /\ pPart' = pPart /\ pPlace' = pPlace
    BY <1>2 DEF Program!Advances, Program!FirstOfRest
  <2> HIDE DEF one, two, here, all
  <2>5. \/ pPart' \in {1, 2} /\ pEnded' = "no" /\ Position' = n + 1
        \/ pPart' = pPart /\ pEnded' = "done" /\ n = all
    BY <1>2, <2>1, <2>2, <2>3, <2>4
  <2> QED BY <2>5 DEF all
<1>5. CASE pPart' \in {1, 2} /\ pEnded' = "no" /\ Position' = n + 1
  <2>1. pFaults = 0
    BY DEF CallsInv, OnCourse
  <2>2. OnCourse'
    BY <1>3, <1>5, <2>1 DEF OnCourse
  <2> QED BY <1>5, <2>2 DEF CleaningUp
<1>6. CASE pPart' = pPart /\ pEnded' = "done" /\ n = Len(Course(pProgram))
  <2>1. pInForce' = {}
    BY <1>1, <1>3, <1>6, StandingEnds
  <2> QED BY <1>2, <1>6, <2>1 DEF OnCourse, CleaningUp
<1> QED BY <1>4, <1>5, <1>6

LEMMA WorksOnCourse ==
  ASSUME CallsInv, Program!Works, pPart # 3
  PROVE  OnCourse' /\ CleaningUp' /\ ~pEarly' /\ (pEnded' = "done" => pInForce' = {})
<1>1. /\ pEnded = "no" /\ pInForce' = Program!After(Program!Step) /\ Program!Advances
      /\ pProgram' = pProgram /\ pFaults' = pFaults /\ pIgnored' = pIgnored
  BY DEF Program!Works
<1>2. /\ Position \in Nat \ {0} /\ Program!Step = Course(pProgram)[Position]
      /\ Program!Step[1] \notin Program!OfBoard \cup Program!Boardless => Program!Block \in pInForce
  BY <1>1, AtPosition
<1>3. ~pEarly'
  BY <1>2 DEF CallsInv, Program!Works
<1>4. PICK n : n = Position
  OBVIOUS
<1>5. \A s : s \in pInForce' <=> \/ s \in pInForce /\ ~Program!Undoes(Program!Step, s)
                                 \/ s = Program!Step /\ Program!Lasting(s)
  BY <1>1 DEF Program!After
<1>6. /\ \A s \in pInForce : Standing(pProgram, s, n)
      /\ \A s : Standing(pProgram, s, n) => s \in pInForce \cup pIgnored
  BY <1>1, <1>4 DEF CallsInv, OnCourse
<1>7. ASSUME NEW s
      PROVE  /\ s \in pInForce' => Standing(pProgram, s, n + 1)
             /\ Standing(pProgram, s, n + 1) => s \in pInForce' \cup pIgnored'
  <2>1. Standing(pProgram, s, n + 1) <=>
          \/ Standing(pProgram, s, n) /\ ~Program!Undoes(Program!Step, s)
          \/ s = Program!Step /\ Program!Lasting(s)
    BY <1>2, <1>4, StandingNext
  <2> QED BY <1>1, <1>5, <1>6, <2>1
<1> QED BY <1>1, <1>3, <1>4, <1>7, CourseGoesOn

\* What an ignored failure leaves undone is not counted on: it undoes nothing.
LEMMA IgnoresOnCourse ==
  ASSUME CallsInv, Program!Ignores
  PROVE  OnCourse' /\ CleaningUp' /\ ~pEarly' /\ (pEnded' = "done" => pInForce' = {})
<1>1. /\ pEnded = "no" /\ pInForce' = pInForce /\ Program!Advances
      /\ pProgram' = pProgram /\ pFaults' = pFaults /\ pIgnored' = pIgnored \cup {Program!Step}
      /\ Program!Step \in Program!Unchecked(pProgram)
  BY DEF Program!Ignores
<1>2. /\ pProgram \in Program!Programs /\ pPart \in 1 .. 3
      /\ pPlace \in 1 .. Len(Program!Text[pProgram][pPart])
      /\ Program!Step = Program!Text[pProgram][pPart][pPlace]
  BY DEF CallsInv, Program!TypeOK, Program!Step
<1>3. pPart # 3
  BY <1>1, <1>2, UncheckedAssumption
<1>4. /\ Position \in Nat \ {0} /\ Program!Step = Course(pProgram)[Position]
      /\ Position \in 1 .. Len(Course(pProgram)) /\ Len(Course(pProgram)) \in Nat
  BY <1>1, <1>2, <1>3, AtPosition, CourseIs
<1>5. ~pEarly'
  BY DEF CallsInv, Program!Ignores
<1>6. PICK n : n = Position
  OBVIOUS
<1>7. /\ \A s \in pInForce : Standing(pProgram, s, n)
      /\ \A s : Standing(pProgram, s, n) => s \in pInForce \cup pIgnored
  BY <1>1, <1>3, <1>6 DEF CallsInv, OnCourse
<1>8. ASSUME NEW s
      PROVE  /\ s \in pInForce' => Standing(pProgram, s, n + 1)
             /\ Standing(pProgram, s, n + 1) => s \in pInForce' \cup pIgnored'
  <2>1. Standing(pProgram, s, n + 1) <=>
          \/ Standing(pProgram, s, n) /\ ~Program!Undoes(Program!Step, s)
          \/ s = Program!Step /\ Program!Lasting(s)
    BY <1>4, <1>6, StandingNext
  <2>2. Standing(pProgram, s, n) => ~Program!Undoes(Program!Step, s)
    <3> SUFFICES ASSUME Standing(pProgram, s, n) PROVE ~Program!Undoes(Program!Step, s)
      OBVIOUS
    <3>1. PICK i \in 1 .. n - 1 : Course(pProgram)[i] = s
      BY DEF Standing
    <3>2. i \in 1 .. Len(Course(pProgram))
      BY <1>4, <1>6, <3>1
    <3> QED BY <1>1, <1>2, <3>1, <3>2, UncheckedAssumption
  <2> QED BY <1>1, <1>7, <2>1, <2>2
<1> QED BY <1>1, <1>3, <1>5, <1>6, <1>8, CourseGoesOn

LEMMA WorksInCleanup ==
  ASSUME CallsInv, Program!Works, pPart = 3
  PROVE  OnCourse' /\ CleaningUp' /\ ~pEarly' /\ (pEnded' = "done" => pInForce' = {})
<1>1. /\ pEnded = "no" /\ pInForce' = Program!After(Program!Step) /\ pPart' = 3
      /\ pProgram' = pProgram /\ pFaults' = pFaults
      /\ \/ pPlace < Len(Program!Text[pProgram][3]) /\ pPlace' = pPlace + 1 /\ pEnded' = "no"
         \/ ~(pPlace < Len(Program!Text[pProgram][3])) /\ pPlace' = pPlace /\ pEnded' = "failed"
  BY DEF Program!Works, Program!Advances
<1>2. /\ pProgram \in Program!Programs /\ pPlace \in 1 .. Len(Program!Text[pProgram][3])
      /\ Len(Program!Text[pProgram][3]) \in Nat
  BY CourseIs DEF CallsInv, Program!TypeOK
<1>3. ~pEarly'
  BY DEF CallsInv, Program!Works
<1>4. SUFFICES ASSUME pProgram # "TimerInterrupt", pFaults = 1
               PROVE  IF pEnded' = "no"
                        THEN /\ \A s \in pInForce' : \E j \in pPlace' .. Len(Program!Text[pProgram][3]) :
                                  Program!Undoes(Program!Text[pProgram][3][j], s)
                             /\ pInForce' # {} => Program!Open \in pInForce'
                        ELSE pInForce' = {}
  BY <1>1, <1>3 DEF CallsInv, OnCourse, CleaningUp
<1> DEFINE clean == Program!Text[pProgram][3]
<1>5. Program!Step = clean[pPlace] /\ clean # Program!None
  BY <1>2 DEF Program!Step, Program!None
<1>6. ~Program!Lasting(Program!Step) /\ (Program!Undoes(Program!Step, Program!Open) => pPlace = Len(clean))
  BY <1>2, <1>4, <1>5, CleanupAssumption
<1>7. pInForce' = {s \in pInForce : ~Program!Undoes(clean[pPlace], s)}
  BY <1>1, <1>5, <1>6 DEF Program!After
<1>8. /\ \A s \in pInForce : \E j \in pPlace .. Len(clean) : Program!Undoes(clean[j], s)
      /\ pInForce # {} => Program!Open \in pInForce
  BY <1>1, <1>4 DEF CallsInv, CleaningUp
<1>9. \A s \in pInForce' : \E j \in pPlace + 1 .. Len(clean) : Program!Undoes(clean[j], s)
  <2> SUFFICES ASSUME NEW s \in pInForce'
               PROVE  \E j \in pPlace + 1 .. Len(clean) : Program!Undoes(clean[j], s)
    OBVIOUS
  <2>1. PICK j \in pPlace .. Len(clean) : Program!Undoes(clean[j], s)
    BY <1>7, <1>8
  <2>2. j # pPlace
    BY <1>7, <2>1
  <2> QED BY <1>2, <2>1, <2>2
<1>10. CASE pPlace < Len(clean)
  BY <1>1, <1>2, <1>5, <1>6, <1>7, <1>8, <1>9, <1>10
<1>11. CASE ~(pPlace < Len(clean))
  BY <1>1, <1>2, <1>9, <1>11
<1> QED BY <1>10, <1>11

LEMMA FailsOnCourse ==
  ASSUME CallsInv, Program!Fails, pPart # 3
  PROVE  OnCourse' /\ CleaningUp' /\ ~pEarly' /\ (pEnded' = "done" => pInForce' = {})
<1>1. /\ pEnded = "no" /\ pProgram' = pProgram /\ pInForce' = pInForce /\ pEarly' = pEarly
      /\ pIgnored' = pIgnored
  BY DEF Program!Fails
<1>2. /\ pProgram \in Program!Programs /\ Position \in 1 .. Len(Course(pProgram)) /\ ~Program!MustFail
  BY <1>1, AtPosition
<1>3. pPart \in {1, 2} /\ pFaults = 0
  BY <1>1 DEF CallsInv, Program!TypeOK, OnCourse
<1>4. pFaults' = 1
  BY <1>2, <1>3 DEF Program!Fails
<1>5. /\ \A s \in pInForce : Standing(pProgram, s, Position)
      /\ \A s : Standing(pProgram, s, Position) => s \in pInForce \cup pIgnored
  BY <1>1 DEF CallsInv, OnCourse
<1>6. CASE pEnded' = "failed" /\ pPart' = pPart /\ pPlace' = pPlace
  <2>1. Position' = Position
    BY <1>1, <1>6 DEF Position
  <2>2. OnCourse'
    BY <1>1, <1>5, <1>6, <2>1 DEF OnCourse
  <2> QED BY <1>1, <1>3, <1>6, <2>2 DEF CallsInv, CleaningUp
<1>7. CASE Program!Text[pProgram][3] # Program!None /\ pPart' = 3 /\ pPlace' = 1 /\ pEnded' = pEnded
  <2> DEFINE clean == Program!Text[pProgram][3]
  <2>1. OnCourse' /\ ~pEarly' /\ pEnded' = "no"
    BY <1>1, <1>7 DEF OnCourse, CallsInv
  <2>2. SUFFICES ASSUME pProgram # "TimerInterrupt"
                 PROVE  /\ \A s \in pInForce : \E j \in 1 .. Len(clean) : Program!Undoes(clean[j], s)
                        /\ pInForce # {} => Program!Open \in pInForce
    BY <1>1, <1>4, <1>7, <2>1 DEF CleaningUp
  <2>3. ASSUME NEW s \in pInForce PROVE \E j \in 1 .. Len(clean) : Program!Undoes(clean[j], s)
    <3>1. PICK i \in 1 .. Position - 1 : Course(pProgram)[i] = s /\ Program!Lasting(s)
      BY <1>5 DEF Standing
    <3>2. i \in 1 .. Len(Course(pProgram))
      BY <1>2, <3>1, CourseIs
    <3> QED BY <1>2, <1>7, <2>2, <3>1, <3>2, CleanupAssumption
  <2>4. pInForce # {} => Program!Open \in pInForce
    <3> SUFFICES ASSUME NEW s \in pInForce PROVE Program!Open \in pInForce
      OBVIOUS
    <3>1. Standing(pProgram, Program!Open, Position)
      BY <1>2, <1>5, BoardStands
    <3>2. Program!Open \in pInForce \cup pIgnored /\ pIgnored \subseteq Program!Unchecked(pProgram)
      BY <1>5, <3>1 DEF CallsInv, Program!TypeOK
    <3> QED BY <1>2, <3>2, UncheckedAssumption
  <2> QED BY <2>3, <2>4
<1> QED BY <1>6, <1>7 DEF Program!Fails

LEMMA FailsInCleanup ==
  ASSUME CallsInv, Program!Fails, pPart = 3
  PROVE  OnCourse' /\ CleaningUp' /\ ~pEarly' /\ (pEnded' = "done" => pInForce' = {})
<1>1. /\ pEnded = "no" /\ pProgram' = pProgram /\ pInForce' = pInForce /\ pEarly' = pEarly
      /\ pPart' = 3 /\ pEnded' \in {"no", "failed"}
  BY DEF Program!Fails
<1>2. /\ pProgram \in Program!Programs /\ pPlace \in 1 .. Len(Program!Text[pProgram][3])
      /\ Len(Program!Text[pProgram][3]) \in Nat /\ pFaults \in Nat /\ pFaults > 0
  BY CourseIs, ProgramFaultsAssumption DEF CallsInv, Program!TypeOK, CleaningUp
<1>3. pFaults' = IF Program!MustFail THEN pFaults ELSE pFaults + 1
  BY DEF Program!Fails
<1>4. OnCourse' /\ ~pEarly' /\ pFaults' > 0 /\ pEnded' # "done"
  BY <1>1, <1>2, <1>3 DEF OnCourse, CallsInv
<1>5. CASE pFaults' # 1 \/ pProgram = "TimerInterrupt"
  BY <1>1, <1>4, <1>5 DEF CleaningUp
<1>6. CASE pFaults' = 1 /\ pProgram # "TimerInterrupt"
  <2> DEFINE clean == Program!Text[pProgram][3]
  <2>1. Program!MustFail /\ pFaults = 1
    BY <1>2, <1>3, <1>6
  <2>2. /\ \A s \in pInForce : \E j \in pPlace .. Len(clean) : Program!Undoes(clean[j], s)
        /\ pInForce # {} => Program!Open \in pInForce
    BY <1>1, <1>6, <2>1 DEF CallsInv, CleaningUp
  <2>3. Program!Step = clean[pPlace] /\ clean # Program!None
    BY <1>2 DEF Program!Step, Program!None
  <2>4. CASE Program!Again
    <3>0. ~Program!ExitsAtOnce(pProgram, Program!Step)
      BY <2>4 DEF Program!Again, Program!Reenters, Program!ExitsAtOnce
    <3>1. pPlace' = 1 /\ pEnded' = "no"
      BY <1>1, <2>3, <2>4, <3>0 DEF Program!Fails
    <3>2. \A j \in pPlace .. Len(clean) : j \in 1 .. Len(clean)
      BY <1>2
    <3>3. \A s \in pInForce : \E j \in 1 .. Len(clean) : Program!Undoes(clean[j], s)
      BY <2>2, <3>2
    <3> QED BY <1>1, <1>4, <2>2, <3>1, <3>3 DEF CleaningUp
  <2>5. CASE ~Program!Again
    <3>1. pEnded' = "failed"
      BY <2>5 DEF Program!Fails, Program!InCleanup
    <3>2. Program!Step[1] \notin Program!DmaFunctions
      BY <1>2, <1>6, <2>3, <2>5, CleanupAssumption DEF Program!Again
    <3>3. Program!Open \notin pInForce
      BY <2>1, <3>2 DEF Program!MustFail
    <3> QED BY <1>1, <1>4, <2>2, <3>1, <3>3 DEF CleaningUp
  <2> QED BY <2>4, <2>5
<1> QED BY <1>5, <1>6

LEMMA CallsInvStep == CallsInv /\ [Program!Next]_pVars => CallsInv'
<1> SUFFICES ASSUME CallsInv, [Program!Next]_pVars PROVE CallsInv'
  OBVIOUS
<1>1. Program!TypeOK'
  BY CallsStep DEF CallsInv
<1>2. CASE UNCHANGED pVars
  BY <1>1, <1>2 DEF pVars, CallsInv, OnCourse, CleaningUp, Position
<1>3. CASE Program!Works
  BY <1>1, <1>3, WorksOnCourse, WorksInCleanup DEF CallsInv
<1>4. CASE Program!Ignores
  BY <1>1, <1>4, IgnoresOnCourse DEF CallsInv
<1>5. CASE Program!Fails
  BY <1>1, <1>5, FailsOnCourse, FailsInCleanup DEF CallsInv
<1> QED BY <1>2, <1>3, <1>4, <1>5 DEF Program!Next

LEMMA CallsInvImplies == CallsInv => Program!OnlyIgnoredIsMissed /\ Program!EndsClean
<1> SUFFICES ASSUME CallsInv PROVE Program!OnlyIgnoredIsMissed /\ Program!EndsClean
  OBVIOUS
<1>1. Program!EndsClean
  BY DEF CallsInv, CleaningUp, Program!EndsClean
<1>2. ASSUME Program!BeforeMainLoop, Program!Producing
      PROVE  Program!Needed(pProgram) \subseteq pInForce \cup pIgnored
  <2>1. /\ pProgram \in Program!Programs /\ Len(Program!Text[pProgram][1]) \in Nat /\ pPart # 3
        /\ Position \in 1 .. Len(Program!Text[pProgram][1]) + 1
    BY <1>2, CourseIs DEF CallsInv, Program!TypeOK, Program!BeforeMainLoop, Position
  <2>2. PICK s \in pInForce : s \in Program!Producers
    BY <1>2 DEF Program!Producing
  <2>3. pEnded # "done"
    BY <2>2 DEF CallsInv
  <2>4. PICK n : n = Position
    OBVIOUS
  <2>5. /\ \A r \in pInForce : Standing(pProgram, r, n)
        /\ \A r : Standing(pProgram, r, n) => r \in pInForce \cup pIgnored
    BY <2>1, <2>3, <2>4 DEF CallsInv, OnCourse
  <2>6. PICK i \in 1 .. n - 1 : Course(pProgram)[i] = s
    BY <2>2, <2>5 DEF Standing
  <2>7. /\ i \in 1 .. Len(Program!Text[pProgram][1])
        /\ n \in i + 1 .. Len(Program!Text[pProgram][1]) + 1
    BY <2>1, <2>4, <2>6
  <2>8. \A r \in Program!Needed(pProgram) : Standing(pProgram, r, n)
    BY <2>1, <2>2, <2>6, <2>7, ClockLastAssumption
  <2> QED BY <2>5, <2>8
<1>3. Program!OnlyIgnoredIsMissed
  BY <1>2 DEF CallsInv, Program!OnlyIgnoredIsMissed
<1> QED BY <1>1, <1>3

\* Whatever calls fail, seen or not, the others of the programs are not in vain: the board
\* and the function block are open when they are needed; when a clock starts, all that the
\* DMA channels and interrupts need is set up but for what failed without the program's
\* looking at it; and a program that ends, by itself or by one failure that it has seen,
\* leaves nothing behind.
THEOREM CallsInOrder == Program!Spec => [](Program!OnlyIgnoredIsMissed /\ Program!EndsClean)
<1>1. UNCHANGED Program!vars => UNCHANGED pVars
  BY DEF Program!vars, pVars
<1>2. CallsInv /\ [Program!Next]_Program!vars => CallsInv'
  BY <1>1, CallsInvStep
<1> QED BY <1>2, CallsInvInit, CallsInvImplies, PTL DEF Program!Spec

----------------------------------------------------------------------------
\* The programs together

\* A step of the process is a step of one program, and the others stay as they are.
LEMMA ProgramSteps ==
  ASSUME [ProgramsNext]_allVars
  PROVE  /\ [Next]_streamVars /\ [Waiter!Next]_iVars /\ [Program!Next]_pVars
         /\ UNCHANGED part
<1> USE DEF allVars, OnlyStream, OnlyInterrupt, OnlyProgram
<1>1. CASE UNCHANGED allVars
  BY <1>1
<1>2. CASE StreamPart
  <2>1. UNCHANGED <<part, iVars, pVars>>
    BY <1>2, Zenon DEF StreamPart
  <2>2. Next
    BY <1>2, Zenon DEF StreamPart, Next, Callback, Main
  <2> QED BY <2>1, <2>2
<1>3. CASE InterruptPart
  <2>1. UNCHANGED <<part, streamVars, pVars>>
    BY <1>3, Zenon DEF InterruptPart
  <2>2. Waiter!Next
    BY <1>3, Zenon DEF InterruptPart, Waiter!Next, Waiter!Callback, Waiter!Main
  <2> QED BY <2>1, <2>2
<1>4. CASE ProgramPart
  BY <1>4, Zenon DEF ProgramPart, Program!Next
<1> QED BY <1>1, <1>2, <1>3, <1>4, Zenon DEF ProgramsNext

\* A process that MCPrograms runs is, in the variables of each kind of program, a
\* behaviour of that kind's own specification.
THEOREM ProgramsAreTheirParts == ProgramsSpec => Spec /\ Waiter!Spec /\ Program!Spec
<1>1. ProgramsInit => Init /\ Waiter!Init /\ Program!Init
  BY DEF ProgramsInit
<1>2. [ProgramsNext]_allVars => [Next]_vars /\ [Waiter!Next]_Waiter!vars /\ [Program!Next]_Program!vars
  <2> SUFFICES ASSUME [ProgramsNext]_allVars
               PROVE  [Next]_vars /\ [Waiter!Next]_Waiter!vars /\ [Program!Next]_Program!vars
    OBVIOUS
  <2>1. /\ UNCHANGED streamVars => UNCHANGED vars
        /\ UNCHANGED iVars => UNCHANGED Waiter!vars
        /\ UNCHANGED pVars => UNCHANGED Program!vars
    BY DEF streamVars, vars, iVars, pVars, Waiter!vars, Program!vars,
       Waiter!interrupt, Waiter!callback, Waiter!lock, Waiter!counts
  <2> QED BY <2>1, ProgramSteps
<1> QED BY <1>1, <1>2, PTL DEF ProgramsSpec, Spec, Waiter!Spec, Program!Spec

\* A process is of one kind.
LEMMA PartStays == ProgramsSpec => [](part \in {"stream", "interrupt", "program"})
<1>1. ProgramsInit => part \in {"stream", "interrupt", "program"}
  BY DEF ProgramsInit
<1>2. part \in {"stream", "interrupt", "program"} /\ [ProgramsNext]_allVars
        => (part \in {"stream", "interrupt", "program"})'
  BY ProgramSteps
<1> QED BY <1>1, <1>2, PTL DEF ProgramsSpec

\* The variables of every program are what they are declared to be, with any
\* number of buffers, chunks, interrupts and failures.
THEOREM PartsTyped == ProgramsSpec => []PartsTypeOK
<1>1. part \in {"stream", "interrupt", "program"} /\ TypeOK /\ Waiter!TypeOK /\ Program!TypeOK
        => PartsTypeOK
  BY Zenon DEF PartsTypeOK
<1> QED BY <1>1, PartStays, ProgramsAreTheirParts, StreamTyped, Waits, CallsTyped, PTL

\* DataSound, of the process that MCPrograms runs.
THEOREM DataIsAlwaysSound == ProgramsSpec => []DataIsSound
BY ProgramsAreTheirParts, DataSound, PTL

\* No interrupt is counted twice, of the process that MCPrograms runs.
THEOREM AllCountedOnce == ProgramsSpec => []CountedOnce
BY ProgramsAreTheirParts, Waits, PTL DEF CountedOnce

\* The clocks start when everything that takes the samples is ready, but for what failed
\* and was not looked at, and a program that ends leaves nothing running, and no callback:
\* of the process that MCPrograms runs, with any number of failures.
THEOREM CallsAlwaysOrdered == ProgramsSpec => []CallsAreOrdered
BY ProgramsAreTheirParts, CallsInOrder, PTL DEF CallsAreOrdered

\* A program that streams never sleeps while the buffer it takes next is filled, and one
\* that waits for interrupts never while one is in the register that nobody tells it of.
THEOREM NothingMissed == ProgramsSpec => []NothingUnnoticed
<1>1. ReportedIsNoticed /\ Waiter!RaisedIsNoticed => NothingUnnoticed
  BY DEF NothingUnnoticed
<1> QED BY <1>1, ProgramsAreTheirParts, DataNoticed, InterruptsNoticed, PTL
============================================================================
