---------------------------- MODULE SignalProofs ----------------------------
(***************************************************************************)
(* What is recorded and what is made of it: find_offset on signals of one  *)
(* length, for every length and every value of the samples, the edge       *)
(* agent's rolling buffers, for every window, and the container of a       *)
(* clip's frames, for every window and wherever it is cut or damaged.      *)
(*                                                                         *)
(* The sums of a correlation are never evaluated: two correlations are     *)
(* equal because they add the same terms.                                  *)
(***************************************************************************)
EXTENDS MCSignals, EdgeCapture, SequenceTheorems, NaturalsInduction, WellFoundedInduction, TLAPS

LEMMA SignalsAreSequences ==
  ASSUME NEW s \in Sync!Signals
  PROVE  s \in Seq(Samples) /\ Len(s) \in Nat /\ Len(Sync!Demeaned(s)) = Len(s)
<1>1. PICK n \in 0..MaxLength : s \in [1..n -> Samples]
  BY DEF Sync!Signals
<1>2. n \in Nat
  BY TimeSyncConstants
<1>3. s \in Seq(Samples) /\ Len(s) = n
  BY <1>1, <1>2
<1>4. Len(Sync!Demeaned(s)) = n
  BY <1>2, <1>3 DEF Sync!Demeaned
<1> QED
  BY <1>2, <1>3, <1>4

\* A ring that holds every lag once keeps them apart: position lag % size of the
\* circular correlation is the linear correlation at that lag.
LEMMA LagsDoNotAlias ==
  ASSUME NEW r, NEW t, NEW len \in Nat, len >= 1, Len(r) = len, Len(t) = len,
         NEW size \in Nat, size >= Sync!FullLength(r, t),
         NEW lag \in Sync!Overlaps(r, t)
  PROVE  Sync!CircularCorrelation(r, t, size, lag % size) = Sync!LinearCorrelation(r, t, lag)
<1>1. lag \in Int /\ lag >= 1 - len /\ lag <= len - 1 /\ size >= 2 * len - 1
  BY DEF Sync!Overlaps, Sync!FullLength
<1>2. ASSUME NEW n \in 0..len - 1
      PROVE  Sync!Sample(t, (n + (lag % size)) % size) = Sync!Sample(t, n + lag)
  <2>1. CASE lag >= 0
    <3>1. lag % size = lag
      BY <1>1, <2>1
    <3>2. (n + lag) % size = n + lag
      BY <1>1, <2>1
    <3> QED
      BY <3>1, <3>2
  <2>2. CASE lag < 0
    <3>1. lag % size = lag + size
      BY <1>1, <2>2
    <3>2. CASE n + lag >= 0
      <4>1. (n + (lag + size)) % size = n + lag
        BY <1>1, <2>2, <3>2
      <4> QED
        BY <3>1, <4>1
    <3>3. CASE n + lag < 0
      <4>1. (n + (lag + size)) % size = n + lag + size
        BY <1>1, <2>2, <3>3
      <4>2. n + lag + size \notin 0..len - 1 /\ n + lag \notin 0..len - 1
        BY <1>1, <3>3
      <4> QED
        BY <3>1, <4>1, <4>2 DEF Sync!Sample
    <3> QED
      BY <1>1, <3>2, <3>3
  <2> QED
    BY <1>1, <2>1, <2>2
<1>3. [n \in 0..Len(r) - 1 |-> Sync!Sample(r, n) * Sync!Sample(t, (n + (lag % size)) % size)]
        = [n \in 0..Len(r) - 1 |-> Sync!Sample(r, n) * Sync!Sample(t, n + lag)]
  BY <1>2
<1> QED
  BY <1>3 DEF Sync!CircularCorrelation, Sync!LinearCorrelation

\* What the steps keep about the signals, and what Correlate leaves behind.
Aligned ==
  /\ reference \in Sync!Signals /\ target \in Sync!Signals
  /\ fft_size \in Nat
  /\ fft_size # 0 => Len(reference) >= Sync!MIN_SAMPLES /\ Len(target) >= Sync!MIN_SAMPLES
  /\ Sync!EqualLengthsAlign

LEMMA AlignedInit == Sync!Init => Aligned
BY TimeSyncConstants DEF Sync!Init, Sync!NoLag, Aligned, Sync!EqualLengthsAlign

\* Every lag is looked at, and the ring is large enough when the search starts.
LEMMA CorrelateAligns ==
  ASSUME Aligned, Sync!Correlate, Len(reference) = Len(target)
  PROVE  Sync!IsBestLag(Sync!Demeaned(reference), Sync!Demeaned(target), result'.lag)
<1> DEFINE r == Sync!Demeaned(reference)
           t == Sync!Demeaned(target)
           len == Len(reference)
           correlation == [lag \in Sync!Lags(r, t) |->
                             Sync!CircularCorrelation(r, t, fft_size, lag % fft_size)]
<1>1. len \in Nat /\ len >= 2 /\ Len(r) = len /\ Len(t) = len
  BY SignalsAreSequences DEF Aligned, Sync!Correlate, Sync!MIN_SAMPLES
<1>2. fft_size \in Nat /\ fft_size >= Sync!FullLength(r, t)
  BY <1>1 DEF Aligned, Sync!Correlate, Sync!FullLength
<1>3. Sync!Lags(r, t) = Sync!Overlaps(r, t)
  BY <1>1 DEF Sync!Lags, Sync!Overlaps
<1>4. PICK best \in DOMAIN correlation :
        /\ \A lag \in DOMAIN correlation : correlation[lag] <= correlation[best]
        /\ result' = [error |-> "none", lag |-> best, peak |-> correlation[best]]
  BY DEF Sync!Correlate
<1>5. \A lag \in Sync!Overlaps(r, t) : correlation[lag] = Sync!LinearCorrelation(r, t, lag)
  BY <1>1, <1>2, <1>3, LagsDoNotAlias
<1>6. best \in Sync!Overlaps(r, t) /\ DOMAIN correlation = Sync!Overlaps(r, t) /\ result'.lag = best
  BY <1>3, <1>4
<1> HIDE DEF correlation
<1>7. \A lag \in Sync!Overlaps(r, t) :
        Sync!LinearCorrelation(r, t, lag) <= Sync!LinearCorrelation(r, t, best)
  BY <1>4, <1>5, <1>6
<1> QED
  BY <1>6, <1>7 DEF Sync!IsBestLag

LEMMA AlignedNext == Aligned /\ [Sync!Next]_Sync!vars => Aligned'
<1> SUFFICES ASSUME Aligned, [Sync!Next]_Sync!vars PROVE Aligned'
  OBVIOUS
<1>1. CASE Sync!ExtractionFails
  BY <1>1, TimeSyncConstants
  DEF Sync!ExtractionFails, Sync!Raise, Sync!NoLag, Aligned, Sync!EqualLengthsAlign
<1>2. CASE Sync!AcceptSignals
  <2>1. Len(reference) \in Nat /\ Len(target) \in Nat
    BY SignalsAreSequences DEF Aligned
  <2>2. result'.error # "none"
    BY <1>2, TimeSyncConstants DEF Sync!AcceptSignals, Sync!Raise, Sync!NoLag
  <2> QED
    BY <1>2, <2>1, <2>2 DEF Sync!AcceptSignals, Aligned, Sync!EqualLengthsAlign, Sync!MIN_SAMPLES
<1>3. CASE Sync!Double
  BY <1>3, TimeSyncConstants DEF Sync!Double, Aligned, Sync!EqualLengthsAlign
<1>4. CASE Sync!Correlate
  <2>1. Sync!EqualLengthsAlign'
    BY <1>4, CorrelateAligns DEF Sync!Correlate, Sync!EqualLengthsAlign
  <2> QED
    BY <1>4, <2>1 DEF Sync!Correlate, Aligned
<1>5. CASE UNCHANGED Sync!vars
  BY <1>5 DEF Sync!vars, Aligned, Sync!EqualLengthsAlign
<1> QED
  BY <1>1, <1>2, <1>3, <1>4, <1>5 DEF Sync!Next, Sync!Finished

\* find_offset on two signals of one length returns a lag at which they align
\* best, by the definition that knows of no transform, whatever the length.
THEOREM EqualLengthsAlwaysAlign == Sync!Spec => []EqualLengthsAlign
<1>1. Aligned => EqualLengthsAlign
  BY DEF Aligned, EqualLengthsAlign
<1> QED
  BY <1>1, AlignedInit, AlignedNext, PTL DEF Sync!Spec

-----------------------------------------------------------------------------
(* The rolling buffers *)

\* Where a prefix that is dropped ends: the least of some numbers.
LEMMA LeastExists ==
  ASSUME NEW S, S \subseteq Nat, S # {}
  PROVE  \E x \in S : \A y \in S : x <= y
<1> DEFINE R == OpToRel(<, Nat)
<1>1. IsWellFoundedOn(R, Nat)
  BY NatLessThanWellFounded
<1>2. PICK x \in S : \A y \in S : ~ (<<y, x>> \in R)
  <2> HIDE DEF R
  <2> QED
    BY <1>1, WFMin
<1>3. ASSUME NEW y \in S, y < x
      PROVE  <<y, x>> \in R
  BY <1>3 DEF OpToRel
<1> HIDE DEF R
<1>4. \A y \in S : ~(y < x)
  BY <1>2, <1>3
<1>5. \A y \in S : x \in Nat /\ y \in Nat
  OBVIOUS
<1> QED
  BY <1>4, <1>5

\* What Add keeps begins with the first item that the newest one's cutoff spares.
LEMMA KeptIsSuffix ==
  ASSUME Window \in Nat, NEW T, NEW items \in Seq(T), NEW stamps \in Seq(Nat),
         Len(stamps) = Len(items), Len(items) > 0
  PROVE  \E first \in 1..Len(items) :
           /\ Kept(items, stamps) = SubSeq(items, first, Len(items))
           /\ stamps[first] + Window >= stamps[Len(items)]
           /\ \A j \in 1..(first - 1) : stamps[j] + Window < stamps[Len(items)]
<1> DEFINE n == Len(items)
           cutoff == stamps[n] - Window
           First(i) == stamps[i] >= cutoff /\ \A j \in 1..(i - 1) : stamps[j] < cutoff
           S == {i \in 1..n : stamps[i] >= cutoff}
<1>1. n \in Nat /\ n >= 1 /\ \A i \in 1..n : stamps[i] \in Nat
  OBVIOUS
<1>2. n \in S /\ S \subseteq Nat
  BY <1>1
<1>3. PICK least \in S : \A y \in S : least <= y
  <2> HIDE DEF S
  <2> QED
    BY <1>2, LeastExists
<1>4. least \in 1..n /\ First(least)
  BY <1>1, <1>3
<1>5. PICK first \in 1..n : first = (CHOOSE i \in 1..n : First(i)) /\ First(first)
  <2> HIDE DEF First
  <2> QED
    BY <1>4
<1>6. Kept(items, stamps) = SubSeq(items, first, n)
  BY <1>5 DEF Kept
<1>7. stamps[first] + Window >= stamps[n]
  BY <1>1, <1>5
<1>8. ASSUME NEW j \in 1..(first - 1)
      PROVE  stamps[j] + Window < stamps[n]
  <2>1. j \in 1..n /\ stamps[j] < stamps[n] - Window
    BY <1>1, <1>5
  <2> QED
    BY <1>1, <2>1
<1> QED
  BY <1>6, <1>7, <1>8

Chunks == [pos : Nat, at : Nat, recorded : Nat]

\* The stamps in the order of the reads, and what the ring has kept of them.
VideoInv ==
  /\ Window \in Nat
  /\ now \in Nat
  /\ held \in {<<>>} \cup {<<s>> : s \in Nat}
  /\ added \in Seq(Nat)
  /\ \A i, j \in 1..Len(added) : i <= j => added[i] <= added[j]
  /\ \A i \in 1..Len(added) : added[i] <= now /\ (held # <<>> => added[i] <= held[1])
  /\ held # <<>> => held[1] <= now
  /\ VideoWindowIsExact

\* Whether the driver has a chunk in hand or not, chunks are stamped and kept
\* by the count of the chunks before them.
ChunkInv ==
  heldChunk # <<>> =>
    \E c \in Chunks : heldChunk = <<c>> /\ c.at = c.pos /\ samplesRead = c.pos + 1

\* The chunks of the window that ends after n chunks.
HoldsLast(n) ==
  LET len == Len(audioRing)
  IN  /\ len = IF n <= Window THEN n ELSE Window + 1
      /\ \A i \in 1..len : audioRing[i].pos = n - len + i - 1 /\ audioRing[i].at = audioRing[i].pos

AudioInv ==
  /\ samplesRead \in Nat /\ lost \in Nat
  /\ ChunkInv
  /\ audioRing \in Seq(Chunks)
  /\ \E n \in Nat : n + Len(heldChunk) = samplesRead /\ HoldsLast(n)

LEMMA InitCapture == Init => VideoInv /\ AudioInv
<1> SUFFICES ASSUME Window \in Nat, Init
             PROVE  VideoInv /\ AudioInv
  BY CaptureConstants DEF CaptureConstants
<1>1. SubSeq(added, 1, 0) = <<>> /\ Len(added) = 0
  BY DEF Init
<1>2. VideoWindowIsExact
  BY <1>1 DEF Init, VideoWindowIsExact
<1>3. VideoInv
  BY <1>1, <1>2 DEF Init, VideoInv
<1>4. heldChunk = <<>> /\ samplesRead = 0 /\ lost = 0 /\ audioRing = <<>>
  BY DEF Init
<1>5. Len(heldChunk) = 0 /\ Len(audioRing) = 0 /\ audioRing \in Seq(Chunks)
  BY <1>4
<1>6. ChunkInv
  BY <1>4 DEF ChunkInv
<1>7. 0 + Len(heldChunk) = samplesRead /\ HoldsLast(0)
  BY <1>4, <1>5 DEF HoldsLast
<1>8. AudioInv
  BY <1>4, <1>5, <1>6, <1>7 DEF AudioInv
<1> QED
  BY <1>3, <1>8

LEMMA Appended ==
  ASSUME NEW T, NEW s \in Seq(T), NEW e \in T, NEW n \in Nat, n = Len(s)
  PROVE  /\ s \o <<e>> \in Seq(T)
         /\ Len(s \o <<e>>) = n + 1
         /\ (s \o <<e>>)[n + 1] = e
         /\ \A i \in 1..n : (s \o <<e>>)[i] = s[i]
OBVIOUS

\* A suffix of the stamps, one stamp longer, cut again at the first one that is
\* still in the window: again a suffix, and of all stamps.
LEMMA SuffixMoves ==
  ASSUME NEW W \in Nat, NEW n \in Nat, NEW k \in 1..(n + 1), NEW m \in Nat, m = n + 2 - k,
         NEW a \in Seq(Nat), Len(a) = n + 1, \A i \in 1..(n + 1) : a[i] \in Nat,
         \A i, j \in 1..(n + 1) : i <= j => a[i] <= a[j],
         \A i \in 1..(n + 1) : i < k => a[i] + W < a[n + 1],
         NEW grown \in Seq(Nat), Len(grown) = m,
         \A i \in 1..m : grown[i] = a[k + i - 1],
         NEW first \in 1..m,
         grown[first] + W >= grown[m],
         \A j \in 1..(first - 1) : grown[j] + W < grown[m]
  PROVE  /\ SubSeq(grown, first, m) = SubSeq(a, k + first - 1, n + 1)
         /\ \A i \in 1..(n + 1) : i >= k + first - 1 <=> a[i] + W >= a[n + 1]
<1>1. PICK next \in 1..(n + 1) : next = k + first - 1
  OBVIOUS
<1>3. grown[m] = a[n + 1]
  <2>1. m \in 1..m /\ k + m - 1 = n + 1
    OBVIOUS
  <2> QED
    BY <2>1
<1>4. SubSeq(grown, first, m) = SubSeq(a, next, n + 1)
  <2>1. SubSeq(grown, first, m) = [i \in 1..(m - first + 1) |-> grown[first + i - 1]]
    OBVIOUS
  <2>2. SubSeq(a, next, n + 1) = [i \in 1..(n + 1 - next + 1) |-> a[next + i - 1]]
    OBVIOUS
  <2>3. n + 1 - next + 1 = m - first + 1
    BY <1>1
  <2>4. ASSUME NEW i \in 1..(m - first + 1)
        PROVE  grown[first + i - 1] = a[next + i - 1]
    <3>1. first + i - 1 \in 1..m /\ k + (first + i - 1) - 1 = next + i - 1
      BY <1>1
    <3> QED
      BY <3>1
  <2> QED
    BY <2>1, <2>2, <2>3, <2>4
<1>5. ASSUME NEW i \in 1..(n + 1)
      PROVE  i >= next <=> a[i] + W >= a[n + 1]
  <2>1. CASE i >= next
    <3>1. grown[first] = a[next] /\ a[next] <= a[i]
      BY <1>1, <2>1
    <3> QED
      BY <1>3, <2>1, <3>1
  <2>2. CASE i >= k /\ i < next
    <3>1. PICK j \in 1..(first - 1) : j = i - k + 1
      BY <1>1, <2>2
    <3>2. j \in 1..m /\ k + j - 1 = i
      BY <3>1
    <3>3. grown[j] = a[i] /\ grown[j] + W < grown[m]
      BY <3>2
    <3> QED
      BY <1>3, <2>2, <3>3
  <2>3. CASE i < k
    <3>1. a[i] + W < a[n + 1] /\ i < next
      BY <1>1, <2>3
    <3> QED
      BY <3>1
  <2> QED
    BY <1>1, <2>1, <2>2, <2>3
<1> QED
  BY <1>1, <1>4, <1>5

\* RingBuffer.Add: the window moves on with the newest frame, and what it has
\* dropped before stays out of it.
LEMMA AddFrameV ==
  ASSUME Window \in Nat, VideoInv, AddFrame
  PROVE  VideoInv'
<1>1. PICK s \in Nat : held = <<s>>
  BY DEF VideoInv, AddFrame
<1>2. PICK n \in Nat : n = Len(added)
  BY DEF VideoInv
<1>3. PICK k \in 1..(n + 1) :
        /\ ring = SubSeq(added, k, n)
        /\ \A i \in 1..n : i >= k <=> added[i] + Window >= added[n]
  BY <1>2 DEF VideoInv, VideoWindowIsExact
<1>4. PICK m \in Nat : m = n + 2 - k /\ m >= 1
  OBVIOUS
<1>5. \A i \in 1..n : added[i] \in Nat /\ added[i] <= s
  BY <1>1, <1>2 DEF VideoInv
<1> DEFINE grown == ring \o <<s>>
<1>6. /\ added' = added \o <<s>> /\ held' = <<>> /\ now' = now
      /\ ring' = Kept(grown, grown)
  BY <1>1 DEF AddFrame, KeptFrames
<1>7. /\ added' \in Seq(Nat) /\ Len(added') = n + 1 /\ added'[n + 1] = s
      /\ \A i \in 1..n : added'[i] = added[i]
  BY <1>2, <1>6, Appended DEF VideoInv
<1>8. ring \in Seq(Nat) /\ Len(ring) = m - 1 /\ \A i \in 1..(m - 1) : ring[i] = added[k + i - 1]
  <2>1. ring = [i \in 1..(n - k + 1) |-> added[k + i - 1]]
    BY <1>2, <1>3 DEF VideoInv
  <2>2. \A i \in 1..(n - k + 1) : k + i - 1 \in 1..n
    OBVIOUS
  <2>3. n - k + 1 = m - 1 /\ m - 1 \in Nat
    BY <1>4
  <2>4. ring \in Seq(Nat)
    BY <1>2, <1>3, SubSeqProperties DEF VideoInv
  <2> QED
    BY <2>1, <2>3, <2>4
<1>9. /\ grown \in Seq(Nat) /\ Len(grown) = m /\ grown[m] = s
      /\ \A i \in 1..(m - 1) : grown[i] = ring[i]
  <2>1. PICK l \in Nat : l = m - 1 /\ l + 1 = m
    BY <1>4
  <2>2. Len(ring) = l /\ ring \in Seq(Nat)
    BY <1>8, <2>1
  <2>3. /\ grown \in Seq(Nat) /\ Len(grown) = l + 1 /\ grown[l + 1] = s
        /\ \A i \in 1..l : grown[i] = ring[i]
    BY <2>2, Appended
  <2> QED
    BY <2>1, <2>3
<1>10. ASSUME NEW i \in 1..m
       PROVE  grown[i] = added'[k + i - 1]
  <2>1. CASE i = m
    <3>1. k + i - 1 = n + 1
      BY <1>4, <2>1
    <3> QED
      BY <1>7, <1>9, <2>1, <3>1
  <2>2. CASE i # m
    <3>1. i \in 1..(m - 1) /\ k + i - 1 \in 1..n
      BY <1>4, <2>2
    <3>2. grown[i] = ring[i] /\ ring[i] = added[k + i - 1]
      BY <1>8, <1>9, <3>1
    <3> QED
      BY <1>7, <3>1, <3>2
  <2> QED
    BY <2>1, <2>2
<1> HIDE DEF grown
<1>11. PICK first \in 1..m :
        /\ ring' = SubSeq(grown, first, m)
        /\ grown[first] + Window >= grown[m]
        /\ \A j \in 1..(first - 1) : grown[j] + Window < grown[m]
  <2>1. Len(grown) > 0
    BY <1>4, <1>9
  <2> QED
    BY <1>6, <1>9, <2>1, KeptIsSuffix
<1>12. ASSUME NEW i \in 1..(n + 1), NEW j \in 1..(n + 1), i <= j
       PROVE  added'[i] <= added'[j]
  <2>1. CASE j = n + 1
    BY <1>5, <1>7, <2>1
  <2>2. CASE j # n + 1
    <3>1. i \in 1..n /\ j \in 1..n
      BY <1>12, <2>2
    <3>2. added[i] <= added[j]
      BY <1>2, <1>12, <3>1 DEF VideoInv
    <3> QED
      BY <1>7, <3>1, <3>2
  <2> QED
    BY <2>1, <2>2
<1>13. ASSUME NEW i \in 1..(n + 1), i < k
       PROVE  added'[i] + Window < added'[n + 1]
  <2>1. i \in 1..n /\ n \in 1..n /\ ~(i >= k)
    BY <1>13
  <2>2. added[i] + Window < added[n] /\ added[n] <= s
    BY <1>3, <1>5, <2>1
  <2> QED
    BY <1>5, <1>7, <2>1, <2>2
<1>14. /\ ring' = SubSeq(added', k + first - 1, n + 1)
       /\ \A i \in 1..(n + 1) : i >= k + first - 1 <=> added'[i] + Window >= added'[n + 1]
  <2>1. PICK a \in Seq(Nat) : a = added'
    BY <1>7
  <2>2. Len(a) = n + 1 /\ \A i \in 1..(n + 1) : a[i] \in Nat
    BY <1>5, <1>7, <2>1
  <2>3. /\ \A i, j \in 1..(n + 1) : i <= j => a[i] <= a[j]
        /\ \A i \in 1..(n + 1) : i < k => a[i] + Window < a[n + 1]
        /\ \A i \in 1..m : grown[i] = a[k + i - 1]
    BY <1>10, <1>12, <1>13, <2>1
  <2>4. /\ SubSeq(grown, first, m) = SubSeq(a, k + first - 1, n + 1)
        /\ \A i \in 1..(n + 1) : i >= k + first - 1 <=> a[i] + Window >= a[n + 1]
    BY <1>4, <1>9, <1>11, <2>2, <2>3, SuffixMoves
  <2> QED
    BY <1>11, <2>1, <2>4
<1>15. PICK next \in 1..((n + 1) + 1) : next = k + first - 1
  BY <1>4
<1>16. VideoWindowIsExact'
  <2>1. \E j \in 1..(Len(added') + 1) :
          /\ ring' = SubSeq(added', j, Len(added'))
          /\ \A i \in 1..Len(added') : i >= j <=> added'[i] + Window >= added'[Len(added')]
    BY <1>7, <1>14, <1>15
  <2> QED
    BY <2>1 DEF VideoWindowIsExact
<1>17. \A i \in 1..(n + 1) : added'[i] <= now'
  <2>1. s <= now /\ now \in Nat
    BY <1>1 DEF VideoInv
  <2> QED
    BY <1>5, <1>6, <1>7, <2>1
<1> QED
  BY <1>6, <1>7, <1>12, <1>16, <1>17 DEF VideoInv

\* AudioRingBuffer.Add: chunks that are one tick apart fill the window and then
\* move it on by one, one for one.
LEMMA AddChunkA ==
  ASSUME Window \in Nat, AudioInv, AddChunk
  PROVE  AudioInv'
<1>1. PICK c \in Chunks : heldChunk = <<c>> /\ c.at = c.pos /\ samplesRead = c.pos + 1
  BY DEF AudioInv, ChunkInv, AddChunk
<1>2. Len(heldChunk) = 1 /\ c.pos \in Nat
  BY <1>1 DEF Chunks
<1>3. PICK n \in Nat : n + Len(heldChunk) = samplesRead /\ HoldsLast(n)
  BY DEF AudioInv
<1>4. n = c.pos /\ samplesRead = n + 1
  BY <1>1, <1>2, <1>3
<1>5. PICK len \in Nat : len = Len(audioRing) /\ len = IF n <= Window THEN n ELSE Window + 1
  BY <1>3 DEF AudioInv, HoldsLast
<1>6. \A i \in 1..len : audioRing[i].pos = n - len + i - 1 /\ audioRing[i].at = audioRing[i].pos
  BY <1>3, <1>5 DEF HoldsLast
<1> DEFINE chunks == audioRing \o <<c>>
           stamps == [i \in 1..Len(chunks) |-> chunks[i].at]
<1>7. /\ chunks \in Seq(Chunks) /\ Len(chunks) = len + 1 /\ chunks[len + 1] = c
      /\ \A i \in 1..len : chunks[i] = audioRing[i]
  <2>1. audioRing \in Seq(Chunks)
    BY DEF AudioInv
  <2>2. len = Len(audioRing) /\ len \in Nat /\ c \in Chunks
    BY <1>5
  <2>3. /\ audioRing \o <<c>> \in Seq(Chunks) /\ Len(audioRing \o <<c>>) = len + 1
        /\ (audioRing \o <<c>>)[len + 1] = c
        /\ \A i \in 1..len : (audioRing \o <<c>>)[i] = audioRing[i]
    BY <2>1, <2>2, Appended
  <2> QED
    BY <2>3
<1>8. ASSUME NEW i \in 1..(len + 1)
      PROVE  chunks[i].pos = n - len + i - 1 /\ chunks[i].at = chunks[i].pos /\ chunks[i].at \in Nat
  <2>0. chunks[i] \in Chunks
    BY <1>7, ElementOfSeq
  <2>1. chunks[i].at \in Nat
    BY <2>0 DEF Chunks
  <2>2. CASE i = len + 1
    <3>1. n - len + i - 1 = n
      BY <2>2
    <3> QED
      BY <1>1, <1>4, <1>7, <2>1, <2>2, <3>1
  <2>3. CASE i # len + 1
    <3>1. i \in 1..len
      BY <2>3
    <3> QED
      BY <1>6, <1>7, <2>1, <3>1
  <2> QED
    BY <2>2, <2>3
<1>9. /\ audioRing' = Kept(chunks, stamps)
      /\ heldChunk' = <<>> /\ samplesRead' = samplesRead /\ lost' = lost
  BY <1>1 DEF AddChunk, KeptChunks
<1> HIDE DEF chunks
<1>10. /\ stamps \in Seq(Nat) /\ Len(stamps) = len + 1
       /\ \A i \in 1..(len + 1) : stamps[i] = n - len + i - 1
  BY <1>7, <1>8
<1> HIDE DEF stamps
<1>11. PICK first \in 1..(len + 1) :
        /\ audioRing' = SubSeq(chunks, first, len + 1)
        /\ stamps[first] + Window >= stamps[len + 1]
        /\ \A j \in 1..(first - 1) : stamps[j] + Window < stamps[len + 1]
  <2>1. Len(chunks) > 0
    BY <1>7
  <2> QED
    BY <1>7, <1>9, <1>10, <2>1, KeptIsSuffix
<1>12. PICK kept \in Nat : kept = len + 2 - first
  OBVIOUS
<1>13. kept = IF n + 1 <= Window THEN n + 1 ELSE Window + 1
  <2>1. n - len + first - 1 + Window >= n
    BY <1>10, <1>11
  <2>2. ASSUME NEW j \in 1..(first - 1)
        PROVE  n - len + j - 1 + Window < n
    <3>1. j \in 1..(len + 1) /\ len + 1 \in 1..(len + 1)
      OBVIOUS
    <3>2. stamps[j] = n - len + j - 1 /\ stamps[len + 1] = n
      BY <1>10, <3>1
    <3>3. stamps[j] + Window < stamps[len + 1]
      BY <1>11
    <3> QED
      BY <3>2, <3>3
  <2>3. CASE n <= Window
    <3>1. len = n
      BY <1>5, <2>3
    <3>2. first = 1
      <4>1. first > 1 => 1 \in 1..(first - 1)
        OBVIOUS
      <4>2. first > 1 => n - len + 1 - 1 + Window < n
        BY <2>2, <4>1
      <4> QED
        BY <2>3, <3>1, <4>2
    <3> QED
      BY <1>12, <2>3, <3>1, <3>2
  <2>4. CASE n > Window
    <3>1. len = Window + 1
      BY <1>5, <2>4
    <3>2. first = 2
      <4>1. first > 2 => 2 \in 1..(first - 1)
        OBVIOUS
      <4>2. first > 2 => n - len + 2 - 1 + Window < n
        BY <2>2, <4>1
      <4> QED
        BY <2>1, <3>1, <4>2
    <3> QED
      BY <1>12, <2>4, <3>1, <3>2
  <2> QED
    BY <2>3, <2>4
<1>14. /\ audioRing' \in Seq(Chunks) /\ Len(audioRing') = kept
       /\ \A i \in 1..kept : audioRing'[i] = chunks[first + i - 1]
  <2>1. \A i \in first..(len + 1) : chunks[i] \in Chunks
    BY <1>7
  <2>2. first <= len + 1 /\ (len + 1) - first + 1 = kept
    BY <1>12
  <2> QED
    BY <1>11, <2>1, <2>2, SubSeqProperties
<1>15. ASSUME NEW i \in 1..kept
       PROVE  audioRing'[i].pos = n + 1 - kept + i - 1 /\ audioRing'[i].at = audioRing'[i].pos
  <2>1. PICK j \in 1..(len + 1) : j = first + i - 1
    BY <1>12
  <2>2. n - len + j - 1 = n + 1 - kept + i - 1
    BY <1>12, <2>1
  <2> QED
    BY <1>8, <1>14, <2>1, <2>2
<1>16. PICK m \in Nat : m = n + 1
  OBVIOUS
<1>17. HoldsLast(m)'
  <2>1. Len(audioRing') = IF m <= Window THEN m ELSE Window + 1
    BY <1>13, <1>14, <1>16
  <2>2. ASSUME NEW i \in 1..Len(audioRing')
        PROVE  /\ audioRing'[i].pos = m - Len(audioRing') + i - 1
               /\ audioRing'[i].at = audioRing'[i].pos
    BY <1>14, <1>15, <1>16
  <2> QED
    BY <2>1, <2>2 DEF HoldsLast
<1>18. m + Len(heldChunk') = samplesRead' /\ samplesRead' \in Nat /\ lost' \in Nat /\ ChunkInv'
  BY <1>4, <1>9, <1>16 DEF ChunkInv, AudioInv
<1> QED
  BY <1>14, <1>17, <1>18 DEF AudioInv

\* Microphone.Read: the chunk in hand is counted, and the ring is as it was.
LEMMA ReadChunkA ==
  ASSUME Window \in Nat, AudioInv, ReadChunk
  PROVE  AudioInv'
<1>1. heldChunk = <<>> /\ Len(heldChunk) = 0 /\ samplesRead \in Nat /\ lost \in Nat
  BY DEF AudioInv, ReadChunk
<1>2. PICK c \in Chunks :
        c = [pos |-> samplesRead, at |-> samplesRead, recorded |-> samplesRead + lost]
  <2>1. samplesRead + lost \in Nat
    BY <1>1
  <2> QED
    BY <1>1, <2>1 DEF Chunks
<1>3. heldChunk' = <<c>> /\ Len(heldChunk') = 1 /\ samplesRead' = samplesRead + 1
      /\ audioRing' = audioRing /\ lost' = lost
  BY <1>2 DEF ReadChunk, CapturedAt
<1>4. ChunkInv'
  BY <1>2, <1>3 DEF ChunkInv
<1>5. PICK n \in Nat : n + Len(heldChunk) = samplesRead /\ HoldsLast(n)
  BY DEF AudioInv
<1>6. n + Len(heldChunk') = samplesRead' /\ HoldsLast(n)'
  BY <1>1, <1>3, <1>5 DEF HoldsLast
<1> QED
  BY <1>1, <1>3, <1>4, <1>6 DEF AudioInv

LEMMA NextCapture ==
  VideoInv /\ AudioInv /\ [Next]_vars => VideoInv' /\ AudioInv'
<1> SUFFICES ASSUME Window \in Nat, VideoInv, AudioInv, [Next]_vars
             PROVE  VideoInv' /\ AudioInv'
  BY DEF VideoInv
<1> DEFINE videoVars == <<held, ring, added>>
           audioVars == <<heldChunk, samplesRead, audioRing, lost>>
<1>1. ASSUME UNCHANGED videoVars, now' \in Nat, now <= now'
      PROVE  VideoInv'
  <2>1. VideoWindowIsExact'
    BY <1>1 DEF VideoInv, VideoWindowIsExact
  <2>2. ASSUME NEW i \in 1..Len(added) PROVE added[i] <= now'
    <3>1. added[i] \in Nat /\ added[i] <= now /\ now \in Nat
      BY DEF VideoInv
    <3> QED
      BY <1>1, <3>1
  <2>3. held # <<>> => held[1] <= now'
    <3>1. held # <<>> => held[1] \in Nat /\ held[1] <= now /\ now \in Nat
      BY DEF VideoInv
    <3> QED
      BY <1>1, <3>1
  <2> QED
    BY <1>1, <2>1, <2>2, <2>3 DEF VideoInv
<1>2. ASSUME UNCHANGED audioVars
      PROVE  AudioInv'
  BY <1>2 DEF AudioInv, ChunkInv, HoldsLast
<1>3. now \in Nat
  BY DEF VideoInv
<1>4. CASE Tick
  <2>1. UNCHANGED videoVars /\ UNCHANGED audioVars /\ now' = now + 1
    BY <1>4 DEF Tick
  <2>2. now' \in Nat /\ now <= now'
    BY <1>3, <2>1
  <2> QED
    BY <1>1, <1>2, <2>1, <2>2
<1>5. CASE ReadFrame
  <2>1. AudioInv'
    BY <1>2, <1>5 DEF ReadFrame
  <2>2. held' = <<now>> /\ now' = now /\ ring' = ring /\ added' = added
    BY <1>5 DEF ReadFrame
  <2>3. VideoWindowIsExact'
    BY <2>2 DEF VideoInv, VideoWindowIsExact
  <2>4. VideoInv'
    BY <1>3, <2>2, <2>3 DEF VideoInv
  <2> QED
    BY <2>1, <2>4
<1>6. CASE AddFrame
  BY <1>2, <1>6, AddFrameV DEF AddFrame
<1>7. CASE ReadChunk
  BY <1>1, <1>3, <1>7, ReadChunkA DEF ReadChunk
<1>8. CASE ChunkReadFails
  <2>1. UNCHANGED <<heldChunk, samplesRead, audioRing>> /\ lost' = lost + 1 /\ lost \in Nat
    BY <1>8 DEF ChunkReadFails, AudioInv
  <2>2. lost' \in Nat
    BY <2>1
  <2>3. AudioInv'
    BY <2>1, <2>2 DEF AudioInv, ChunkInv, HoldsLast
  <2> QED
    BY <1>1, <1>3, <1>8, <2>3 DEF ChunkReadFails
<1>9. CASE AddChunk
  BY <1>1, <1>3, <1>9, AddChunkA DEF AddChunk
<1>10. CASE UNCHANGED vars
  BY <1>1, <1>2, <1>3, <1>10 DEF vars
<1> QED
  BY <1>4, <1>5, <1>6, <1>7, <1>8, <1>9, <1>10 DEF Next, Finished

\* The parts of the invariant stand and fall together.
THEOREM CaptureInvHolds == Spec => [](VideoInv /\ AudioInv)
BY InitCapture, NextCapture, PTL DEF Spec

\* RingBuffer: whenever frames are read, added and looked at, a snapshot holds the
\* frames of the window that ends with the newest one, in order, and no others,
\* for every window and any number of frames.
THEOREM VideoWindowIsAlwaysExact == Spec => []VideoWindowIsExact
<1>1. VideoInv => VideoWindowIsExact
  BY DEF VideoInv
<1> QED
  BY CaptureInvHolds, <1>1, PTL

\* AudioRingBuffer: bursts, delays and failed reads of the driver do not change
\* how many chunks the window holds, nor that they are the last ones in order.
THEOREM AudioWindowIsAlwaysExact == Spec => []AudioWindowIsExact
<1>1. VideoInv /\ AudioInv => AudioWindowIsExact
  <2> SUFFICES ASSUME Window \in Nat, AudioInv
               PROVE  AudioWindowIsExact
    BY DEF VideoInv
  <2>1. PICK n \in Nat : n + Len(heldChunk) = samplesRead /\ HoldsLast(n)
    BY DEF AudioInv
  <2>2. PICK len \in Nat : len = Len(audioRing) /\ len = IF n <= Window THEN n ELSE Window + 1
    BY <2>1 DEF AudioInv, HoldsLast
  <2>3. \A i \in 1..len : audioRing[i].pos = n - len + i - 1
    BY <2>1, <2>2 DEF HoldsLast
  <2>4. samplesRead - Len(heldChunk) - 1 = n - 1
    <3>1. Len(heldChunk) \in Nat /\ samplesRead \in Nat
      BY DEF AudioInv, ChunkInv
    <3> QED
      BY <2>1, <3>1
  <2>5. (IF n - 1 < Window THEN 0 ELSE n - 1 - Window) = n - len
    BY <2>2
  <2>6. n - 1 + 1 - (n - len) = len
    OBVIOUS
  <2>7. [i \in 1..len |-> audioRing[i].pos] = [i \in 1..len |-> n - len + i - 1]
    BY <2>3
  <2> QED
    BY <2>2, <2>4, <2>5, <2>6, <2>7 DEF AudioWindowIsExact
<1> QED
  BY CaptureInvHolds, <1>1, PTL

-----------------------------------------------------------------------------
(* The clip container.  What a recursion computes is proved without induction:   *)
(* the naturals for which it would be something else have a least member.        *)

\* A set of naturals that has 0 and the successors of its members has all of them.
LEMMA EveryNatural ==
  ASSUME NEW S, 0 \in S, \A n \in Nat : n \in S => n + 1 \in S
  PROVE  \A n \in Nat : n \in S
<1> DEFINE Missing == {n \in Nat : n \notin S}
<1> SUFFICES ASSUME Missing # {} PROVE FALSE
  OBVIOUS
<1>1. PICK m \in Missing : \A y \in Missing : m <= y
  <2>1. Missing \subseteq Nat
    OBVIOUS
  <2> HIDE DEF Missing
  <2> QED
    BY <2>1, LeastExists
<1>2. m \in Nat /\ m \notin S /\ m # 0
  OBVIOUS
<1>3. m - 1 \in Nat /\ m - 1 \notin Missing
  BY <1>1, <1>2
<1> QED
  BY <1>2, <1>3

\* Five elements more behind a sequence of fives.
LEMMA FiveMore ==
  ASSUME NEW T, NEW m \in Nat, NEW q \in Seq(T), Len(q) = 5 * m, NEW t \in Seq(T), Len(t) = 5
  PROVE  /\ q \o t \in Seq(T) /\ Len(q \o t) = 5 * (m + 1)
         /\ \A k \in 1..(5 * m) : (q \o t)[k] = q[k]
         /\ \A j \in 1..5 : (q \o t)[5 * m + j] = t[j]
<1>1. PICK l \in Nat : l = 5 * m /\ l + 5 = 5 * (m + 1)
  OBVIOUS
<1>2. PICK r : r = q \o t
  OBVIOUS
<1>3. r \in Seq(T) /\ Len(r) = l + 5 /\ \A k \in 1..(l + 5) : r[k] = IF k <= l THEN q[k] ELSE t[k - l]
  <2>1. Len(q) = l /\ Len(t) = 5
    BY <1>1
  <2>2. /\ q \o t \in Seq(T) /\ Len(q \o t) = Len(q) + Len(t)
        /\ \A k \in 1..(Len(q) + Len(t)) :
             (q \o t)[k] = IF k <= Len(q) THEN q[k] ELSE t[k - Len(q)]
    BY ConcatProperties
  <2> QED
    BY <1>2, <2>1, <2>2
<1>4. \A k \in 1..l : r[k] = q[k]
  BY <1>1, <1>3
<1>5. ASSUME NEW j \in 1..5 PROVE r[l + j] = t[j]
  <2>1. PICK k \in 1..(l + 5) : k = l + j /\ ~ (k <= l) /\ k - l = j
    BY <1>1
  <2>2. r[k] = t[k - l]
    BY <1>3, <2>1
  <2> QED
    BY <2>1, <2>2
<1> QED
  BY <1>1, <1>2, <1>3, <1>4, <1>5

\* FlattenSeq puts entries of five bytes one after the other.
LEMMA FivesInARow ==
  ASSUME NEW T, NEW n \in Nat, NEW s \in [1..n -> Seq(T)], \A i \in 1..n : Len(s[i]) = 5
  PROVE  /\ Format!FlattenSeq(s) \in Seq(T) /\ Len(Format!FlattenSeq(s)) = 5 * n
         /\ \A i \in 1..n : \A j \in 1..5 : Format!FlattenSeq(s)[5 * (i - 1) + j] = s[i][j]
<1> DEFINE Flat(m, g) == /\ g = [i \in 1..m |-> g[i]]
                         /\ \A i \in 1..m : g[i] = IF i = 1 THEN s[i] ELSE g[i - 1] \o s[i]
           flatten == CHOOSE g : g = [i \in 1..n |-> IF i = 1 THEN s[i] ELSE g[i - 1] \o s[i]]
           Row(m, q) == /\ q \in Seq(T) /\ Len(q) = 5 * m
                        /\ \A i \in 1..m : \A j \in 1..5 : q[5 * (i - 1) + j] = s[i][j]
<1>1. Len(s) = n
  OBVIOUS
<1>2. CASE n = 0
  <2>1. Format!FlattenSeq(s) = s /\ s = <<>>
    BY <1>1, <1>2 DEF Format!FlattenSeq
  <2>2. 1..n = {} /\ Len(s) = 5 * n /\ s \in Seq(T)
    BY <1>2, <2>1
  <2> QED
    BY <2>1, <2>2
<1>3. CASE n > 0
  <2>1. Format!FlattenSeq(s) = flatten[n]
    BY <1>1, <1>3 DEF Format!FlattenSeq
  <2>2. \A m \in Nat : m \in {i \in Nat : \E g : Flat(i, g)}
    <3> DEFINE Good == {i \in Nat : \E g : Flat(i, g)}
    <3>1. 0 \in Good
      <4>1. Flat(0, [i \in 1..0 |-> s])
        OBVIOUS
      <4> QED
        BY <4>1
    <3>2. ASSUME NEW m \in Nat, m \in Good PROVE m + 1 \in Good
      <4>1. PICK g : Flat(m, g)
        BY <3>2
      <4> DEFINE last == IF m = 0 THEN s[1] ELSE g[m] \o s[m + 1]
                 h == [i \in 1..(m + 1) |-> IF i = m + 1 THEN last ELSE g[i]]
      <4>2. h = [i \in 1..(m + 1) |-> h[i]] /\ h[m + 1] = last
        OBVIOUS
      <4>3. \A i \in 1..m : h[i] = g[i]
        OBVIOUS
      <4> HIDE DEF h
      <4>4. ASSUME NEW i \in 1..(m + 1)
            PROVE  h[i] = IF i = 1 THEN s[i] ELSE h[i - 1] \o s[i]
        <5>1. CASE i = m + 1
          <6>1. m # 0 => h[m] = g[m]
            BY <4>3
          <6>2. m + 1 - 1 = m
            OBVIOUS
          <6> QED
            BY <5>1, <6>1, <6>2, <4>2
        <5>2. CASE i # m + 1
          <6>1. i \in 1..m /\ (i # 1 => i - 1 \in 1..m)
            BY <5>2
          <6> QED
            BY <4>1, <4>3, <6>1
        <5> QED
          BY <5>1, <5>2
      <4>5. Flat(m + 1, h)
        BY <4>2, <4>4
      <4> HIDE DEF Flat
      <4> QED
        BY <4>5
    <3> HIDE DEF Good
    <3>3. \A m \in Nat : m \in Good
      BY <3>1, <3>2, EveryNatural
    <3> QED
      BY <3>3 DEF Good
  <2>3. PICK g : Flat(n, g)
    BY <2>2
  <2>4. g = [i \in 1..n |-> IF i = 1 THEN s[i] ELSE g[i - 1] \o s[i]]
    BY <2>3
  <2>5. flatten = [i \in 1..n |-> IF i = 1 THEN s[i] ELSE flatten[i - 1] \o s[i]]
    BY <2>4
  <2> HIDE DEF flatten
  <2> DEFINE Good == {m \in Nat : m \in 1..n => Row(m, flatten[m])}
  <2>6. 0 \in Good
    OBVIOUS
  <2>7. ASSUME NEW m \in Nat, m \in Good PROVE m + 1 \in Good
    <3> HIDE DEF Row
    <3> SUFFICES ASSUME m + 1 \in 1..n PROVE Row(m + 1, flatten[m + 1])
      OBVIOUS
    <3> USE DEF Row
    <3>1. s[m + 1] \in Seq(T) /\ Len(s[m + 1]) = 5
      OBVIOUS
    <3>2. CASE m = 0
      <4>1. flatten[m + 1] = s[m + 1]
        BY <3>2, <2>5
      <4>2. ASSUME NEW i \in 1..(m + 1), NEW j \in 1..5 PROVE i = m + 1 /\ 5 * (i - 1) + j = j
        BY <3>2
      <4>3. 5 * (m + 1) = 5
        BY <3>2
      <4> QED
        BY <3>1, <4>1, <4>2, <4>3
    <3>3. CASE m # 0
      <4>1. m \in 1..n /\ m + 1 - 1 = m /\ m + 1 # 1
        BY <3>3
      <4>2. flatten[m + 1] = flatten[m] \o s[m + 1]
        <5>1. \A i \in 1..n : i # 1 => flatten[i] = flatten[i - 1] \o s[i]
          BY <2>5
        <5>2. PICK i \in 1..n : i = m + 1 /\ i - 1 = m /\ i # 1
          BY <3>3
        <5>3. flatten[i] = flatten[i - 1] \o s[i]
          BY <5>1, <5>2
        <5> HIDE DEF Row, Flat
        <5> QED
          BY <5>2, <5>3
      <4>3. Row(m, flatten[m])
        BY <2>7, <4>1
      <4>4. PICK q : q = flatten[m]
        OBVIOUS
      <4>5. q \in Seq(T) /\ Len(q) = 5 * m
        BY <4>3, <4>4
      <4>6. PICK r : r = q \o s[m + 1]
        OBVIOUS
      <4>7. /\ r \in Seq(T) /\ Len(r) = 5 * (m + 1)
            /\ \A k \in 1..(5 * m) : r[k] = q[k]
            /\ \A j \in 1..5 : r[5 * m + j] = s[m + 1][j]
        BY <3>1, <4>5, <4>6, FiveMore
      <4>8. ASSUME NEW k \in 1..(m + 1), NEW j \in 1..5
            PROVE  r[5 * (k - 1) + j] = s[k][j]
        <5>1. CASE k = m + 1
          <6>1. k - 1 = m
            BY <5>1
          <6> QED
            BY <5>1, <6>1, <4>7
        <5>2. CASE k # m + 1
          <6>1. k \in 1..m /\ 5 * (k - 1) + j \in 1..(5 * m)
            BY <5>2
          <6>2. q[5 * (k - 1) + j] = s[k][j]
            BY <6>1, <4>3, <4>4
          <6> QED
            BY <6>1, <6>2, <4>7
        <5> QED
          BY <5>1, <5>2
      <4> QED
        BY <4>2, <4>4, <4>6, <4>7, <4>8
    <3> QED
      BY <3>2, <3>3
  <2> HIDE DEF Good
  <2>8. n \in Good
    BY <2>6, <2>7, EveryNatural
  <2>9. Row(n, flatten[n])
    <3> HIDE DEF Row
    <3> QED
      BY <2>8, <1>3 DEF Good
  <2> QED
    BY <2>1, <2>9
<1> QED
  BY <1>2, <1>3

\* Encode writes a header of four bytes and five bytes for every frame.
LEMMA EncodedBytes ==
  ASSUME NEW n \in 0..ClipFrames, NEW fs \in [1..n -> Format!Frames]
  PROVE  /\ Format!Encode(fs) \in Seq(Nat) /\ Len(Format!Encode(fs)) = 4 + 5 * n
         /\ Format!Encode(fs)[1] = 2 /\ Format!Encode(fs)[2] = 1
         /\ Format!Encode(fs)[3] = 1 /\ Format!Encode(fs)[4] = n
         /\ \A i \in 1..n : /\ Format!Encode(fs)[5 * i] = fs[i].time \div Byte
                            /\ Format!Encode(fs)[5 * i + 1] = fs[i].time % Byte
                            /\ Format!Encode(fs)[5 * i + 2] = 2
                            /\ Format!Encode(fs)[5 * i + 3] = 2
                            /\ Format!Encode(fs)[5 * i + 4] = fs[i].image \div 2
<1> DEFINE Entry(f) == <<f.time \div Byte, f.time % Byte, Len(Format!JpegEncode(f.image))>>
                       \o Format!JpegEncode(f.image)
           entries == [i \in DOMAIN fs |-> Entry(fs[i])]
           header == Format!Magic \o <<Format!FormatVersion, Len(fs)>>
<1>1. n \in Nat /\ Len(fs) = n /\ DOMAIN fs = 1..n
  BY FormatConstants
<1>2. ASSUME NEW f \in Format!Frames
      PROVE  /\ Entry(f) \in Seq(Nat) /\ Len(Entry(f)) = 5
             /\ Entry(f)[1] = f.time \div Byte /\ Entry(f)[2] = f.time % Byte
             /\ Entry(f)[3] = 2 /\ Entry(f)[4] = 2 /\ Entry(f)[5] = f.image \div 2
  <2>1. f.time \in Nat /\ f.image \in Nat
    BY FormatConstants DEF Format!Frames, Format!Images
  <2>2. f.time \div Byte \in Nat /\ f.time % Byte \in Nat /\ f.image \div 2 \in Nat
    BY <2>1, FormatConstants
  <2>3. PICK a \in Nat, b \in Nat, c \in Nat :
          a = f.time \div Byte /\ b = f.time % Byte /\ c = f.image \div 2
    BY <2>2
  <2>4. Entry(f) = <<a, b, 2>> \o <<2, c>>
    BY <2>3 DEF Format!JpegEncode
  <2>5. /\ <<a, b, 2>> \in Seq(Nat) /\ Len(<<a, b, 2>>) = 3
        /\ <<2, c>> \in Seq(Nat) /\ Len(<<2, c>>) = 2
    OBVIOUS
  <2>6. PICK r : r = <<a, b, 2>> \o <<2, c>>
    OBVIOUS
  <2>7. r \in Seq(Nat) /\ Len(r) = 5
    BY <2>5, <2>6
  <2>8. r[1] = a /\ r[2] = b /\ r[3] = 2 /\ r[4] = 2 /\ r[5] = c
    BY <2>5, <2>6
  <2> QED
    BY <2>3, <2>4, <2>6, <2>7, <2>8
<1>3. Format!Encode(fs) = header \o Format!FlattenSeq(entries)
  BY DEF Format!Encode
<1>4. \A i \in 1..n : /\ entries[i] \in Seq(Nat) /\ Len(entries[i]) = 5
                      /\ entries[i][1] = fs[i].time \div Byte
                      /\ entries[i][2] = fs[i].time % Byte
                      /\ entries[i][3] = 2 /\ entries[i][4] = 2
                      /\ entries[i][5] = fs[i].image \div 2
  <2> HIDE DEF Entry
  <2> QED
    BY <1>1, <1>2
<1>5. entries \in [1..n -> Seq(Nat)]
  <2> HIDE DEF Entry
  <2> QED
    BY <1>1, <1>4
<1>6. /\ header \in Seq(Nat) /\ Len(header) = 4
      /\ header[1] = 2 /\ header[2] = 1 /\ header[3] = 1 /\ header[4] = n
  <2>1. header = <<2, 1>> \o <<1, n>>
    BY <1>1 DEF Format!Magic, Format!FormatVersion
  <2>2. /\ <<2, 1>> \in Seq(Nat) /\ Len(<<2, 1>>) = 2
        /\ <<1, n>> \in Seq(Nat) /\ Len(<<1, n>>) = 2
    BY <1>1
  <2>3. PICK h : h = <<2, 1>> \o <<1, n>>
    OBVIOUS
  <2>4. h \in Seq(Nat) /\ Len(h) = 4
    BY <2>2, <2>3
  <2>5. h[1] = 2 /\ h[2] = 1 /\ h[3] = 1 /\ h[4] = n
    BY <2>2, <2>3
  <2> QED
    BY <2>1, <2>3, <2>4, <2>5
<1> HIDE DEF entries, header
<1>7. PICK flat \in Seq(Nat) :
        /\ flat = Format!FlattenSeq(entries) /\ Len(flat) = 5 * n
        /\ \A i \in 1..n : \A j \in 1..5 : flat[5 * (i - 1) + j] = entries[i][j]
  <2>1. \A i \in 1..n : Len(entries[i]) = 5
    BY <1>4
  <2>2. /\ Format!FlattenSeq(entries) \in Seq(Nat) /\ Len(Format!FlattenSeq(entries)) = 5 * n
        /\ \A i \in 1..n : \A j \in 1..5 :
             Format!FlattenSeq(entries)[5 * (i - 1) + j] = entries[i][j]
    <3>1. n \in Nat
      BY <1>1
    <3>2. PICK s \in [1..n -> Seq(Nat)] : s = entries
      BY <1>5
    <3>3. \A i \in 1..n : Len(s[i]) = 5
      BY <2>1, <3>2
    <3>4. Format!FlattenSeq(s) \in Seq(Nat)
      BY <3>1, <3>3, FivesInARow
    <3>5. Len(Format!FlattenSeq(s)) = 5 * n
      BY <3>1, <3>3, FivesInARow
    <3>6. \A i \in 1..n : \A j \in 1..5 : Format!FlattenSeq(s)[5 * (i - 1) + j] = s[i][j]
      BY <3>1, <3>3, FivesInARow
    <3> QED
      BY <3>2, <3>4, <3>5, <3>6
  <2> QED
    BY <2>2
<1>8. PICK e : e = Format!Encode(fs) /\ e = header \o flat
  BY <1>3, <1>7
<1>9. /\ e \in Seq(Nat) /\ Len(e) = 4 + 5 * n
      /\ \A k \in 1..(4 + 5 * n) : e[k] = IF k <= 4 THEN header[k] ELSE flat[k - 4]
  <2>1. header \in Seq(Nat) /\ flat \in Seq(Nat)
    BY <1>6
  <2>2. /\ header \o flat \in Seq(Nat) /\ Len(header \o flat) = Len(header) + Len(flat)
        /\ \A k \in 1..(Len(header) + Len(flat)) :
             (header \o flat)[k] = IF k <= Len(header) THEN header[k] ELSE flat[k - Len(header)]
    BY <2>1, ConcatProperties
  <2>3. Len(header) = 4 /\ Len(flat) = 5 * n
    BY <1>6, <1>7
  <2> QED
    BY <1>8, <2>2, <2>3
<1>10. e[1] = 2 /\ e[2] = 1 /\ e[3] = 1 /\ e[4] = n
  BY <1>1, <1>6, <1>9
<1>11. ASSUME NEW i \in 1..n, NEW j \in 1..5, NEW k \in Nat, k = 5 * i + j - 1
       PROVE  e[k] = entries[i][j]
  <2>1. k \in 1..(4 + 5 * n) /\ ~ (k <= 4) /\ k - 4 = 5 * (i - 1) + j
    BY <1>1, <1>11
  <2>2. e[k] = flat[k - 4]
    BY <1>9, <2>1
  <2>3. flat[5 * (i - 1) + j] = entries[i][j]
    BY <1>7
  <2> QED
    BY <2>1, <2>2, <2>3
<1>12. ASSUME NEW i \in 1..n
       PROVE  /\ e[5 * i] = fs[i].time \div Byte /\ e[5 * i + 1] = fs[i].time % Byte
              /\ e[5 * i + 2] = 2 /\ e[5 * i + 3] = 2 /\ e[5 * i + 4] = fs[i].image \div 2
  <2>1. PICK k \in Nat : k = 5 * i
    BY <1>1
  <2>2. e[k] = entries[i][1] /\ e[k + 1] = entries[i][2] /\ e[k + 2] = entries[i][3]
    BY <1>11, <2>1
  <2>3. e[k + 3] = entries[i][4] /\ e[k + 4] = entries[i][5]
    BY <1>11, <2>1
  <2> QED
    BY <1>4, <2>1, <2>2, <2>3
<1> QED
  BY <1>8, <1>9, <1>10, <1>12

\* The turns of Decode's loop over d.
Turns(d) ==
  CHOOSE parsed : parsed = [i \in 0..Byte |->
    IF i = 0 THEN Format!Parse(Format!HeaderLength, <<>>, None)
    ELSE IF parsed[i - 1].err # None THEN parsed[i - 1]
    ELSE Format!ReadFrame(d, parsed[i - 1])]

\* A turn follows from the turn before it; after an error nothing changes.
LEMMA TurnsFollow ==
  ASSUME NEW d
  PROVE  /\ Turns(d)[0] = Format!Parse(4, <<>>, None)
         /\ \A i \in 1..Byte : Turns(d)[i] = IF Turns(d)[i - 1].err # None THEN Turns(d)[i - 1]
                                            ELSE Format!ReadFrame(d, Turns(d)[i - 1])
<1> DEFINE Turn(i, g) == IF i = 0 THEN Format!Parse(Format!HeaderLength, <<>>, None)
                         ELSE IF g[i - 1].err # None THEN g[i - 1]
                         ELSE Format!ReadFrame(d, g[i - 1])
           Runs(m, g) == g = [i \in 0..m |-> g[i]] /\ \A i \in 0..m : g[i] = Turn(i, g)
           Good == {m \in Nat : \E g : Runs(m, g)}
<1>1. 0 \in Good
  <2> DEFINE h == [i \in 0..0 |-> Format!Parse(Format!HeaderLength, <<>>, None)]
  <2>1. h = [i \in 0..0 |-> h[i]] /\ h[0] = Format!Parse(Format!HeaderLength, <<>>, None)
    OBVIOUS
  <2>2. \A i \in 0..0 : i = 0
    OBVIOUS
  <2> HIDE DEF h
  <2>3. Runs(0, h)
    BY <2>1, <2>2
  <2> HIDE DEF Runs
  <2> QED
    BY <2>3
<1>2. ASSUME NEW m \in Nat, m \in Good PROVE m + 1 \in Good
  <2>1. PICK g : Runs(m, g)
    BY <1>2
  <2> DEFINE h == [i \in 0..(m + 1) |-> IF i = m + 1 THEN Turn(m + 1, g) ELSE g[i]]
  <2>2. h = [i \in 0..(m + 1) |-> h[i]] /\ h[m + 1] = Turn(m + 1, g)
    <3> HIDE DEF Turn
    <3> QED
      OBVIOUS
  <2>3. \A i \in 0..m : h[i] = g[i]
    <3> HIDE DEF Turn
    <3> QED
      OBVIOUS
  <2> HIDE DEF h
  <2>4. \A i \in 0..(m + 1) : i = 0 \/ i - 1 \in 0..m
    OBVIOUS
  <2>5. \A i \in 0..(m + 1) : Turn(i, h) = Turn(i, g)
    BY <2>3, <2>4
  <2>6. \A i \in 0..(m + 1) : i = m + 1 \/ i \in 0..m
    OBVIOUS
  <2>7. Runs(m + 1, h)
    <3> HIDE DEF Turn
    <3> QED
      BY <2>1, <2>2, <2>3, <2>5, <2>6
  <2> HIDE DEF Runs
  <2> QED
    BY <2>7
<1> HIDE DEF Good
<1>3. Byte \in Good
  BY <1>1, <1>2, EveryNatural, FormatConstants
<1>4. PICK g : Runs(Byte, g)
  BY <1>3 DEF Good
<1>5. g = [i \in 0..Byte |-> Turn(i, g)]
  BY <1>4
<1>6. Turns(d) = [i \in 0..Byte |-> Turn(i, Turns(d))]
  BY <1>5 DEF Turns
<1>7. 0 \in 0..Byte /\ \A i \in 1..Byte : i \in 0..Byte /\ i # 0
  BY FormatConstants
<1> QED
  BY <1>6, <1>7 DEF Format!HeaderLength

\* A whole header of this format is followed by as many turns as it says.
LEMMA DecodeAfterHeader ==
  ASSUME NEW d \in Seq(Nat), Len(d) >= 4, d[1] = 2, d[2] = 1, d[3] = 1
  PROVE  Format!Decode(d) = Turns(d)[d[4]]
<1>1. Len(Format!Magic) = 2 /\ SubSeq(d, 1, 2) = Format!Magic
  <2>1. PICK p : p = SubSeq(d, 1, 2)
    OBVIOUS
  <2>2. p \in Seq(Nat) /\ Len(p) = 2 /\ p[1] = 2 /\ p[2] = 1
    BY <2>1
  <2>3. PICK q \in Seq(Nat) : q = <<2, 1>> /\ Len(q) = 2 /\ q[1] = 2 /\ q[2] = 1
    <3>1. <<2, 1>> \in Seq(Nat) /\ Len(<<2, 1>>) = 2
      OBVIOUS
    <3> QED
      BY <3>1
  <2>4. p = q
    BY <2>2, <2>3, SeqEqual
  <2> QED
    BY <2>1, <2>3, <2>4 DEF Format!Magic
<1>2. Format!Decode(d) =
        IF Len(d) < Len(Format!Magic) \/ SubSeq(d, 1, 2) # Format!Magic
        THEN Format!Parse(0, <<>>, "ErrBadMagic")
        ELSE IF Len(d) < 3 THEN Format!Parse(0, <<>>, "ErrTruncated")
        ELSE IF d[3] # Format!FormatVersion THEN Format!Parse(0, <<>>, "ErrUnsupportedVersion")
        ELSE IF Len(d) < Format!HeaderLength THEN Format!Parse(0, <<>>, "ErrTruncated")
        ELSE Turns(d)[d[4]]
  BY DEF Format!Decode, Turns
<1> QED
  BY <1>1, <1>2 DEF Format!FormatVersion, Format!HeaderLength

\* A part of such a header is recognized as one.
LEMMA DecodeShortHeader ==
  ASSUME NEW d \in Seq(Nat), Len(d) < 4, Len(d) >= 3 => d[3] = 1
  PROVE  Format!Decode(d).err \in {"ErrBadMagic", "ErrTruncated"}
<1>1. Format!Decode(d) =
        IF Len(d) < Len(Format!Magic) \/ SubSeq(d, 1, 2) # Format!Magic
        THEN Format!Parse(0, <<>>, "ErrBadMagic")
        ELSE IF Len(d) < 3 THEN Format!Parse(0, <<>>, "ErrTruncated")
        ELSE IF d[3] # Format!FormatVersion THEN Format!Parse(0, <<>>, "ErrUnsupportedVersion")
        ELSE IF Len(d) < Format!HeaderLength THEN Format!Parse(0, <<>>, "ErrTruncated")
        ELSE Turns(d)[d[4]]
  BY DEF Format!Decode, Turns
<1> QED
  BY <1>1 DEF Format!FormatVersion, Format!HeaderLength, Format!Parse

FormatFrame == [time : Nat, image : Nat]

\* A turn on five bytes that are an entry reads its frame and goes past it.
LEMMA ReadsAnEntry ==
  ASSUME NEW d \in Seq(Nat), NEW at \in Nat, NEW fs \in Seq(FormatFrame),
         at + 5 <= Len(d), d[at + 3] = 2, d[at + 4] = 2
  PROVE  Format!ReadFrame(d, Format!Parse(at, fs, None)) =
           Format!Parse(at + 5, Append(fs, [time |-> d[at + 1] * Byte + d[at + 2],
                                            image |-> 2 * d[at + 5]]), None)
<1>1. PICK p : p = SubSeq(d, at + 4, at + 3 + 2)
  OBVIOUS
<1>2. Len(p) = 2 /\ p[1] = d[at + 4] /\ p[2] = d[at + 5]
  BY <1>1
<1>3. Format!IsJpeg(p) /\ Format!JpegDecode(p) = 2 * d[at + 5]
  BY <1>2 DEF Format!IsJpeg, Format!JpegDecode
<1>4. at + 3 <= Len(d) /\ at + 3 + 2 = at + 5
  OBVIOUS
<1>5. ~ (at + 3 > Len(d)) /\ ~ (at + 5 > Len(d))
  OBVIOUS
<1>6. PICK r : r = Format!ReadFrame(d, Format!Parse(at, fs, None))
  OBVIOUS
<1>7. r = IF at + 3 > Len(d) \/ at + 3 + 2 > Len(d) THEN Format!Parse(at, <<>>, "ErrTruncated")
          ELSE IF ~ Format!IsJpeg(p) THEN Format!Parse(at, <<>>, "jpeg")
          ELSE Format!Parse(at + 3 + 2,
                            Append(fs, [time |-> d[at + 1] * Byte + d[at + 2],
                                        image |-> Format!JpegDecode(p)]), None)
  BY <1>1, <1>6 DEF Format!ReadFrame, Format!Parse
<1> QED
  BY <1>3, <1>4, <1>5, <1>6, <1>7

\* A turn on less than an entry reports that the bytes end early.
LEMMA ReadsShortEntry ==
  ASSUME NEW d \in Seq(Nat), NEW at \in Nat, NEW fs,
         at + 5 > Len(d), at + 3 <= Len(d) => d[at + 3] = 2
  PROVE  Format!ReadFrame(d, Format!Parse(at, fs, None)) = Format!Parse(at, <<>>, "ErrTruncated")
<1>1. at + 3 > Len(d) \/ (at + 3 <= Len(d) /\ at + 3 + 2 > Len(d))
  OBVIOUS
<1>2. at + 3 > Len(d) \/ at + 3 + d[at + 3] > Len(d)
  BY <1>1
<1> QED
  BY <1>2 DEF Format!ReadFrame, Format!Parse

\* Whatever the bytes are, a turn without an error adds one frame behind the others.
LEMMA ReadsOneMore ==
  ASSUME NEW d \in Seq(Nat), NEW at \in Nat, NEW fs \in Seq(FormatFrame),
         NEW r, r = Format!ReadFrame(d, Format!Parse(at, fs, None)), r.err = None
  PROVE  \E later \in Nat, f \in FormatFrame : r = Format!Parse(later, Append(fs, f), None)
<1> DEFINE jpegLen == d[at + 3]
           payload == SubSeq(d, at + 4, at + 3 + jpegLen)
           f == [time |-> d[at + 1] * Byte + d[at + 2], image |-> Format!JpegDecode(payload)]
<1>1. /\ at + 3 <= Len(d) /\ at + 3 + jpegLen <= Len(d) /\ Format!IsJpeg(payload)
      /\ r = Format!Parse(at + 3 + jpegLen, Append(fs, f), None)
  <2>1. at + 3 \in Int /\ Len(d) \in Int
    OBVIOUS
  <2>2. /\ None # "jpeg" /\ None # "ErrTruncated"
    BY FormatConstants
  <2>3. r = IF at + 3 > Len(d) \/ at + 3 + jpegLen > Len(d)
            THEN Format!Parse(at, <<>>, "ErrTruncated")
            ELSE IF ~ Format!IsJpeg(payload) THEN Format!Parse(at, <<>>, "jpeg")
            ELSE Format!Parse(at + 3 + jpegLen, Append(fs, f), None)
    BY DEF Format!ReadFrame, Format!Parse
  <2>4. /\ Format!Parse(at, <<>>, "ErrTruncated").err # None
        /\ Format!Parse(at, <<>>, "jpeg").err # None
    BY <2>2 DEF Format!Parse
  <2> HIDE DEF jpegLen, payload, f
  <2>5. ~ (at + 3 > Len(d)) /\ ~ (at + 3 + jpegLen > Len(d)) /\ Format!IsJpeg(payload)
    BY <2>3, <2>4
  <2>6. r = Format!Parse(at + 3 + jpegLen, Append(fs, f), None)
    BY <2>3, <2>5
  <2>7. at + 3 <= Len(d)
    BY <2>1, <2>5
  <2>8. jpegLen \in Nat
    BY <2>7 DEF jpegLen
  <2> QED
    BY <2>1, <2>5, <2>6, <2>7, <2>8
<1>2. jpegLen \in Nat /\ d[at + 1] \in Nat /\ d[at + 2] \in Nat
  BY <1>1
<1>3. payload[2] \in Nat
  <2>1. Len(payload) = 2
    BY <1>1 DEF Format!IsJpeg
  <2>2. PICK l \in Nat : l = jpegLen /\ at + 3 + l <= Len(d)
    BY <1>1, <1>2
  <2>3. \A k \in (at + 4)..(at + 3 + l) : d[k] \in Nat
    BY <2>2
  <2>4. PICK q : q = SubSeq(d, at + 4, at + 3 + l)
    OBVIOUS
  <2>5. q \in Seq(Nat)
    BY <2>3, <2>4, SubSeqProperties
  <2>6. payload = q
    BY <2>2, <2>4
  <2>7. Len(q) = 2
    BY <2>1, <2>6
  <2>8. q[2] \in Nat
    <3>1. 2 \in 1..Len(q)
      BY <2>7
    <3> HIDE DEF jpegLen, payload, f
    <3> QED
      BY <2>5, <3>1
  <2> QED
    BY <2>6, <2>8
<1>4. Format!JpegDecode(payload) \in Nat
  <2> HIDE DEF payload
  <2> QED
    BY <1>3 DEF Format!JpegDecode
<1>5. d[at + 1] * Byte + d[at + 2] \in Nat
  <2>1. PICK a \in Nat, b \in Nat : a = d[at + 1] /\ b = d[at + 2]
    BY <1>2
  <2>2. a * Byte \in Nat
    BY FormatConstants
  <2>3. a * Byte + b \in Nat
    BY <2>2
  <2> QED
    BY <2>1, <2>3
<1>6. f \in FormatFrame
  <2> HIDE DEF payload
  <2> QED
    BY <1>4, <1>5 DEF FormatFrame
<1>7. at + 3 + jpegLen \in Nat
  BY <1>2
<1> HIDE DEF f
<1> QED
  BY <1>1, <1>6, <1>7

RestoredFrames(fs, m) == [i \in 1..m |-> Format!Restored(fs[i])]

\* What an encoder writes for a frame, a decoder's turn makes its restored frame of.
LEMMA EntryRestores ==
  ASSUME NEW f \in Format!Frames
  PROVE  /\ Format!Restored(f) \in FormatFrame
         /\ [time |-> (f.time \div Byte) * Byte + (f.time % Byte), image |-> 2 * (f.image \div 2)]
              = Format!Restored(f)
<1>1. f.time \in Nat /\ f.image \in Nat /\ f = [time |-> f.time, image |-> f.image]
  BY FormatConstants DEF Format!Frames, Format!Images
<1>2. PICK t \in Nat : t = f.time
  BY <1>1
<1>3. (t \div Byte) * Byte + (t % Byte) = t
  BY FormatConstants
<1>4. f.image \div 2 \in Nat /\ 2 * (f.image \div 2) \in Nat
  BY <1>1
<1>5. Format!AfterJpeg(f.image) = 2 * (f.image \div 2)
  BY DEF Format!AfterJpeg, Format!JpegEncode, Format!JpegDecode
<1>6. Format!Restored(f) = [time |-> f.time, image |-> 2 * (f.image \div 2)]
  BY <1>1, <1>5 DEF Format!Restored
<1> QED
  BY <1>1, <1>2, <1>3, <1>4, <1>6 DEF FormatFrame

\* Bytes that are an encoding as far as its m-th entry are read up to there, and the
\* turns give the first m frames back.
LEMMA TurnsRestore ==
  ASSUME NEW n \in 0..ClipFrames, NEW fs \in [1..n -> Format!Frames], NEW m \in 0..n,
         NEW d \in Seq(Nat), Len(d) >= 4 + 5 * m,
         \A k \in 1..(4 + 5 * m) : d[k] = Format!Encode(fs)[k]
  PROVE  Turns(d)[m] = Format!Parse(4 + 5 * m, RestoredFrames(fs, m), None)
<1> DEFINE Good == {j \in Nat : j <= m =>
                     Turns(d)[j] = Format!Parse(4 + 5 * j, RestoredFrames(fs, j), None)}
<1>1. n \in Nat /\ m \in Nat /\ m <= n /\ m <= Byte /\ Byte \in Nat
  BY FormatConstants
<1>2. 0 \in Good
  <2>1. RestoredFrames(fs, 0) = <<>>
    BY DEF RestoredFrames
  <2>2. 4 + 5 * 0 = 4
    OBVIOUS
  <2> QED
    BY <2>1, <2>2, TurnsFollow
<1>3. ASSUME NEW j \in Nat, j \in Good PROVE j + 1 \in Good
  <2> SUFFICES ASSUME j + 1 <= m
               PROVE  Turns(d)[j + 1] =
                        Format!Parse(4 + 5 * (j + 1), RestoredFrames(fs, j + 1), None)
    OBVIOUS
  <2>1. Turns(d)[j] = Format!Parse(4 + 5 * j, RestoredFrames(fs, j), None)
    BY <1>1, <1>3
  <2>2. PICK i : i = j + 1
    OBVIOUS
  <2>3. i \in 1..n /\ i \in 1..Byte /\ i - 1 = j
    BY <1>1, <2>2
  <2>4. PICK at \in Nat : at = 4 + 5 * j /\ at + 5 = 4 + 5 * i
    BY <2>2
  <2>5. /\ at + 1 = 5 * i /\ at + 2 = 5 * i + 1 /\ at + 3 = 5 * i + 2 /\ at + 4 = 5 * i + 3
        /\ at + 5 = 5 * i + 4
    BY <2>2, <2>4
  <2>6. at + 5 <= 4 + 5 * m /\ at + 5 <= Len(d)
    BY <1>1, <2>2, <2>4
  <2>7. \A k \in 1..5 : d[at + k] = Format!Encode(fs)[at + k]
    <3>1. ASSUME NEW k \in 1..5 PROVE at + k \in 1..(4 + 5 * m)
      BY <1>1, <2>6
    <3> QED
      BY <3>1
  <2>8. /\ d[at + 1] = fs[i].time \div Byte /\ d[at + 2] = fs[i].time % Byte
        /\ d[at + 3] = 2 /\ d[at + 4] = 2 /\ d[at + 5] = fs[i].image \div 2
    <3>1. /\ Format!Encode(fs)[5 * i] = fs[i].time \div Byte
          /\ Format!Encode(fs)[5 * i + 1] = fs[i].time % Byte
          /\ Format!Encode(fs)[5 * i + 2] = 2
          /\ Format!Encode(fs)[5 * i + 3] = 2
          /\ Format!Encode(fs)[5 * i + 4] = fs[i].image \div 2
      BY <2>3, EncodedBytes
    <3>2. /\ d[at + 1] = Format!Encode(fs)[at + 1] /\ d[at + 2] = Format!Encode(fs)[at + 2]
          /\ d[at + 3] = Format!Encode(fs)[at + 3] /\ d[at + 4] = Format!Encode(fs)[at + 4]
          /\ d[at + 5] = Format!Encode(fs)[at + 5]
      BY <2>7
    <3> QED
      BY <3>1, <3>2, <2>5
  <2>9. fs[i] \in Format!Frames
    BY <2>3
  <2>10. PICK restored \in Seq(FormatFrame) : restored = RestoredFrames(fs, j)
    <3>1. \A k \in 1..j : k \in 1..n
      BY <1>1
    <3>2. \A k \in 1..j : Format!Restored(fs[k]) \in FormatFrame
      BY <3>1, EntryRestores
    <3>3. RestoredFrames(fs, j) \in Seq(FormatFrame)
      BY <3>2 DEF RestoredFrames
    <3> QED
      BY <3>3
  <2>11. Format!ReadFrame(d, Format!Parse(at, restored, None)) =
           Format!Parse(at + 5, Append(restored, [time |-> d[at + 1] * Byte + d[at + 2],
                                                  image |-> 2 * d[at + 5]]), None)
    BY <2>6, <2>8, ReadsAnEntry
  <2>12. [time |-> d[at + 1] * Byte + d[at + 2], image |-> 2 * d[at + 5]] = Format!Restored(fs[i])
    BY <2>8, <2>9, EntryRestores
  <2>13. Append(restored, Format!Restored(fs[i])) = RestoredFrames(fs, i)
    <3>1. PICK longer : longer = Append(restored, Format!Restored(fs[i]))
      OBVIOUS
    <3>2. Len(restored) = j /\ \A k \in 1..j : restored[k] = Format!Restored(fs[k])
      BY <2>10 DEF RestoredFrames
    <3>3. Len(longer) = i /\ longer[i] = Format!Restored(fs[i])
      BY <2>2, <2>3, <3>1, <3>2
    <3>4. \A k \in 1..j : longer[k] = Format!Restored(fs[k])
      BY <2>2, <2>3, <3>1, <3>2
    <3>5. \A k \in 1..i : k = i \/ k \in 1..j
      BY <2>2
    <3>6. \A k \in 1..i : longer[k] = Format!Restored(fs[k])
      BY <3>3, <3>4, <3>5
    <3>7. longer = [k \in 1..i |-> longer[k]]
      BY <2>3, <3>1, <3>3
    <3> QED
      BY <3>1, <3>6, <3>7 DEF RestoredFrames
  <2>14. Turns(d)[i] = IF Turns(d)[j].err # None THEN Turns(d)[j]
                       ELSE Format!ReadFrame(d, Turns(d)[j])
    BY <2>3, TurnsFollow
  <2>15. Turns(d)[j] = Format!Parse(at, restored, None) /\ Turns(d)[j].err = None
    BY <2>1, <2>4, <2>10 DEF Format!Parse
  <2>16. Turns(d)[i] = Format!Parse(at + 5, RestoredFrames(fs, i), None)
    BY <2>11, <2>12, <2>13, <2>14, <2>15
  <2> QED
    BY <2>2, <2>4, <2>16
<1> HIDE DEF Good
<1>4. m \in Good
  BY <1>1, <1>2, <1>3, EveryNatural
<1> QED
  BY <1>1, <1>4 DEF Good

\* After an error the turns stay where they are.
LEMMA ErrorsStick ==
  ASSUME NEW d, NEW m \in 0..Byte, Turns(d)[m].err # None, NEW n \in m..Byte
  PROVE  Turns(d)[n] = Turns(d)[m]
<1> DEFINE Good == {j \in Nat : j <= Byte - m => Turns(d)[m + j] = Turns(d)[m]}
<1>1. m \in Nat /\ Byte \in Nat /\ m <= Byte /\ n \in Nat
  BY FormatConstants
<1>2. 0 \in Good
  BY <1>1
<1>3. ASSUME NEW j \in Nat, j \in Good PROVE j + 1 \in Good
  <2> SUFFICES ASSUME j + 1 <= Byte - m PROVE Turns(d)[m + (j + 1)] = Turns(d)[m]
    OBVIOUS
  <2>1. Turns(d)[m + j] = Turns(d)[m]
    BY <1>1, <1>3
  <2>2. PICK i \in 1..Byte : i = m + (j + 1) /\ i - 1 = m + j
    BY <1>1
  <2>3. Turns(d)[i] = Turns(d)[i - 1]
    BY <2>1, <2>2, TurnsFollow
  <2> QED
    BY <2>1, <2>2, <2>3
<1>4. n - m \in Nat /\ n - m <= Byte - m /\ m + (n - m) = n
  BY <1>1
<1> HIDE DEF Good
<1>5. n - m \in Good
  BY <1>2, <1>3, <1>4, EveryNatural
<1> QED
  BY <1>4, <1>5 DEF Good

\* The frames that were read are kept by the turns that come later, unless those end
\* with an error.
LEMMA FramesAreKept ==
  ASSUME NEW d \in Seq(Nat), NEW at \in Nat, NEW fs \in Seq(FormatFrame), NEW m \in 0..Byte,
         Turns(d)[m] = Format!Parse(at, fs, None), NEW n \in m..Byte, Turns(d)[n].err = None
  PROVE  Len(Turns(d)[n].frames) >= Len(fs) /\ \A i \in 1..Len(fs) : Turns(d)[n].frames[i] = fs[i]
<1> DEFINE Keeps(t) == \E later \in Nat, more \in Seq(FormatFrame) :
                         /\ t = Format!Parse(later, more, None)
                         /\ Len(more) >= Len(fs) /\ \A i \in 1..Len(fs) : more[i] = fs[i]
           Good == {j \in Nat : j <= n - m => Keeps(Turns(d)[m + j])}
<1>1. m \in Nat /\ Byte \in Nat /\ m <= n /\ n \in Nat /\ n <= Byte
  BY FormatConstants
<1>2. 0 \in Good
  <2>1. Keeps(Turns(d)[m])
    OBVIOUS
  <2>2. m + 0 = m
    BY <1>1
  <2> HIDE DEF Keeps
  <2> QED
    BY <2>1, <2>2
<1>3. ASSUME NEW j \in Nat, j \in Good PROVE j + 1 \in Good
  <2> HIDE DEF Keeps
  <2> SUFFICES ASSUME j + 1 <= n - m PROVE Keeps(Turns(d)[m + (j + 1)])
    OBVIOUS
  <2>1. Keeps(Turns(d)[m + j])
    BY <1>1, <1>3
  <2>2. PICK i : i = m + (j + 1)
    OBVIOUS
  <2>3. i \in 1..Byte /\ i \in 0..Byte /\ i - 1 = m + j /\ n \in i..Byte
    BY <1>1, <2>2
  <2>4. PICK later \in Nat, more \in Seq(FormatFrame) :
          /\ Turns(d)[i - 1] = Format!Parse(later, more, None)
          /\ Len(more) >= Len(fs) /\ \A k \in 1..Len(fs) : more[k] = fs[k]
    BY <2>1, <2>3 DEF Keeps
  <2>5. Turns(d)[i - 1].err = None
    BY <2>4 DEF Format!Parse
  <2>6. Turns(d)[i] = Format!ReadFrame(d, Format!Parse(later, more, None))
    BY <2>3, <2>4, <2>5, TurnsFollow
  <2>7. Turns(d)[i].err = None
    <3> SUFFICES ASSUME Turns(d)[i].err # None PROVE FALSE
      OBVIOUS
    <3>1. Turns(d)[n] = Turns(d)[i]
      BY <2>3, ErrorsStick
    <3> QED
      BY <3>1
  <2>8. PICK next \in Nat, f \in FormatFrame :
          Turns(d)[i] = Format!Parse(next, Append(more, f), None)
    BY <2>6, <2>7, ReadsOneMore
  <2>9. PICK longer : longer = Append(more, f)
    OBVIOUS
  <2>10. longer \in Seq(FormatFrame) /\ Len(longer) = Len(more) + 1
         /\ \A k \in 1..Len(more) : longer[k] = more[k]
    BY <2>9
  <2>11. Len(longer) >= Len(fs) /\ \A k \in 1..Len(fs) : longer[k] = fs[k]
    <3>1. Len(fs) \in Nat /\ Len(more) \in Nat
      OBVIOUS
    <3>2. \A k \in 1..Len(fs) : k \in 1..Len(more)
      BY <2>4, <3>1
    <3>3. Len(longer) >= Len(fs)
      BY <2>4, <2>10, <3>1
    <3> QED
      BY <2>4, <2>10, <3>2, <3>3
  <2>12. Turns(d)[i] = Format!Parse(next, longer, None)
    BY <2>8, <2>9
  <2>13. Keeps(Turns(d)[i])
    BY <2>10, <2>11, <2>12 DEF Keeps
  <2> QED
    BY <2>2, <2>13
<1>4. n - m \in Nat /\ n - m <= n - m /\ m + (n - m) = n
  BY <1>1
<1> HIDE DEF Good
<1>5. n - m \in Good
  BY <1>2, <1>3, <1>4, EveryNatural
<1>6. Keeps(Turns(d)[n])
  <2> HIDE DEF Keeps
  <2> QED
    BY <1>4, <1>5 DEF Good
<1> QED
  BY <1>6 DEF Format!Parse

\* An encoding that ends early is refused, wherever it ends.
LEMMA CutIsNoticed ==
  ASSUME NEW n \in 0..ClipFrames, NEW fs \in [1..n -> Format!Frames],
         NEW l \in Nat, l < 4 + 5 * n, NEW d, d = SubSeq(Format!Encode(fs), 1, l)
  PROVE  Format!Decode(d).err \in {"ErrBadMagic", "ErrTruncated"}
<1>1. n \in Nat /\ n <= Byte /\ Byte \in Nat
  BY FormatConstants
<1>2. PICK e \in Seq(Nat) : /\ e = Format!Encode(fs) /\ Len(e) = 4 + 5 * n
                            /\ e[1] = 2 /\ e[2] = 1 /\ e[3] = 1 /\ e[4] = n
                            /\ \A i \in 1..n : e[5 * i + 2] = 2
  <2>1. /\ Format!Encode(fs) \in Seq(Nat) /\ Len(Format!Encode(fs)) = 4 + 5 * n
        /\ Format!Encode(fs)[1] = 2 /\ Format!Encode(fs)[2] = 1
        /\ Format!Encode(fs)[3] = 1 /\ Format!Encode(fs)[4] = n
        /\ \A i \in 1..n : Format!Encode(fs)[5 * i + 2] = 2
    BY EncodedBytes
  <2> QED
    BY <2>1
<1>3. d \in Seq(Nat) /\ Len(d) = l /\ \A k \in 1..l : d[k] = e[k]
  <2>1. \A k \in 1..l : k \in 1..Len(e)
    BY <1>1, <1>2
  <2>2. \A k \in 1..l : e[k] \in Nat
    BY <2>1
  <2>3. d = SubSeq(e, 1, l)
    BY <1>2
  <2>4. /\ SubSeq(e, 1, l) \in Seq(Nat) /\ Len(SubSeq(e, 1, l)) = IF 1 <= l THEN l - 1 + 1 ELSE 0
        /\ \A k \in 1..(l - 1 + 1) : SubSeq(e, 1, l)[k] = e[1 + k - 1]
    BY <2>2, SubSeqProperties
  <2>5. l - 1 + 1 = l /\ (~ (1 <= l) => l = 0) /\ \A k \in 1..l : 1 + k - 1 = k
    OBVIOUS
  <2> QED
    BY <2>3, <2>4, <2>5
<1>4. CASE l < 4
  <2>1. Len(d) >= 3 => d[3] = 1
    BY <1>2, <1>3
  <2> QED
    BY <1>3, <1>4, <2>1, DecodeShortHeader
<1>5. CASE l >= 4
  <2>1. PICK m \in 0..n : 4 + 5 * m <= l /\ l < 9 + 5 * m /\ m < n
    <3>1. PICK m \in Nat : m = (l - 4) \div 5
      BY <1>5
    <3>2. 5 * m <= l - 4 /\ l - 4 < 5 * m + 5
      BY <1>5, <3>1
    <3>3. m < n
      BY <1>1, <3>2
    <3>4. m \in 0..n /\ 4 + 5 * m <= l /\ l < 9 + 5 * m
      BY <1>1, <3>2, <3>3
    <3> QED
      BY <3>3, <3>4
  <2>2. m \in Nat
    BY <1>1
  <2>3. Turns(d)[m] = Format!Parse(4 + 5 * m, RestoredFrames(fs, m), None)
    <3>1. \A k \in 1..(4 + 5 * m) : d[k] = Format!Encode(fs)[k]
      BY <1>2, <1>3, <2>1, <2>2
    <3>2. Len(d) >= 4 + 5 * m
      BY <1>3, <2>1, <2>2
    <3> QED
      BY <1>3, <3>1, <3>2, TurnsRestore
  <2>4. PICK at \in Nat : at = 4 + 5 * m
    BY <2>2
  <2>5. at + 5 > Len(d) /\ (at + 3 <= Len(d) => d[at + 3] = 2)
    <3>1. at + 5 > Len(d)
      BY <1>3, <2>1, <2>2, <2>4
    <3>2. PICK i \in 1..n : i = m + 1
      BY <1>1, <2>1, <2>2
    <3>3. e[at + 3] = 2
      <4>1. at + 3 = 5 * i + 2
        BY <2>2, <2>4, <3>2
      <4>2. e[5 * i + 2] = 2
        BY <1>2
      <4> QED
        BY <4>1, <4>2
    <3>4. at + 3 <= Len(d) => d[at + 3] = e[at + 3]
      BY <1>3, <2>4
    <3> QED
      BY <3>1, <3>3, <3>4
  <2>6. Format!ReadFrame(d, Format!Parse(at, RestoredFrames(fs, m), None))
          = Format!Parse(at, <<>>, "ErrTruncated")
    BY <1>3, <2>5, ReadsShortEntry
  <2>7. PICK i \in 1..Byte : i = m + 1 /\ i - 1 = m /\ n \in i..Byte /\ i \in 0..Byte
    BY <1>1, <2>1, <2>2
  <2>8. Turns(d)[i] = Format!Parse(at, <<>>, "ErrTruncated")
    <3>1. Turns(d)[m].err = None
      BY <2>3 DEF Format!Parse
    <3>2. Turns(d)[i] = IF Turns(d)[m].err # None THEN Turns(d)[m]
                        ELSE Format!ReadFrame(d, Turns(d)[m])
      BY <2>7, TurnsFollow
    <3> QED
      BY <2>3, <2>4, <2>6, <3>1, <3>2
  <2>9. Turns(d)[i].err = "ErrTruncated" /\ "ErrTruncated" # None
    BY <2>8, FormatConstants DEF Format!Parse
  <2>10. Turns(d)[n] = Turns(d)[i]
    BY <2>7, <2>9, ErrorsStick
  <2>11. Format!Decode(d) = Turns(d)[n]
    <3>1. Len(d) >= 4 /\ d[1] = 2 /\ d[2] = 1 /\ d[3] = 1 /\ d[4] = n
      BY <1>2, <1>3, <1>5
    <3> QED
      BY <1>3, <3>1, DecodeAfterHeader
  <2> QED
    BY <2>9, <2>10, <2>11
<1> QED
  BY <1>4, <1>5

\* What is changed in an encoding and goes unnoticed shows in no frame that ends
\* before the change.
LEMMA DamageComesLater ==
  ASSUME NEW n \in 0..ClipFrames, NEW fs \in [1..n -> Format!Frames],
         NEW d \in Seq(Nat), Len(d) = Len(Format!Encode(fs)), Format!Decode(d).err = None,
         NEW m \in 1..n, \A k \in 1..(4 + 5 * m) : d[k] = Format!Encode(fs)[k]
  PROVE  Format!Decode(d).frames[m] = Format!Restored(fs[m])
<1>1. n \in Nat /\ n <= Byte /\ Byte \in Nat /\ m \in Nat /\ m <= n
  BY FormatConstants
<1>2. PICK e \in Seq(Nat) : /\ e = Format!Encode(fs) /\ Len(e) = 4 + 5 * n
                            /\ e[1] = 2 /\ e[2] = 1 /\ e[3] = 1 /\ e[4] = n
  <2>1. /\ Format!Encode(fs) \in Seq(Nat) /\ Len(Format!Encode(fs)) = 4 + 5 * n
        /\ Format!Encode(fs)[1] = 2 /\ Format!Encode(fs)[2] = 1
        /\ Format!Encode(fs)[3] = 1 /\ Format!Encode(fs)[4] = n
    BY EncodedBytes
  <2> QED
    BY <2>1
<1>3. /\ d \in Seq(Nat) /\ Len(d) = 4 + 5 * n /\ \A k \in 1..(4 + 5 * m) : d[k] = e[k]
  BY <1>2
<1>4. Format!Decode(d) = Turns(d)[n]
  <2>1. 1 \in 1..(4 + 5 * m) /\ 2 \in 1..(4 + 5 * m) /\ 3 \in 1..(4 + 5 * m) /\ 4 \in 1..(4 + 5 * m)
    BY <1>1
  <2>2. Len(d) >= 4 /\ d[1] = 2 /\ d[2] = 1 /\ d[3] = 1 /\ d[4] = n
    BY <1>1, <1>2, <1>3, <2>1
  <2> QED
    BY <1>3, <2>2, DecodeAfterHeader
<1>5. PICK at \in Nat, restored \in Seq(FormatFrame) :
        /\ Turns(d)[m] = Format!Parse(at, restored, None) /\ restored = RestoredFrames(fs, m)
  <2>1. Turns(d)[m] = Format!Parse(4 + 5 * m, RestoredFrames(fs, m), None)
    <3>1. Len(d) >= 4 + 5 * m /\ m \in 0..n
      BY <1>1, <1>3
    <3>2. \A k \in 1..(4 + 5 * m) : d[k] = Format!Encode(fs)[k]
      BY <1>2, <1>3
    <3> QED
      BY <1>3, <3>1, <3>2, TurnsRestore
  <2>2. \A k \in 1..m : Format!Restored(fs[k]) \in FormatFrame
    <3>1. \A k \in 1..m : k \in 1..n
      BY <1>1
    <3> QED
      BY <3>1, EntryRestores
  <2>3. RestoredFrames(fs, m) \in Seq(FormatFrame)
    <3>1. m \in Nat /\ RestoredFrames(fs, m) \in [1..m -> FormatFrame]
      BY <1>1, <2>2 DEF RestoredFrames
    <3> HIDE DEF RestoredFrames
    <3> QED
      BY <3>1
  <2>4. 4 + 5 * m \in Nat
    BY <1>1
  <2> QED
    BY <2>1, <2>3, <2>4
<1>6. Len(restored) = m /\ restored[m] = Format!Restored(fs[m])
  BY <1>1, <1>5 DEF RestoredFrames
<1>7. m \in 0..Byte /\ n \in m..Byte /\ m \in 1..Len(restored)
  BY <1>1, <1>6
<1>8. Turns(d)[n].err = None
  BY <1>4
<1>9. Turns(d)[n].frames[m] = restored[m]
  <2>1. d \in Seq(Nat) /\ Turns(d)[m] = Format!Parse(at, restored, None)
    BY <1>3, <1>5
  <2>2. \A i \in 1..Len(restored) : Turns(d)[n].frames[i] = restored[i]
    BY <1>7, <1>8, <2>1, FramesAreKept
  <2> QED
    BY <1>7, <2>2
<1> QED
  BY <1>4, <1>6, <1>9

\* The inductive invariant: what is stored is what Encode made of the frames, or the
\* beginning of it, or that with one byte changed, and the outcome is Decode's.
FormatInv ==
  /\ \E n \in 0..ClipFrames : frames \in [1..n -> Format!Frames]
  /\ damaged \in Nat
  /\ cut => /\ damaged = 0
            /\ \E l \in Nat : /\ l < Len(Format!Encode(frames))
                              /\ data = SubSeq(Format!Encode(frames), 1, l)
  /\ ~cut /\ damaged = 0 => data = Format!Encode(frames)
  /\ damaged > 0 => \E b \in Nat : data = [Format!Encode(frames) EXCEPT ![damaged] = b]
  /\ outcome # None =>
       outcome = [err |-> Format!Decode(data).err, frames |-> Format!Decode(data).frames]

\* The invariant holds of what Encode writes, and cutting, damaging and reading it
\* keep the invariant.
LEMMA FormatInit == Format!Init => FormatInv
<1> SUFFICES ASSUME Format!Init PROVE FormatInv
  OBVIOUS
<1>1. \E n \in 0..ClipFrames : frames \in [1..n -> Format!Frames]
  BY DEF Format!Init
<1> QED
  BY <1>1 DEF Format!Init, FormatInv

LEMMA FormatNext == FormatInv /\ [Format!Next]_Format!vars => FormatInv'
<1> SUFFICES ASSUME FormatInv, [Format!Next]_Format!vars PROVE FormatInv'
  OBVIOUS
<1>1. CASE Format!Cut
  <2>1. /\ ~cut /\ damaged = 0 /\ outcome = None /\ cut' = TRUE
        /\ frames' = frames /\ damaged' = damaged /\ outcome' = outcome
    BY <1>1 DEF Format!Cut
  <2>2. data = Format!Encode(frames)
    BY <2>1 DEF FormatInv
  <2>3. PICK l \in 0..(Len(data) - 1) : data' = SubSeq(data, 1, l)
    BY <1>1 DEF Format!Cut
  <2>4. l \in Nat /\ l < Len(Format!Encode(frames))
    <3>1. PICK n \in 0..ClipFrames : frames \in [1..n -> Format!Frames]
      BY DEF FormatInv
    <3>2. Len(Format!Encode(frames)) \in Nat
      BY <3>1, EncodedBytes
    <3> QED
      BY <2>2, <3>2
  <2> QED
    BY <2>1, <2>2, <2>3, <2>4 DEF FormatInv
<1>2. CASE Format!Damage
  <2>1. /\ ~cut /\ damaged = 0 /\ outcome = None
        /\ frames' = frames /\ cut' = cut /\ outcome' = outcome
    BY <1>2 DEF Format!Damage
  <2>2. data = Format!Encode(frames)
    BY <2>1 DEF FormatInv
  <2>3. PICK i \in DOMAIN data, b \in Format!Bytes :
          data' = [data EXCEPT ![i] = b] /\ damaged' = i
    BY <1>2 DEF Format!Damage
  <2>4. i \in Nat /\ i > 0
    <3>1. PICK n \in 0..ClipFrames : frames \in [1..n -> Format!Frames]
      BY DEF FormatInv
    <3>2. Format!Encode(frames) \in Seq(Nat)
      BY <3>1, EncodedBytes
    <3> QED
      BY <2>2, <3>2
  <2>5. b \in Nat
    BY FormatConstants DEF Format!Bytes
  <2>6. damaged' \in Nat /\ damaged' > 0 /\ data' = [Format!Encode(frames') EXCEPT ![damaged'] = b]
    BY <2>1, <2>2, <2>3, <2>4
  <2>7. /\ ~cut' /\ outcome' = None /\ damaged' # 0
        /\ \E n \in 0..ClipFrames : frames' \in [1..n -> Format!Frames]
    BY <2>1, <2>6 DEF FormatInv
  <2>8. \E c \in Nat : data' = [Format!Encode(frames') EXCEPT ![damaged'] = c]
    BY <2>5, <2>6
  <2> QED
    BY <2>6, <2>7, <2>8 DEF FormatInv
<1>3. CASE Format!Read
  BY <1>3 DEF FormatInv, Format!Read
<1>4. CASE UNCHANGED Format!vars
  BY <1>4 DEF FormatInv, Format!vars
<1> QED
  BY <1>1, <1>2, <1>3, <1>4 DEF Format!Next

LEMMA FormatInvHolds == Format!Spec => []FormatInv
BY FormatInit, FormatNext, PTL DEF Format!Spec

\* Decode gives back what Encode was given: every frame, in order, at its time, for
\* windows of any length and any times that the fields hold.
THEOREM ClipsRoundTrip == Format!Spec => []RoundTrip
<1>1. FormatInv => RoundTrip
  <2> SUFFICES ASSUME FormatInv, outcome # None, ~cut, damaged = 0
               PROVE  /\ outcome.err = None
                      /\ outcome.frames = [i \in DOMAIN frames |-> Format!Restored(frames[i])]
    BY DEF RoundTrip, Format!RoundTrip
  <2>1. PICK n \in 0..ClipFrames : frames \in [1..n -> Format!Frames]
    BY DEF FormatInv
  <2>2. data = Format!Encode(frames)
    BY DEF FormatInv
  <2>3. /\ data \in Seq(Nat) /\ Len(data) = 4 + 5 * n
        /\ data[1] = 2 /\ data[2] = 1 /\ data[3] = 1 /\ data[4] = n
    BY <2>1, <2>2, EncodedBytes
  <2>4. n \in Nat /\ n \in 0..n
    BY FormatConstants
  <2>5. Format!Decode(data) = Turns(data)[n]
    <3>1. Len(data) >= 4
      BY <2>3, <2>4
    <3> QED
      BY <2>3, <3>1, DecodeAfterHeader
  <2>6. Turns(data)[n] = Format!Parse(4 + 5 * n, RestoredFrames(frames, n), None)
    <3>1. Len(data) >= 4 + 5 * n
      BY <2>3, <2>4
    <3> QED
      BY <2>1, <2>2, <2>3, <2>4, <3>1, TurnsRestore
  <2>7. outcome.err = None /\ outcome.frames = RestoredFrames(frames, n)
    BY <2>5, <2>6 DEF FormatInv, Format!Parse
  <2> QED
    BY <2>1, <2>7 DEF RestoredFrames
<1> QED
  BY <1>1, FormatInvHolds, PTL

\* Bytes that end early are refused, and one changed byte shows in no frame that ends
\* before it, for windows of any length and any place of the cut or the change.
THEOREM DamageIsAlwaysContained == Format!Spec => []DamageIsContained
<1>1. FormatInv => DamageIsContained
  <2> SUFFICES ASSUME FormatInv, outcome # None
               PROVE  /\ cut => outcome.err \in {"ErrBadMagic", "ErrTruncated"}
                      /\ damaged > 0 /\ outcome.err = None =>
                           \A i \in DOMAIN outcome.frames :
                             i \in DOMAIN frames /\ Format!HeaderLength + 5 * i < damaged =>
                               outcome.frames[i] = Format!Restored(frames[i])
    BY DEF DamageIsContained, Format!DamageIsContained
  <2>1. PICK n \in 0..ClipFrames : frames \in [1..n -> Format!Frames]
    BY DEF FormatInv
  <2>2. outcome.err = Format!Decode(data).err /\ outcome.frames = Format!Decode(data).frames
    BY DEF FormatInv
  <2>3. ASSUME cut PROVE outcome.err \in {"ErrBadMagic", "ErrTruncated"}
    <3>1. PICK l \in Nat : /\ l < Len(Format!Encode(frames))
                           /\ data = SubSeq(Format!Encode(frames), 1, l)
      BY <2>3 DEF FormatInv
    <3>2. Len(Format!Encode(frames)) = 4 + 5 * n
      BY <2>1, EncodedBytes
    <3>3. l < 4 + 5 * n
      BY <3>1, <3>2
    <3> QED
      BY <2>1, <2>2, <3>1, <3>3, CutIsNoticed
  <2>4. ASSUME damaged > 0, outcome.err = None, NEW i \in DOMAIN frames,
               Format!HeaderLength + 5 * i < damaged
        PROVE  outcome.frames[i] = Format!Restored(frames[i])
    <3>1. PICK b \in Nat : data = [Format!Encode(frames) EXCEPT ![damaged] = b]
      BY <2>4 DEF FormatInv
    <3>2. i \in 1..n /\ damaged \in Nat /\ 4 + 5 * i < damaged
      BY <2>1, <2>4 DEF FormatInv, Format!HeaderLength
    <3>3. Format!Decode(data).err = None
      BY <2>2, <2>4
    <3>4. Format!Decode(data).frames[i] = Format!Restored(frames[i])
      <4>1. PICK e \in Seq(Nat) : e = Format!Encode(frames) /\ Len(e) = 4 + 5 * n
        <5>1. Format!Encode(frames) \in Seq(Nat) /\ Len(Format!Encode(frames)) = 4 + 5 * n
          BY <2>1, EncodedBytes
        <5> QED
          BY <5>1
      <4>2. PICK d : d = [e EXCEPT ![damaged] = b]
        OBVIOUS
      <4>3. d \in Seq(Nat) /\ Len(d) = Len(e)
        <5>1. Len(e) \in Nat /\ e \in [1..Len(e) -> Nat]
          OBVIOUS
        <5>2. d \in [1..Len(e) -> Nat]
          BY <4>2, <5>1
        <5> QED
          BY <5>1, <5>2
      <4>4. \A k \in 1..(4 + 5 * i) : k \in 1..Len(e) /\ k # damaged
        <5>1. n \in Nat /\ i \in Nat /\ i <= n
          BY <3>2, FormatConstants
        <5> QED
          BY <3>2, <4>1, <5>1
      <4>5. \A k \in 1..(4 + 5 * i) : d[k] = e[k]
        BY <4>2, <4>4
      <4>6. data = d
        BY <3>1, <4>1, <4>2
      <4>7. PICK fs \in [1..n -> Format!Frames] : fs = frames /\ e = Format!Encode(fs)
        BY <2>1, <4>1
      <4>8. Format!Decode(d).frames[i] = Format!Restored(fs[i])
        BY <3>2, <3>3, <4>3, <4>5, <4>6, <4>7, DamageComesLater
      <4> QED
        BY <4>6, <4>7, <4>8
    <3> QED
      BY <2>2, <3>4
  <2> QED
    BY <2>3, <2>4
<1> QED
  BY <1>1, FormatInvHolds, PTL
=============================================================================
