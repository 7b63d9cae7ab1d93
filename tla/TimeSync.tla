------------------------------ MODULE TimeSync ------------------------------
(***************************************************************************)
(* find_offset of ml-pipeline/time-sync, with find_offset_from_videos      *)
(* around it: the lag between two audio tracks of one event, by a          *)
(* correlation that numpy's FFT makes circular and zero padding is to make *)
(* linear again.                                                           *)
(*                                                                         *)
(* Samples are integers.  Subtracting the mean is done on signals scaled   *)
(* by their length, which scales every correlation alike; the scale, the   *)
(* norm and the sample rate are left out.  Which of several equal maxima   *)
(* argmax returns depends on rounding and is left open.                    *)
(***************************************************************************)
EXTENDS Integers, Sequences, Functions

CONSTANTS Samples,    \* the values of a sample
          MaxLength,  \* bound: samples of a signal
          None        \* no result yet

MIN_SAMPLES == 2
Signals == UNION {[1..n -> Samples] : n \in 0..MaxLength}
Errors  == {"AudioExtractionError", "ValueError"}

VARIABLES
  reference, target,  \* the samples ffmpeg makes of the two clips
  fft_size,           \* 0 until the signals are accepted
  result              \* the lag found and its correlation, or the exception

vars == <<reference, target, fft_size, result>>

NoLag(e) == [error |-> e, lag |-> 0, peak |-> 0]

Init ==
  /\ reference \in Signals /\ target \in Signals
  /\ fft_size = 0
  /\ result = NoLag(None)

Raise(e) == result' = NoLag(e)

-----------------------------------------------------------------------------
Sum(f) == FoldFunction(+, 0, f)

Demeaned(s) == LET total == Sum(s) IN [n \in 1..Len(s) |-> Len(s) * s[n] - total]

\* Sample n of s, counted from 0, in a signal padded with zeros on both sides.
Sample(s, n) == IF n \in 0..Len(s) - 1 THEN s[n + 1] ELSE 0

\* irfft(conj(rfft(r)) * rfft(t)) at index k: r against t shifted by k, round a
\* ring of size samples.  The padding of r adds nothing to the sum.
CircularCorrelation(r, t, size, k) ==
  Sum([n \in 0..Len(r) - 1 |-> Sample(r, n) * Sample(t, (n + k) % size)])

\* Mutation: the lags of the shorter half only.
LagsOffByOne(r, t) == -(Len(t) - 1) + 1 .. Len(r) - 1

\* np.arange(-(tgt_len - 1), ref_len)
Lags(r, t) == -(Len(t) - 1) .. Len(r) - 1

FullLength(r, t) == Len(r) + Len(t) - 1

-----------------------------------------------------------------------------
\* extract_audio: ffmpeg is missing, fails on a clip, or finds no audio in it.
ExtractionFails ==
  /\ result.error = None /\ fft_size = 0
  /\ Raise("AudioExtractionError")
  /\ UNCHANGED <<reference, target, fft_size>>

AcceptSignals ==
  /\ result.error = None /\ fft_size = 0
  /\ reference # <<>> /\ target # <<>>
  /\ IF Len(reference) < MIN_SAMPLES \/ Len(target) < MIN_SAMPLES
     THEN Raise("ValueError") /\ UNCHANGED fft_size
     ELSE fft_size' = 1 /\ UNCHANGED result
  /\ UNCHANGED <<reference, target>>

\* The smallest power of two that holds every lag once.
Double ==
  /\ result.error = None /\ fft_size # 0
  /\ fft_size < FullLength(reference, target)
  /\ fft_size' = 2 * fft_size
  /\ UNCHANGED <<reference, target, result>>

\* The circular buffer is read at lag % fft_size, and the largest value wins.
Correlate ==
  /\ result.error = None /\ fft_size # 0
  /\ fft_size >= FullLength(reference, target)
  /\ LET r == Demeaned(reference)
         t == Demeaned(target)
         correlation == [lag \in Lags(r, t) |-> CircularCorrelation(r, t, fft_size, lag % fft_size)]
     IN \E best \in DOMAIN correlation :
          /\ \A lag \in DOMAIN correlation : correlation[lag] <= correlation[best]
          /\ result' = [error |-> "none", lag |-> best, peak |-> correlation[best]]
  /\ UNCHANGED <<reference, target, fft_size>>

Finished == result.error # None /\ UNCHANGED vars

Next == ExtractionFails \/ AcceptSignals \/ Double \/ Correlate \/ Finished

Spec == Init /\ [][Next]_vars

-----------------------------------------------------------------------------
TypeOK ==
  /\ reference \in Signals /\ target \in Signals
  /\ fft_size \in Nat
  /\ fft_size # 0 => fft_size < 2 * FullLength(reference, target)
  /\ result \in [error : Errors \cup {None, "none"}, lag : Int, peak : Int]

\* The reference definition: r against t shifted by lag, along a line.
LinearCorrelation(r, t, lag) ==
  Sum([n \in 0..Len(r) - 1 |-> Sample(r, n) * Sample(t, n + lag)])

\* The lags at which two signals overlap at all.
Overlaps(r, t) == -(Len(r) - 1) .. Len(t) - 1

IsBestLag(r, t, best) ==
  /\ best \in Overlaps(r, t)
  /\ \A lag \in Overlaps(r, t) :
       LinearCorrelation(r, t, lag) <= LinearCorrelation(r, t, best)

\* For signals of one length the lag found is one at which they align best, and
\* it is positive when target lags: neither the circular transform nor the
\* modular indexing mixes two lags up.
EqualLengthsAlign ==
  result.error = "none" /\ Len(reference) = Len(target) =>
    IsBestLag(Demeaned(reference), Demeaned(target), result.lag)

Audible(s) == \E n \in 1..Len(s) : s[n] # s[1]

\* What the docstring says: the signals need not be of the same length.
AnyLengthsAlign ==
  result.error = "none" /\ Audible(reference) /\ Audible(target) =>
    IsBestLag(Demeaned(reference), Demeaned(target), result.lag)
=============================================================================
