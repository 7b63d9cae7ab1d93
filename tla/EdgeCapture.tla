---------------------------- MODULE EdgeCapture ----------------------------
(***************************************************************************)
(* The edge agent's rolling buffers (edge-agent/internal/buffer) and the   *)
(* two goroutines that feed them (captureLoop and audioCaptureLoop with    *)
(* internal/capture).  What POST /trigger and GET /audio-snapshot can ever *)
(* take away is what ring and audioRing hold: Add and Snapshot exclude     *)
(* each other.                                                             *)
(*                                                                         *)
(* Time is counted in ticks.  The microphone records one chunk per tick;   *)
(* its driver may hold recorded chunks back, deliver them in a burst, or   *)
(* lose one with a read that fails.  Go's clock is monotonic, and a frame  *)
(* read that fails leaves no trace.                                        *)
(***************************************************************************)
EXTENDS Integers, Sequences

CONSTANTS Window,     \* the configured window, in ticks
          MaxTime,    \* bound: ticks of the clock
          MaxFrames,  \* bound: frames the camera delivers
          MaxLost     \* bound: recorded chunks that are never delivered

ASSUME CaptureConstants ==
  Window \in Nat /\ MaxTime \in Nat /\ MaxFrames \in Nat /\ MaxLost \in Nat

VARIABLES
  now,        \* the clock
  held,       \* the frame captureLoop has read and not yet added: its stamp
  ring,       \* the stamps (CapturedAt) in the RingBuffer, oldest first
  heldChunk,  \* the chunk audioCaptureLoop has read and not yet added
  samplesRead,\* chunks read from the driver
  audioRing,  \* the chunks in the AudioRingBuffer
  lost,       \* recorded chunks that a failed read has lost
  added       \* history: the stamps of all frames ever added

vars == <<now, held, ring, heldChunk, samplesRead, audioRing, lost, added>>

Init ==
  /\ now = 0
  /\ held = <<>>
  /\ ring = <<>>
  /\ heldChunk = <<>>
  /\ samplesRead = 0
  /\ audioRing = <<>>
  /\ lost = 0
  /\ added = <<>>

Tick ==
  /\ now < MaxTime
  /\ now' = now + 1
  /\ UNCHANGED <<held, ring, heldChunk, samplesRead, audioRing, lost, added>>

\* Drop the longest prefix stamped before the cutoff that the newest item sets.
Kept(items, stamps) ==
  LET cutoff == stamps[Len(stamps)] - Window
      first  == CHOOSE i \in 1..Len(stamps) :
                  /\ stamps[i] >= cutoff
                  /\ \A j \in 1..(i - 1) : stamps[j] < cutoff
  IN  SubSeq(items, first, Len(items))

KeptFrames(frames) == Kept(frames, frames)
KeptChunks(chunks) == Kept(chunks, [i \in 1..Len(chunks) |-> chunks[i].at])

-----------------------------------------------------------------------------
\* Camera.Read stamps the frame when the read returns.
ReadFrame ==
  /\ held = <<>>
  /\ Len(added) < MaxFrames
  /\ held' = <<now>>
  /\ UNCHANGED <<now, ring, heldChunk, samplesRead, audioRing, lost, added>>

\* Mutation: the frame is appended after the pruning.
AddAfterPruning ==
  /\ held # <<>>
  /\ ring' = (IF ring = <<>> THEN ring ELSE KeptFrames(ring)) \o held
  /\ added' = added \o held
  /\ held' = <<>>
  /\ UNCHANGED <<now, heldChunk, samplesRead, audioRing, lost>>

\* RingBuffer.Add
AddFrame ==
  /\ held # <<>>
  /\ ring' = KeptFrames(ring \o held)
  /\ added' = added \o held
  /\ held' = <<>>
  /\ UNCHANGED <<now, heldChunk, samplesRead, audioRing, lost>>

\* Mutation: the chunk is stamped when it arrives.
ArrivalStamp == now

\* The chunk's place in the audio timeline since streamStart.
CapturedAt == samplesRead

\* Microphone.Read delivers the next recorded chunk: the pos-th that is read.
ReadChunk ==
  /\ heldChunk = <<>>
  /\ samplesRead + lost < now
  /\ heldChunk' = <<[pos |-> samplesRead, at |-> CapturedAt, recorded |-> samplesRead + lost]>>
  /\ samplesRead' = samplesRead + 1
  /\ UNCHANGED <<now, held, ring, audioRing, lost, added>>

\* Microphone.Read fails and audioCaptureLoop goes on.
ChunkReadFails ==
  /\ heldChunk = <<>>
  /\ samplesRead + lost < now /\ lost < MaxLost
  /\ lost' = lost + 1
  /\ UNCHANGED <<now, held, ring, heldChunk, samplesRead, audioRing, added>>

\* AudioRingBuffer.Add
AddChunk ==
  /\ heldChunk # <<>>
  /\ audioRing' = KeptChunks(audioRing \o heldChunk)
  /\ heldChunk' = <<>>
  /\ UNCHANGED <<now, held, ring, samplesRead, lost, added>>

\* The bounds are used up.
Finished ==
  /\ now = MaxTime /\ samplesRead + lost = now /\ Len(added) = MaxFrames
  /\ held = <<>> /\ heldChunk = <<>>
  /\ UNCHANGED vars

Next == Tick \/ ReadFrame \/ AddFrame \/ ReadChunk \/ ChunkReadFails \/ AddChunk \/ Finished

Spec == Init /\ [][Next]_vars

-----------------------------------------------------------------------------
\* A snapshot holds, oldest first, every frame ever added whose stamp is within
\* the window of the newest one, and no other.
VideoWindowIsExact ==
  \E k \in 1..(Len(added) + 1) :
    /\ ring = SubSeq(added, k, Len(added))
    /\ \A i \in 1..Len(added) : i >= k <=> added[i] + Window >= added[Len(added)]

\* However late and in whatever bursts the driver delivers, an audio snapshot
\* is one unbroken run of the chunks that were read, which ends with the newest
\* added and is never longer than the window (edge-agent/README.md tells of a
\* 20 s window that held 40 s of audio), nor shorter while there are as many.
AudioWindowIsExact ==
  LET newest == samplesRead - Len(heldChunk) - 1
      oldest == IF newest < Window THEN 0 ELSE newest - Window
  IN  [i \in 1..Len(audioRing) |-> audioRing[i].pos] =
        [i \in 1..(newest + 1 - oldest) |-> oldest + i - 1]

\* What capture.go says of the stamps: they are each chunk's true capture time.
ChunksCarryTheirTime == \A i \in 1..Len(audioRing) : audioRing[i].at = audioRing[i].recorded
=============================================================================
