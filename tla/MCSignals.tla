------------------------------ MODULE MCSignals ------------------------------
(***************************************************************************)
(* Two algorithms for TLC, side by side: the lag between two audio tracks  *)
(* (TimeSync) and the container of a clip's frames (ClipFormat).  One runs *)
(* at a time, since neither knows of the other.                            *)
(***************************************************************************)
EXTENDS Integers

CONSTANTS Samples, MaxLength,         \* of TimeSync
          Byte, ClipFrames, ClipTime, \* of ClipFormat: its bounds are the last two
          None

VARIABLES
  algorithm,  \* the one that runs
  reference, target, fft_size, result,
  frames, data, cut, damaged, outcome

syncVars   == <<reference, target, fft_size, result>>
formatVars == <<frames, data, cut, damaged, outcome>>

Sync   == INSTANCE TimeSync
Format == INSTANCE ClipFormat WITH MaxFrames <- ClipFrames, MaxTime <- ClipTime

\* Samples are integers, and what is missing is no outcome.
ASSUME TimeSyncConstants ==
  /\ Samples \subseteq Int /\ MaxLength \in Nat
  /\ None \notin {"none", "AudioExtractionError", "ValueError"}

\* The numbers of a container fit their fields, and no error is missing.
ASSUME FormatConstants ==
  /\ Byte \in Nat /\ Byte > 2
  /\ ClipFrames \in Nat /\ ClipFrames < Byte
  /\ ClipTime \in Nat /\ ClipTime < Byte * Byte
  /\ None \notin {"jpeg", "ErrTruncated", "ErrBadMagic", "ErrUnsupportedVersion"}

SignalsInit ==
  /\ algorithm \in {"find_offset", "Decode"}
  /\ IF algorithm = "find_offset"
     THEN Sync!Init /\ frames = <<>> /\ data = <<>> /\ cut = FALSE /\ damaged = 0 /\ outcome = None
     ELSE Format!Init /\ reference = <<>> /\ target = <<>> /\ fft_size = 0 /\ result = Sync!NoLag(None)

SignalsNext ==
  /\ UNCHANGED algorithm
  /\ \/ algorithm = "find_offset" /\ Sync!Next /\ UNCHANGED formatVars
     \/ algorithm = "Decode" /\ Format!Next /\ UNCHANGED syncVars

SignalsSpec == SignalsInit /\ [][SignalsNext]_<<algorithm, syncVars, formatVars>>

-----------------------------------------------------------------------------
\* find_offset: signals of one length align best at the lag that is found.
EqualLengthsAlign == Sync!EqualLengthsAlign

\* Clip container: intact bytes come back as the frames that were captured.
RoundTrip == Format!RoundTrip

\* Clip container: bytes that were cut or changed never pass for other frames.
DamageIsContained == Format!DamageIsContained
=============================================================================
