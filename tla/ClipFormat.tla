----------------------------- MODULE ClipFormat -----------------------------
(***************************************************************************)
(* The container the edge agent uploads (internal/clipformat): Encode,     *)
(* which makes it of the frames of a window, and Decode, which parses it,  *)
(* here after the bytes were cut short or one of them was damaged.         *)
(*                                                                         *)
(* A byte is a digit in base Byte, and the fields keep their order and     *)
(* their framing at smaller widths: 2 bytes of magic for 8, 1 of version,  *)
(* 1 of count for 4, 2 of time for 8, 1 of length for 4.                   *)
(***************************************************************************)
EXTENDS Naturals, Sequences, SequencesExt

CONSTANTS Byte,        \* 256 there, more than 2 here
          MaxFrames,   \* bound, less than Byte: frames in a window
          MaxTime,     \* bound, less than Byte * Byte: times a frame may carry
          None

VARIABLES
  frames,    \* what was captured
  data,      \* the bytes that Decode is given
  cut,       \* they end early
  damaged,   \* the place of the byte that was changed, 0 if none was
  outcome    \* None, or what Decode returned: its error and its frames

vars == <<frames, data, cut, damaged, outcome>>

Magic         == <<2, 1>>
FormatVersion == 1
HeaderLength  == 4
Images        == 0..3
Bytes         == 0..(Byte - 1)

\* image/jpeg, which loses detail and recognizes its own: external.
JpegEncode(image) == <<2, image \div 2>>
IsJpeg(bytes)     == Len(bytes) = 2 /\ bytes[1] = 2
JpegDecode(bytes) == 2 * bytes[2]
AfterJpeg(image)  == JpegDecode(JpegEncode(image))

-----------------------------------------------------------------------------
\* Mutation: the frames are written newest first.
EncodeReversed(fs) ==
  LET Entry(f) == <<f.time \div Byte, f.time % Byte, Len(JpegEncode(f.image))>> \o JpegEncode(f.image)
  IN Magic \o <<FormatVersion, Len(fs)>> \o FlattenSeq([i \in DOMAIN fs |-> Entry(fs[Len(fs) + 1 - i])])

\* Encode, every number big-endian.
Encode(fs) ==
  LET Entry(f) == <<f.time \div Byte, f.time % Byte, Len(JpegEncode(f.image))>> \o JpegEncode(f.image)
  IN Magic \o <<FormatVersion, Len(fs)>> \o FlattenSeq([i \in DOMAIN fs |-> Entry(fs[i])])

Parse(at, fs, err) == [at |-> at, frames |-> fs, err |-> err]

\* Mutation: Read, which may return less than was asked for and leave zeros.
ReadFramePadded(d, p) ==
  LET jpegLen == d[p.at + 3]
      payload == [i \in 1..jpegLen |-> IF p.at + 3 + i <= Len(d) THEN d[p.at + 3 + i] ELSE 0]
  IN IF p.at + 3 > Len(d)    THEN Parse(p.at, <<>>, "ErrTruncated")
     ELSE IF ~IsJpeg(payload) THEN Parse(p.at, <<>>, "jpeg")
     ELSE Parse(p.at + 3 + jpegLen,
                Append(p.frames, [time |-> d[p.at + 1] * Byte + d[p.at + 2], image |-> JpegDecode(payload)]),
                None)

\* One turn of Decode's loop, past the p.at bytes that have been read.
ReadFrame(d, p) ==
  LET jpegLen == d[p.at + 3]
      payload == SubSeq(d, p.at + 4, p.at + 3 + jpegLen)
  IN IF p.at + 3 > Len(d) \/ p.at + 3 + jpegLen > Len(d) THEN Parse(p.at, <<>>, "ErrTruncated")
     ELSE IF ~IsJpeg(payload) THEN Parse(p.at, <<>>, "jpeg")
     ELSE Parse(p.at + 3 + jpegLen,
                Append(p.frames, [time |-> d[p.at + 1] * Byte + d[p.at + 2], image |-> JpegDecode(payload)]),
                None)

\* Decode; bytes past the last frame are not looked at.  With an error there are
\* no frames.
Decode(d) ==
  LET parsed[i \in 0..Byte] ==
        IF i = 0 THEN Parse(HeaderLength, <<>>, None)
        ELSE IF parsed[i - 1].err # None THEN parsed[i - 1]
        ELSE ReadFrame(d, parsed[i - 1])
  IN IF Len(d) < Len(Magic) \/ SubSeq(d, 1, 2) # Magic THEN Parse(0, <<>>, "ErrBadMagic")
     ELSE IF Len(d) < 3            THEN Parse(0, <<>>, "ErrTruncated")
     ELSE IF d[3] # FormatVersion  THEN Parse(0, <<>>, "ErrUnsupportedVersion")
     ELSE IF Len(d) < HeaderLength THEN Parse(0, <<>>, "ErrTruncated")
     ELSE parsed[d[4]]

-----------------------------------------------------------------------------
Frames == [time : 0..MaxTime, image : Images]

Init ==
  /\ frames \in UNION {[1..n -> Frames] : n \in 0..MaxFrames}
  /\ data = Encode(frames)
  /\ cut = FALSE /\ damaged = 0
  /\ outcome = None

\* The stored bytes end early.
Cut ==
  /\ outcome = None /\ ~cut /\ damaged = 0
  /\ \E n \in 0..(Len(data) - 1) : data' = SubSeq(data, 1, n)
  /\ cut' = TRUE
  /\ UNCHANGED <<frames, damaged, outcome>>

\* One stored byte changes.
Damage ==
  /\ outcome = None /\ ~cut /\ damaged = 0
  /\ \E i \in DOMAIN data, b \in Bytes :
       b # data[i] /\ data' = [data EXCEPT ![i] = b] /\ damaged' = i
  /\ UNCHANGED <<frames, cut, outcome>>

Read ==
  /\ outcome = None
  /\ outcome' = [err |-> Decode(data).err, frames |-> Decode(data).frames]
  /\ UNCHANGED <<frames, data, cut, damaged>>

Next == Cut \/ Damage \/ Read

Spec == Init /\ [][Next]_vars

-----------------------------------------------------------------------------
\* What a decoder of the container owes for f: its time, its image after JPEG.
Restored(f) == [f EXCEPT !.image = AfterJpeg(f.image)]

\* Intact bytes come back as every frame, in order, with the nanosecond it was
\* captured at and the image JPEG leaves of it.
RoundTrip ==
  outcome # None /\ ~cut /\ damaged = 0 =>
    outcome.err = None /\ outcome.frames = [i \in DOMAIN frames |-> Restored(frames[i])]

\* Other bytes never pass for frames that were not captured: those that end early,
\* wherever that is, are not taken for a shorter clip, and one changed byte that
\* goes unnoticed shows in no frame that ends before it (an entry is 5 bytes long
\* here).
DamageIsContained ==
  outcome # None =>
    /\ cut => outcome.err \in {"ErrBadMagic", "ErrTruncated"}
    /\ damaged > 0 /\ outcome.err = None =>
         \A i \in DOMAIN outcome.frames :
           i \in DOMAIN frames /\ HeaderLength + 5 * i < damaged => outcome.frames[i] = Restored(frames[i])
=============================================================================
