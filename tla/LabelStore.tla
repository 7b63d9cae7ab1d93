----------------------------- MODULE LabelStore -----------------------------
(***************************************************************************)
(* The server of the ball-labeling tool (ml-pipeline/tools/labeling/       *)
(* server.py): a cache of extracted frames and one label document per      *)
(* clip, both plain files named after the clip's stem.  FastAPI runs the   *)
(* endpoints in a thread pool and nothing locks the files, so a request is *)
(* as many steps as it makes file operations, and so is ffmpeg, which      *)
(* creates a picture's file and then fills it.                             *)
(*                                                                         *)
(* A picture is the pair <<clip, frame number>> it shows, or Blank when it *)
(* is cut short; a label is the picture it was made on: a box and          *)
(* {visible: false} are stored alike.  The ffprobe calls of a request      *)
(* change nothing and are left out, and clips are neither added nor        *)
(* removed.                                                                *)
(***************************************************************************)
EXTENDS Naturals, Sequences

CONSTANTS Clips,      \* the files in raw-footage/
          Stem,       \* Stem[c]: the file name of c without its suffix
          NumFrames,  \* how many frames ffmpeg makes of a clip
          FrameCount, \* how many round(fps * duration) announces
          Requests,   \* requests in progress at once
          MaxFaults,  \* bound: how often the server dies or ffmpeg fails
          None,       \* no request, no label
          Blank,      \* a picture that is empty or cut short
          Empty, Torn \* documents that cannot be parsed: truncated, or
                      \* written by two at once

ASSUME LabelConstants ==
  /\ NumFrames \in Nat \ {0}
  /\ FrameCount \in Nat \ {0} /\ NumFrames <= FrameCount
  /\ MaxFaults \in Nat
  /\ DOMAIN Stem = Clips

Stems    == {Stem[c] : c \in Clips}
Frames   == 1..FrameCount
Pictures == Clips \X Frames

Labels     == Pictures \cup {Blank, None}
Unreadable == {Empty, Torn}

VARIABLES
  doc,      \* doc[s]: the label of each frame; a file that is missing has none
  cache,    \* cache[s]: the clip that each file frame_00001.jpg, ... was made of,
            \* or Blank between its creation and its filling
  req,      \* req[r]: the request, where it is and what it holds
  faults,
  \* history, read by the properties only
  saved,    \* saved[s]: the labels saved so far, or None once saves of s have
            \* overlapped or a crash has cut one
  spoiled   \* the stems of which an extraction was cut short, or still under way
            \* when another request looked for its files

storeVars == <<doc, cache, req, faults, saved, spoiled>>

StoreInit ==
  /\ doc = [s \in Stems |-> [i \in Frames |-> None]]
  /\ cache = [s \in Stems |-> <<>>]
  /\ req = [r \in Requests |-> None]
  /\ faults = 0
  /\ saved = doc
  /\ spoiled = {}

-----------------------------------------------------------------------------
\* next: the next frame to extract; data: the document to write, or the answer.
Request(op, at, c, i, label) ==
  [op |-> op, at |-> at, clip |-> c, frame |-> i, label |-> label,
   next |-> 1, data |-> None]

SaveRequest(c, i, label) == Request("save", "load", c, i, label)
LabelsRequest(c)         == Request("labels", "load", c, 1, None)
FrameRequest(c, i)       == Request("frame", "look", c, i, None)

Active(r)    == req[r] # None /\ req[r].at \notin {"ok", "error", "gone"}
At(r, step)  == req[r] # None /\ req[r].at = step
StemOf(r)    == Stem[req[r].clip]
Moved(r, step, data) ==
  req' = [req EXCEPT ![r].at = step, ![r].data = data, ![r].next = 1]

\* Saves of stem s between their read and their write.
Saving(s) == {r \in Requests : req[r] # None /\ req[r].op = "save"
                                /\ req[r].at \in {"truncate", "write"} /\ StemOf(r) = s}

\* Mutation: a save starts from a fresh document.
LoadFresh(r) ==
  /\ At(r, "load")
  /\ IF doc[StemOf(r)] \in Unreadable THEN Moved(r, "error", None)
     ELSE IF req[r].op = "labels" THEN Moved(r, "ok", doc[StemOf(r)])
     ELSE Moved(r, "truncate", [[i \in Frames |-> None] EXCEPT ![req[r].frame] = req[r].label])
  /\ saved' = IF req[r].op = "save" /\ Saving(StemOf(r)) # {}
              THEN [saved EXCEPT ![StemOf(r)] = None] ELSE saved
  /\ UNCHANGED <<doc, cache, faults, spoiled>>

\* load_labels, for api_get_labels and for save_label, which changes its
\* frame's entry in the copy it read.  An unreadable document raises.
Load(r) ==
  /\ At(r, "load")
  /\ IF doc[StemOf(r)] \in Unreadable THEN Moved(r, "error", None)
     ELSE IF req[r].op = "labels" THEN Moved(r, "ok", doc[StemOf(r)])
     ELSE Moved(r, "truncate", [doc[StemOf(r)] EXCEPT ![req[r].frame] = req[r].label])
  /\ saved' = IF req[r].op = "save" /\ Saving(StemOf(r)) # {}
              THEN [saved EXCEPT ![StemOf(r)] = None] ELSE saved
  /\ UNCHANGED <<doc, cache, faults, spoiled>>

\* write_text opens the file, which empties it ...
Truncate(r) ==
  /\ At(r, "truncate")
  /\ doc' = [doc EXCEPT ![StemOf(r)] = Empty]
  /\ Moved(r, "write", req[r].data)
  /\ UNCHANGED <<cache, faults, saved, spoiled>>

\* ... and then writes from its start: over a document that another request
\* wrote meanwhile, whose end stays if it was longer.
Write(r) ==
  /\ At(r, "write")
  /\ \E result \in {req[r].data} \cup (IF doc[StemOf(r)] = Empty THEN {} ELSE {Torn}) :
       doc' = [doc EXCEPT ![StemOf(r)] = result]
  /\ saved' = IF saved[StemOf(r)] = None THEN saved
              ELSE [saved EXCEPT ![StemOf(r)][req[r].frame] = req[r].label]
  /\ Moved(r, "ok", None)
  /\ UNCHANGED <<cache, faults, spoiled>>

-----------------------------------------------------------------------------
\* The extractions of stem s that are under way.
Extracting(s) == {r \in Requests : (At(r, "extract") \/ At(r, "fill")) /\ StemOf(r) = s}

Spoil(s) == spoiled' = spoiled \cup {s}

\* What is left of api_get_frame with the list of the stem's files: 404 beyond
\* the last, or the file to be served, which is not opened yet.
PickFile(r, files) ==
  IF req[r].frame > Len(files) THEN Moved(r, "error", None) ELSE Moved(r, "serve", None)

\* ensure_frames_extracted: any file that is there is taken for all of them.
LookInCache(r) ==
  /\ At(r, "look")
  /\ LET files == cache[StemOf(r)] IN
       IF files # <<>> THEN PickFile(r, files) ELSE Moved(r, "extract", None)
  /\ IF Extracting(StemOf(r)) # {} THEN Spoil(StemOf(r)) ELSE UNCHANGED spoiled
  /\ UNCHANGED <<doc, cache, faults, saved>>

SetFile(s, n, content) ==
  cache' = [cache EXCEPT ![s] = IF n <= Len(@) THEN [@ EXCEPT ![n] = content]
                                ELSE Append(@, content)]

\* ffmpeg opens one file after the other, emptying those that are there (-y) ...
CreateFile(r) ==
  /\ At(r, "extract") /\ req[r].next <= NumFrames
  /\ SetFile(StemOf(r), req[r].next, Blank)
  /\ req' = [req EXCEPT ![r].at = "fill"]
  /\ UNCHANGED <<doc, faults, saved, spoiled>>

\* ... and fills each before it opens the next.
FillFile(r) ==
  /\ At(r, "fill")
  /\ SetFile(StemOf(r), req[r].next, req[r].clip)
  /\ req' = [req EXCEPT ![r].at = "extract", ![r].next = @ + 1]
  /\ UNCHANGED <<doc, faults, saved, spoiled>>

\* Mutation: the end of ffmpeg is not waited for, only its first file.
ListEarly(r) ==
  /\ At(r, "extract") /\ cache[StemOf(r)] # <<>>
  /\ PickFile(r, cache[StemOf(r)])
  /\ UNCHANGED <<doc, cache, faults, saved, spoiled>>

\* subprocess.run returns when ffmpeg is done.
ListExtracted(r) ==
  /\ At(r, "extract") /\ req[r].next > NumFrames
  /\ PickFile(r, cache[StemOf(r)])
  /\ UNCHANGED <<doc, cache, faults, saved, spoiled>>

\* FileResponse reads the file as it is by now.
ServeFile(r) ==
  /\ At(r, "serve")
  /\ LET source == cache[StemOf(r)][req[r].frame] IN
       Moved(r, "ok", IF source = Blank THEN Blank ELSE <<source, req[r].frame>>)
  /\ UNCHANGED <<doc, cache, faults, saved, spoiled>>

Fault == faults < MaxFaults /\ faults' = faults + 1

\* ffmpeg ends with an error (check=True) and leaves what it has written.
ExtractionFails(r) ==
  /\ At(r, "extract") \/ At(r, "fill")
  /\ Fault
  /\ Moved(r, "error", None)
  /\ Spoil(StemOf(r))
  /\ UNCHANGED <<doc, cache, saved>>

-----------------------------------------------------------------------------
\* The server dies, and ffmpeg with it, and is started again: files stay as they
\* are.
Crash ==
  /\ Fault
  /\ req' = [r \in Requests |-> IF Active(r) THEN [req[r] EXCEPT !.at = "gone", !.data = None, !.next = 1]
                                ELSE req[r]]
  /\ saved' = [s \in Stems |-> IF \E r \in Saving(s) : At(r, "write") THEN None ELSE saved[s]]
  /\ spoiled' = spoiled \cup {s \in Stems : Extracting(s) # {}}
  /\ UNCHANGED <<doc, cache>>

ServerStep ==
  \/ \E r \in Requests : \/ Load(r) \/ Truncate(r) \/ Write(r)
                         \/ LookInCache(r) \/ CreateFile(r) \/ FillFile(r)
                         \/ ListExtracted(r) \/ ServeFile(r) \/ ExtractionFails(r)
  \/ Crash

-----------------------------------------------------------------------------
(* The server under requests of any kind and in any order. *)

Ask(r) ==
  /\ req[r] = None
  /\ \E c \in Clips, i \in Frames :
       \E new \in {SaveRequest(c, i, <<c, i>>), SaveRequest(c, i, None),
                   LabelsRequest(c), FrameRequest(c, i)} :
         req' = [req EXCEPT ![r] = new]
  /\ UNCHANGED <<doc, cache, faults, saved, spoiled>>

Answered(r) ==
  /\ req[r] # None /\ ~Active(r)
  /\ req' = [req EXCEPT ![r] = None]
  /\ UNCHANGED <<doc, cache, faults, saved, spoiled>>

StoreNext == ServerStep \/ \E r \in Requests : Ask(r) \/ Answered(r)
StoreSpec == StoreInit /\ [][StoreNext]_storeVars

-----------------------------------------------------------------------------
\* The label documents of a clip, and what a request holds.
Documents == [Frames -> Labels]
Steps     == {"load", "truncate", "write", "look", "extract", "fill", "serve",
              "ok", "error", "gone"}
Calls ==
  [op : {"save", "labels", "frame"},
   at : Steps,
   clip : Clips, frame : Frames, label : Labels, next : 1..NumFrames + 1,
   data : Documents \cup Pictures \cup {Blank, None}]

\* What is missing is no request and no label document, a cut picture is no
\* picture of a clip, and a document that cannot be parsed is no document.
ASSUME StoreNames ==
  /\ None \notin Calls \cup Documents /\ Documents \cap Unreadable = {}
  /\ Blank \notin Clips \cup Pictures \cup {None}

StoreTypeOK ==
  /\ doc \in [Stems -> Documents \cup Unreadable]
  /\ cache \in [Stems -> Seq(Clips \cup {Blank})]
  /\ \A s \in Stems : Len(cache[s]) <= NumFrames
  /\ req \in [Requests -> Calls \cup {None}]
  /\ saved \in [Stems -> Documents \cup {None}]
  /\ faults \in 0..MaxFaults
  /\ spoiled \subseteq Stems

\* The stem names one clip.
OwnsStem(c) == \A d \in Clips : Stem[d] = Stem[c] => d = c

\* A clip's document holds exactly the labels saved so far, and is unreadable
\* at most while a save is between its two file operations, unless saves of it
\* have overlapped or a crash has cut one: no reader, no other clip and no
\* crash at another point can damage it.
FileHoldsWhatWasSaved ==
  \A s \in Stems :
    saved[s] # None =>
      doc[s] = IF \E r \in Saving(s) : req[r].at = "write" THEN Empty ELSE saved[s]

\* A frame of a clip that owns its stem is answered with that frame of that clip,
\* even while other requests extract, look up and serve the pictures of this and
\* other clips.  Only where an extraction was cut short, or was still under way
\* when another request looked, can the answer be a cut picture or 404, and even
\* there it is never another picture.
ServedPictureIsTheFrame ==
  \A r \in Requests :
    /\ At(r, "ok") \/ At(r, "error")
    /\ req[r].op = "frame" /\ req[r].frame <= NumFrames /\ OwnsStem(req[r].clip)
    => \/ At(r, "ok") /\ req[r].data = <<req[r].clip, req[r].frame>>
       \/ StemOf(r) \in spoiled /\ (At(r, "error") \/ req[r].data = Blank)

\* What ensure_frames_extracted says of its cache: the first call extracts
\* every frame and later ones return them.
CacheIsComplete ==
  \A s \in Stems :
    cache[s] # <<>> /\ Extracting(s) = {}
      => Len(cache[s]) = NumFrames /\ \A n \in 1..NumFrames : cache[s][n] # Blank

\* What the README says of the documents: one file per clip.  A label is read
\* back for the clip it was saved for.
OneFilePerClip ==
  \A r \in Requests :
    At(r, "ok") /\ req[r].op = "labels" =>
      \A i \in Frames : req[r].data[i] \in {None, <<req[r].clip, i>>}
=============================================================================
