---------------------------- MODULE LabelingPage ----------------------------
(***************************************************************************)
(* The page of the ball-labeling tool (static/index.html) over its server  *)
(* (LabelStore): one user, one tab.  A handler runs up to its next await   *)
(* in one step, and what follows an answered request is a step of its own, *)
(* which reads the page's variables as they are by then.  A request slot   *)
(* therefore also stands for the handler that waits for its answer.        *)
(*                                                                         *)
(* The canvas shows the last picture that arrived: setting img.src starts  *)
(* a load and drops the one in progress.  Clicking and N differ in the     *)
(* label only and are one action; box size and hovering are left out.      *)
(***************************************************************************)
EXTENDS LabelStore, FiniteSets

CONSTANT MaxActions   \* bound: what the user does

\* No clip may be open, and the canvas may wait for no request.
ASSUME PageNames == None \notin Clips \cup Requests

VARIABLES
  clip,      \* currentClip
  labels,    \* currentLabels
  frame,     \* frameIndex
  reviewed,  \* clips[c].reviewed, as the sidebar shows it
  shown,     \* the picture on the canvas
  image,     \* the request img.src waits for
  actions,
  \* history, read by the properties only
  disturbed, \* the clips that the user went on from, to or in while labels or a
             \* save were not answered, or of which an answer never came
  hasty      \* the frames labeled before their picture had come, or where it
             \* cannot be relied upon

pageVars == <<clip, labels, frame, reviewed, shown, image, actions, disturbed, hasty>>
vars     == <<storeVars, pageVars>>

Unlabeled == [i \in Frames |-> None]
Count(ls) == Cardinality({i \in Frames : ls[i] # None})

\* The page after loadClips, over a server that has no label file yet.
Init ==
  /\ StoreInit
  /\ clip = None
  /\ labels = Unlabeled
  /\ frame = 1
  /\ reviewed = [c \in Clips |-> 0]
  /\ shown = Blank
  /\ image = None
  /\ actions = 0
  /\ disturbed = {}
  /\ hasty = {}

-----------------------------------------------------------------------------
Done(r)          == req[r] # None /\ ~Active(r)
Send(r, request) == req' = [req EXCEPT ![r] = request]
End(r)           == Send(r, None)
Store            == <<doc, cache, faults, saved, spoiled>>

\* The requests for labels and saves that the page has no answer of yet.
Awaited == {r \in Requests : req[r] # None /\ req[r].op # "frame"}

\* The user does something, which leaves the page on clip c.
Act(r, c) ==
  /\ req[r] = None
  /\ actions < MaxActions /\ actions' = actions + 1
  /\ disturbed' = IF Awaited = {} THEN disturbed
                  ELSE disturbed \cup {clip, c} \cup {req[q].clip : q \in Awaited}

\* The handler that waits for r goes on, or stays where it is for ever.
Resume(r) ==
  /\ Done(r)
  /\ disturbed' = IF At(r, "gone") THEN disturbed \cup {clip, req[r].clip} ELSE disturbed
  /\ UNCHANGED actions

\* showFrame, up to the load of the picture.
ShowFrame(r, c, i) ==
  /\ Send(r, FrameRequest(c, i))
  /\ image' = r

\* openClip, up to its fetch: the labels shown are still those of the last clip.
OpenClip(r, c) ==
  /\ Act(r, c)
  /\ clip' = c
  /\ frame' = 1
  /\ Send(r, LabelsRequest(c))
  /\ UNCHANGED <<labels, reviewed, shown, image, hasty, Store>>

\* Mutation: labels of the clip opened before stay.
OpenedKeepingLabels(r) ==
  /\ Resume(r) /\ req[r].op = "labels"
  /\ IF At(r, "ok")
     THEN /\ labels' = IF Count(req[r].data) = 0 THEN labels ELSE req[r].data
          /\ ShowFrame(r, clip, frame)
     ELSE End(r) /\ UNCHANGED <<labels, image>>
  /\ UNCHANGED <<clip, frame, reviewed, shown, hasty, Store>>

\* The rest of openClip.  A 500 is not JSON and, like no answer, ends it.
Opened(r) ==
  /\ Resume(r) /\ req[r].op = "labels"
  /\ IF At(r, "ok")
     THEN labels' = req[r].data /\ ShowFrame(r, clip, frame)
     ELSE End(r) /\ UNCHANGED <<labels, image>>
  /\ UNCHANGED <<clip, frame, reviewed, shown, hasty, Store>>

\* The user cannot know that what is on the canvas is the current frame.
Doubtful ==
  image # None \/ Awaited # {} \/ clip \in disturbed \/ Stem[clip] \in spoiled

\* Mutation: the page goes on to the next frame before it posts the label.
MarkAfterMoving(r) ==
  /\ Act(r, clip) /\ clip # None
  /\ frame' = IF frame < FrameCount THEN frame + 1 ELSE frame
  /\ Send(r, SaveRequest(clip, frame', shown))
  /\ hasty' = IF Doubtful THEN hasty \cup {<<clip, frame>>} ELSE hasty
  /\ UNCHANGED <<clip, labels, reviewed, shown, image, Store>>

\* A click or N, up to the fetch of postLabel: the user labels what is shown.
Mark(r) ==
  /\ Act(r, clip) /\ clip # None
  /\ Send(r, SaveRequest(clip, frame, shown))
  /\ hasty' = IF Doubtful THEN hasty \cup {<<clip, frame>>} ELSE hasty
  /\ UNCHANGED <<clip, labels, frame, reviewed, shown, image, Store>>

\* Backspace, up to the fetch of postLabel.
Clear(r) ==
  /\ Act(r, clip) /\ clip # None
  /\ Send(r, SaveRequest(clip, frame, None))
  /\ UNCHANGED <<clip, labels, frame, reviewed, shown, image, hasty, Store>>

\* nextFrame; it returns early on the last frame.
NextFrame(r) ==
  IF frame < FrameCount
  THEN frame' = frame + 1 /\ ShowFrame(r, clip, frame + 1)
  ELSE End(r) /\ UNCHANGED <<frame, image>>

\* The rest of postLabel, and of the handler: whatever the status is, the label
\* is taken for saved, under the frame that is current by now.  Only without an
\* answer does fetch throw.
Posted(r) ==
  /\ Resume(r) /\ req[r].op = "save"
  /\ IF At(r, "gone") THEN End(r) /\ UNCHANGED <<labels, reviewed, frame, image>>
     ELSE /\ labels' = [labels EXCEPT ![frame] = req[r].label]
          /\ reviewed' = [reviewed EXCEPT ![clip] = Count(labels')]
          /\ IF req[r].label # None THEN NextFrame(r)
             ELSE End(r) /\ UNCHANGED <<frame, image>>
  /\ UNCHANGED <<clip, shown, hasty, Store>>

\* The arrow keys and the space bar.
KeyNext(r) ==
  /\ Act(r, clip) /\ clip # None /\ frame < FrameCount
  /\ NextFrame(r)
  /\ UNCHANGED <<clip, labels, reviewed, shown, hasty, Store>>

KeyPrev(r) ==
  /\ Act(r, clip) /\ clip # None /\ frame > 1
  /\ frame' = frame - 1
  /\ ShowFrame(r, clip, frame - 1)
  /\ UNCHANGED <<clip, labels, reviewed, shown, hasty, Store>>

\* The canvas draws a picture that has come.  Nothing handles a failed load: the
\* canvas keeps what it shows until a mousemove redraws it, and so it may with a
\* picture that is cut short.
Draw(r) ==
  shown' \in IF At(r, "ok") /\ req[r].data # Blank THEN {req[r].data} ELSE {shown, Blank}

\* Mutation: a load that was replaced draws its picture all the same.
PictureLoadedLate(r) ==
  /\ Resume(r) /\ req[r].op = "frame"
  /\ Draw(r)
  /\ image' = IF r = image THEN None ELSE image
  /\ End(r)
  /\ UNCHANGED <<clip, labels, frame, reviewed, hasty, Store>>

\* The rest of showFrame when its picture has come; nothing comes of a load that
\* another has replaced.
PictureLoaded(r) ==
  /\ Resume(r) /\ req[r].op = "frame"
  /\ IF r = image THEN image' = None /\ Draw(r) ELSE UNCHANGED <<shown, image>>
  /\ End(r)
  /\ UNCHANGED <<clip, labels, frame, reviewed, hasty, Store>>

Continue(r) == Opened(r) \/ Posted(r) \/ PictureLoaded(r)

User(r) == (\E c \in Clips : OpenClip(r, c)) \/ Mark(r) \/ Clear(r) \/ KeyNext(r) \/ KeyPrev(r)

Next ==
  \/ \E r \in Requests : User(r) \/ Continue(r)
  \/ ServerStep /\ UNCHANGED pageVars

Spec == Init /\ [][Next]_vars

\* The server's threads run, and the browser goes on with what is answered.
FairSpec ==
  /\ Spec
  /\ \A r \in Requests :
       /\ WF_vars(Continue(r))
       /\ WF_vars((\/ Load(r) \/ Truncate(r) \/ Write(r) \/ LookInCache(r) \/ CreateFile(r)
                   \/ FillFile(r) \/ ListExtracted(r) \/ ServeFile(r)) /\ UNCHANGED pageVars)

-----------------------------------------------------------------------------
TypeOK ==
  /\ StoreTypeOK
  /\ clip \in Clips \cup {None}
  /\ labels \in [Frames -> Labels]
  /\ frame \in Frames
  /\ reviewed \in [Clips -> 0..FrameCount]
  /\ shown \in Pictures \cup {Blank}
  /\ image \in Requests \cup {None}
  /\ actions \in 0..MaxActions
  /\ disturbed \subseteq Clips \cup {None}
  /\ hasty \subseteq Clips \X Frames

\* A label stored for a frame of a clip was made by a user who looked at that
\* frame of that clip, however the user hurried on while it was being saved, if
\* only nothing was outstanding for the canvas when it was made.
LabelIsOnItsFrame ==
  \A c \in Clips, i \in 1..NumFrames :
    OwnsStem(c) /\ doc[Stem[c]] \notin Unreadable /\ <<c, i>> \notin hasty
      => doc[Stem[c]][i] \in {None, <<c, i>>}

\* The sidebar's count of every clip is that of its file, and the page has the
\* labels of the current clip's, whatever pictures are still on their way and
\* whatever happened on other clips: only what the user does on a clip before the
\* page has the last answer about it can part them.
PageAgreesWithFile ==
  \A c \in Clips \ disturbed :
    OwnsStem(c) /\ (\A r \in Awaited : req[r].clip # c) =>
      /\ reviewed[c] = Count(doc[Stem[c]])
      /\ clip = c => labels = doc[Stem[c]]

\* When the user stops the canvas comes to show the frame the page is at: of the
\* loads that replaced one another the last has the last word, in whatever order
\* they are answered.
PictureCatchesUp ==
  clip # None ~> clip # None /\ \/ shown = <<clip, frame>> \/ frame > NumFrames
                                \/ clip \in disturbed \/ Stem[clip] \in spoiled

\* Nothing is outstanding.
Quiet == \A r \in Requests : req[r] = None

\* What the README says of labels: the ball's position in each frame, keyed by
\* the frame's index.
EveryLabelIsOnItsFrame ==
  \A c \in Clips : doc[Stem[c]] \notin Unreadable =>
    \A i \in Frames : doc[Stem[c]][i] \in {None, <<c, i>>}

\* What the README says of a frame without an entry: it is not yet reviewed.  No
\* frame that the page shows as labeled is left without one.
LabeledIsSaved ==
  Quiet /\ clip # None => \A i \in Frames : labels[i] # None => doc[Stem[clip]][i] # None
=============================================================================
