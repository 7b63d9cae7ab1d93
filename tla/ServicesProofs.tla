--------------------------- MODULE ServicesProofs ---------------------------
(***************************************************************************)
(* The three services of MCServices and the web app's camera kit page, for *)
(* any number of organizations, records, calls, mounts and restarts.       *)
(*                                                                         *)
(* Clips: every property is about what a submission writes back, so the    *)
(* invariant says what a running submission holds: the clip as it was      *)
(* uploaded, up to its offset, and a reference that is still there.        *)
(* Calibration: the invariant says of every profile which submission it    *)
(* came from, and that none accepted since began after that one's answer.  *)
(* Matches: what a request has looked up is never removed except by a      *)
(* restart, which removes everything, so the properties are inductive.     *)
(* The page: the newest refresh of a mount is sent under the session and   *)
(* after whatever it was told is registered, so its answer has all of it;  *)
(* what the page shows at rest is that answer.                             *)
(***************************************************************************)
EXTENDS MCServices, CamerasPage, TLAPS

Bare(c) == [c EXCEPT !.sync = None]

\* What a submission read stays true: uploads are never undone, and only a
\* restart, which ends it, removes a clip.
SubmissionInv ==
  \A s \in Submissions : syncing[s] # None =>
    /\ Bare(syncing[s].clip) = uploaded[syncing[s].clip.id]
    /\ syncing[s].ref # syncing[s].clip.id
    /\ syncing[s].status = 0 =>
         /\ syncing[s].clip.id \in live
         /\ Sync!Find(syncing[s].clip.org, syncing[s].clip.match, syncing[s].ref) # {}

\* Submissions that came before s have been answered, and stay so.
BeforeInv == \A s \in Submissions : \A r \in syncedBefore[s] : Sync!Answered(r, 200)

SInv ==
  /\ Sync!TypeOK
  /\ Sync!SyncLosesNothing
  /\ SubmissionInv
  /\ Sync!ReferencesResolve
  /\ BeforeInv
  /\ Sync!LaterSyncWins

-----------------------------------------------------------------------------
\* Two clips that are kept under one id are one upload, so they share the key.
LEMMA KeyOfId ==
  ASSUME SInv, NEW c \in clips, NEW d \in Sync!Clips, Bare(d) = uploaded[c.id], d.id = c.id
  PROVE  c.org = d.org /\ c.match = d.match /\ c.hash = d.hash
<1>1. c \in Sync!Clips /\ Bare(c) = Bare(d)
  BY DEF SInv, Sync!TypeOK, Sync!SyncLosesNothing, Bare
<1>2. Bare(c).org = c.org /\ Bare(c).match = c.match /\ Bare(c).hash = c.hash
  BY <1>1 DEF Bare, Sync!Clips
<1>3. Bare(d).org = d.org /\ Bare(d).match = d.match /\ Bare(d).hash = d.hash
  BY DEF Bare, Sync!Clips
<1> QED
  BY <1>1, <1>2, <1>3

LEMMA InitS == Sync!Init => SInv
<1> SUFFICES ASSUME Sync!Init PROVE SInv
  OBVIOUS
<1>1. Sync!TypeOK
  BY SyncConstants, CalibrationConstants DEF Sync!Init, Sync!TypeOK
<1>2. Sync!SyncLosesNothing /\ Sync!ReferencesResolve /\ Sync!LaterSyncWins
  BY DEF Sync!Init, Sync!SyncLosesNothing, Sync!ReferencesResolve, Sync!LaterSyncWins
<1>3. SubmissionInv /\ BeforeInv
  BY DEF Sync!Init, SubmissionInv, BeforeInv
<1> QED
  BY <1>1, <1>2, <1>3 DEF SInv

-----------------------------------------------------------------------------
\* What kept clips and submissions are.
LEMMA Kept ==
  ASSUME SInv
  PROVE  /\ \A c \in clips : c \in Sync!Clips /\ Bare(c) \in Sync!Clips /\ Bare(c) # None
                              /\ uploaded[c.id] = Bare(c) /\ c.id \in live /\ objects[c.id] = c.hash
         /\ \A id \in live : \E c \in clips : c.id = id
         /\ \A s \in Submissions : syncing[s] # None =>
              /\ syncing[s].clip \in Sync!Clips /\ Bare(syncing[s].clip) # None
              /\ uploaded[syncing[s].clip.id] = Bare(syncing[s].clip)
<1>1. \A c \in Sync!Clips : Bare(c) \in Sync!Clips /\ Bare(c) # None
  BY SyncConstants DEF Bare, Sync!Clips
<1>2. \A c \in clips : c \in Sync!Clips
  BY DEF SInv, Sync!TypeOK
<1>3. \A s \in Submissions : syncing[s] # None => syncing[s].clip \in Sync!Clips
  <2> TAKE s \in Submissions
  <2> HAVE syncing[s] # None
  <2>1. syncing[s] \in [clip : Sync!Clips, ref : ClipIds, score : {5}, status : {0, 200, 502}]
    BY DEF SInv, Sync!TypeOK
  <2> QED
    BY <2>1
<1>4. Sync!SyncLosesNothing /\ SubmissionInv
  BY DEF SInv
<1> QED
  BY <1>1, <1>2, <1>3, <1>4 DEF Sync!SyncLosesNothing, SubmissionInv, Bare

LEMMA UploadS ==
  ASSUME SInv, NEW c \in Sync!Callers, NEW o \in Orgs, NEW m \in Matches, NEW content \in Contents,
         Sync!UploadClip(c, o, m, content)
  PROVE  SInv'
<1>1. PICK id \in ClipIds :
        LET clip == [org |-> o, match |-> m, id |-> id, hash |-> content, sync |-> None] IN
          /\ uploaded[id] = None
          /\ objects' = [objects EXCEPT ![id] = content]
          /\ Sync!Create(clip)
          /\ uploaded' = [uploaded EXCEPT ![id] = clip]
          /\ live' = live \cup {id}
          /\ UNCHANGED <<store, syncing, clipRestarts, syncedBefore>>
  BY DEF Sync!UploadClip
<1> DEFINE clip == [org |-> o, match |-> m, id |-> id, hash |-> content, sync |-> None]
<1>2. /\ clip \in Sync!Clips /\ Bare(clip) = clip
      /\ clip.id = id /\ clip.hash = content /\ clip.sync = None
  BY DEF Sync!Clips, Bare
<1>3. \A d \in clips : d.id # id
  BY <1>1, Kept
<1>4. \A s \in Submissions : syncing[s] # None => syncing[s].clip.id # id
  BY <1>1, Kept
<1>5. clips' = clips \cup {clip}
  BY <1>1, <1>3 DEF Sync!Create, Sync!Find
<1> HIDE DEF clip
<1>6. /\ objects' = [objects EXCEPT ![id] = content]
      /\ uploaded' = [uploaded EXCEPT ![id] = clip]
      /\ live' = live \cup {id}
      /\ UNCHANGED <<store, syncing, clipRestarts, syncedBefore>>
  BY <1>1 DEF clip
<1>7. Sync!TypeOK'
  BY <1>2, <1>5, <1>6 DEF SInv, Sync!TypeOK
<1>8. Sync!SyncLosesNothing'
  <2>1. {d.id : d \in clips'} = live'
    BY <1>2, <1>5, <1>6 DEF SInv, Sync!SyncLosesNothing
  <2>2. ASSUME NEW d \in clips PROVE Bare(d) = uploaded'[d.id] /\ objects'[d.id] = d.hash
    BY <2>2, <1>3, <1>6, Kept DEF SInv, Sync!TypeOK
  <2>3. Bare(clip) = uploaded'[clip.id] /\ objects'[clip.id] = clip.hash
    BY <1>2, <1>6 DEF SInv, Sync!TypeOK
  <2> QED
    BY <2>1, <2>2, <2>3, <1>5 DEF Sync!SyncLosesNothing, Bare
<1>9. SubmissionInv'
  <2> SUFFICES ASSUME NEW s \in Submissions, syncing[s] # None
               PROVE  /\ Bare(syncing[s].clip) = uploaded'[syncing[s].clip.id]
                      /\ syncing[s].ref # syncing[s].clip.id
                      /\ syncing[s].status = 0 =>
                           /\ syncing[s].clip.id \in live'
                           /\ Sync!Find(syncing[s].clip.org, syncing[s].clip.match,
                                        syncing[s].ref)' # {}
    BY <1>6 DEF SubmissionInv, Bare, Sync!Find
  <2>1. syncing[s].clip.id # id /\ syncing[s].clip.id \in ClipIds
    BY <1>4, Kept DEF Sync!Clips
  <2>2. Bare(syncing[s].clip) = uploaded'[syncing[s].clip.id]
    BY <2>1, <1>6, Kept DEF SInv, Sync!TypeOK
  <2>3. Sync!Find(syncing[s].clip.org, syncing[s].clip.match, syncing[s].ref)
          \subseteq Sync!Find(syncing[s].clip.org, syncing[s].clip.match, syncing[s].ref)'
    BY <1>5, <1>6 DEF Sync!Find
  <2> QED
    BY <2>2, <2>3, <1>6 DEF SInv, SubmissionInv
<1>10. Sync!ReferencesResolve'
  BY <1>2, <1>5 DEF SInv, Sync!ReferencesResolve
<1>11. BeforeInv'
  BY <1>6 DEF SInv, BeforeInv, Sync!Answered
<1>12. Sync!LaterSyncWins'
  <2>1. ASSUME NEW d \in clips, NEW s \in Submissions, Sync!AcceptedFor(s, d.id)'
        PROVE  d.sync # None /\ d.sync.by \notin syncedBefore'[s]
    <3>1. Sync!AcceptedFor(s, d.id)
      BY <2>1, <1>6 DEF Sync!AcceptedFor, Sync!Answered
    <3> QED
      BY <3>1, <1>6 DEF SInv, Sync!LaterSyncWins
  <2>2. \A s \in Submissions : ~Sync!AcceptedFor(s, id)'
    BY <1>4, <1>6 DEF Sync!AcceptedFor, Sync!Answered
  <2> QED
    BY <2>1, <2>2, <1>2, <1>5 DEF Sync!LaterSyncWins
<1> QED
  BY <1>7, <1>8, <1>9, <1>10, <1>11, <1>12 DEF SInv

LEMMA ReadS ==
  ASSUME SInv, NEW s \in Submissions, NEW c \in Sync!Callers, NEW o \in Orgs, NEW m \in Matches,
         NEW id \in ClipIds, NEW ref \in ClipIds, NEW score \in Sync!Scores,
         Sync!ReadForSync(s, c, o, m, id, ref, score)
  PROVE  SInv'
<1>1. PICK clip \in Sync!Find(o, m, id) :
        syncing' = [syncing EXCEPT ![s] =
                      [clip |-> clip, ref |-> ref, score |-> score, status |-> 0]]
  BY DEF Sync!ReadForSync
<1>2. /\ syncing[s] = None /\ ref # id /\ Sync!Find(o, m, ref) # {}
      /\ syncedBefore' = [syncedBefore EXCEPT ![s] = {r \in Submissions : Sync!Answered(r, 200)}]
      /\ UNCHANGED <<clips, objects, store, clipRestarts, uploaded, live>>
  BY DEF Sync!ReadForSync, Sync!Applicable
<1>3. score = 5
  BY DEF Sync!ReadForSync, Sync!Applicable, Sync!Scores
<1>4. clip \in clips /\ clip \in Sync!Clips /\ clip.org = o /\ clip.match = m /\ clip.id = id
  BY Kept DEF Sync!Find
<1> DEFINE new == [clip |-> clip, ref |-> ref, score |-> score, status |-> 0]
<1>5. /\ new \in [clip : Sync!Clips, ref : ClipIds, score : {5}, status : {0, 200, 502}]
      /\ new.clip = clip /\ new.ref = ref /\ new.status = 0
  BY <1>3, <1>4
<1>6. /\ syncing' = [syncing EXCEPT ![s] = new]
      /\ syncing \in [Submissions -> {None} \cup
           [clip : Sync!Clips, ref : ClipIds, score : {5}, status : {0, 200, 502}]]
      /\ syncedBefore \in [Submissions -> SUBSET Submissions]
  BY <1>1 DEF SInv, Sync!TypeOK
<1> HIDE DEF new
<1>7. /\ syncing'[s] = new /\ syncedBefore'[s] = {r \in Submissions : Sync!Answered(r, 200)}
      /\ \A r \in Submissions \ {s} : syncing'[r] = syncing[r] /\ syncedBefore'[r] = syncedBefore[r]
  BY <1>2, <1>6
<1>8. \A r \in Submissions : Sync!Answered(r, 200) => r # s /\ Sync!Answered(r, 200)'
  BY <1>2, <1>7 DEF Sync!Answered
<1>9. Sync!TypeOK'
  BY <1>2, <1>5, <1>6 DEF SInv, Sync!TypeOK
<1>10. Sync!SyncLosesNothing' /\ Sync!ReferencesResolve'
  BY <1>2 DEF SInv, Sync!SyncLosesNothing, Sync!ReferencesResolve
<1>11. SubmissionInv'
  <2>1. \A o1, m1, i1 : Sync!Find(o1, m1, i1)' = Sync!Find(o1, m1, i1)
    BY <1>2 DEF Sync!Find
  <2>2. Bare(clip) = uploaded[clip.id] /\ clip.id \in live
    BY <1>4, Kept
  <2> QED
    BY <2>1, <2>2, <1>2, <1>4, <1>5, <1>7 DEF SInv, SubmissionInv, Bare
<1>12. BeforeInv'
  <2> SUFFICES ASSUME NEW q \in Submissions, NEW r \in syncedBefore'[q] PROVE Sync!Answered(r, 200)'
    BY DEF BeforeInv
  <2>1. r \in Submissions /\ Sync!Answered(r, 200)
    BY <1>6, <1>7 DEF SInv, BeforeInv
  <2> QED
    BY <2>1, <1>8
<1>13. Sync!LaterSyncWins'
  <2> SUFFICES ASSUME NEW d \in clips, NEW r \in Submissions, Sync!AcceptedFor(r, d.id)'
               PROVE  d.sync # None /\ d.sync.by \notin syncedBefore'[r]
    BY <1>2 DEF Sync!LaterSyncWins
  <2>1. r # s
    BY <1>5, <1>7 DEF Sync!AcceptedFor, Sync!Answered
  <2>2. Sync!AcceptedFor(r, d.id)
    BY <2>1, <1>7 DEF Sync!AcceptedFor, Sync!Answered
  <2> QED
    BY <2>1, <2>2, <1>7 DEF SInv, Sync!LaterSyncWins
<1> QED
  BY <1>9, <1>10, <1>11, <1>12, <1>13 DEF SInv

LEMMA WriteBackS ==
  ASSUME SInv, NEW s \in Submissions, Sync!WriteBack(s)
  PROVE  SInv'
<1> DEFINE old == syncing[s].clip
           new == Sync!Synced(s)
<1>1. /\ syncing[s] # None /\ syncing[s].status = 0
      /\ Sync!Create(new)
      /\ syncing' = [syncing EXCEPT ![s].status = 200]
      /\ UNCHANGED <<objects, store, clipRestarts, uploaded, live, syncedBefore>>
  BY DEF Sync!WriteBack, Sync!Answered
<1>2. /\ syncing[s] \in [clip : Sync!Clips, ref : ClipIds, score : {5}, status : {0, 200, 502}]
      /\ syncing \in [Submissions -> {None} \cup
           [clip : Sync!Clips, ref : ClipIds, score : {5}, status : {0, 200, 502}]]
  BY <1>1 DEF SInv, Sync!TypeOK
<1>3. /\ Bare(old) = uploaded[old.id] /\ syncing[s].ref # old.id /\ old.id \in live
      /\ Sync!Find(old.org, old.match, syncing[s].ref) # {}
  BY <1>1 DEF SInv, SubmissionInv
<1>4. /\ new \in Sync!Clips /\ Bare(new) = Bare(old)
      /\ new.org = old.org /\ new.match = old.match /\ new.id = old.id /\ new.hash = old.hash
      /\ new.sync \in Sync!Offsets /\ new.sync # None
      /\ new.sync.ref = syncing[s].ref /\ new.sync.by = s
  <2>1. old \in Sync!Clips
    BY <1>2
  <2>2. [ref |-> syncing[s].ref, score |-> syncing[s].score, by |-> s] \in Sync!Offsets
    BY <1>2 DEF Sync!Offsets
  <2> QED
    BY <2>1, <2>2, SyncConstants DEF Sync!Synced, Sync!Clips, Bare
<1>5. \A d \in clips : d.id = new.id => d.org = new.org /\ d.match = new.match /\ d.hash = new.hash
  BY <1>2, <1>3, <1>4, KeyOfId
<1>6. clips' = {d \in clips : d.id # new.id} \cup {new}
  BY <1>1, <1>5 DEF Sync!Create, Sync!Find
<1>7. PICK first \in clips : first.id = new.id
  BY <1>3, <1>4, Kept
<1> DEFINE done == [syncing[s] EXCEPT !.status = 200]
<1>8. /\ done \in [clip : Sync!Clips, ref : ClipIds, score : {5}, status : {0, 200, 502}]
      /\ done.clip = old /\ done.ref = syncing[s].ref /\ done.status = 200
      /\ syncing'[s] = done
      /\ \A r \in Submissions \ {s} : syncing'[r] = syncing[r]
  <2>1. /\ done \in [clip : Sync!Clips, ref : ClipIds, score : {5}, status : {0, 200, 502}]
        /\ done.clip = old /\ done.ref = syncing[s].ref /\ done.status = 200
    BY <1>2
  <2>2. syncing' = [syncing EXCEPT ![s] = done]
    BY <1>1
  <2> QED
    BY <2>1, <2>2, <1>2
<1> HIDE DEF new, done, old
<1>9. \A o, m, i : Sync!Find(o, m, i) # {} => Sync!Find(o, m, i)' # {}
  <2> TAKE o, m, i
  <2> HAVE Sync!Find(o, m, i) # {}
  <2>1. PICK d \in clips : d.org = o /\ d.match = m /\ d.id = i
    BY DEF Sync!Find
  <2>2. CASE i # new.id
    BY <2>1, <2>2, <1>6 DEF Sync!Find
  <2>3. CASE i = new.id
    BY <2>1, <2>3, <1>5, <1>6 DEF Sync!Find
  <2> QED
    BY <2>2, <2>3
<1>10. Sync!TypeOK'
  <2>1. clips' \subseteq Sync!Clips
    BY <1>4, <1>6, Kept
  <2>2. syncing' \in [Submissions -> {None} \cup
          [clip : Sync!Clips, ref : ClipIds, score : {5}, status : {0, 200, 502}]]
    BY <1>1, <1>2, <1>8
  <2> QED
    BY <2>1, <2>2, <1>1 DEF SInv, Sync!TypeOK
<1>11. Sync!SyncLosesNothing'
  <2>1. {d.id : d \in clips'} = live'
    BY <1>1, <1>6, <1>7 DEF SInv, Sync!SyncLosesNothing
  <2>2. Bare(new) = uploaded'[new.id] /\ objects'[new.id] = new.hash
    BY <1>1, <1>3, <1>4, <1>5, <1>7, Kept
  <2>3. \A d \in clips : Bare(d) = uploaded'[d.id] /\ objects'[d.id] = d.hash
    BY <1>1, Kept
  <2> QED
    BY <2>1, <2>2, <2>3, <1>6 DEF Sync!SyncLosesNothing, Bare
<1>12. SubmissionInv'
  <2> SUFFICES ASSUME NEW r \in Submissions, syncing'[r] # None
               PROVE  /\ Bare(syncing'[r].clip) = uploaded'[syncing'[r].clip.id]
                      /\ syncing'[r].ref # syncing'[r].clip.id
                      /\ syncing'[r].status = 0 =>
                           /\ syncing'[r].clip.id \in live'
                           /\ Sync!Find(syncing[r].clip.org, syncing[r].clip.match,
                                        syncing[r].ref)' # {}
    BY DEF SubmissionInv, Bare, Sync!Find
  <2>1. CASE r = s
    BY <2>1, <1>1, <1>3, <1>8
  <2>2. CASE r # s
    BY <2>2, <1>1, <1>8, <1>9 DEF SInv, SubmissionInv
  <2> QED
    BY <2>1, <2>2
<1>13. Sync!ReferencesResolve'
  <2> SUFFICES ASSUME NEW d \in clips', d.sync # None
               PROVE  d.sync.ref # d.id /\ Sync!Find(d.org, d.match, d.sync.ref)' # {}
    BY DEF Sync!ReferencesResolve, Sync!Find
  <2>1. CASE d = new
    BY <2>1, <1>3, <1>4, <1>9
  <2>2. CASE d \in clips
    <3>1. d.sync.ref # d.id /\ Sync!Find(d.org, d.match, d.sync.ref) # {}
      BY <2>2 DEF SInv, Sync!ReferencesResolve, Sync!Find
    <3> QED
      BY <3>1, <1>9
  <2> QED
    BY <2>1, <2>2, <1>6
<1>14. \A r \in Submissions : Sync!Answered(r, 200) => r # s /\ Sync!Answered(r, 200)'
  BY <1>1, <1>8 DEF Sync!Answered
<1>15. BeforeInv'
  BY <1>1, <1>14 DEF SInv, Sync!TypeOK, BeforeInv
<1>16. Sync!LaterSyncWins'
  <2> SUFFICES ASSUME NEW d \in clips', NEW r \in Submissions, Sync!AcceptedFor(r, d.id)'
               PROVE  d.sync # None /\ d.sync.by \notin syncedBefore[r]
    BY <1>1 DEF Sync!LaterSyncWins
  <2>1. CASE d = new
    <3>1. s \notin syncedBefore[r]
      BY <1>14 DEF SInv, BeforeInv, Sync!TypeOK
    <3> QED
      BY <2>1, <3>1, <1>4
  <2>2. CASE d \in clips /\ d.id # new.id
    <3>1. r # s
      BY <2>2, <1>4, <1>8 DEF Sync!AcceptedFor
    <3>2. Sync!AcceptedFor(r, d.id)
      BY <3>1, <1>8 DEF Sync!AcceptedFor, Sync!Answered
    <3> QED
      BY <2>2, <3>2 DEF SInv, Sync!LaterSyncWins
  <2> QED
    BY <2>1, <2>2, <1>6
<1> QED
  BY <1>10, <1>11, <1>12, <1>13, <1>15, <1>16 DEF SInv

LEMMA RestartS ==
  ASSUME SInv, Sync!Restart
  PROVE  SInv'
<1>1. /\ clipRestarts < MaxRestarts /\ clipRestarts' = clipRestarts + 1
      /\ clips' = {} /\ live' = {}
      /\ objects' = IF store = "s3" THEN objects ELSE [id \in ClipIds |-> None]
      /\ syncing' = [s \in Submissions |->
           IF Sync!Answered(s, 0) THEN [syncing[s] EXCEPT !.status = 502] ELSE syncing[s]]
      /\ UNCHANGED <<store, uploaded, syncedBefore>>
  BY DEF Sync!Restart
<1>2. ASSUME NEW s \in Submissions
      PROVE  /\ syncing'[s] \in {None} \cup
                  [clip : Sync!Clips, ref : ClipIds, score : {5}, status : {0, 200, 502}]
             /\ syncing'[s] # None =>
                  /\ syncing[s] # None /\ syncing'[s].clip = syncing[s].clip
                  /\ syncing'[s].ref = syncing[s].ref
                  /\ syncing'[s].status # 0
             /\ Sync!Answered(s, 200) => Sync!Answered(s, 200)'
  <2>1. syncing[s] \in {None} \cup
          [clip : Sync!Clips, ref : ClipIds, score : {5}, status : {0, 200, 502}]
    BY DEF SInv, Sync!TypeOK
  <2>2. CASE Sync!Answered(s, 0)
    <3>1. syncing'[s] = [syncing[s] EXCEPT !.status = 502] /\ syncing[s] # None
      BY <2>2, <1>1 DEF Sync!Answered
    <3> QED
      BY <2>1, <2>2, <3>1 DEF Sync!Answered
  <2>3. CASE ~Sync!Answered(s, 0)
    BY <2>1, <2>3, <1>1 DEF Sync!Answered
  <2> QED
    BY <2>2, <2>3
<1>3. Sync!TypeOK'
  <2>1. syncing' \in [Submissions -> {None} \cup
          [clip : Sync!Clips, ref : ClipIds, score : {5}, status : {0, 200, 502}]]
    BY <1>1, <1>2
  <2>2. objects' \in [ClipIds -> {None} \cup Contents]
    BY <1>1 DEF SInv, Sync!TypeOK
  <2>3. clipRestarts' \in 0..MaxRestarts
    BY <1>1, CalibrationConstants DEF SInv, Sync!TypeOK
  <2> QED
    BY <1>1, <2>1, <2>2, <2>3 DEF SInv, Sync!TypeOK
<1>4. Sync!SyncLosesNothing' /\ Sync!ReferencesResolve' /\ Sync!LaterSyncWins'
  BY <1>1 DEF Sync!SyncLosesNothing, Sync!ReferencesResolve, Sync!LaterSyncWins
<1>5. SubmissionInv'
  <2> SUFFICES ASSUME NEW s \in Submissions, syncing'[s] # None
               PROVE  /\ Bare(syncing[s].clip)' = uploaded'[syncing'[s].clip.id]
                      /\ syncing'[s].ref # syncing'[s].clip.id
                      /\ syncing'[s].status # 0
    BY DEF SubmissionInv
  <2>1. /\ syncing[s] # None /\ syncing'[s].clip = syncing[s].clip
        /\ syncing'[s].ref = syncing[s].ref /\ syncing'[s].status # 0
    BY <1>2
  <2>2. Bare(syncing[s].clip) = uploaded[syncing[s].clip.id] /\ syncing[s].ref # syncing[s].clip.id
    BY <2>1 DEF SInv, SubmissionInv
  <2> QED
    BY <2>1, <2>2, <1>1 DEF Bare
<1>6. BeforeInv'
  <2> SUFFICES ASSUME NEW q \in Submissions, NEW r \in syncedBefore'[q] PROVE Sync!Answered(r, 200)'
    BY DEF BeforeInv
  <2>1. r \in Submissions /\ Sync!Answered(r, 200)
    BY <1>1 DEF SInv, Sync!TypeOK, BeforeInv
  <2> QED
    BY <2>1, <1>2
<1> QED
  BY <1>3, <1>4, <1>5, <1>6 DEF SInv

LEMMA StutterS ==
  ASSUME SInv, UNCHANGED Sync!vars
  PROVE  SInv'
<1>1. UNCHANGED <<clips, objects, store, syncing, clipRestarts, uploaded, live, syncedBefore>>
  BY DEF Sync!vars
<1>2. Sync!TypeOK' /\ Sync!SyncLosesNothing' /\ Sync!ReferencesResolve'
  BY <1>1 DEF SInv, Sync!TypeOK, Sync!SyncLosesNothing, Sync!ReferencesResolve
<1>3. SubmissionInv' /\ BeforeInv' /\ Sync!LaterSyncWins'
  BY <1>1 DEF SInv, SubmissionInv, Bare, Sync!Find, BeforeInv,
     Sync!LaterSyncWins, Sync!AcceptedFor, Sync!Answered
<1> QED
  BY <1>2, <1>3 DEF SInv

LEMMA NextS == SInv /\ [Sync!Next]_Sync!vars => SInv'
<1> SUFFICES ASSUME SInv, [Sync!Next]_Sync!vars PROVE SInv'
  OBVIOUS
<1>1. CASE \E c \in Sync!Callers, o \in Orgs, m \in Matches, content \in Contents :
             Sync!UploadClip(c, o, m, content)
  BY <1>1, UploadS
<1>2. CASE \E s \in Submissions, c \in Sync!Callers, o \in Orgs, m \in Matches,
              id, ref \in ClipIds, score \in Sync!Scores :
             Sync!ReadForSync(s, c, o, m, id, ref, score)
  BY <1>2, ReadS
<1>3. CASE \E s \in Submissions : Sync!WriteBack(s)
  BY <1>3, WriteBackS
<1>4. CASE Sync!Restart
  BY <1>4, RestartS
<1>5. CASE UNCHANGED Sync!vars
  BY <1>5, StutterS
<1> QED
  BY <1>1, <1>2, <1>3, <1>4, <1>5 DEF Sync!Next

\* The parts of the invariant stand and fall together.
THEOREM SInvHolds == Sync!Spec => []SInv
BY InitS, NextS, PTL DEF Sync!Spec

-----------------------------------------------------------------------------
\* Every variable keeps its type, and no offset is stored with a score that
\* ApplySyncOffset refuses.
THEOREM SyncTypeCorrect == Sync!Spec => []Sync!TypeOK
<1>1. SInv => Sync!TypeOK
  BY DEF SInv
<1> QED
  BY SInvHolds, <1>1, PTL

\* However submissions overlap, writing a clip back loses and alters none.
THEOREM NothingIsLost == Sync!Spec => []SyncLosesNothing
<1>1. SInv => SyncLosesNothing
  BY DEF SInv, SyncLosesNothing
<1> QED
  BY SInvHolds, <1>1, PTL

\* An offset refers to another clip of the match that is still there, though the
\* reference was looked up before the write.
THEOREM ReferencesAlwaysResolve == Sync!Spec => []ReferencesResolve
<1>1. SInv => ReferencesResolve
  BY DEF SInv, ReferencesResolve
<1> QED
  BY SInvHolds, <1>1, PTL

\* Of two submissions that do not overlap the later one stays.
THEOREM LaterSyncStays == Sync!Spec => []LaterSyncWins
<1>1. SInv => LaterSyncWins
  BY DEF SInv, LaterSyncWins
<1> QED
  BY SInvHolds, <1>1, PTL
-----------------------------------------------------------------------------
(* camera-calibration *)

\* Every profile is the work of an accepted submission, and no accepted one for
\* the camera began after that one was answered.
ProfilesStand ==
  \A p \in profiles :
    /\ AcceptedFor(p.by, p.org, p.id)
    /\ submission[p.by].px = p.px
    /\ \A r \in Submissions :
         AcceptedFor(r, p.org, p.id) => p.by \notin before[r]

\* Submissions that came before s have been answered, and stay so.
AnsweredBefore ==
  \A s \in Submissions : \A r \in before[s] : Answered(r, 200)

\* A submission goes on to the store only with an error that can be one.
RunningAreAccepted ==
  \A s \in Submissions : Answered(s, 0) => Accepts(submission[s].px)

CInv ==
  /\ TypeOK
  /\ RunningAreAccepted
  /\ ProfilesStand
  /\ AnsweredBefore
  /\ ReadyIsDeserved

LEMMA InitC == Init => CInv
<1> SUFFICES ASSUME Init PROVE CInv
  OBVIOUS
<1>1. TypeOK
  BY CalibrationConstants DEF Init, StoreInit, TypeOK
<1>2. ProfilesStand /\ AnsweredBefore /\ RunningAreAccepted
  BY DEF Init, ProfilesStand, AnsweredBefore, RunningAreAccepted,
         Answered
<1>3. ReadyIsDeserved
  BY DEF Init, ReadyIsDeserved
<1> QED
  BY <1>1, <1>2, <1>3 DEF CInv

\* A step that answers nothing to a reader leaves nothing to deserve.
LEMMA NoAnswerIsDeserved ==
  ASSUME reply' = None
  PROVE  ReadyIsDeserved'
BY DEF ReadyIsDeserved

LEMMA RegisterC ==
  ASSUME CInv, NEW c \in Callers, NEW o \in Orgs, NEW complete \in BOOLEAN,
         RegisterCamera(c, o, complete)
  PROVE  CInv'
<1>1. TypeOK'
  BY DEF CInv, TypeOK, RegisterCamera, CreateCamera
<1>2. ProfilesStand' /\ AnsweredBefore' /\ RunningAreAccepted'
  BY DEF CInv, RegisterCamera, ProfilesStand, AnsweredBefore, RunningAreAccepted,
         AcceptedFor, Answered
<1>3. ReadyIsDeserved'
  BY NoAnswerIsDeserved DEF RegisterCamera
<1> QED
  BY <1>1, <1>2, <1>3 DEF CInv

\* The submission that begins has no answer yet, and was none before.
LEMMA LookUpC ==
  ASSUME CInv, NEW c \in Callers, NEW o \in Orgs, NEW id \in CameraIds,
         NEW s \in Submissions, NEW px \in Pixels,
         LookUpCamera(s, c, o, id, px)
  PROVE  CInv'
<1> DEFINE code == IF ~MayManage(c, o) THEN 403
                   ELSE IF Find(cameras, o, id) = {} THEN 404
                   ELSE IF ~Accepts(px) THEN 400
                   ELSE 0
           call == [org |-> o, id |-> id, px |-> px, status |-> code]
<1>1. code \in {0, 400, 403, 404}
  OBVIOUS
<1>2. submission' = [submission EXCEPT ![s] = call] /\ submission[s] = None
  BY DEF LookUpCamera
<1> HIDE DEF code
<1>3. call \in Calls /\ call.status # 200
  BY <1>1 DEF Calls
<1> HIDE DEF call
<1>4. submission \in [Submissions -> {None} \cup Calls]
  BY DEF CInv, TypeOK
<1>5. /\ submission'[s] = call
      /\ \A r \in Submissions \ {s} : submission'[r] = submission[r]
  BY <1>2, <1>4
<1>6. /\ before \in [Submissions -> SUBSET Submissions]
      /\ before' = [before EXCEPT ![s] =
                                {r \in Submissions : Answered(r, 200)}]
      /\ UNCHANGED <<cameras, restarts, given, profiles>>
  BY DEF CInv, TypeOK, LookUpCamera, storeVars
<1>7. TypeOK'
  <2>1. submission' \in [Submissions -> {None} \cup Calls]
    BY <1>2, <1>3, <1>4
  <2>2. before' \in [Submissions -> SUBSET Submissions]
    BY <1>6
  <2>3. reply' = None
    BY DEF LookUpCamera
  <2> QED
    BY <1>6, <2>1, <2>2, <2>3 DEF CInv, TypeOK
<1>8. /\ ~Answered(s, 200) /\ ~Answered(s, 200)'
      /\ \A r \in Submissions \ {s} :
           Answered(r, 200)' <=> Answered(r, 200)
  BY <1>2, <1>3, <1>5 DEF Answered
<1>9. AnsweredBefore'
  <2>1. \A r \in Submissions : Answered(r, 200) => Answered(r, 200)'
    BY <1>8
  <2>2. \A q \in Submissions : \A r \in before'[q] :
          r \in Submissions /\ Answered(r, 200)
    BY <1>6 DEF CInv, AnsweredBefore
  <2> QED
    BY <2>1, <2>2 DEF AnsweredBefore
<1>10. ProfilesStand'
  <2> SUFFICES ASSUME NEW p \in profiles
               PROVE  /\ AcceptedFor(p.by, p.org, p.id)'
                      /\ submission'[p.by].px = p.px
                      /\ \A r \in Submissions :
                           AcceptedFor(r, p.org, p.id)' =>
                             p.by \notin before'[r]
    BY <1>6 DEF ProfilesStand
  <2>1. p.by \in Submissions /\ AcceptedFor(p.by, p.org, p.id)
    BY DEF CInv, TypeOK, ProfilesStand
  <2>2. p.by # s
    BY <2>1, <1>8 DEF AcceptedFor
  <2>3. \A r \in Submissions \ {s} : before'[r] = before[r]
    BY <1>6
  <2>4. \A r \in Submissions : AcceptedFor(r, p.org, p.id)' =>
          r # s /\ AcceptedFor(r, p.org, p.id)
    BY <1>5, <1>8 DEF AcceptedFor
  <2> QED
    BY <2>1, <2>2, <2>3, <2>4, <1>5, <1>8 DEF CInv, ProfilesStand, AcceptedFor
<1>11. ReadyIsDeserved'
  BY NoAnswerIsDeserved DEF LookUpCamera
<1>12. RunningAreAccepted'
  <2>1. call.status = 0 => Accepts(call.px)
    BY DEF call, code
  <2> QED
    BY <2>1, <1>5 DEF CInv, RunningAreAccepted, Answered
<1> QED
  BY <1>7, <1>9, <1>10, <1>11, <1>12 DEF CInv

\* The submission that is answered came before none that was accepted, and its
\* profile takes the place of the camera's.
LEMMA StoreProfileC ==
  ASSUME CInv, NEW s \in Submissions, StoreProfile(s)
  PROVE  CInv'
<1> DEFINE q == submission[s]
           new == [org |-> q.org, id |-> q.id, px |-> q.px, by |-> s]
<1>1. q \in Calls /\ q # None /\ q.status = 0
  BY DEF CInv, TypeOK, StoreProfile, Answered
<1>2. /\ profiles' = (profiles \ Find(profiles, q.org, q.id)) \cup {new}
      /\ submission' = [submission EXCEPT ![s].status = 200]
      /\ reply' = None
      /\ UNCHANGED <<cameras, restarts, given, before>>
  BY DEF StoreProfile, storeVars
<1>3. submission \in [Submissions -> {None} \cup Calls]
  BY DEF CInv, TypeOK
<1>4. /\ submission'[s] = [q EXCEPT !.status = 200]
      /\ \A r \in Submissions \ {s} : submission'[r] = submission[r]
  BY <1>2, <1>3
<1>5. /\ submission'[s] \in Calls /\ submission'[s].status = 200
      /\ submission'[s].org = q.org /\ submission'[s].id = q.id /\ submission'[s].px = q.px
  BY <1>1, <1>4 DEF Calls
<1>6. Answered(s, 0) /\ Answered(s, 200)'
  BY <1>1, <1>5, CalibrationConstants DEF Answered
<1>7. \A r \in Submissions \ {s} :
        /\ Answered(r, 0)' <=> Answered(r, 0)
        /\ Answered(r, 200)' <=> Answered(r, 200)
  BY <1>4 DEF Answered
<1>8. new \in [org : Orgs, id : CameraIds, px : Pixels \cap Nat, by : Submissions]
  <2>1. q.px \in Pixels \cap Nat
    BY <1>1, <1>6 DEF CInv, RunningAreAccepted, Accepts, Calls,
                      Pixels
  <2> QED
    BY <1>1, <2>1 DEF Calls
<1> HIDE DEF new
<1>9. TypeOK'
  <2>1. submission' \in [Submissions -> {None} \cup Calls]
    BY <1>2, <1>3, <1>4, <1>5
  <2>2. profiles' \subseteq [org : Orgs, id : CameraIds, px : Pixels \cap Nat,
                              by : Submissions]
    BY <1>2, <1>8 DEF CInv, TypeOK
  <2> QED
    BY <1>2, <2>1, <2>2 DEF CInv, TypeOK
<1>10. RunningAreAccepted'
  <2>1. ~Answered(s, 0)'
    BY <1>5 DEF Answered
  <2> QED
    BY <2>1, <1>4, <1>7 DEF CInv, RunningAreAccepted
<1>11. AnsweredBefore'
  <2>1. \A r \in Submissions : Answered(r, 200) => Answered(r, 200)'
    BY <1>6, <1>7
  <2>2. \A t \in Submissions : \A r \in before[t] :
          r \in Submissions /\ Answered(r, 200)
    BY DEF CInv, AnsweredBefore, TypeOK
  <2> QED
    BY <1>2, <2>1, <2>2 DEF AnsweredBefore
<1>12. \A r \in Submissions : s \notin before[r]
  BY <1>6 DEF CInv, AnsweredBefore, Answered
<1>13. ProfilesStand'
  <2> SUFFICES ASSUME NEW p \in profiles'
               PROVE  /\ AcceptedFor(p.by, p.org, p.id)'
                      /\ submission'[p.by].px = p.px
                      /\ \A r \in Submissions :
                           AcceptedFor(r, p.org, p.id)' =>
                             p.by \notin before[r]
    BY <1>2 DEF ProfilesStand
  <2>1. CASE p = new
    BY <2>1, <1>5, <1>6, <1>12 DEF new, AcceptedFor
  <2>2. CASE p # new
    <3>1. p \in profiles /\ ~(p.org = q.org /\ p.id = q.id)
      BY <2>2, <1>2 DEF Find
    <3>2. /\ p.by \in Submissions /\ AcceptedFor(p.by, p.org, p.id)
          /\ submission[p.by].px = p.px
          /\ \A r \in Submissions :
               AcceptedFor(r, p.org, p.id) => p.by \notin before[r]
      BY <3>1 DEF CInv, TypeOK, ProfilesStand
    <3>3. p.by # s
      BY <3>1, <3>2 DEF AcceptedFor
    <3>4. \A r \in Submissions : AcceptedFor(r, p.org, p.id)' =>
            AcceptedFor(r, p.org, p.id)
      <4>1. ~AcceptedFor(s, p.org, p.id)'
        BY <3>1, <1>5 DEF AcceptedFor
      <4>2. \A r \in Submissions \ {s} : AcceptedFor(r, p.org, p.id)' =>
              AcceptedFor(r, p.org, p.id)
        BY <1>4, <1>7 DEF AcceptedFor
      <4> QED
        BY <4>1, <4>2
    <3>5. AcceptedFor(p.by, p.org, p.id)' /\ submission'[p.by].px = p.px
      BY <3>2, <3>3, <1>4, <1>7 DEF AcceptedFor
    <3> QED
      BY <3>2, <3>4, <3>5
  <2> QED
    BY <2>1, <2>2
<1>14. ReadyIsDeserved'
  BY <1>2, NoAnswerIsDeserved
<1> QED
  BY <1>9, <1>10, <1>11, <1>13, <1>14 DEF CInv

\* What is read is the profile that stands.
LEMMA StatusC ==
  ASSUME CInv, NEW c \in Callers, NEW o \in Orgs, NEW id \in CameraIds,
         GetCalibrationStatus(c, o, id)
  PROVE  CInv'
<1>1. UNCHANGED <<cameras, restarts, given, profiles, submission,
                  before>>
  BY DEF GetCalibrationStatus, storeVars
<1>2. \/ reply' = None
      \/ \E p \in profiles : /\ p.org = o /\ p.id = id
                              /\ reply' = [org |-> o, id |-> id, valid |-> Valid(p)]
  BY DEF GetCalibrationStatus, Find
<1>3. TypeOK'
  <2>1. reply' \in {None} \cup [org : Orgs, id : CameraIds, valid : BOOLEAN]
    <3>1. \A p : Valid(p) \in BOOLEAN
      BY DEF Valid
    <3> QED
      BY <3>1, <1>2
  <2> QED
    BY <1>1, <2>1 DEF CInv, TypeOK
<1>4. ProfilesStand' /\ AnsweredBefore' /\ RunningAreAccepted'
  BY <1>1 DEF CInv, ProfilesStand, AnsweredBefore, RunningAreAccepted,
              AcceptedFor, Answered
<1>5. ReadyIsDeserved'
  <2>1. CASE reply' = None
    BY <2>1, NoAnswerIsDeserved
  <2>2. ASSUME NEW p \in profiles, p.org = o, p.id = id,
               reply' = [org |-> o, id |-> id, valid |-> Valid(p)]
        PROVE  ReadyIsDeserved'
    <3>1. p.by \in Submissions
      BY DEF CInv, TypeOK
    <3>2. /\ AcceptedFor(p.by, o, id) /\ submission[p.by].px = p.px
          /\ \A r \in Submissions :
               AcceptedFor(r, o, id) => p.by \notin before[r]
      BY <2>2 DEF CInv, ProfilesStand
    <3>3. reply'.org = o /\ reply'.id = id /\ (reply'.valid => p.px <= 2)
      BY <2>2 DEF Valid, MaxReprojectionErrorPx
    <3>4. \A r \in Submissions :
            AcceptedFor(r, o, id)' <=> AcceptedFor(r, o, id)
      BY <1>1 DEF AcceptedFor, Answered
    <3> QED
      BY <1>1, <3>1, <3>2, <3>3, <3>4 DEF ReadyIsDeserved,
         AcceptedFor, Answered
  <2> QED
    BY <1>2, <2>1, <2>2
<1> QED
  BY <1>3, <1>4, <1>5 DEF CInv

LEMMA RestartC ==
  ASSUME CInv, Restart
  PROVE  CInv'
<1>1. /\ cameras' = {} /\ profiles' = {} /\ reply' = None
      /\ UNCHANGED <<given, before>>
      /\ restarts < MaxRestarts /\ restarts' = restarts + 1
      /\ submission' = [s \in Submissions |->
           IF Answered(s, 0) THEN [submission[s] EXCEPT !.status = 502]
           ELSE submission[s]]
  BY DEF Restart, LoseCameras
<1>2. \A s \in Submissions :
        /\ submission'[s] \in {None} \cup Calls
        /\ ~Answered(s, 0)'
        /\ Answered(s, 200) => Answered(s, 200)'
  <2> TAKE s \in Submissions
  <2>1. submission[s] \in {None} \cup Calls
    BY DEF CInv, TypeOK
  <2>2. CASE Answered(s, 0)
    <3>1. submission[s] \in Calls /\ submission[s].status = 0
      BY <2>1, <2>2 DEF Answered
    <3>2. submission'[s] = [submission[s] EXCEPT !.status = 502]
      BY <1>1, <2>2
    <3> QED
      BY <3>1, <3>2 DEF Answered, Calls
  <2>3. CASE ~Answered(s, 0)
    BY <1>1, <2>1, <2>3 DEF Answered
  <2> QED
    BY <2>2, <2>3
<1>3. TypeOK'
  <2>1. submission' \in [Submissions -> {None} \cup Calls]
    BY <1>1, <1>2
  <2>2. restarts' \in 0..MaxRestarts
    BY <1>1, CalibrationConstants DEF CInv, TypeOK
  <2> QED
    BY <1>1, <2>1, <2>2 DEF CInv, TypeOK
<1>4. ProfilesStand' /\ RunningAreAccepted'
  BY <1>1, <1>2 DEF ProfilesStand, RunningAreAccepted
<1>5. AnsweredBefore'
  <2>1. \A s \in Submissions : \A r \in before[s] :
          r \in Submissions /\ Answered(r, 200)
    BY DEF CInv, AnsweredBefore, TypeOK
  <2> QED
    BY <1>1, <1>2, <2>1 DEF AnsweredBefore
<1>6. ReadyIsDeserved'
  BY <1>1, NoAnswerIsDeserved
<1> QED
  BY <1>3, <1>4, <1>5, <1>6 DEF CInv

LEMMA NextC == CInv /\ [Next]_vars => CInv'
<1> SUFFICES ASSUME CInv, [Next]_vars PROVE CInv'
  OBVIOUS
<1>1. ASSUME NEW c \in Callers, NEW o \in Orgs, NEW complete \in BOOLEAN,
             RegisterCamera(c, o, complete)
      PROVE  CInv'
  BY <1>1, RegisterC
<1>2. ASSUME NEW c \in Callers, NEW o \in Orgs, NEW id \in CameraIds,
             NEW s \in Submissions, NEW px \in Pixels,
             LookUpCamera(s, c, o, id, px)
      PROVE  CInv'
  BY <1>2, LookUpC
<1>3. ASSUME NEW c \in Callers, NEW o \in Orgs, NEW id \in CameraIds,
             GetCalibrationStatus(c, o, id)
      PROVE  CInv'
  BY <1>3, StatusC
<1>4. ASSUME NEW s \in Submissions, StoreProfile(s)
      PROVE  CInv'
  BY <1>4, StoreProfileC
<1>5. CASE Restart
  BY <1>5, RestartC
<1>6. CASE UNCHANGED vars
  BY <1>6 DEF CInv, vars, storeVars, TypeOK, ProfilesStand, AnsweredBefore,
     RunningAreAccepted, ReadyIsDeserved, AcceptedFor,
     Answered
<1> QED
  BY <1>1, <1>2, <1>3, <1>4, <1>5, <1>6 DEF Next
-----------------------------------------------------------------------------
(* match-tournament *)

MInv ==
  /\ Tournament!TypeOK
  /\ TenantsStayApart
  /\ ConditionsWereValidated

\* What a kept match and a kept roster entry must be.
SoundMatch(m) ==
  /\ Tournament!Kept(teams, m.org, m.home) /\ Tournament!Kept(teams, m.org, m.away)
  /\ m.tournament # None => Tournament!Kept(tournaments, m.org, m.tournament)
  /\ \/ Tournament!ValidConditions(m.conditions)
     \/ m.tournament = None /\ m.conditions = Tournament!Zero

SoundEntry(e) == Tournament!Kept(matches, e.org, e.match) /\ Tournament!Kept(teams, e.org, e.team)

\* Nothing is shown to anybody but its owner.
SoundReply == response # None => response.owners \subseteq {response.to}

LEMMA Sound ==
  TenantsStayApart /\ ConditionsWereValidated <=>
    /\ \A m \in matches : SoundMatch(m)
    /\ \A e \in rosters : SoundEntry(e)
    /\ \A t \in tournaments : Tournament!ValidConditions(t.defaults)
    /\ SoundReply
BY DEF TenantsStayApart, Tournament!TenantsStayApart, ConditionsWereValidated,
   Tournament!ConditionsWereValidated, SoundMatch, SoundEntry, SoundReply

\* Teams, tournaments and matches are never removed one by one: what was sound
\* stays so, and only new records have to be looked at.
LEMMA GrowT ==
  ASSUME MInv,
         teams \subseteq teams', tournaments \subseteq tournaments', matches \subseteq matches',
         \A m \in matches' : m \in matches \/ SoundMatch(m)',
         \A e \in rosters' : e \in rosters \/ SoundEntry(e)',
         \A t \in tournaments' : t \in tournaments \/ Tournament!ValidConditions(t.defaults),
         SoundReply'
  PROVE  TenantsStayApart' /\ ConditionsWereValidated'
<1>1. \A m \in matches : SoundMatch(m) => SoundMatch(m)'
  BY DEF SoundMatch, Tournament!Kept
<1>2. \A e \in rosters : SoundEntry(e) => SoundEntry(e)'
  BY DEF SoundEntry, Tournament!Kept
<1>3. /\ \A m \in matches : SoundMatch(m)
      /\ \A e \in rosters : SoundEntry(e)
      /\ \A t \in tournaments : Tournament!ValidConditions(t.defaults)
  BY Sound DEF MInv
<1>4. /\ \A m \in matches' : SoundMatch(m)'
      /\ \A e \in rosters' : SoundEntry(e)'
      /\ \A t \in tournaments' : Tournament!ValidConditions(t.defaults)
  BY <1>1, <1>2, <1>3
<1> QED
  BY <1>4 DEF TenantsStayApart, Tournament!TenantsStayApart, ConditionsWereValidated,
     Tournament!ConditionsWereValidated, SoundMatch, SoundEntry, SoundReply

\* An answer that shows the caller's organization its own records is sound.
LEMMA RespondT ==
  ASSUME NEW c, NEW code, NEW seen, \A x \in seen : x.org = c.org,
         Tournament!Respond(c, code, seen)
  PROVE  SoundReply'
<1>1. response' = [to |-> c.org, status |-> code, owners |-> {x.org : x \in seen}]
  BY DEF Tournament!Respond
<1>2. response'.owners \subseteq {response'.to}
  BY <1>1
<1> QED
  BY <1>2 DEF SoundReply

LEMMA InitT == Tournament!Init => MInv
<1> SUFFICES ASSUME Tournament!Init PROVE MInv
  OBVIOUS
<1>1. Tournament!TypeOK
  BY CalibrationConstants DEF Tournament!Init, Tournament!TypeOK
<1>2. TenantsStayApart /\ ConditionsWereValidated
  BY Sound DEF Tournament!Init, SoundReply
<1> QED
  BY <1>1, <1>2 DEF MInv

LEMMA CreateTeamT ==
  ASSUME MInv, NEW c \in Tournament!Callers, NEW o \in Orgs, NEW named \in BOOLEAN,
         Tournament!CreateTeam(c, o, named)
  PROVE  MInv'
<1>1. PICK id \in TeamIds :
        LET code == IF ~Tournament!MayManage(c, o) THEN 403 ELSE IF ~named THEN 400 ELSE 201 IN
          Tournament!Created(c, code, [org |-> o, id |-> id], teams,
                             <<tournaments, matches, rosters>>)
  BY DEF Tournament!CreateTeam, Tournament!Fresh
<1> DEFINE code == IF ~Tournament!MayManage(c, o) THEN 403 ELSE IF ~named THEN 400 ELSE 201
           team == [org |-> o, id |-> id]
<1>2. /\ UNCHANGED <<tournaments, matches, rosters, matchRestarts>>
      /\ \/ /\ code = 201
            /\ teams' = teams \cup {team} /\ matchIdsGiven' = matchIdsGiven \cup {id}
            /\ Tournament!Respond(c, code, {team})
         \/ UNCHANGED <<teams, matchIdsGiven>> /\ Tournament!Respond(c, code, {})
  BY <1>1 DEF Tournament!Created
<1>3. code = 201 => o = c.org
  BY DEF Tournament!MayManage
<1>4. Tournament!TypeOK'
  BY <1>2 DEF MInv, Tournament!TypeOK
<1>5. SoundReply'
  BY <1>2, <1>3, RespondT
<1>6. TenantsStayApart' /\ ConditionsWereValidated'
  BY <1>2, <1>5, GrowT
<1> QED
  BY <1>4, <1>6 DEF MInv

LEMMA CreateTournamentT ==
  ASSUME MInv, NEW c \in Tournament!Callers, NEW o \in Orgs, NEW named \in BOOLEAN,
         NEW in \in Tournament!Conditions,
         Tournament!CreateTournament(c, o, named, in)
  PROVE  MInv'
<1> DEFINE code == IF ~Tournament!MayManage(c, o) THEN 403
                   ELSE IF ~Tournament!ValidConditions(in) \/ ~named THEN 400 ELSE 201
<1>1. PICK id \in TournamentIds :
        Tournament!Created(c, code, [org |-> o, id |-> id, defaults |-> in],
                           tournaments, <<teams, matches, rosters>>)
  BY DEF Tournament!CreateTournament, Tournament!Fresh
<1> DEFINE new == [org |-> o, id |-> id, defaults |-> in]
<1>2. /\ UNCHANGED <<teams, matches, rosters, matchRestarts>>
      /\ \/ /\ code = 201
            /\ tournaments' = tournaments \cup {new} /\ matchIdsGiven' = matchIdsGiven \cup {id}
            /\ Tournament!Respond(c, code, {new})
         \/ UNCHANGED <<tournaments, matchIdsGiven>> /\ Tournament!Respond(c, code, {})
  BY <1>1 DEF Tournament!Created
<1>3. code = 201 => o = c.org /\ Tournament!ValidConditions(in)
  BY DEF Tournament!MayManage
<1>4. Tournament!TypeOK'
  BY <1>2 DEF MInv, Tournament!TypeOK
<1>5. SoundReply'
  BY <1>2, <1>3, RespondT
<1>6. \A t \in tournaments' : t \in tournaments \/ Tournament!ValidConditions(t.defaults)
  BY <1>2, <1>3
<1>7. TenantsStayApart' /\ ConditionsWereValidated'
  BY <1>2, <1>5, <1>6, GrowT
<1> QED
  BY <1>4, <1>7 DEF MInv

\* What a request for a match that is answered 201 has been checked for.
LEMMA AcceptedMatch ==
  ASSUME NEW c \in Tournament!Callers, NEW o \in Orgs, NEW q \in Tournament!MatchRequests,
         Tournament!MatchStatus(c, o, q) = 201
  PROVE  /\ c.org = o
         /\ Tournament!Kept(teams, o, q.home) /\ Tournament!Kept(teams, o, q.away)
         /\ q.tournament # None => Tournament!Find(tournaments, o, q.tournament) # {}
         /\ q.conditions # None => Tournament!ValidConditions(q.conditions)
<1>1. /\ Tournament!MayManage(c, o)
      /\ ~\E t \in {q.home, q.away} : Tournament!Find(teams, o, t) = {}
      /\ ~(q.tournament # None /\ Tournament!Find(tournaments, o, q.tournament) = {})
      /\ ~(q.conditions # None /\ ~Tournament!ValidConditions(q.conditions))
  BY DEF Tournament!MatchStatus
<1>2. \A t : Tournament!Find(teams, o, t) # {} => Tournament!Kept(teams, o, t)
  BY DEF Tournament!Find, Tournament!Kept
<1> QED
  BY <1>1, <1>2 DEF Tournament!MayManage

\* The conditions a match is agreed: valid ones, or none at all.
LEMMA Resolved ==
  ASSUME MInv, NEW c \in Tournament!Callers, NEW o \in Orgs, NEW q \in Tournament!MatchRequests,
         Tournament!MatchStatus(c, o, q) = 201
  PROVE  LET agreed == Tournament!ResolvedConditions(o, q) IN
         /\ agreed \in Tournament!Conditions
         /\ \/ Tournament!ValidConditions(agreed)
            \/ q.tournament = None /\ agreed = Tournament!Zero
<1> DEFINE agreed == Tournament!ResolvedConditions(o, q)
<1>1. q.conditions \in Tournament!Conditions \cup {None}
  BY DEF Tournament!MatchRequests
<1>2. CASE q.conditions # None
  BY <1>1, <1>2, AcceptedMatch DEF Tournament!ResolvedConditions
<1>3. CASE q.conditions = None /\ q.tournament # None
  <2> DEFINE x == CHOOSE y \in Tournament!Find(tournaments, o, q.tournament) : TRUE
  <2>1. x \in Tournament!Find(tournaments, o, q.tournament)
    BY <1>3, AcceptedMatch
  <2>2. agreed = x.defaults
    BY <1>3 DEF Tournament!ResolvedConditions
  <2> HIDE DEF x, agreed
  <2>3. x \in tournaments
    BY <2>1 DEF Tournament!Find
  <2>4. x.defaults \in Tournament!Conditions /\ Tournament!ValidConditions(x.defaults)
    BY <2>3 DEF MInv, Tournament!TypeOK, ConditionsWereValidated,
       Tournament!ConditionsWereValidated
  <2> QED
    BY <2>2, <2>4 DEF agreed
<1>4. CASE q.conditions = None /\ q.tournament = None
  <2>1. agreed = Tournament!Zero
    BY <1>4 DEF Tournament!ResolvedConditions
  <2>2. Tournament!Zero \in Tournament!Conditions
    BY DEF Tournament!Zero, Tournament!Conditions
  <2> QED
    BY <1>4, <2>1, <2>2
<1> QED
  BY <1>2, <1>3, <1>4

LEMMA CreateMatchT ==
  ASSUME MInv, NEW c \in Tournament!Callers, NEW o \in Orgs, NEW q \in Tournament!MatchRequests,
         Tournament!CreateMatch(c, o, q)
  PROVE  MInv'
<1> DEFINE code == Tournament!MatchStatus(c, o, q)
           agreed == IF code = 201 THEN Tournament!ResolvedConditions(o, q) ELSE Tournament!Zero
           Match(id) == [org |-> o, id |-> id, tournament |-> q.tournament, home |-> q.home,
                         away |-> q.away, conditions |-> agreed]
<1>1. PICK id \in MatchIds :
        Tournament!Created(c, code, Match(id), matches, <<teams, tournaments, rosters>>)
  BY DEF Tournament!CreateMatch, Tournament!Fresh
<1>2. /\ UNCHANGED <<teams, tournaments, rosters, matchRestarts>>
      /\ \/ /\ code = 201
            /\ matches' = matches \cup {Match(id)} /\ matchIdsGiven' = matchIdsGiven \cup {id}
            /\ Tournament!Respond(c, code, {Match(id)})
         \/ UNCHANGED <<matches, matchIdsGiven>> /\ Tournament!Respond(c, code, {})
  BY <1>1 DEF Tournament!Created
<1>3. code = 201 => /\ c.org = o /\ agreed \in Tournament!Conditions
                    /\ SoundMatch(Match(id))
  <2> SUFFICES ASSUME code = 201
               PROVE  c.org = o /\ agreed \in Tournament!Conditions /\ SoundMatch(Match(id))
    OBVIOUS
  <2>1. /\ agreed \in Tournament!Conditions
        /\ Tournament!ValidConditions(agreed) \/ (q.tournament = None /\ agreed = Tournament!Zero)
    BY Resolved
  <2>2. q.tournament # None => Tournament!Kept(tournaments, o, q.tournament)
    BY AcceptedMatch DEF Tournament!Find, Tournament!Kept
  <2> HIDE DEF agreed
  <2> QED
    BY <2>1, <2>2, AcceptedMatch DEF SoundMatch
<1> HIDE DEF agreed, code
<1>4. Tournament!TypeOK'
  <2>1. code = 201 => Match(id) \in
          [org : Orgs, id : MatchIds, tournament : TournamentIds \cup {None},
           home : TeamIds, away : TeamIds, conditions : Tournament!Conditions]
    BY <1>3 DEF Tournament!MatchRequests
  <2> QED
    BY <1>2, <2>1 DEF MInv, Tournament!TypeOK
<1>5. SoundReply'
  BY <1>2, <1>3, RespondT
<1>6. \A m \in matches' : m \in matches \/ SoundMatch(m)'
  <2>1. \A m : SoundMatch(m) => SoundMatch(m)'
    BY <1>2 DEF SoundMatch
  <2> QED
    BY <1>2, <1>3, <2>1
<1>7. TenantsStayApart' /\ ConditionsWereValidated'
  BY <1>2, <1>5, <1>6, GrowT
<1> QED
  BY <1>4, <1>7 DEF MInv

\* The match and the team were found under the organization of the entry.
LEMMA AddToRosterT ==
  ASSUME MInv, NEW c \in Tournament!Callers, NEW o \in Orgs, NEW m \in MatchIds,
         NEW t \in TeamIds, NEW u \in Users, NEW verdict,
         Tournament!AddPlayerToRoster(c, o, m, t, u, verdict)
  PROVE  MInv'
<1> DEFINE entry == [org |-> o, match |-> m, team |-> t, user |-> u]
<1>1. /\ UNCHANGED <<teams, tournaments, matches, matchRestarts, matchIdsGiven>>
      /\ \/ /\ c.org = o /\ Tournament!Find(matches, o, m) # {}
            /\ Tournament!Find(teams, o, t) # {}
            /\ rosters' = rosters \cup {entry} /\ Tournament!Respond(c, 201, {entry})
         \/ rosters' = rosters /\ \E code : Tournament!Respond(c, code, {})
  BY DEF Tournament!AddPlayerToRoster, Tournament!MayManage
<1>2. Tournament!TypeOK'
  BY <1>1 DEF MInv, Tournament!TypeOK
<1>3. SoundReply'
  <2>1. CASE c.org = o /\ Tournament!Respond(c, 201, {entry})
    BY <2>1, RespondT
  <2>2. ASSUME NEW code, Tournament!Respond(c, code, {}) PROVE SoundReply'
    BY <2>2, RespondT
  <2> QED
    BY <1>1, <2>1, <2>2
<1>4. \A e \in rosters' : e \in rosters \/ SoundEntry(e)'
  BY <1>1 DEF SoundEntry, Tournament!Kept, Tournament!Find
<1>5. TenantsStayApart' /\ ConditionsWereValidated'
  BY <1>1, <1>3, <1>4, GrowT
<1> QED
  BY <1>2, <1>5 DEF MInv

LEMMA RemoveFromRosterT ==
  ASSUME MInv, NEW c \in Tournament!Callers, NEW o \in Orgs, NEW m \in MatchIds, NEW u \in Users,
         Tournament!RemovePlayerFromRoster(c, o, m, u)
  PROVE  MInv'
<1>1. /\ UNCHANGED <<teams, tournaments, matches, matchRestarts, matchIdsGiven>>
      /\ rosters' \subseteq rosters /\ \E code : Tournament!Respond(c, code, {})
  BY DEF Tournament!RemovePlayerFromRoster
<1>2. Tournament!TypeOK'
  BY <1>1 DEF MInv, Tournament!TypeOK
<1>3. SoundReply'
  BY <1>1, RespondT
<1>4. TenantsStayApart' /\ ConditionsWereValidated'
  BY <1>1, <1>3, GrowT
<1> QED
  BY <1>2, <1>4 DEF MInv

\* A list and a record are looked up under the organization of the path, which
\* is the caller's.
LEMMA ReadT ==
  ASSUME MInv, NEW c \in Tournament!Callers, NEW o \in Orgs, NEW id,
         Tournament!List(c, o) \/ Tournament!Get(c, o, id)
  PROVE  MInv'
<1>1. UNCHANGED <<teams, tournaments, matches, rosters, matchRestarts, matchIdsGiven>>
  BY DEF Tournament!List, Tournament!Get, Tournament!Stores
<1>2. \E code, seen : (\A x \in seen : x.org = c.org) /\ Tournament!Respond(c, code, seen)
  <2>1. CASE c.org # o
    <3>1. Tournament!Respond(c, 403, {})
      BY <2>1 DEF Tournament!List, Tournament!Get
    <3> QED
      BY <3>1
  <2>2. ASSUME c.org = o, NEW table, Tournament!Respond(c, 200, Tournament!Owned(table, o))
        PROVE  \E code, seen : (\A x \in seen : x.org = c.org)
                                /\ Tournament!Respond(c, code, seen)
    <3>1. \A x \in Tournament!Owned(table, o) : x.org = c.org
      BY <2>2 DEF Tournament!Owned
    <3> QED
      BY <2>2, <3>1
  <2>3. ASSUME c.org = o, NEW table, NEW code,
               Tournament!Respond(c, code, Tournament!Find(table, o, id))
        PROVE  \E k, seen : (\A x \in seen : x.org = c.org)
                             /\ Tournament!Respond(c, k, seen)
    <3>1. \A x \in Tournament!Find(table, o, id) : x.org = c.org
      BY <2>3 DEF Tournament!Find
    <3> QED
      BY <2>3, <3>1
  <2>4. CASE c.org = o /\ Tournament!List(c, o)
    <3>1. \E table : Tournament!Respond(c, 200, Tournament!Owned(table, o))
      BY <2>4 DEF Tournament!List
    <3> QED
      BY <2>2, <2>4, <3>1
  <2>5. CASE c.org = o /\ Tournament!Get(c, o, id)
    <3>1. \E table, code : Tournament!Respond(c, code, Tournament!Find(table, o, id))
      BY <2>5 DEF Tournament!Get
    <3> QED
      BY <2>3, <2>5, <3>1
  <2> QED
    BY <2>1, <2>4, <2>5
<1>3. SoundReply'
  BY <1>2, RespondT
<1>4. Tournament!TypeOK'
  BY <1>1 DEF MInv, Tournament!TypeOK
<1>5. TenantsStayApart' /\ ConditionsWereValidated'
  BY <1>1, <1>3, GrowT
<1> QED
  BY <1>4, <1>5 DEF MInv

LEMMA RestartT ==
  ASSUME MInv, Tournament!Restart
  PROVE  MInv'
<1>1. Tournament!TypeOK'
  BY CalibrationConstants DEF MInv, Tournament!TypeOK, Tournament!Restart
<1>2. TenantsStayApart' /\ ConditionsWereValidated'
  BY DEF Tournament!Restart, TenantsStayApart, Tournament!TenantsStayApart,
     ConditionsWereValidated, Tournament!ConditionsWereValidated
<1> QED
  BY <1>1, <1>2 DEF MInv

LEMMA NextT == MInv /\ [Tournament!Next]_tournamentVars => MInv'
<1> SUFFICES ASSUME MInv, [Tournament!Next]_tournamentVars PROVE MInv'
  OBVIOUS
<1>1. ASSUME NEW c \in Tournament!Callers, NEW o \in Orgs, NEW named \in BOOLEAN,
             Tournament!CreateTeam(c, o, named)
      PROVE  MInv'
  BY <1>1, CreateTeamT
<1>2. ASSUME NEW c \in Tournament!Callers, NEW o \in Orgs, NEW named \in BOOLEAN,
             NEW in \in Tournament!Conditions, Tournament!CreateTournament(c, o, named, in)
      PROVE  MInv'
  BY <1>2, CreateTournamentT
<1>3. ASSUME NEW c \in Tournament!Callers, NEW o \in Orgs, NEW q \in Tournament!MatchRequests,
             Tournament!CreateMatch(c, o, q)
      PROVE  MInv'
  BY <1>3, CreateMatchT
<1>4. ASSUME NEW c \in Tournament!Callers, NEW o \in Orgs, NEW m \in MatchIds, NEW u \in Users,
             NEW t \in TeamIds, NEW verdict \in {"yes", "no", "error"},
             Tournament!AddPlayerToRoster(c, o, m, t, u, verdict)
      PROVE  MInv'
  BY <1>4, AddToRosterT
<1>5. ASSUME NEW c \in Tournament!Callers, NEW o \in Orgs, NEW m \in MatchIds, NEW u \in Users,
             Tournament!RemovePlayerFromRoster(c, o, m, u)
      PROVE  MInv'
  BY <1>5, RemoveFromRosterT
<1>6. ASSUME NEW c \in Tournament!Callers, NEW o \in Orgs, NEW id,
             Tournament!List(c, o) \/ Tournament!Get(c, o, id)
      PROVE  MInv'
  BY <1>6, ReadT
<1>7. CASE Tournament!Restart
  BY <1>7, RestartT
<1>8. CASE UNCHANGED tournamentVars
  <2>1. Tournament!TypeOK'
    BY <1>8 DEF MInv, tournamentVars, Tournament!TypeOK
  <2>2. SoundReply'
    BY <1>8, Sound DEF MInv, tournamentVars, SoundReply
  <2> QED
    BY <1>8, <2>1, <2>2, GrowT DEF MInv, tournamentVars
<1> QED
  BY <1>1, <1>2, <1>3, <1>4, <1>5, <1>6, <1>7, <1>8 DEF Tournament!Next
-----------------------------------------------------------------------------
(* The services side by side *)

\* A step of one service leaves the others alone, so the three invariants hold
\* together.
THEOREM ServicesInvariant == ServicesSpec => [](SInv /\ CInv /\ MInv)
<1> DEFINE all == <<service, vars, clipVars, tournamentVars>>
           Inv == SInv /\ CInv /\ MInv
<1>1. ServicesInit => Inv
  BY InitS, InitC, InitT DEF ServicesInit
<1>2. Inv /\ [ServicesNext]_all => Inv'
  <2> SUFFICES ASSUME Inv, [ServicesNext]_all PROVE Inv'
    OBVIOUS
  <2>1. [Next]_vars /\ [Sync!Next]_Sync!vars /\ [Tournament!Next]_tournamentVars
    BY DEF ServicesNext, clipVars, Sync!vars
  <2> QED
    BY <2>1, NextS, NextC, NextT
<1> QED
  BY <1>1, <1>2, PTL DEF ServicesSpec

\* Every variable of the three services keeps its type: no offset is stored with
\* a score that ApplySyncOffset refuses, no profile with a negative error, and
\* what a tournament hands on to a match are conditions.
THEOREM ServicesTypeCorrect == ServicesSpec => []ServicesTypeOK
<1>1. SInv /\ CInv /\ MInv => ServicesTypeOK
  BY DEF SInv, CInv, MInv, ServicesTypeOK
<1> QED
  BY ServicesInvariant, <1>1, PTL

\* GetCalibrationStatus calls a camera ready only for a submission within the
\* threshold that no later accepted one has superseded, however submissions for
\* the camera overlap.
THEOREM ReadyIsAlwaysDeserved == ServicesSpec => []ReadyIsDeserved
<1>1. CInv => ReadyIsDeserved
  BY DEF CInv
<1> QED
  BY ServicesInvariant, <1>1, PTL

\* No record of match-tournament refers to a record of another organization, nor
\* to one that a restart has lost, and nobody is shown another's records.
THEOREM TenantsAlwaysStayApart == ServicesSpec => []TenantsStayApart
<1>1. MInv => TenantsStayApart
  BY DEF MInv
<1> QED
  BY ServicesInvariant, <1>1, PTL

\* Whichever way conditions reach a match, NewPlayingConditions accepted them;
\* only a match without a tournament and without conditions has the zero value.
THEOREM ConditionsWereAlwaysValidated == ServicesSpec => []ConditionsWereValidated
<1>1. MInv => ConditionsWereValidated
  BY DEF MInv
<1> QED
  BY ServicesInvariant, <1>1, PTL
-----------------------------------------------------------------------------
(* The camera kit page of the web app, for a user who does what he likes, over
   a network that answers in any order or not at all. *)

\* A session speaks for the organization it is stored with.
SessionInv == auth # None => auth.org = auth.speaksFor

\* Whatever the page or a call of its holds has had its id given out.
GivenInv ==
  /\ \A c \in cameras \cup mine : c.id \in given
  /\ \A m \in Mounts : post[m] # None => \A c \in post[m].camera : c.id \in given

\* No call comes from a mount that is still to be.
MountInv ==
  /\ \A f \in Fetches : fetch[f] # None => fetch[f].mount <= mount
  /\ \A m \in Mounts : post[m] # None => m <= mount

\* The list has what the session's organization has registered here, and nothing
\* of another's.
Good(kit) ==
  /\ \A c \in kit : c.org = auth.org
  /\ \A c \in mine \cap cameras : c.org = auth.org => c \in kit

\* The newest refresh was sent by this mount, and its answer will be applied.
NewestInv == newest # None => fetch[newest] # None /\ fetch[newest].mount = mount

\* The newest refresh is the session's and is answered after whatever was
\* registered before it; once it is answered the list, or an error, is its answer.
ListInv ==
  ~disordered =>
    /\ newest # None =>
         /\ fetch[newest].auth = auth
         /\ fetch[newest].answer # None => Good(fetch[newest].answer)
    /\ newest = None /\ error = None /\ ~submitting => Good(shown)

\* What the mount registers it registers under the session, and so it refreshes.
PostInv ==
  ~disordered => \A m \in Mounts : m = mount /\ post[m] # None => post[m].auth = auth

PInv ==
  /\ cameras \in Kits
  /\ PageTypeOK
  /\ SessionInv /\ GivenInv /\ MountInv
  /\ OnPage => NewestInv /\ ListInv /\ PostInv

LEMMA InitP == PageInit => PInv
<1> SUFFICES ASSUME PageInit PROVE PInv
  OBVIOUS
<1>1. PageTypeOK /\ cameras \in Kits
  <2>1. cameras \in Kits /\ shown \in Kits /\ mine \in Kits /\ mount \in 0..MaxMounts /\ ~OnPage
    BY PageConstants DEF PageInit, Init, StoreInit, Kits, OnPage
  <2> QED
    BY <2>1 DEF PageInit, PageTypeOK
<1>2. SessionInv /\ GivenInv /\ MountInv /\ ~OnPage
  BY DEF PageInit, Init, StoreInit, SessionInv, GivenInv, MountInv, OnPage
<1> QED
  BY <1>1, <1>2 DEF PInv

\* Off the page the mount's state no longer counts: what it began goes on.
LEMMA LeaveP ==
  ASSUME PInv, path' = "/login", SessionInv',
         auth' \in {None} \cup Auths, login' \in [Logins -> {None} \cup LoginCalls],
         UNCHANGED <<cameras, given, mount, PageState, fetch, post, history>>
  PROVE  PInv'
<1>1. UNCHANGED <<cameras, given, mount, shown, error, loading, submitting, fetch, post,
                  mine, newest, disordered>>
  BY DEF PageState, history
<1>2. PageTypeOK' /\ ~OnPage'
  BY <1>1 DEF PInv, PageTypeOK, OnPage
<1>3. GivenInv' /\ MountInv'
  BY <1>1 DEF PInv, GivenInv, MountInv
<1> QED
  BY <1>1, <1>2, <1>3 DEF PInv

\* A mount starts with one fetch of its own: the calls that go on are of others.
LEMMA FreshP ==
  ASSUME PInv, NEW a \in Auths, a.org = a.speaksFor, NEW f \in Fetches,
         mount < MaxMounts, mount' = mount + 1, path' = "/cameras", StartAfresh,
         auth' = a, newest' = f, UNCHANGED <<cameras, given>>,
         login' \in [Logins -> {None} \cup LoginCalls],
         fetch' \in [Fetches -> {None} \cup ListCalls],
         fetch'[f] = [mount |-> mount + 1, auth |-> a, awaited |-> FALSE, answer |-> None],
         \A g \in Fetches \ {f} : fetch'[g] \in {None, fetch[g]},
         post' \in [Mounts -> {None} \cup RegisterCalls],
         \A m \in Mounts : post'[m] \in {None, post[m]}
  PROVE  PInv'
<1>1. /\ mount \in Nat /\ mount' \in 0..MaxMounts /\ mount' > mount /\ mount' > 0
  BY PageConstants DEF PInv, PageTypeOK
<1>2. /\ shown' = {} /\ mine' = {} /\ error' = None /\ loading' = TRUE /\ submitting' = FALSE
      /\ disordered' = FALSE
  BY DEF StartAfresh
<1>3. PageTypeOK'
  BY <1>1, <1>2, PageConstants DEF PInv, PageTypeOK, Kits, OnPage
<1>4. SessionInv'
  BY DEF SessionInv
<1>5. GivenInv'
  BY <1>2 DEF PInv, GivenInv
<1>6. \A g \in Fetches \ {f} : fetch'[g] # None => fetch'[g].mount <= mount
  BY DEF PInv, MountInv
<1>7. \A m \in Mounts : post'[m] # None => m <= mount
  BY DEF PInv, MountInv
<1>8. /\ fetch'[f] \in ListCalls
      /\ fetch'[f].mount = mount' /\ fetch'[f].auth = a /\ fetch'[f].answer = None
  BY <1>1 DEF ListCalls, Mounts
<1>9. \A g \in Fetches \ {f} : fetch'[g] # None => fetch'[g].mount \in Nat
  BY DEF ListCalls, Mounts
<1>10. MountInv'
  BY <1>1, <1>6, <1>7, <1>8, <1>9 DEF MountInv, Mounts
<1>11. fetch'[f] # None /\ newest' # None
  BY <1>8, PageConstants DEF PInv, PageTypeOK
<1>12. NewestInv' /\ ListInv'
  BY <1>8, <1>11 DEF NewestInv, ListInv
<1>13. PostInv'
  BY <1>1, <1>7 DEF PostInv, Mounts
<1> QED
  BY <1>3, <1>4, <1>5, <1>10, <1>12, <1>13 DEF PInv

\* What is left to show for a step that leaves the mount's refreshes alone.
LEMMA SameRefreshP ==
  ASSUME PInv, cameras' \in Kits, PageTypeOK', GivenInv', MountInv',
         UNCHANGED <<path, auth, mount, shown, newest, disordered, fetch>>,
         mine' \cap cameras' \subseteq mine \cap cameras,
         OnPage => (newest = None /\ error' = None /\ ~submitting' => Good(shown) \/ disordered),
         OnPage => PostInv'
  PROVE  PInv'
<1>1. SessionInv' /\ (OnPage' <=> OnPage)
  BY DEF PInv, SessionInv, OnPage
<1>2. \A kit : Good(kit) => Good(kit)'
  BY DEF Good
<1>3. OnPage => NewestInv'
  BY DEF PInv, NewestInv
<1>4. OnPage => ListInv'
  <2> SUFFICES ASSUME OnPage, ~disordered
               PROVE  /\ newest # None =>
                           /\ fetch[newest].auth = auth
                           /\ fetch[newest].answer # None => Good(fetch[newest].answer)'
                      /\ newest = None /\ error' = None /\ ~submitting' => Good(shown)'
    BY DEF ListInv
  <2>1. PICK answer, list : answer = fetch[newest].answer /\ list = shown
    OBVIOUS
  <2>2. newest # None => fetch[newest].auth = auth /\ (answer # None => Good(answer)')
    BY <1>2, <2>1 DEF PInv, ListInv
  <2>3. newest = None /\ error' = None /\ ~submitting' => Good(list)'
    BY <1>2, <2>1
  <2>4. fetch'[newest'].answer = answer /\ shown' = list
    BY <2>1
  <2> QED
    BY <2>1, <2>2, <2>3, <2>4 DEF Good
<1> QED
  BY <1>1, <1>3, <1>4 DEF PInv

\* An answer has what the organization has, and so what the mount registered.
LEMMA ServeListP ==
  ASSUME PInv, NEW f \in Fetches, ServeList(f)
  PROVE  PInv'
<1> DEFINE answer == Owned(cameras, fetch[f].auth.org)
           new    == [fetch[f] EXCEPT !.answer = answer]
<1>1. /\ fetch[f] # None /\ fetch[f].answer = None
      /\ fetch' = [fetch EXCEPT ![f] = new]
      /\ UNCHANGED <<cameras, given, path, auth, login, mount, post, mine, newest, disordered>>
      /\ UNCHANGED <<shown, error, loading, submitting>>
  BY DEF ServeList, vars, storeVars, PageState, history
<1>2. fetch \in [Fetches -> {None} \cup ListCalls] /\ fetch[f] \in ListCalls
  BY <1>1 DEF PInv, PageTypeOK
<1>3. answer \in Kits
  BY DEF PInv, Owned, Kits
<1>4. /\ new \in ListCalls /\ new # None
      /\ new.mount = fetch[f].mount /\ new.auth = fetch[f].auth /\ new.answer = answer
  <2>1. /\ new \in ListCalls
        /\ new.mount = fetch[f].mount /\ new.auth = fetch[f].auth /\ new.answer = answer
    BY <1>2, <1>3 DEF ListCalls
  <2> QED
    BY <2>1, PageConstants
<1>5. fetch'[f] = new /\ \A g \in Fetches \ {f} : fetch'[g] = fetch[g]
  BY <1>1, <1>2
<1>6. fetch[f].auth = auth => Good(answer)
  BY DEF Good, Owned
<1> HIDE DEF new, answer
<1>7. PageTypeOK'
  BY <1>1, <1>4, <1>5 DEF PInv, PageTypeOK, OnPage
<1>8. SessionInv' /\ GivenInv'
  BY <1>1 DEF PInv, SessionInv, GivenInv
<1>9. MountInv'
  BY <1>1, <1>4, <1>5 DEF PInv, MountInv
<1>10. OnPage => NewestInv'
  BY <1>1, <1>4, <1>5 DEF PInv, PageTypeOK, NewestInv
<1>11. OnPage => ListInv'
  <2> SUFFICES ASSUME OnPage, ~disordered
               PROVE  /\ newest # None =>
                           /\ fetch'[newest].auth = auth
                           /\ fetch'[newest].answer # None => Good(fetch[newest].answer)'
                      /\ newest = None /\ error = None /\ ~submitting => Good(shown)
    BY <1>1 DEF ListInv, Good
  <2>1. newest \in Fetches \cup {None} /\ ListInv
    BY DEF PInv, PageTypeOK
  <2>2. CASE newest = f
    <3>1. fetch[f].auth = auth /\ newest # None
      BY <2>1, <2>2, PageConstants DEF ListInv
    <3>2. Good(answer)
      BY <1>6, <3>1
    <3>3. fetch'[newest].answer = answer /\ fetch'[newest].auth = auth
      BY <1>4, <1>5, <2>2, <3>1
    <3> QED
      BY <1>1, <3>1, <3>2, <3>3 DEF Good
  <2>3. CASE newest # f
    <3>1. newest # None => fetch'[newest] = fetch[newest]
      BY <1>5, <2>1, <2>3
    <3> QED
      BY <1>1, <2>1, <3>1 DEF ListInv, Good
  <2> QED
    BY <2>2, <2>3
<1>12. OnPage => PostInv'
  BY <1>1 DEF PInv, PostInv
<1>13. OnPage' => OnPage
  BY <1>1 DEF OnPage
<1> QED
  BY <1>1, <1>7, <1>8, <1>9, <1>10, <1>11, <1>12, <1>13 DEF PInv

\* The newest refresh brings the list or an error; one of an earlier mount brings
\* nothing, and one that is overtaken is followed by the newest.
LEMMA RefreshedP ==
  ASSUME PInv, NEW f \in Fetches, NEW ok \in BOOLEAN, fetch[f] # None,
         ok => fetch[f].answer # None, Refreshed(f, ok)
  PROVE  PInv'
<1>1. /\ fetch' = [fetch EXCEPT ![f] = None]
      /\ UNCHANGED <<cameras, given, path, auth, login, mount, post, mine>>
      /\ IF OnPage /\ fetch[f].mount = mount
         THEN /\ shown' = IF ok THEN fetch[f].answer ELSE shown
              /\ error' = IF ok THEN None ELSE "load"
              /\ loading' = FALSE
              /\ submitting' = (submitting /\ ~fetch[f].awaited)
         ELSE UNCHANGED <<shown, error, loading, submitting>>
      /\ newest' = IF f = newest THEN None ELSE newest
      /\ disordered' = (disordered \/ (OnPage /\ fetch[f].mount = mount /\ newest = None))
  BY DEF Refreshed, Applies, Mounted, vars, storeVars, PageState
<1>2. fetch \in [Fetches -> {None} \cup ListCalls] /\ fetch[f] \in ListCalls
  BY DEF PInv, PageTypeOK
<1>3. /\ fetch' \in [Fetches -> {None} \cup ListCalls] /\ fetch'[f] = None
      /\ \A g \in Fetches \ {f} : fetch'[g] = fetch[g]
  BY <1>1, <1>2
<1>4. /\ shown' \in Kits /\ error' \in {None, "load", "register"}
      /\ loading' \in BOOLEAN /\ submitting' \in BOOLEAN
  <2>1. ok => fetch[f].answer \in Kits
    BY <1>2 DEF ListCalls
  <2> QED
    BY <1>1, <2>1 DEF PInv, PageTypeOK
<1>5. PageTypeOK'
  <2>1. newest' \in Fetches \cup {None} /\ disordered' \in BOOLEAN
    BY <1>1 DEF PInv, PageTypeOK
  <2> QED
    BY <1>1, <1>3, <1>4, <2>1 DEF PInv, PageTypeOK, OnPage
<1>6. SessionInv' /\ GivenInv' /\ MountInv'
  BY <1>1, <1>3 DEF PInv, SessionInv, GivenInv, MountInv
<1>7. OnPage' => OnPage
  BY <1>1 DEF OnPage
<1>8. newest \in Fetches \cup {None} /\ (newest' # None => newest' = newest /\ newest # f)
  BY <1>1 DEF PInv, PageTypeOK
<1>9. newest' # None => fetch'[newest'] = fetch[newest] /\ newest # None
  BY <1>3, <1>8
<1>10. OnPage => NewestInv'
  BY <1>1, <1>8, <1>9 DEF PInv, NewestInv
<1>11. OnPage => ListInv'
  <2> SUFFICES ASSUME OnPage, ~disordered'
               PROVE  /\ newest' # None =>
                           /\ fetch'[newest'].auth = auth
                           /\ fetch'[newest'].answer # None => Good(fetch[newest].answer)'
                      /\ newest' = None /\ error' = None /\ ~submitting' => Good(shown)'
    BY <1>1 DEF ListInv
  <2>1. ~disordered /\ ListInv /\ ~(fetch[f].mount = mount /\ newest = None)
    BY <1>1 DEF PInv
  <2>2. \A kit : Good(kit) => Good(kit)'
    BY <1>1 DEF Good
  <2>3. ASSUME newest' # None
        PROVE  /\ fetch'[newest'].auth = auth
               /\ fetch'[newest'].answer # None => Good(fetch[newest].answer)'
    <3>1. PICK answer : answer = fetch[newest].answer
      OBVIOUS
    <3>2. fetch'[newest'].answer = answer /\ (answer # None => Good(answer)')
      BY <1>9, <2>1, <2>2, <2>3, <3>1 DEF ListInv
    <3> QED
      BY <1>9, <2>1, <2>3, <3>1, <3>2 DEF ListInv, Good
  <2>4. ASSUME newest' = None, error' = None, ~submitting' PROVE Good(shown)'
    <3>1. CASE f = newest
      <4>1. fetch[f].mount = mount /\ newest # None
        BY <3>1, PageConstants DEF PInv, NewestInv
      <4>2. ok
        BY <1>1, <2>4, <4>1, PageConstants
      <4>3. PICK answer : answer = fetch[f].answer
        OBVIOUS
      <4>4. shown' = answer /\ Good(answer)'
        BY <1>1, <2>1, <2>2, <3>1, <4>1, <4>2, <4>3 DEF ListInv
      <4> QED
        BY <4>4 DEF Good
    <3>2. CASE f # newest
      <4>1. newest = None /\ fetch[f].mount # mount
        BY <1>1, <2>1, <2>4, <3>2
      <4>2. UNCHANGED <<shown, error, loading, submitting>>
        BY <1>1, <4>1
      <4> QED
        BY <1>1, <2>1, <2>4, <4>1, <4>2 DEF ListInv, Good
    <3> QED
      BY <3>1, <3>2
  <2> QED
    BY <1>9, <2>3, <2>4
<1>12. OnPage => PostInv'
  BY <1>1 DEF PInv, PostInv
<1> QED
  BY <1>1, <1>5, <1>6, <1>7, <1>10, <1>11, <1>12 DEF PInv

LEMMA SubmitP ==
  ASSUME PInv, Submit
  PROVE  PInv'
<1> DEFINE new == [auth |-> auth, phase |-> "sent", camera |-> {}]
<1>1. /\ OnPage /\ ~submitting /\ submitting' = TRUE /\ error' = None
      /\ post' = [post EXCEPT ![mount] = new]
      /\ UNCHANGED <<cameras, given, path, auth, login, mount, shown, loading,
                     fetch, mine, newest, disordered>>
  BY DEF Submit, vars, storeVars, history
<1>2. auth \in Auths /\ mount \in Mounts /\ post \in [Mounts -> {None} \cup RegisterCalls]
  BY <1>1, PageConstants DEF PInv, PageTypeOK, Mounts
<1>3. new \in RegisterCalls /\ new.auth = auth /\ new.camera = {}
  BY <1>2 DEF RegisterCalls, Kits
<1>4. post'[mount] = new /\ \A m \in Mounts \ {mount} : post'[m] = post[m]
  BY <1>1, <1>2
<1> HIDE DEF new
<1>5. PageTypeOK'
  BY <1>1, <1>2, <1>3, <1>4 DEF PInv, PageTypeOK, OnPage
<1>6. GivenInv'
  BY <1>1, <1>3, <1>4 DEF PInv, GivenInv
<1>7. MountInv'
  BY <1>1, <1>2, <1>4, PageConstants DEF PInv, MountInv, Mounts
<1>8. PostInv'
  BY <1>1, <1>3, <1>4 DEF PInv, PostInv
<1> QED
  BY <1>1, <1>5, <1>6, <1>7, <1>8, SameRefreshP DEF PInv

\* The camera that is created has an id never given out before, so the mount
\* has not registered it yet.
LEMMA ServeRegisterP ==
  ASSUME PInv, NEW m \in Mounts, ServeRegister(m)
  PROVE  PInv'
<1>1. PICK id \in CameraIds \ given :
        /\ cameras' = cameras \cup {[org |-> post[m].auth.org, id |-> id]}
        /\ given' = given \cup {id}
  BY DEF ServeRegister, CreateCamera
<1> DEFINE camera == [org |-> post[m].auth.org, id |-> id]
           kit    == cameras' \ cameras
           new    == [auth |-> post[m].auth, phase |-> "created", camera |-> kit]
<1>2. post[m] # None /\ post[m] \in RegisterCalls /\ post \in [Mounts -> {None} \cup RegisterCalls]
  BY DEF ServeRegister, PInv, PageTypeOK
<1>3. /\ post' = [post EXCEPT ![m] = new]
      /\ UNCHANGED <<path, auth, login, mount, shown, error, loading, submitting,
                     fetch, mine, newest, disordered>>
  <2>1. post' = [post EXCEPT ![m].phase = "created", ![m].camera = kit]
    BY DEF ServeRegister
  <2>2. post'[m] = new /\ \A n \in Mounts \ {m} : post'[n] = post[n]
    BY <1>2, <2>1 DEF RegisterCalls
  <2>3. UNCHANGED <<path, auth, login, mount, shown, error, loading, submitting,
                    fetch, mine, newest, disordered>>
    BY DEF ServeRegister, PageState, history
  <2> HIDE DEF new
  <2> QED
    BY <1>2, <2>1, <2>2, <2>3
<1>4. camera \in [org : Orgs, id : CameraIds] /\ camera.id = id /\ camera.org = post[m].auth.org
  BY <1>2 DEF RegisterCalls, Auths
<1>5. cameras' = cameras \cup {camera} /\ kit \subseteq {camera}
  BY <1>1
<1>6. cameras' \in Kits /\ kit \in Kits
  BY <1>4, <1>5 DEF PInv, Kits
<1>7. new \in RegisterCalls /\ new.auth = post[m].auth /\ new.camera = kit
  BY <1>2, <1>6 DEF RegisterCalls
<1>8. post'[m] = new /\ \A n \in Mounts \ {m} : post'[n] = post[n]
  BY <1>2, <1>3
<1>9. mine' \cap cameras' = mine \cap cameras
  BY <1>1, <1>3, <1>4, <1>5 DEF PInv, GivenInv
<1> HIDE DEF new, kit, camera
<1>10. PageTypeOK'
  BY <1>2, <1>3, <1>7, <1>8 DEF PInv, PageTypeOK, OnPage
<1>11. MountInv'
  BY <1>2, <1>3, <1>8 DEF PInv, MountInv
<1>12. GivenInv'
  BY <1>1, <1>3, <1>4, <1>5, <1>7, <1>8 DEF PInv, GivenInv
<1>13. OnPage => PostInv'
  BY <1>2, <1>3, <1>7, <1>8 DEF PInv, PostInv
<1>14. OnPage => (newest = None /\ error' = None /\ ~submitting' => Good(shown) \/ disordered)
  BY <1>3 DEF PInv, ListInv
<1> QED
  BY <1>3, <1>6, <1>9, <1>10, <1>11, <1>12, <1>13, <1>14, SameRefreshP

\* The mount that registered fetches again, under the session it registered with.
LEMMA RegisteredP ==
  ASSUME PInv, NEW m \in Mounts, Registered(m)
  PROVE  PInv'
<1>1. PICK f \in Fetches : /\ Send(f, m, post[m].auth, TRUE)
                           /\ newest' = IF Mounted(m) THEN f ELSE newest
  BY DEF Registered
<1> DEFINE new == [mount |-> m, auth |-> post[m].auth, awaited |-> TRUE, answer |-> None]
<1>2. /\ post[m] # None /\ post[m] \in RegisterCalls
      /\ post \in [Mounts -> {None} \cup RegisterCalls]
      /\ fetch \in [Fetches -> {None} \cup ListCalls]
  BY DEF Registered, PInv, PageTypeOK
<1>3. /\ post' = [post EXCEPT ![m] = None]
      /\ fetch[f] = None /\ fetch' = [fetch EXCEPT ![f] = new]
      /\ IF OnPage /\ m = mount
         THEN loading' = TRUE /\ mine' = mine \cup post[m].camera /\ newest' = f
         ELSE loading' = loading /\ mine' = mine /\ newest' = newest
      /\ UNCHANGED <<cameras, given, path, auth, login, mount, shown, error, submitting, disordered>>
  BY <1>1 DEF Registered, Send, Mounted, vars, storeVars
<1>4. /\ new \in ListCalls /\ new # None
      /\ new.mount = m /\ new.auth = post[m].auth /\ new.answer = None
  <2>1. new \in ListCalls /\ new.mount = m /\ new.auth = post[m].auth /\ new.answer = None
    BY <1>2 DEF ListCalls, RegisterCalls
  <2> QED
    BY <2>1, PageConstants
<1>5. /\ fetch'[f] = new /\ \A g \in Fetches \ {f} : fetch'[g] = fetch[g]
      /\ post'[m] = None /\ \A n \in Mounts \ {m} : post'[n] = post[n]
  BY <1>2, <1>3
<1> HIDE DEF new
<1>6. PageTypeOK'
  <2>1. mine' \in Kits /\ loading' \in BOOLEAN /\ newest' \in Fetches \cup {None}
    BY <1>2, <1>3 DEF PInv, PageTypeOK, RegisterCalls, Kits
  <2>2. fetch' \in [Fetches -> {None} \cup ListCalls]
    BY <1>2, <1>3, <1>4
  <2>3. post' \in [Mounts -> {None} \cup RegisterCalls]
    BY <1>2, <1>3
  <2> QED
    BY <2>1, <2>2, <2>3, <1>3 DEF PInv, PageTypeOK, OnPage
<1>7. SessionInv' /\ GivenInv'
  BY <1>2, <1>3, <1>5 DEF PInv, SessionInv, GivenInv
<1>8. MountInv'
  BY <1>2, <1>3, <1>4, <1>5 DEF PInv, MountInv
<1>9. OnPage' => OnPage
  BY <1>3 DEF OnPage
<1>10. OnPage => PostInv'
  BY <1>3, <1>5 DEF PInv, PostInv
<1>11. CASE OnPage /\ m = mount
  <2>1. newest' = f /\ newest' # None /\ fetch'[newest'] = new
    BY <1>3, <1>5, <1>11, PageConstants
  <2>2. NewestInv'
    BY <1>3, <1>4, <1>11, <2>1 DEF NewestInv
  <2>3. ~disordered => post[m].auth = auth
    BY <1>2, <1>11 DEF PInv, PostInv
  <2>4. ListInv'
    BY <1>3, <1>4, <2>1, <2>3 DEF ListInv
  <2> QED
    BY <1>3, <1>6, <1>7, <1>8, <1>10, <1>11, <2>2, <2>4 DEF PInv
<1>12. CASE ~(OnPage /\ m = mount)
  <2>1. loading' = loading /\ mine' = mine /\ newest' = newest
    BY <1>3, <1>12
  <2>2. OnPage /\ newest # None => newest # f /\ fetch'[newest] = fetch[newest]
    BY <1>3, <1>5 DEF PInv, PageTypeOK, NewestInv
  <2>3. OnPage => NewestInv'
    BY <1>3, <2>1, <2>2 DEF PInv, NewestInv
  <2>4. OnPage => ListInv'
    BY <1>3, <2>1, <2>2 DEF PInv, ListInv, Good
  <2> QED
    BY <1>3, <1>6, <1>7, <1>8, <1>9, <1>10, <2>3, <2>4 DEF PInv
<1> QED
  BY <1>11, <1>12

LEMMA RegisterFailsP ==
  ASSUME PInv, NEW m \in Mounts, RegisterFails(m)
  PROVE  PInv'
<1>1. /\ post[m] # None /\ post' = [post EXCEPT ![m] = None]
      /\ IF OnPage /\ m = mount THEN error' = "register" /\ submitting' = FALSE
                                ELSE error' = error /\ submitting' = submitting
      /\ UNCHANGED <<cameras, given, path, auth, login, mount, shown, loading,
                     fetch, mine, newest, disordered>>
  BY DEF RegisterFails, Mounted, vars, storeVars, history
<1>2. post \in [Mounts -> {None} \cup RegisterCalls]
  BY DEF PInv, PageTypeOK
<1>3. /\ post' \in [Mounts -> {None} \cup RegisterCalls]
      /\ post'[m] = None /\ \A n \in Mounts \ {m} : post'[n] = post[n]
  BY <1>1, <1>2
<1>4. PageTypeOK'
  BY <1>1, <1>3 DEF PInv, PageTypeOK, OnPage
<1>5. GivenInv' /\ MountInv'
  BY <1>1, <1>3 DEF PInv, GivenInv, MountInv
<1>6. OnPage => PostInv'
  BY <1>1, <1>3 DEF PInv, PostInv
<1>7. OnPage => (newest = None /\ error' = None /\ ~submitting' => Good(shown) \/ disordered)
  BY <1>1, PageConstants DEF PInv, ListInv
<1> QED
  BY <1>1, <1>4, <1>5, <1>6, <1>7, SameRefreshP DEF PInv

\* The service forgets its cameras, which only takes from what has to be shown.
LEMMA RestartServiceP ==
  ASSUME PInv, RestartService
  PROVE  PInv'
<1>1. /\ cameras' = {} /\ given' = given
      /\ UNCHANGED <<path, auth, login, mount, shown, error, loading, submitting,
                     fetch, post, mine, newest, disordered>>
  BY DEF RestartService, LoseCameras, pageVars, history
<1>2. cameras' \in Kits /\ PageTypeOK'
  BY <1>1 DEF PInv, PageTypeOK, OnPage, Kits
<1>3. GivenInv' /\ MountInv'
  BY <1>1 DEF PInv, GivenInv, MountInv
<1>4. OnPage => PostInv'
  BY <1>1 DEF PInv, PostInv
<1>5. OnPage => (newest = None /\ error' = None /\ ~submitting' => Good(shown) \/ disordered)
  BY <1>1 DEF PInv, ListInv
<1> QED
  BY <1>1, <1>2, <1>3, <1>4, <1>5, SameRefreshP

\* A mount made by the router: no call is ended or changed.
LEMMA MountP ==
  ASSUME PInv, NEW a \in Auths, a.org = a.speaksFor, Mount(a), auth' = a,
         login' \in [Logins -> {None} \cup LoginCalls],
         UNCHANGED <<cameras, given, post>>
  PROVE  PInv'
<1>1. PICK f \in Fetches : Send(f, mount + 1, a, FALSE) /\ newest' = f
  BY DEF Mount
<1> DEFINE new == [mount |-> mount + 1, auth |-> a, awaited |-> FALSE, answer |-> None]
<1>2. /\ mount < MaxMounts /\ mount' = mount + 1 /\ path' = "/cameras" /\ StartAfresh
      /\ fetch' = [fetch EXCEPT ![f] = new] /\ newest' = f
  BY <1>1 DEF Mount, Send
<1>3. mount + 1 \in Mounts
  BY <1>2, PageConstants DEF PInv, PageTypeOK, Mounts
<1>4. new \in ListCalls
  BY <1>3 DEF ListCalls
<1>5. fetch \in [Fetches -> {None} \cup ListCalls] /\ post \in [Mounts -> {None} \cup RegisterCalls]
  BY DEF PInv, PageTypeOK
<1> HIDE DEF new
<1>6. /\ fetch' \in [Fetches -> {None} \cup ListCalls] /\ fetch'[f] = new
      /\ \A g \in Fetches \ {f} : fetch'[g] = fetch[g]
  BY <1>2, <1>4, <1>5
<1>7. post' \in [Mounts -> {None} \cup RegisterCalls] /\ \A m \in Mounts : post'[m] = post[m]
  BY <1>5
<1> QED
  BY <1>2, <1>6, <1>7, FreshP DEF new

LEMMA ReloadP ==
  ASSUME PInv, Reload
  PROVE  PInv'
<1>1. PICK f \in Fetches :
        newest' = f /\ fetch' = [g \in Fetches |->
          IF g = f THEN [mount |-> mount + 1, auth |-> auth, awaited |-> FALSE, answer |-> None]
          ELSE None]
  BY DEF Reload
<1> DEFINE new == [mount |-> mount + 1, auth |-> auth, awaited |-> FALSE, answer |-> None]
<1>2. /\ OnPage /\ path' = path /\ mount < MaxMounts /\ mount' = mount + 1 /\ StartAfresh
      /\ login' = [l \in Logins |-> None] /\ UNCHANGED <<cameras, given, auth>>
      /\ post' = [m \in Mounts |->
           IF post[m] # None /\ post[m].phase = "sent" THEN post[m] ELSE None]
  BY DEF Reload, vars, storeVars
<1>3. auth \in Auths /\ mount + 1 \in Mounts /\ path = "/cameras"
  BY <1>2, PageConstants DEF PInv, PageTypeOK, OnPage, Mounts
<1>4. auth.org = auth.speaksFor
  BY <1>3, PageConstants DEF PInv, SessionInv, PageTypeOK
<1>5. new \in ListCalls
  BY <1>3 DEF ListCalls
<1> HIDE DEF new
<1>6. /\ fetch' \in [Fetches -> {None} \cup ListCalls] /\ fetch'[f] = new
      /\ \A g \in Fetches \ {f} : fetch'[g] = None
  BY <1>1, <1>5 DEF new
<1>7. /\ post' \in [Mounts -> {None} \cup RegisterCalls]
      /\ \A m \in Mounts : post'[m] \in {None, post[m]}
  BY <1>2 DEF PInv, PageTypeOK
<1>8. login' \in [Logins -> {None} \cup LoginCalls]
  BY <1>2
<1> QED
  BY <1>1, <1>2, <1>3, <1>4, <1>6, <1>7, <1>8, FreshP DEF new

\* Whoever leaves the login page, its requests go on.
LEMMA LeaveLoginP ==
  ASSUME PInv, NEW answered, LeaveLogin(answered)
  PROVE  login' \in [Logins -> {None} \cup LoginCalls]
<1>1. \A l \in Logins : login[l] \in LoginCalls => [login[l] EXCEPT !.here = FALSE] \in LoginCalls
  BY DEF LoginCalls
<1>2. \A l \in Logins : login[l] \in {None} \cup LoginCalls
  BY DEF PInv, PageTypeOK
<1> QED
  BY <1>1, <1>2 DEF LeaveLogin

\* A login that is answered under a mounted page is followed by a refresh of the
\* new session, which is then the newest.
LEMMA LoginAnsweredP ==
  ASSUME PInv, NEW l \in Logins, LoginAnswered(l)
  PROVE  PInv'
<1>1. /\ login[l] # None /\ LeaveLogin({l}) /\ UNCHANGED <<cameras, given, post>>
      /\ auth' = [org |-> login[l].org, speaksFor |-> login[l].org]
  BY DEF LoginAnswered, LoggedIn, vars, storeVars
<1>2. PICK a \in Auths : a = auth' /\ a.org = a.speaksFor
  <2>1. login[l].org \in Orgs
    BY <1>1 DEF PInv, PageTypeOK, LoginCalls
  <2> QED
    BY <1>1, <2>1 DEF Auths
<1>3. login' \in [Logins -> {None} \cup LoginCalls]
  BY <1>1, LeaveLoginP
<1>4. CASE ~OnPage
  <2>1. Mount(auth')
    BY <1>4 DEF LoginAnswered
  <2> QED
    BY <1>1, <1>2, <1>3, <2>1, MountP
<1>5. CASE OnPage
  <2>1. PICK f \in Fetches : Send(f, mount, a, FALSE) /\ newest' = f
    BY <1>2, <1>5 DEF LoginAnswered
  <2> DEFINE new == [mount |-> mount, auth |-> a, awaited |-> FALSE, answer |-> None]
  <2>2. /\ fetch' = [fetch EXCEPT ![f] = new] /\ loading' = TRUE
        /\ disordered' = (disordered \/ (post[mount] # None /\ auth' # auth))
        /\ UNCHANGED <<path, mount, shown, error, submitting, mine>>
    BY <1>5, <2>1 DEF LoginAnswered, Send
  <2>3. mount \in Mounts /\ fetch \in [Fetches -> {None} \cup ListCalls]
    BY <1>5, PageConstants DEF PInv, PageTypeOK, Mounts
  <2>4. new \in ListCalls /\ new # None /\ new.mount = mount /\ new.auth = a /\ new.answer = None
    <3>1. new \in ListCalls /\ new.mount = mount /\ new.auth = a /\ new.answer = None
      BY <2>3 DEF ListCalls
    <3> QED
      BY <3>1, PageConstants
  <2> HIDE DEF new
  <2>5. fetch'[f] = new /\ \A g \in Fetches \ {f} : fetch'[g] = fetch[g]
    BY <2>2, <2>3
  <2>6. PageTypeOK'
    <3>1. /\ fetch' \in [Fetches -> {None} \cup ListCalls] /\ disordered' \in BOOLEAN
          /\ auth' \in Auths /\ newest' \in Fetches
      BY <1>2, <2>1, <2>2, <2>3, <2>4 DEF PInv, PageTypeOK
    <3> QED
      BY <1>1, <1>3, <2>2, <3>1, PageConstants DEF PInv, PageTypeOK, OnPage
  <2>7. SessionInv' /\ GivenInv'
    BY <1>1, <1>2, <2>2 DEF PInv, SessionInv, GivenInv
  <2>8. MountInv'
    <3>1. mount \in Nat
      BY <2>3 DEF Mounts
    <3> QED
      BY <1>1, <2>2, <2>4, <2>5, <3>1 DEF PInv, MountInv
  <2>9. newest' # None /\ fetch'[newest'] = new
    BY <2>1, <2>5, PageConstants
  <2>10. NewestInv' /\ ListInv'
    BY <1>2, <2>2, <2>4, <2>9 DEF NewestInv, ListInv
  <2>11. PostInv'
    <3>1. PostInv
      BY <1>5 DEF PInv
    <3> QED
      BY <1>1, <2>2, <3>1 DEF PostInv
  <2> QED
    BY <1>1, <2>6, <2>7, <2>8, <2>10, <2>11 DEF PInv
<1> QED
  BY <1>4, <1>5

LEMMA ForwardP ==
  ASSUME PInv, Forward
  PROVE  PInv'
<1>1. /\ auth # None /\ auth' = auth /\ LeaveLogin({}) /\ Mount(auth)
      /\ UNCHANGED <<cameras, given, post>>
  BY DEF Forward, vars, storeVars
<1>2. auth \in Auths /\ auth.org = auth.speaksFor
  BY <1>1 DEF PInv, PageTypeOK, SessionInv
<1>3. PICK a \in Auths : a = auth /\ a.org = a.speaksFor
  BY <1>2
<1>4. login' \in [Logins -> {None} \cup LoginCalls]
  BY <1>1, LeaveLoginP
<1> QED
  BY <1>1, <1>3, <1>4, MountP

\* What is done with a login before it is answered leaves the page alone.
LEMMA LoginStepP ==
  ASSUME PInv, login' \in [Logins -> {None} \cup LoginCalls],
         UNCHANGED <<vars, path, auth, mount, PageState, fetch, post, history>>
  PROVE  PInv'
<1>1. UNCHANGED <<cameras, given, path, auth, mount, shown, error, loading, submitting, fetch, post,
                  mine, newest, disordered>>
  BY DEF vars, storeVars, PageState, history
<1>2. PageTypeOK' /\ GivenInv' /\ MountInv'
  BY <1>1 DEF PInv, PageTypeOK, GivenInv, MountInv, OnPage
<1>3. OnPage => PostInv'
  BY <1>1 DEF PInv, PostInv
<1>4. OnPage => (newest = None /\ error' = None /\ ~submitting' => Good(shown) \/ disordered)
  BY <1>1 DEF PInv, ListInv
<1> QED
  BY <1>1, <1>2, <1>3, <1>4, SameRefreshP DEF PInv

\* What leads to the login page, and what is sent from there.
LEMMA OffPageP ==
  ASSUME PInv,
         \/ \E l \in Logins, o \in Orgs : SubmitLogin(l, o)
         \/ \E l \in Logins : LoginFails(l)
         \/ Logout \/ Back
  PROVE  PInv'
<1>1. ASSUME NEW l \in Logins, NEW o \in Orgs, SubmitLogin(l, o) PROVE PInv'
  <2>1. PICK new \in LoginCalls : login' = [login EXCEPT ![l] = new]
    BY <1>1 DEF SubmitLogin, LoginCalls
  <2>2. login' \in [Logins -> {None} \cup LoginCalls]
    BY <2>1 DEF PInv, PageTypeOK
  <2> QED
    BY <1>1, <2>2, LoginStepP DEF SubmitLogin
<1>2. ASSUME NEW l \in Logins, LoginFails(l) PROVE PInv'
  <2>1. login' \in [Logins -> {None} \cup LoginCalls]
    BY <1>2 DEF LoginFails, PInv, PageTypeOK
  <2> QED
    BY <1>2, <2>1, LoginStepP DEF LoginFails
<1>3. CASE Logout
  <2>1. /\ path' = "/login" /\ auth' = None /\ login' = login
        /\ UNCHANGED <<cameras, given, mount, PageState, fetch, post, history>>
    BY <1>3 DEF Logout, vars, storeVars
  <2>2. SessionInv'
    BY <2>1 DEF SessionInv
  <2> QED
    BY <2>1, <2>2, LeaveP DEF PInv, PageTypeOK
<1>4. CASE Back
  <2>1. /\ path' = "/login" /\ UNCHANGED <<auth, login>>
        /\ UNCHANGED <<cameras, given, mount, PageState, fetch, post, history>>
    BY <1>4 DEF Back, vars, storeVars
  <2>2. SessionInv'
    BY <2>1 DEF PInv, SessionInv
  <2> QED
    BY <2>1, <2>2, LeaveP DEF PInv, PageTypeOK
<1> QED
  BY <1>1, <1>2, <1>3, <1>4

LEMMA NextP == PInv /\ [PageNext]_tabVars => PInv'
<1> SUFFICES ASSUME PInv, [PageNext]_tabVars PROVE PInv'
  OBVIOUS
<1>1. ASSUME NEW f \in Fetches, ListArrives(f) \/ ListFails(f) PROVE PInv'
  BY <1>1, RefreshedP DEF ListArrives, ListFails
<1>2. ASSUME NEW f \in Fetches, ServeList(f) PROVE PInv'
  BY <1>2, ServeListP
<1>3. ASSUME NEW m \in Mounts, ServeRegister(m) \/ Registered(m) \/ RegisterFails(m) PROVE PInv'
  BY <1>3, ServeRegisterP, RegisteredP, RegisterFailsP
<1>4. CASE \/ \E l \in Logins, o \in Orgs : SubmitLogin(l, o)
           \/ \E l \in Logins : LoginFails(l)
           \/ Logout \/ Back
  BY <1>4, OffPageP
<1>5. CASE Forward \/ Reload \/ \E l \in Logins : LoginAnswered(l)
  BY <1>5, ForwardP, ReloadP, LoginAnsweredP
<1>6. CASE Submit
  BY <1>6, SubmitP
<1>7. CASE RestartService
  BY <1>7, RestartServiceP
<1>8. CASE UNCHANGED tabVars
  <2>1. /\ login' = login /\ UNCHANGED <<vars, path, auth, mount, PageState, fetch, post, history>>
    BY <1>8 DEF tabVars, pageVars, PageState
  <2> QED
    BY <2>1, LoginStepP DEF PInv, PageTypeOK
<1> QED
  BY <1>1, <1>2, <1>3, <1>4, <1>5, <1>6, <1>7, <1>8 DEF PageNext, User, Settle

LEMMA PInvHolds == PageSpec => []PInv
BY InitP, NextP, PTL DEF PageSpec

\* At rest nothing that the mount has sent is under way, so its newest refresh has
\* been answered.
LEMMA RestP == PInv /\ AtRest /\ ~disordered => Good(shown)
BY DEF PInv, AtRest, PageTypeOK, NewestInv, ListInv

\* Once nothing is under way and no error is shown, the camera kit page lists every
\* camera of the session's organization that it was told is registered and that the
\* service still has (CamerasPage.tsx's refresh after registerCamera), however
\* refreshes, registrations and logins overlapped, of this mount and of earlier
\* ones: unless an answer of the mount was overtaken by that of its newest refresh,
\* or the session changed while it registered.
THEOREM OwnCamerasAreShown == PageSpec => []OwnCamerasShown
<1>1. PInv => OwnCamerasShown
  BY RestP DEF OwnCamerasShown, Good
<1> QED
  BY PInvHolds, <1>1, PTL

\* And it then lists the cameras of the session's organization only, even if that
\* session came under the page while the list of another was on its way.
THEOREM OnlyOursAreShown == PageSpec => []ShownCamerasAreOurs
<1>1. PInv => ShownCamerasAreOurs
  BY RestP DEF ShownCamerasAreOurs, Good
<1> QED
  BY PInvHolds, <1>1, PTL
=============================================================================
