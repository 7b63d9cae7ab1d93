------------------------------ MODULE ClipSync ------------------------------
(***************************************************************************)
(* The clips of media-ingest-gateway once they are uploaded: each may be   *)
(* given a time offset to another clip of its match (service/sync.go,      *)
(* domain/sync.go).  Getting, listing and downloading clips changes no     *)
(* state; SyncLosesNothing says what they find.                            *)
(*                                                                         *)
(* UploadClip is one step here (its steps are module MediaIngest): until   *)
(* it records the clip nobody knows the id.  SubmitSyncOffset is two.  It  *)
(* reads the clip and its reference, and later writes back, with Create,   *)
(* the whole clip it has read: submissions for one clip may overlap.       *)
(***************************************************************************)
EXTENDS Integers

CONSTANTS Orgs, Matches, ClipIds,  \* newID draws from ClipIds
          Contents,                \* the bytes of a clip, and their hash
          Submissions,             \* calls of PUT .../clips/{clipID}/sync
          MaxRestarts,             \* bound
          None                     \* not there

Callers == [org : Orgs, role : {"organizer_admin", "other"}]

\* Correlation scores in tenths: refused, accepted, refused.
Scores == {-11, 5, 11}

VARIABLES
  clips,       \* ClipStore, keyed by org, match and id
  objects,     \* ObjectStore: objects[id], keyed by the same three
  store,       \* "memory" or "s3"
  submission,  \* submission[s]: None, or the call: the clip as read, what to set, status (0 is running)
  restarts,
  \* history, read by the properties only
  uploaded,    \* uploaded[id]: None, or the clip as UploadClip answered it
  live,        \* clips answered since the last restart
  before       \* before[s]: submissions already answered 200 when s read its clip

vars == <<clips, objects, store, submission, restarts, uploaded, live, before>>

Init ==
  /\ clips = {} /\ objects = [id \in ClipIds |-> None] /\ store \in {"memory", "s3"}
  /\ submission = [s \in Submissions |-> None]
  /\ restarts = 0
  /\ uploaded = [id \in ClipIds |-> None] /\ live = {}
  /\ before = [s \in Submissions |-> {}]

-----------------------------------------------------------------------------
\* Get of the ClipStore.
Find(o, m, id) == {c \in clips : c.org = o /\ c.match = m /\ c.id = id}

\* The tenant check and CanUploadClips.
MayUpload(c, o) == c.org = o /\ c.role = "organizer_admin"

\* Create replaces the clip with the same key.
Create(clip) == clips' = (clips \ Find(clip.org, clip.match, clip.id)) \cup {clip}

UploadClip(c, o, m, content) ==
  \E id \in {i \in ClipIds : uploaded[i] = None} :
    LET clip == [org |-> o, match |-> m, id |-> id, hash |-> content, sync |-> None] IN
      /\ MayUpload(c, o)
      /\ objects' = [objects EXCEPT ![id] = content]
      /\ Create(clip)
      /\ uploaded' = [uploaded EXCEPT ![id] = clip]
      /\ live' = live \cup {id}
      /\ UNCHANGED <<store, submission, restarts, before>>

\* Mutation: a score is not checked.
ApplicableUnchecked(id, ref, score) == ref # id

\* What ApplySyncOffset does not refuse.
Applicable(id, ref, score) == ref # id /\ score \in -10..10

Answered(s, status) == submission[s] # None /\ submission[s].status = status

\* Mutation: the reference need not be a clip of the match.
ReadForSyncAnyReference(s, c, o, m, id, ref, score) ==
  /\ submission[s] = None
  /\ MayUpload(c, o) /\ Applicable(id, ref, score)
  /\ \E clip \in Find(o, m, id) :
       submission' = [submission EXCEPT ![s] =
         [clip |-> clip, ref |-> ref, score |-> score, status |-> 0]]
  /\ before' = [before EXCEPT ![s] = {r \in Submissions : Answered(r, 200)}]
  /\ UNCHANGED <<clips, objects, store, restarts, uploaded, live>>

\* SubmitSyncOffset up to the clip it is about to write back.  One that is refused
\* (403, 404 for the clip or its reference, 400) changes nothing.
ReadForSync(s, c, o, m, id, ref, score) ==
  /\ submission[s] = None
  /\ MayUpload(c, o) /\ Applicable(id, ref, score)
  /\ Find(o, m, ref) # {}
  /\ \E clip \in Find(o, m, id) :
       submission' = [submission EXCEPT ![s] =
         [clip |-> clip, ref |-> ref, score |-> score, status |-> 0]]
  /\ before' = [before EXCEPT ![s] = {r \in Submissions : Answered(r, 200)}]
  /\ UNCHANGED <<clips, objects, store, restarts, uploaded, live>>

Synced(s) == [submission[s].clip EXCEPT !.sync =
                [ref |-> submission[s].ref, score |-> submission[s].score, by |-> s]]

\* Mutation: a clip is synced once.
WriteBackOnce(s) ==
  /\ Answered(s, 0)
  /\ IF submission[s].clip.sync = None THEN Create(Synced(s)) ELSE UNCHANGED clips
  /\ submission' = [submission EXCEPT ![s].status = 200]
  /\ UNCHANGED <<objects, store, restarts, uploaded, live, before>>

\* Mutation: the offset is written to the reference as well, over whatever it was.
WriteBackBoth(s) ==
  /\ Answered(s, 0)
  /\ LET clip == Synced(s) IN
       clips' = (clips \ (Find(clip.org, clip.match, clip.id) \cup Find(clip.org, clip.match, clip.sync.ref)))
                  \cup {clip, [clip EXCEPT !.id = clip.sync.ref, !.sync.ref = clip.id]}
  /\ submission' = [submission EXCEPT ![s].status = 200]
  /\ UNCHANGED <<objects, store, restarts, uploaded, live, before>>

\* clips.Create of the clip that was read, its four sync fields set.
WriteBack(s) ==
  /\ Answered(s, 0)
  /\ Create(Synced(s))
  /\ submission' = [submission EXCEPT ![s].status = 200]
  /\ UNCHANGED <<objects, store, restarts, uploaded, live, before>>

\* Metadata is in memory, objects are unless they are in S3; calls die.
Restart ==
  /\ restarts < MaxRestarts
  /\ restarts' = restarts + 1
  /\ clips' = {} /\ live' = {}
  /\ objects' = IF store = "s3" THEN objects ELSE [id \in ClipIds |-> None]
  /\ submission' = [s \in Submissions |->
       IF Answered(s, 0) THEN [submission[s] EXCEPT !.status = 502] ELSE submission[s]]
  /\ UNCHANGED <<store, uploaded, before>>

Next ==
  \/ \E c \in Callers, o \in Orgs, m \in Matches :
       \/ \E content \in Contents : UploadClip(c, o, m, content)
       \/ \E s \in Submissions, id, ref \in ClipIds, score \in Scores :
            ReadForSync(s, c, o, m, id, ref, score)
  \/ \E s \in Submissions : WriteBack(s)
  \/ Restart

Spec == Init /\ [][Next]_vars

-----------------------------------------------------------------------------
Offsets == [ref : ClipIds, score : {5}, by : Submissions]
Clips   == [org : Orgs, match : Matches, id : ClipIds, hash : Contents, sync : {None} \cup Offsets]

TypeOK ==
  /\ clips \subseteq Clips
  /\ objects \in [ClipIds -> {None} \cup Contents] /\ store \in {"memory", "s3"}
  /\ submission \in [Submissions ->
       {None} \cup [clip : Clips, ref : ClipIds, score : {5}, status : {0, 200, 502}]]
  /\ restarts \in 0..MaxRestarts
  /\ uploaded \in [ClipIds -> {None} \cup Clips] /\ live \subseteq ClipIds
  /\ before \in [Submissions -> SUBSET Submissions]

\* Writing a clip back never loses or alters one: every clip answered since the
\* last restart is kept once, with the hash and the match it was uploaded with,
\* and its object is there to download.
SyncLosesNothing ==
  /\ {c.id : c \in clips} = live
  /\ \A c \in clips :
       /\ [c EXCEPT !.sync = None] = uploaded[c.id]
       /\ objects[c.id] = c.hash

\* An offset is always relative to another clip that is there, of the same match.
ReferencesResolve ==
  \A c \in clips : c.sync # None =>
    c.sync.ref # c.id /\ \E d \in clips : d.org = c.org /\ d.match = c.match /\ d.id = c.sync.ref

\* s was accepted, and for this clip.
AcceptedFor(s, id) == Answered(s, 200) /\ submission[s].clip.id = id

\* A new submission replaces the previous record: what a clip carries is never
\* the work of a submission answered before a later accepted one began, nor is
\* the record gone while the clip is there.
LaterSyncWins ==
  \A c \in clips, s \in Submissions :
    AcceptedFor(s, c.id) => c.sync # None /\ c.sync.by \notin before[s]
=============================================================================
