------------------------- MODULE LabelingPageProofs -------------------------
(***************************************************************************)
(* The labeling tool, for any number of clips, frames and requests.        *)
(*                                                                         *)
(* The server's files, whoever asks for what.  Label documents: while the  *)
(* saves of a stem have not overlapped, the one that is under way holds    *)
(* the labels saved so far with its own, so what it writes is what has     *)
(* been saved then.  Pictures: while no extraction of a stem was cut short *)
(* or looked in upon, the one that is under way has made the files up to   *)
(* the one it is at, and files are served when all are made.               *)
(*                                                                         *)
(* The page, for a user who does what he likes, when he likes: on a clip   *)
(* that is not disturbed one thing is done at a time, so that each answer  *)
(* finds the page where its request left it.                               *)
(***************************************************************************)
EXTENDS LabelingPage, FiniteSetTheorems, TLAPS

\* Which steps a request of each kind goes through, and what it holds there.
CallOK(r) ==
  req[r] # None =>
    /\ req[r].op = "frame" =>
         /\ req[r].at \notin {"load", "truncate", "write"}
         /\ req[r].at = "ok" => req[r].data \in Pictures \cup {Blank}
    /\ req[r].op # "frame" => req[r].at \notin {"look", "extract", "fill", "serve"}
    /\ req[r].at \in {"truncate", "write"} => req[r].op = "save" /\ req[r].data \in Documents
    /\ req[r].op = "labels" /\ req[r].at = "ok" => req[r].data \in Documents
    /\ req[r].at = "fill" => req[r].next <= NumFrames
    /\ req[r].at = "serve" => req[r].frame <= Len(cache[StemOf(r)])

\* While the saves of s have not overlapped there is at most one, and it is about
\* to write the labels saved so far with its own.
SavesOK(s) ==
  saved[s] # None =>
    /\ \A q, r \in Saving(s) : q = r
    /\ \A r \in Saving(s) : req[r].data = [saved[s] EXCEPT ![req[r].frame] = req[r].label]
    /\ doc[s] = IF \E r \in Saving(s) : req[r].at = "write" THEN Empty ELSE saved[s]

\* A file of a stem is cut short or was made of a clip of that stem.
CacheOK ==
  \A s \in Stems : \A i \in 1..Len(cache[s]) :
    cache[s][i] = Blank \/ (cache[s][i] \in Clips /\ Stem[cache[s][i]] = s)

\* Of every frame that ffmpeg makes there is a whole file.
Full(s)      == Len(cache[s]) = NumFrames /\ \A i \in 1..NumFrames : cache[s][i] # Blank
Serving(s)   == {r \in Requests : At(r, "serve") /\ StemOf(r) = s}

\* The extraction of s is alone and makes one file after the other, and files are
\* served only when it is over.
ExtractionOK(s) ==
  /\ \A q, r \in Extracting(s) : q = r
  /\ \A r \in Extracting(s) :
       /\ Len(cache[s]) = IF At(r, "fill") THEN req[r].next ELSE req[r].next - 1
       /\ \A i \in 1..req[r].next - 1 : cache[s][i] # Blank
  /\ Extracting(s) = {} => cache[s] = <<>> \/ Full(s)
  /\ Serving(s) # {} => Extracting(s) = {} /\ Full(s)

\* What a request for a picture is answered with.
AnswerOK(r) ==
  /\ At(r, "ok") \/ At(r, "error")
  /\ req[r].op = "frame" /\ req[r].frame <= NumFrames /\ OwnsStem(req[r].clip)
  => \/ At(r, "ok") /\ req[r].data = <<req[r].clip, req[r].frame>>
     \/ StemOf(r) \in spoiled /\ (At(r, "error") \/ req[r].data = Blank)

StoreInv ==
  /\ StoreTypeOK
  /\ \A r \in Requests : CallOK(r)
  /\ \A s \in Stems : SavesOK(s)
  /\ CacheOK
  /\ \A s \in Stems \ spoiled : ExtractionOK(s)
  /\ \A r \in Requests : AnswerOK(r)

-----------------------------------------------------------------------------
\* What a request that is under way is.
LEMMA IsCall ==
  ASSUME StoreTypeOK, NEW r \in Requests, req[r] # None
  PROVE  req[r] \in Calls /\ StemOf(r) \in Stems
<1>1. req[r] \in Calls
  BY DEF StoreTypeOK
<1> QED
  BY <1>1 DEF Calls, StemOf, Stems

\* What Moved does to the requests.
LEMMA MovedCall ==
  ASSUME StoreTypeOK, NEW r \in Requests, req[r] # None, NEW step \in Steps,
         NEW data \in Documents \cup Pictures \cup {Blank, None}, Moved(r, step, data)
  PROVE  /\ req' \in [Requests -> Calls \cup {None}]
         /\ req'[r] \in Calls /\ req'[r] # None
         /\ req'[r].at = step /\ req'[r].data = data /\ req'[r].op = req[r].op
         /\ req'[r].clip = req[r].clip /\ req'[r].frame = req[r].frame
         /\ req'[r].label = req[r].label /\ req'[r].next = 1
         /\ \A q \in Requests \ {r} : req'[q] = req[q]
<1>1. req \in [Requests -> Calls \cup {None}] /\ req[r] \in Calls /\ 1 \in 1..NumFrames + 1
  BY LabelConstants DEF StoreTypeOK
<1> DEFINE new == [[[req[r] EXCEPT !.at = step] EXCEPT !.data = data] EXCEPT !.next = 1]
<1>2. req' = [req EXCEPT ![r] = new]
  BY <1>1 DEF Moved
<1>3. /\ new \in Calls /\ new.at = step /\ new.data = data /\ new.op = req[r].op
      /\ new.clip = req[r].clip /\ new.frame = req[r].frame /\ new.label = req[r].label
      /\ new.next = 1
  BY <1>1 DEF Calls
<1> HIDE DEF new
<1>4. req'[r] = new /\ \A q \in Requests \ {r} : req'[q] = req[q]
  BY <1>1, <1>2
<1>5. req' \in [Requests -> Calls \cup {None}]
  BY <1>1, <1>2, <1>3
<1> QED
  BY <1>3, <1>4, <1>5, StoreNames

\* The saves of a stem that a step leaves alone stay as they are.
LEMMA SameSaves ==
  ASSUME NEW s \in Stems, SavesOK(s),
         doc'[s] = doc[s], saved'[s] \in {saved[s], None},
         Saving(s)' = Saving(s), \A r \in Saving(s) : req'[r] = req[r]
  PROVE  SavesOK(s)'
BY DEF SavesOK

\* A step of a request is nothing to the saves of a stem it is no save of.
LEMMA OtherSaves ==
  ASSUME NEW s \in Stems, NEW r \in Requests, \A q \in Requests \ {r} : req'[q] = req[q],
         r \notin Saving(s), r \notin Saving(s)'
  PROVE  Saving(s)' = Saving(s) /\ \A q \in Saving(s) : req'[q] = req[q]
BY DEF Saving, StemOf

\* A request that has answered stays as it is, and a new one has not answered.
LEMMA OtherAnswers ==
  ASSUME NEW r \in Requests, req'[r] = req[r], AnswerOK(r), spoiled \subseteq spoiled'
  PROVE  AnswerOK(r)'
BY DEF AnswerOK, At, OwnsStem, StemOf

\* Files are never taken away.
Growing == \A s \in Stems : Len(cache[s]) <= Len(cache'[s])

LEMMA OtherCalls ==
  ASSUME StoreTypeOK, StoreTypeOK', NEW r \in Requests, req'[r] = req[r], CallOK(r), Growing
  PROVE  CallOK(r)'
<1> SUFFICES ASSUME req[r] # None
             PROVE  CallOK(r)'
  BY DEF CallOK
<1>1. req[r].at = "serve" => req[r].frame <= Len(cache'[StemOf(r)])
  <2> SUFFICES ASSUME req[r].at = "serve"
               PROVE  req[r].frame <= Len(cache'[StemOf(r)])
    OBVIOUS
  <2>1. PICK s \in Stems : s = StemOf(r)
    BY IsCall
  <2>2. req[r].frame \in Nat /\ Len(cache[s]) \in Nat /\ Len(cache'[s]) \in Nat
    <3>1. req[r].frame \in Frames
      BY IsCall DEF Calls
    <3>2. cache[s] \in Seq(Clips \cup {Blank}) /\ cache'[s] \in Seq(Clips \cup {Blank})
      BY DEF StoreTypeOK
    <3> QED
      BY <3>1, <3>2, LabelConstants DEF Frames
  <2>3. req[r].frame <= Len(cache[s]) /\ Len(cache[s]) <= Len(cache'[s])
    BY <2>1 DEF CallOK, Growing
  <2> QED
    BY <2>1, <2>2, <2>3
<1>2. StemOf(r)' = Stem[req[r].clip] /\ StemOf(r) = Stem[req[r].clip]
  BY DEF StemOf
<1> QED
  BY <1>1, <1>2 DEF CallOK

\* A step of a request is nothing to the pictures of a stem that it neither makes
\* nor begins to serve.
LEMMA OtherExtractions ==
  ASSUME NEW s \in Stems, NEW r \in Requests, \A q \in Requests \ {r} : req'[q] = req[q],
         ExtractionOK(s), cache'[s] = cache[s],
         r \notin Extracting(s), r \notin Extracting(s)', r \notin Serving(s)'
  PROVE  ExtractionOK(s)'
<1>1. Extracting(s)' = Extracting(s) /\ \A q \in Extracting(s) : req'[q] = req[q] /\ q # r
  BY DEF Extracting, At, StemOf
<1>2. Serving(s)' \subseteq Serving(s)
  BY DEF Serving, At, StemOf
<1>3. \A q \in Extracting(s) : At(q, "fill")' <=> At(q, "fill")
  BY <1>1 DEF At
<1>4. Full(s)' <=> Full(s)
  BY DEF Full
<1> QED
  BY <1>1, <1>2, <1>3, <1>4 DEF ExtractionOK

\* A step of r that is neither a save between its file operations nor a picture
\* being answered changes no label document and no answer.
LEMMA QuietStep ==
  ASSUME StoreInv, NEW r \in Requests, StoreTypeOK', \A q \in Requests \ {r} : req'[q] = req[q],
         \A s \in Stems : r \notin Saving(s) /\ r \notin Saving(s)',
         CallOK(r)', AnswerOK(r)', CacheOK', doc' = doc, saved' = saved,
         spoiled \subseteq spoiled', Growing,
         \A s \in Stems \ spoiled' : ExtractionOK(s)'
  PROVE  StoreInv'
<1>1. \A s \in Stems : SavesOK(s)'
  BY OtherSaves, SameSaves DEF StoreInv
<1>2. \A q \in Requests : CallOK(q)' /\ AnswerOK(q)'
  BY OtherAnswers, OtherCalls DEF StoreInv
<1> QED
  BY <1>1, <1>2 DEF StoreInv

LEMMA Unchanging ==
  ASSUME StoreTypeOK, cache' = cache
  PROVE  Growing
<1>1. \A s \in Stems : Len(cache[s]) \in Nat
  BY DEF StoreTypeOK
<1> QED
  BY <1>1 DEF Growing

\* Requests that are no request for a picture leave the pictures alone.
LEMMA NoPicture ==
  ASSUME StoreInv, NEW r \in Requests, \A q \in Requests \ {r} : req'[q] = req[q],
         cache' = cache, spoiled' = spoiled,
         req[r] = None \/ req[r].at \notin {"extract", "fill"},
         req'[r] = None \/ req'[r].at \notin {"extract", "fill", "serve"}
  PROVE  \A s \in Stems \ spoiled' : ExtractionOK(s)'
<1> SUFFICES ASSUME NEW s \in Stems \ spoiled'
             PROVE  ExtractionOK(s)'
  OBVIOUS
<1>1. r \notin Extracting(s) /\ r \notin Extracting(s)' /\ r \notin Serving(s)'
  BY DEF Extracting, Serving, At
<1> QED
  BY <1>1, OtherExtractions DEF StoreInv

LEMMA InitStore == StoreInit => StoreInv
<1> SUFFICES ASSUME StoreInit PROVE StoreInv
  OBVIOUS
<1>1. StoreTypeOK
  BY LabelConstants DEF StoreInit, StoreTypeOK, Documents, Labels
<1>2. \A s \in Stems : SavesOK(s)
  BY DEF StoreInit, SavesOK, Saving
<1>3. \A r \in Requests : CallOK(r) /\ AnswerOK(r)
  BY DEF StoreInit, CallOK, AnswerOK, At
<1>4. CacheOK
  BY DEF StoreInit, CacheOK
<1>5. \A s \in Stems : ExtractionOK(s)
  BY DEF StoreInit, ExtractionOK, Extracting, Serving, At
<1> QED
  BY <1>1, <1>2, <1>3, <1>4, <1>5 DEF StoreInv

-----------------------------------------------------------------------------
\* load_labels.  A save that finds the document readable, and none under way,
\* has read the labels saved so far.
LEMMA LoadStore ==
  ASSUME StoreInv, NEW r \in Requests, Load(r)
  PROVE  StoreInv'
<1>0. PICK s \in Stems : s = StemOf(r)
  BY IsCall DEF StoreInv, Load, At
<1> DEFINE label == [doc[s] EXCEPT ![req[r].frame] = req[r].label]
<1>1. /\ req[r] # None /\ req[r] \in Calls /\ s \in Stems /\ req[r].at = "load"
      /\ req[r].op # "frame" /\ req[r].op \in {"save", "labels"}
  BY IsCall DEF StoreInv, CallOK, Load, At, Calls
<1>2. StoreTypeOK
  BY DEF StoreInv
<1>3. /\ doc' = doc /\ cache' = cache /\ faults' = faults /\ spoiled' = spoiled
      /\ saved' = IF req[r].op = "save" /\ Saving(s) # {} THEN [saved EXCEPT ![s] = None] ELSE saved
  BY <1>0 DEF Load
<1>4. saved' \in [Stems -> Documents \cup {None}]
      /\ \A t \in Stems : saved'[t] = saved[t] \/ (t = s /\ saved'[t] = None)
  BY <1>1, <1>2, <1>3 DEF StoreTypeOK
<1>5. r \notin Saving(s)
  BY <1>0, <1>1 DEF Saving
<1>6. CASE Moved(r, "error", None) \/ (req[r].op = "labels" /\ Moved(r, "ok", doc[s])
                                      /\ doc[s] \in Documents)
  <2>1. /\ req' \in [Requests -> Calls \cup {None}]
        /\ req'[r] # None /\ req'[r].at \in {"error", "ok"} /\ req'[r].op = req[r].op
        /\ req'[r].op = "labels" /\ req'[r].at = "ok" => req'[r].data \in Documents
        /\ \A q \in Requests \ {r} : req'[q] = req[q]
    <3>1. CASE Moved(r, "error", None)
      BY <1>1, <1>2, <3>1, MovedCall DEF Steps
    <3>2. CASE req[r].op = "labels" /\ Moved(r, "ok", doc[s]) /\ doc[s] \in Documents
      BY <1>1, <1>2, <3>2, MovedCall DEF Steps
    <3> QED
      BY <1>6, <3>1, <3>2
  <2>2. \A t \in Stems : r \notin Saving(t) /\ r \notin Saving(t)'
    BY <1>1, <2>1 DEF Saving
  <2>3. \A t \in Stems : SavesOK(t)'
    <3> TAKE t \in Stems
    <3>1. Saving(t)' = Saving(t) /\ \A q \in Saving(t) : req'[q] = req[q]
      BY <2>1, <2>2, OtherSaves
    <3> QED
      BY <1>3, <1>4, <3>1, SameSaves DEF StoreInv
  <2>4. StoreTypeOK'
    BY <1>2, <1>3, <1>4, <2>1 DEF StoreTypeOK
  <2>5. \A q \in Requests \ {r} : CallOK(q)' /\ AnswerOK(q)'
    BY <1>2, <1>3, <2>1, <2>4, Unchanging, OtherCalls, OtherAnswers DEF StoreInv
  <2>6. CallOK(r)' /\ AnswerOK(r)' /\ CacheOK'
    BY <1>1, <1>3, <2>1 DEF StoreInv, CallOK, AnswerOK, At, CacheOK
  <2>7. \A t \in Stems \ spoiled' : ExtractionOK(t)'
    BY <1>1, <1>3, <2>1, NoPicture
  <2> QED
    BY <2>3, <2>4, <2>5, <2>6, <2>7 DEF StoreInv
<1>7. CASE req[r].op = "save" /\ doc[s] \in Documents /\ Moved(r, "truncate", label)
  <2>1. label \in Documents
    BY <1>1, <1>7 DEF Documents, Calls
  <2> HIDE DEF label
  <2>2. /\ req' \in [Requests -> Calls \cup {None}]
        /\ req'[r] # None /\ req'[r].at = "truncate" /\ req'[r].op = "save"
        /\ req'[r].data = label /\ req'[r].clip = req[r].clip
        /\ req'[r].frame = req[r].frame /\ req'[r].label = req[r].label
        /\ \A q \in Requests \ {r} : req'[q] = req[q]
    BY <1>1, <1>2, <1>7, <2>1, MovedCall DEF Steps
  <2>3. StemOf(r)' = s
    BY <1>0, <2>2 DEF StemOf
  <2>4. \A t \in Stems \ {s} : SavesOK(t)'
    <3> TAKE t \in Stems \ {s}
    <3>1. r \notin Saving(t) /\ r \notin Saving(t)'
      BY <1>0, <2>3 DEF Saving
    <3>2. Saving(t)' = Saving(t) /\ \A q \in Saving(t) : req'[q] = req[q]
      BY <2>2, <3>1, OtherSaves
    <3> QED
      BY <1>3, <1>4, <3>2, SameSaves DEF StoreInv
  <2>5. SavesOK(s)'
    <3>1. CASE Saving(s) # {}
      <4>1. saved'[s] = None
        BY <1>1, <1>2, <1>3, <1>7, <3>1 DEF StoreTypeOK
      <4> QED
        BY <4>1 DEF SavesOK
    <3>2. CASE Saving(s) = {}
      <4>1. saved' = saved /\ (saved[s] # None => doc[s] = saved[s])
        BY <1>1, <1>3, <3>2 DEF StoreInv, SavesOK
      <4>2. Saving(s)' = {r}
        <5>1. r \in Saving(s)'
          BY <2>2, <2>3 DEF Saving
        <5>2. \A q \in Requests \ {r} : q \notin Saving(s)'
          BY <2>2, <3>2 DEF Saving, StemOf
        <5> QED
          BY <5>1, <5>2 DEF Saving
      <4> QED
        BY <1>3, <2>2, <4>1, <4>2 DEF SavesOK, label
    <3> QED
      BY <3>1, <3>2
  <2>6. StoreTypeOK'
    BY <1>2, <1>3, <1>4, <2>2 DEF StoreTypeOK
  <2>7. \A q \in Requests \ {r} : CallOK(q)' /\ AnswerOK(q)'
    BY <1>2, <1>3, <2>2, <2>6, Unchanging, OtherCalls, OtherAnswers DEF StoreInv
  <2>8. CallOK(r)' /\ AnswerOK(r)' /\ CacheOK'
    BY <1>3, <2>1, <2>2 DEF StoreInv, CallOK, AnswerOK, At, CacheOK
  <2>9. \A t \in Stems \ spoiled' : ExtractionOK(t)'
    BY <1>1, <1>3, <2>2, NoPicture
  <2> QED
    BY <2>4, <2>5, <2>6, <2>7, <2>8, <2>9 DEF StoreInv
<1>8. doc[s] \in Documents \/ doc[s] \in Unreadable
  BY <1>1, <1>2 DEF StoreTypeOK
<1> QED
  BY <1>0, <1>1, <1>6, <1>7, <1>8 DEF Load

\* The step of a save leaves the other requests and the pictures as they are.
LEMMA SaveStep ==
  ASSUME StoreInv, NEW r \in Requests, NEW s \in Stems, s = StemOf(r), req[r] # None,
         StoreTypeOK', cache' = cache, spoiled' = spoiled,
         req'[r] # None, req'[r].clip = req[r].clip, req'[r].op = "save",
         \A q \in Requests \ {r} : req'[q] = req[q],
         req[r].at \in {"truncate", "write"}, req'[r].at \in {"write", "ok"},
         \A t \in Stems \ {s} : doc'[t] = doc[t] /\ saved'[t] = saved[t],
         CallOK(r)', SavesOK(s)'
  PROVE  StoreInv'
<1>1. StemOf(r)' = s
  BY DEF StemOf
<1>2. \A t \in Stems : SavesOK(t)'
  <2> TAKE t \in Stems
  <2>1. CASE t # s
    <3>1. r \notin Saving(t) /\ r \notin Saving(t)'
      BY <1>1, <2>1 DEF Saving
    <3>2. Saving(t)' = Saving(t) /\ \A q \in Saving(t) : req'[q] = req[q]
      BY <3>1, OtherSaves
    <3> QED
      BY <2>1, <3>2, SameSaves DEF StoreInv
  <2> QED
    BY <2>1
<1>3. \A q \in Requests \ {r} : CallOK(q)' /\ AnswerOK(q)'
  BY Unchanging, OtherCalls, OtherAnswers DEF StoreInv
<1>4. AnswerOK(r)' /\ CacheOK'
  BY DEF StoreInv, AnswerOK, At, CacheOK
<1>5. \A t \in Stems \ spoiled' : ExtractionOK(t)'
  BY NoPicture
<1> QED
  BY <1>2, <1>3, <1>4, <1>5 DEF StoreInv

LEMMA TruncateStore ==
  ASSUME StoreInv, NEW r \in Requests, Truncate(r)
  PROVE  StoreInv'
<1>0. PICK s \in Stems : s = StemOf(r)
  BY IsCall DEF StoreInv, Truncate, At
<1>1. /\ req[r] # None /\ req[r] \in Calls /\ s \in Stems /\ req[r].at = "truncate"
      /\ req[r].op = "save" /\ req[r].data \in Documents
  BY IsCall DEF StoreInv, CallOK, Truncate, At
<1>2. StoreTypeOK
  BY DEF StoreInv
<1>3. /\ doc' = [doc EXCEPT ![s] = Empty] /\ Moved(r, "write", req[r].data)
      /\ cache' = cache /\ faults' = faults /\ saved' = saved /\ spoiled' = spoiled
  BY <1>0 DEF Truncate
<1>4. r \in Saving(s)
  BY <1>0, <1>1 DEF Saving
<1>5. StemOf(r) = s
  BY <1>0
<1>6. /\ req' \in [Requests -> Calls \cup {None}]
      /\ req'[r] # None /\ req'[r].at = "write" /\ req'[r].op = "save"
      /\ req'[r].data = req[r].data /\ req'[r].clip = req[r].clip
      /\ req'[r].frame = req[r].frame /\ req'[r].label = req[r].label
      /\ \A q \in Requests \ {r} : req'[q] = req[q]
  BY <1>1, <1>2, <1>3, MovedCall DEF Steps
<1>7. /\ doc'[s] = Empty /\ \A t \in Stems \ {s} : doc'[t] = doc[t]
      /\ doc' \in [Stems -> Documents \cup Unreadable]
  BY <1>1, <1>2, <1>3 DEF StoreTypeOK, Unreadable
<1>8. Saving(s)' = Saving(s)
  <2>1. r \in Saving(s)'
    BY <1>5, <1>6 DEF Saving, StemOf
  <2>2. \A q \in Requests \ {r} : q \in Saving(s)' <=> q \in Saving(s)
    BY <1>6 DEF Saving, StemOf
  <2> QED
    BY <1>4, <2>1, <2>2 DEF Saving
<1>9. SavesOK(s)'
  <2> SUFFICES ASSUME saved[s] # None
               PROVE  SavesOK(s)'
    BY <1>3 DEF SavesOK
  <2>1. Saving(s) = {r} /\ req[r].data = [saved[s] EXCEPT ![req[r].frame] = req[r].label]
    BY <1>1, <1>4 DEF StoreInv, SavesOK
  <2> QED
    BY <1>3, <1>6, <1>7, <1>8, <2>1 DEF SavesOK
<1>10. StoreTypeOK'
  BY <1>2, <1>3, <1>6, <1>7 DEF StoreTypeOK
<1>11. CallOK(r)'
  BY <1>1, <1>6 DEF CallOK
<1> QED
  BY <1>1, <1>3, <1>5, <1>6, <1>7, <1>9, <1>10, <1>11, SaveStep

\* A document that was not emptied for this write may end up torn, but then the
\* saves of the stem have overlapped.
LEMMA WriteStore ==
  ASSUME StoreInv, NEW r \in Requests, Write(r)
  PROVE  StoreInv'
<1>0. PICK s \in Stems : s = StemOf(r)
  BY IsCall DEF StoreInv, Write, At
<1>1. /\ req[r] # None /\ req[r] \in Calls /\ s \in Stems /\ req[r].at = "write"
      /\ req[r].op = "save" /\ req[r].data \in Documents
  BY IsCall DEF StoreInv, CallOK, Write, At
<1>2. StoreTypeOK
  BY DEF StoreInv
<1>3. PICK result \in {req[r].data} \cup (IF doc[s] = Empty THEN {} ELSE {Torn}) :
        doc' = [doc EXCEPT ![s] = result]
  BY <1>0 DEF Write
<1>4. /\ Moved(r, "ok", None) /\ cache' = cache /\ faults' = faults /\ spoiled' = spoiled
      /\ saved' = IF saved[s] = None THEN saved
                  ELSE [saved EXCEPT ![s][req[r].frame] = req[r].label]
  BY <1>0 DEF Write
<1>5. r \in Saving(s) /\ StemOf(r) = s
  BY <1>0, <1>1 DEF Saving
<1>6. /\ req' \in [Requests -> Calls \cup {None}]
      /\ req'[r] # None /\ req'[r].at = "ok" /\ req'[r].op = "save"
      /\ req'[r].clip = req[r].clip
      /\ \A q \in Requests \ {r} : req'[q] = req[q]
  BY <1>1, <1>2, <1>4, MovedCall DEF Steps
<1>7. /\ doc'[s] = result /\ \A t \in Stems \ {s} : doc'[t] = doc[t]
      /\ doc' \in [Stems -> Documents \cup Unreadable]
  BY <1>1, <1>2, <1>3 DEF StoreTypeOK, Unreadable
<1>8. /\ saved'[s] = IF saved[s] = None THEN None
                     ELSE [saved[s] EXCEPT ![req[r].frame] = req[r].label]
      /\ \A t \in Stems \ {s} : saved'[t] = saved[t]
      /\ saved' \in [Stems -> Documents \cup {None}]
  <2>1. saved \in [Stems -> Documents \cup {None}] /\ req[r].label \in Labels
    BY <1>1, <1>2 DEF StoreTypeOK, Calls
  <2>2. saved[s] # None => [saved[s] EXCEPT ![req[r].frame] = req[r].label] \in Documents
    BY <1>1, <2>1 DEF Documents
  <2>3. saved[s] # None => saved' = [saved EXCEPT ![s] =
                                      [saved[s] EXCEPT ![req[r].frame] = req[r].label]]
    BY <1>4, <2>1
  <2> QED
    BY <1>1, <1>4, <2>1, <2>2, <2>3
<1>9. SavesOK(s)'
  <2> SUFFICES ASSUME saved[s] # None
               PROVE  SavesOK(s)'
    BY <1>8 DEF SavesOK
  <2>1. /\ Saving(s) = {r} /\ req[r].data = [saved[s] EXCEPT ![req[r].frame] = req[r].label]
        /\ doc[s] = Empty
    BY <1>1, <1>5 DEF StoreInv, SavesOK
  <2>2. doc'[s] = saved'[s]
    BY <1>3, <1>7, <1>8, <2>1
  <2>3. Saving(s)' = {}
    <3>1. r \notin Saving(s)'
      BY <1>6 DEF Saving
    <3>2. \A q \in Requests \ {r} : q \notin Saving(s)'
      BY <1>6, <2>1 DEF Saving, StemOf
    <3> QED
      BY <3>1, <3>2 DEF Saving
  <2> QED
    BY <2>2, <2>3 DEF SavesOK
<1>10. StoreTypeOK'
  BY <1>2, <1>4, <1>6, <1>7, <1>8 DEF StoreTypeOK
<1>11. CallOK(r)'
  BY <1>6 DEF CallOK
<1> QED
  BY <1>1, <1>4, <1>5, <1>6, <1>7, <1>8, <1>9, <1>10, <1>11, SaveStep

-----------------------------------------------------------------------------
\* Nothing that is done to pictures is a save.
LEMMA NoSave ==
  ASSUME NEW r, req[r] = None \/ req[r].op # "save"
  PROVE  \A s \in Stems : r \notin Saving(s)
BY DEF Saving

\* api_get_frame with a list of files that is complete, or that a request has
\* looked at too early: it takes the file that was asked for, or answers 404.
LEMMA PickStore ==
  ASSUME StoreInv, NEW r \in Requests, NEW s \in Stems, s = StemOf(r),
         req[r] # None, req[r].op = "frame", req[r].at \in {"look", "extract"},
         PickFile(r, cache[s]), UNCHANGED <<doc, cache, faults, saved>>,
         spoiled' \in {spoiled, spoiled \cup {s}},
         s \notin spoiled' => Full(s) /\ Extracting(s) \subseteq {r}
  PROVE  StoreInv'
<1>1. /\ StoreTypeOK /\ req[r] \in Calls /\ req[r].frame \in Nat
      /\ Len(cache[s]) \in Nat /\ NumFrames \in Nat
  BY IsCall, LabelConstants DEF StoreInv, StoreTypeOK, Calls, Frames
<1>2. PICK step \in {"error", "serve"} :
        Moved(r, step, None) /\ (step = "error" <=> req[r].frame > Len(cache[s]))
  BY DEF PickFile
<1>3. /\ req' \in [Requests -> Calls \cup {None}]
      /\ req'[r] # None /\ req'[r].at = step /\ req'[r].op = "frame"
      /\ req'[r].clip = req[r].clip /\ req'[r].frame = req[r].frame
      /\ \A q \in Requests \ {r} : req'[q] = req[q]
  BY <1>1, <1>2, MovedCall DEF Steps
<1>4. StemOf(r)' = s /\ cache' = cache
  BY <1>3 DEF StemOf
<1>5. StoreTypeOK'
  BY <1>1, <1>3 DEF StoreTypeOK
<1>6. CallOK(r)'
  BY <1>1, <1>2, <1>3, <1>4 DEF CallOK
<1>7. AnswerOK(r)'
  <2> SUFFICES ASSUME step = "error", req[r].frame <= NumFrames
               PROVE  s \in spoiled'
    BY <1>3, <1>4 DEF AnswerOK, At
  <2>1. req[r].frame > Len(cache[s])
    BY <1>2
  <2> QED
    BY <1>1, <2>1 DEF Full
<1>8. CacheOK'
  BY <1>4 DEF StoreInv, CacheOK
<1>9. ASSUME NEW t \in Stems \ spoiled' PROVE ExtractionOK(t)'
  <2>1. CASE t = s
    <3>1. Extracting(s)' = {}
      <4>1. Extracting(s) \subseteq {r} /\ r \notin Extracting(s)'
        BY <1>2, <1>3, <1>9, <2>1 DEF Extracting, At
      <4> QED
        BY <1>3, <4>1 DEF Extracting, At, StemOf
    <3>2. Full(s)'
      BY <1>4, <1>9, <2>1 DEF Full
    <3> QED
      BY <2>1, <3>1, <3>2 DEF ExtractionOK
  <2>2. CASE t # s
    <3>1. r \notin Extracting(t) /\ r \notin Extracting(t)' /\ r \notin Serving(t)'
      BY <1>4, <2>2 DEF Extracting, Serving
    <3>2. ExtractionOK(t)
      BY <1>9 DEF StoreInv
    <3> QED
      BY <1>3, <1>4, <3>1, <3>2, OtherExtractions
  <2> QED
    BY <2>1, <2>2
<1>10. \A t \in Stems : r \notin Saving(t) /\ r \notin Saving(t)'
  BY <1>3 DEF Saving
<1> QED
  BY <1>1, <1>3, <1>4, <1>5, <1>6, <1>7, <1>8, <1>9, <1>10, Unchanging, QuietStep

\* ensure_frames_extracted: the files of a stem that nobody extracts are all
\* there or none is.
LEMMA LookStore ==
  ASSUME StoreInv, NEW r \in Requests, LookInCache(r)
  PROVE  StoreInv'
<1>0. PICK s \in Stems : s = StemOf(r)
  BY IsCall DEF StoreInv, LookInCache, At
<1>1. /\ req[r] # None /\ req[r] \in Calls /\ req[r].op = "frame" /\ req[r].at = "look"
      /\ StoreTypeOK
  BY IsCall DEF StoreInv, LookInCache, At, CallOK, Calls
<1>2. UNCHANGED <<doc, cache, faults, saved>>
  BY DEF LookInCache
<1>3. IF Extracting(s) # {} THEN spoiled' = spoiled \cup {s} ELSE spoiled' = spoiled
  BY <1>0 DEF LookInCache, Spoil
<1>4. s \notin spoiled' => s \notin spoiled /\ Extracting(s) = {} /\ ExtractionOK(s)
  BY <1>3 DEF StoreInv
<1>5. CASE cache[s] # <<>> /\ PickFile(r, cache[s])
  <2>1. s \notin spoiled' => Full(s) /\ Extracting(s) \subseteq {r}
    BY <1>4, <1>5 DEF ExtractionOK
  <2>2. spoiled' \in {spoiled, spoiled \cup {s}}
    BY <1>3
  <2> QED
    BY <1>0, <1>1, <1>2, <1>5, <2>1, <2>2, PickStore
<1>6. CASE cache[s] = <<>> /\ Moved(r, "extract", None)
  <2>1. /\ req' \in [Requests -> Calls \cup {None}]
        /\ req'[r] # None /\ req'[r].at = "extract" /\ req'[r].op = "frame"
        /\ req'[r].next = 1 /\ req'[r].clip = req[r].clip
        /\ \A q \in Requests \ {r} : req'[q] = req[q]
    BY <1>1, <1>6, MovedCall DEF Steps
  <2>2. StemOf(r)' = s /\ spoiled \subseteq spoiled' /\ spoiled' \subseteq Stems
    BY <1>0, <1>1, <1>3, <2>1 DEF StemOf, StoreTypeOK
  <2>3. StoreTypeOK'
    BY <1>1, <1>2, <2>1, <2>2 DEF StoreTypeOK
  <2>4. CacheOK' /\ CallOK(r)' /\ AnswerOK(r)'
    BY <1>2, <2>1 DEF StoreInv, CacheOK, CallOK, AnswerOK, At
  <2>5. ASSUME NEW t \in Stems \ spoiled' PROVE ExtractionOK(t)'
    <3>1. CASE t = s
      <4>1. Extracting(s) = {} /\ Serving(s) = {}
        <5>1. ~Full(s)
          BY <1>6, LabelConstants DEF Full
        <5> QED
          BY <1>4, <2>5, <3>1, <5>1 DEF ExtractionOK
      <4>2. r \in Extracting(s)' /\ ~At(r, "fill")' /\ r \notin Serving(s)'
        BY <2>1, <2>2 DEF Extracting, Serving, At
      <4>3. \A q \in Requests \ {r} : q \notin Extracting(s)' /\ q \notin Serving(s)'
        BY <2>1, <4>1 DEF Extracting, Serving, At, StemOf
      <4>4. Extracting(s)' = {r} /\ Serving(s)' = {}
        BY <4>2, <4>3 DEF Extracting, Serving
      <4>5. Len(cache'[s]) = req'[r].next - 1
        BY <1>2, <1>6, <2>1
      <4>6. \A i \in 1..req'[r].next - 1 : cache'[s][i] # Blank
        BY <2>1
      <4> QED
        BY <3>1, <4>2, <4>4, <4>5, <4>6 DEF ExtractionOK
    <3>2. CASE t # s
      <4>1. r \notin Extracting(t) /\ r \notin Extracting(t)' /\ r \notin Serving(t)'
        BY <1>0, <2>2, <3>2 DEF Extracting, Serving
      <4>2. ExtractionOK(t)
        BY <2>2, <2>5 DEF StoreInv
      <4> QED
        BY <1>2, <2>1, <4>1, <4>2, OtherExtractions
    <3> QED
      BY <3>1, <3>2
  <2>6. \A t \in Stems : r \notin Saving(t) /\ r \notin Saving(t)'
    BY <1>1, <2>1 DEF Saving
  <2> QED
    BY <1>1, <1>2, <2>1, <2>2, <2>3, <2>4, <2>5, <2>6, Unchanging, QuietStep
<1> QED
  BY <1>0, <1>5, <1>6 DEF LookInCache

\* The end of an extraction that was alone: all files are there.
LEMMA ListStore ==
  ASSUME StoreInv, NEW r \in Requests, ListExtracted(r)
  PROVE  StoreInv'
<1>0. PICK s \in Stems : s = StemOf(r)
  BY IsCall DEF StoreInv, ListExtracted, At
<1>1. /\ req[r] # None /\ req[r] \in Calls /\ req[r].op = "frame" /\ req[r].at = "extract"
      /\ req[r].next > NumFrames /\ req[r].next \in 1..NumFrames + 1 /\ StoreTypeOK
  BY IsCall DEF StoreInv, ListExtracted, At, CallOK, Calls
<1>2. PickFile(r, cache[s]) /\ UNCHANGED <<doc, cache, faults, saved, spoiled>>
  BY <1>0 DEF ListExtracted
<1>3. s \notin spoiled' => Full(s) /\ Extracting(s) \subseteq {r}
  <2> SUFFICES ASSUME s \notin spoiled
               PROVE  Full(s) /\ Extracting(s) \subseteq {r}
    BY <1>2
  <2>1. ExtractionOK(s) /\ r \in Extracting(s) /\ ~At(r, "fill")
    BY <1>0, <1>1 DEF StoreInv, Extracting, At
  <2>2. req[r].next - 1 = NumFrames
    BY <1>1, LabelConstants
  <2>3. /\ Len(cache[s]) = req[r].next - 1
        /\ \A i \in 1..req[r].next - 1 : cache[s][i] # Blank
    BY <2>1 DEF ExtractionOK
  <2>4. PICK last : last = req[r].next - 1
    OBVIOUS
  <2>5. Full(s)
    BY <2>2, <2>3, <2>4 DEF Full
  <2> QED
    BY <2>1, <2>5 DEF ExtractionOK
<1> QED
  BY <1>0, <1>1, <1>2, <1>3, PickStore

\* FileResponse: a file that is served is one of the stem's.
LEMMA Served ==
  ASSUME StoreInv, NEW r \in Requests, ServeFile(r)
  PROVE  /\ req[r] # None /\ req[r] \in Calls /\ req[r].op = "frame" /\ req[r].at = "serve"
         /\ req[r].frame <= Len(cache[StemOf(r)])
         /\ \E source, picture :
              /\ source = cache[StemOf(r)][req[r].frame]
              /\ source = Blank \/ (source \in Clips /\ Stem[source] = StemOf(r))
              /\ picture = IF source = Blank THEN Blank ELSE <<source, req[r].frame>>
              /\ picture \in Pictures \cup {Blank} /\ Moved(r, "ok", picture)
<1>0. PICK s \in Stems : s = StemOf(r)
  BY IsCall DEF StoreInv, ServeFile, At
<1>1. /\ req[r] # None /\ req[r] \in Calls /\ req[r].op = "frame" /\ req[r].at = "serve"
      /\ req[r].frame <= Len(cache[s]) /\ req[r].frame \in Frames /\ StoreTypeOK
  BY <1>0, IsCall DEF StoreInv, ServeFile, At, CallOK, Calls, StemOf
<1>2. PICK source : source = cache[s][req[r].frame]
  OBVIOUS
<1>3. PICK picture : picture = IF source = Blank THEN Blank ELSE <<source, req[r].frame>>
  OBVIOUS
<1>4. Moved(r, "ok", picture)
  BY <1>0, <1>2, <1>3 DEF ServeFile
<1>5. req[r].frame \in 1..Len(cache[s])
  BY <1>1, LabelConstants DEF StoreTypeOK, Frames
<1>6. source = Blank \/ (source \in Clips /\ Stem[source] = s)
  BY <1>2, <1>5 DEF StoreInv, CacheOK
<1>7. picture \in Pictures \cup {Blank}
  BY <1>1, <1>3, <1>6 DEF Pictures
<1> QED
  BY <1>0, <1>1, <1>2, <1>3, <1>4, <1>6, <1>7

LEMMA ServeStore ==
  ASSUME StoreInv, NEW r \in Requests, ServeFile(r)
  PROVE  StoreInv'
<1>0. PICK s \in Stems : s = StemOf(r)
  BY IsCall DEF StoreInv, ServeFile, At
<1>1. /\ req[r] # None /\ req[r] \in Calls /\ req[r].op = "frame" /\ req[r].at = "serve"
      /\ req[r].frame \in Frames /\ req[r].clip \in Clips /\ Stem[req[r].clip] = s /\ StoreTypeOK
  BY <1>0, Served DEF StoreInv, Calls, StemOf
<1>2. PICK source, picture :
        /\ source = cache[s][req[r].frame]
        /\ source = Blank \/ (source \in Clips /\ Stem[source] = s)
        /\ picture = IF source = Blank THEN Blank ELSE <<source, req[r].frame>>
        /\ picture \in Pictures \cup {Blank} /\ Moved(r, "ok", picture)
  BY <1>0, Served
<1>3. picture = IF source = Blank THEN Blank ELSE <<source, req[r].frame>>
  BY <1>2
<1>4. Moved(r, "ok", picture) /\ UNCHANGED <<doc, cache, faults, saved, spoiled>>
  BY <1>2 DEF ServeFile
<1>6. source = Blank \/ (source \in Clips /\ Stem[source] = s)
  BY <1>2
<1>7. picture \in Pictures \cup {Blank}
  BY <1>2
<1>8. /\ req' \in [Requests -> Calls \cup {None}]
      /\ req'[r] # None /\ req'[r].at = "ok" /\ req'[r].op = "frame" /\ req'[r].data = picture
      /\ req'[r].clip = req[r].clip /\ req'[r].frame = req[r].frame
      /\ \A q \in Requests \ {r} : req'[q] = req[q]
  BY <1>1, <1>4, <1>7, MovedCall DEF Steps
<1>9. StemOf(r)' = s
  BY <1>1, <1>8 DEF StemOf
<1>10. StoreTypeOK' /\ CacheOK' /\ CallOK(r)'
  BY <1>1, <1>4, <1>7, <1>8 DEF StoreInv, StoreTypeOK, CacheOK, CallOK
<1>11. AnswerOK(r)'
  <2> SUFFICES ASSUME OwnsStem(req[r].clip), req[r].frame <= NumFrames
               PROVE  picture = <<req[r].clip, req[r].frame>> \/ (s \in spoiled /\ picture = Blank)
    BY <1>4, <1>8, <1>9 DEF AnswerOK, At, OwnsStem
  <2>1. source = Blank \/ source = req[r].clip
    BY <1>1, <1>6 DEF OwnsStem
  <2>2. CASE s \in spoiled
    BY <1>3, <2>1, <2>2
  <2>3. CASE s \notin spoiled
    <3>1. r \in Serving(s) /\ ExtractionOK(s)
      BY <1>0, <1>1, <2>3 DEF Serving, At, StoreInv
    <3>2. Full(s) /\ req[r].frame \in 1..NumFrames
      BY <1>1, <3>1, LabelConstants DEF ExtractionOK, Frames
    <3>3. source # Blank
      BY <1>2, <3>2 DEF Full
    <3> QED
      BY <1>3, <2>1, <3>3
  <2> QED
    BY <2>2, <2>3
<1>12. \A t \in Stems \ spoiled' : ExtractionOK(t)'
  BY <1>1, <1>4, <1>8, NoPicture
<1>13. \A t \in Stems : r \notin Saving(t) /\ r \notin Saving(t)'
  BY <1>1, <1>8 DEF Saving
<1> QED
  BY <1>1, <1>4, <1>8, <1>10, <1>11, <1>12, <1>13, Unchanging, QuietStep

LEMMA ExtractionFailsStore ==
  ASSUME StoreInv, NEW r \in Requests, ExtractionFails(r)
  PROVE  StoreInv'
<1>0. PICK s \in Stems : s = StemOf(r)
  BY IsCall DEF StoreInv, ExtractionFails, At
<1>1. /\ req[r] # None /\ req[r] \in Calls /\ req[r].op = "frame"
      /\ req[r].at \in {"extract", "fill"} /\ StoreTypeOK
  BY IsCall DEF StoreInv, ExtractionFails, At, CallOK, Calls
<1>2. /\ UNCHANGED <<doc, cache, saved>> /\ Moved(r, "error", None)
      /\ faults < MaxFaults /\ faults' = faults + 1 /\ spoiled' = spoiled \cup {s}
  BY <1>0 DEF ExtractionFails, Fault, Spoil
<1>3. /\ req' \in [Requests -> Calls \cup {None}]
      /\ req'[r] # None /\ req'[r].at = "error" /\ req'[r].op = "frame"
      /\ req'[r].clip = req[r].clip
      /\ \A q \in Requests \ {r} : req'[q] = req[q]
  BY <1>1, <1>2, MovedCall DEF Steps
<1>4. faults' \in 0..MaxFaults /\ spoiled' \subseteq Stems
  BY <1>1, <1>2, LabelConstants DEF StoreTypeOK
<1>5. StoreTypeOK' /\ CacheOK'
  BY <1>1, <1>2, <1>3, <1>4 DEF StoreInv, StoreTypeOK, CacheOK
<1>6. CallOK(r)' /\ AnswerOK(r)'
  <2>1. StemOf(r)' = s
    BY <1>0, <1>3 DEF StemOf
  <2> QED
    BY <1>2, <1>3, <2>1 DEF CallOK, AnswerOK, At
<1>7. ASSUME NEW t \in Stems \ spoiled' PROVE ExtractionOK(t)'
  <2>1. t # s /\ ExtractionOK(t)
    BY <1>2, <1>7 DEF StoreInv
  <2>2. r \notin Extracting(t) /\ r \notin Extracting(t)' /\ r \notin Serving(t)'
    BY <1>0, <1>3, <2>1 DEF Extracting, Serving, At
  <2> QED
    BY <1>2, <1>3, <2>1, <2>2, OtherExtractions
<1>8. \A t \in Stems : r \notin Saving(t) /\ r \notin Saving(t)'
  BY <1>1, <1>3 DEF Saving
<1> QED
  BY <1>1, <1>2, <1>3, <1>5, <1>6, <1>7, <1>8, Unchanging, QuietStep

\* What a list of files becomes when the n-th is set.
Put(files, n, x) == IF n <= Len(files) THEN [files EXCEPT ![n] = x] ELSE Append(files, x)

\* A step of ffmpeg, which sets file n of stem s for the request r, and how far
\* the extraction is then: the first files are whole, if it is alone.
Makes(r, s, n, x, new) ==
  /\ s = StemOf(r) /\ req[r] # None /\ req[r].op = "frame" /\ req[r].at \in {"extract", "fill"}
  /\ n \in 1..NumFrames /\ x \in {Blank, req[r].clip} /\ SetFile(s, n, x)
  /\ new \in Calls /\ new.op = "frame" /\ new.at \in {"extract", "fill"}
  /\ new.clip = req[r].clip /\ (new.at = "fill" => new.next <= NumFrames)
  /\ req' = [req EXCEPT ![r] = new] /\ UNCHANGED <<doc, faults, saved, spoiled>>
  /\ s \notin spoiled => \E whole :
       /\ whole = new.next - 1
       /\ Len(Put(cache[s], n, x)) = IF new.at = "fill" THEN new.next ELSE whole
       /\ \A i \in 1..whole : Put(cache[s], n, x)[i] # Blank

LEMMA MakeStore ==
  ASSUME StoreInv, NEW r \in Requests, NEW s \in Stems, NEW n, NEW x, NEW new,
         Makes(r, s, n, x, new)
  PROVE  StoreInv'
<1>0. /\ s = StemOf(r) /\ req[r] # None /\ req[r].op = "frame" /\ req[r].at \in {"extract", "fill"}
      /\ n \in 1..NumFrames /\ x \in {Blank, req[r].clip} /\ SetFile(s, n, x)
      /\ new \in Calls /\ new.op = "frame" /\ new.at \in {"extract", "fill"}
      /\ new.clip = req[r].clip /\ (new.at = "fill" => new.next <= NumFrames)
      /\ req' = [req EXCEPT ![r] = new] /\ UNCHANGED <<doc, faults, saved, spoiled>>
  BY DEF Makes
<1>1. /\ StoreTypeOK /\ req[r] \in Calls /\ req[r].clip \in Clips /\ Stem[req[r].clip] = s
      /\ cache[s] \in Seq(Clips \cup {Blank}) /\ Len(cache[s]) <= NumFrames
      /\ NumFrames \in Nat /\ n \in Nat \ {0} /\ n <= NumFrames
  BY <1>0, IsCall, LabelConstants DEF StoreInv, StoreTypeOK, Calls, StemOf
<1>2. PICK made : made = Put(cache[s], n, x)
  OBVIOUS
<1>3. x \in Clips \cup {Blank} /\ Len(cache[s]) \in Nat
  BY <1>0, <1>1
<1>4. /\ made \in Seq(Clips \cup {Blank})
      /\ Len(made) = IF n <= Len(cache[s]) THEN Len(cache[s]) ELSE Len(cache[s]) + 1
      /\ \A i \in 1..Len(made) : made[i] = x \/ (i \in 1..Len(cache[s]) /\ made[i] = cache[s][i])
  <2>1. PICK files \in Seq(Clips \cup {Blank}) : files = cache[s]
    BY <1>1
  <2>2. CASE n <= Len(files)
    <3>1. made = [files EXCEPT ![n] = x]
      BY <1>2, <2>1, <2>2 DEF Put
    <3>2. made \in Seq(Clips \cup {Blank}) /\ Len(made) = Len(files)
      BY <1>1, <1>3, <2>2, <3>1
    <3>3. \A i \in 1..Len(files) : made[i] = IF i = n THEN x ELSE files[i]
      BY <1>1, <3>1
    <3> QED
      BY <2>1, <2>2, <3>2, <3>3
  <2>3. CASE ~(n <= Len(files))
    <3>1. made = Append(files, x)
      BY <1>2, <2>1, <2>3 DEF Put
    <3>2. made \in Seq(Clips \cup {Blank}) /\ Len(made) = Len(files) + 1
      BY <1>3, <3>1
    <3>3. \A i \in 1..Len(made) : made[i] = IF i = Len(files) + 1 THEN x ELSE files[i]
      BY <1>3, <3>1, <3>2
    <3>4. \A i \in 1..Len(made) : i = Len(files) + 1 \/ i \in 1..Len(files)
      BY <1>3, <2>1, <3>2
    <3> QED
      BY <2>1, <2>3, <3>2, <3>3, <3>4
  <2> QED
    BY <2>2, <2>3
<1>5. Len(cache[s]) <= Len(made) /\ Len(made) <= NumFrames
  <2>1. PICK l \in Nat : l = Len(cache[s])
    BY <1>3
  <2>2. PICK m : m = Len(made)
    OBVIOUS
  <2>3. m = IF n <= l THEN l ELSE l + 1
    BY <1>4, <2>1, <2>2
  <2>4. l <= m /\ m <= NumFrames
    BY <1>1, <2>1, <2>3
  <2> QED
    BY <2>1, <2>2, <2>4
<1>6. cache' = [cache EXCEPT ![s] = made]
  BY <1>0, <1>2 DEF SetFile, Put
<1>7. /\ cache' \in [Stems -> Seq(Clips \cup {Blank})] /\ cache'[s] = made
      /\ \A t \in Stems \ {s} : cache'[t] = cache[t]
  BY <1>1, <1>4, <1>6 DEF StoreTypeOK
<1>8. /\ req' \in [Requests -> Calls \cup {None}] /\ req'[r] = new /\ new # None
      /\ \A q \in Requests \ {r} : req'[q] = req[q]
  BY <1>0, <1>1, StoreNames DEF StoreTypeOK
<1>9. StemOf(r)' = s
  BY <1>0, <1>1, <1>8 DEF StemOf
<1>10. StoreTypeOK'
  <2>1. \A t \in Stems : Len(cache'[t]) <= NumFrames
    BY <1>1, <1>5, <1>7 DEF StoreTypeOK
  <2> QED
    BY <1>0, <1>1, <1>7, <1>8, <2>1 DEF StoreTypeOK
<1>11. CacheOK'
  <2> SUFFICES ASSUME NEW t \in Stems, NEW i \in 1..Len(cache'[t])
               PROVE  cache'[t][i] = Blank \/ (cache'[t][i] \in Clips /\ Stem[cache'[t][i]] = t)
    BY DEF CacheOK
  <2>1. CASE t = s
    <3>1. made[i] = x \/ (i \in 1..Len(cache[s]) /\ made[i] = cache[s][i])
      BY <1>4, <1>7, <2>1
    <3> QED
      BY <1>0, <1>1, <1>7, <2>1, <3>1 DEF StoreInv, CacheOK
  <2>2. CASE t # s
    BY <1>7, <2>2 DEF StoreInv, CacheOK
  <2> QED
    BY <2>1, <2>2
<1>12. CallOK(r)' /\ AnswerOK(r)'
  BY <1>0, <1>8 DEF CallOK, AnswerOK, At
<1>13. Growing
  <2>1. \A t \in Stems : Len(cache[t]) \in Nat
    BY <1>1 DEF StoreTypeOK
  <2> QED
    BY <1>5, <1>7, <2>1 DEF Growing
<1>14. ASSUME NEW t \in Stems \ spoiled' PROVE ExtractionOK(t)'
  <2>1. ExtractionOK(t)
    BY <1>0, <1>14 DEF StoreInv
  <2>2. CASE t = s
    <3>1. Extracting(s) = {r} /\ Serving(s) = {}
      <4>1. r \in Extracting(s)
        BY <1>0 DEF Extracting, At
      <4> QED
        BY <2>1, <2>2, <4>1 DEF ExtractionOK
    <3>2. r \in Extracting(s)' /\ r \notin Serving(s)' /\ (At(r, "fill")' <=> new.at = "fill")
      BY <1>0, <1>8, <1>9 DEF Extracting, Serving, At
    <3>3. \A q \in Requests \ {r} : q \notin Extracting(s)' /\ q \notin Serving(s)'
      BY <1>8, <3>1 DEF Extracting, Serving, At, StemOf
    <3>4. Extracting(s)' = {r} /\ Serving(s)' = {}
      BY <3>2, <3>3 DEF Extracting, Serving
    <3>5. PICK whole : /\ whole = new.next - 1
                       /\ Len(made) = IF new.at = "fill" THEN new.next ELSE whole
                       /\ \A i \in 1..whole : made[i] # Blank
      BY <1>0, <1>2, <1>14, <2>2 DEF Makes
    <3> QED
      BY <1>7, <1>8, <2>2, <3>2, <3>4, <3>5 DEF ExtractionOK
  <2>3. CASE t # s
    <3>1. r \notin Extracting(t) /\ r \notin Extracting(t)' /\ r \notin Serving(t)'
      BY <1>0, <1>9, <2>3 DEF Extracting, Serving
    <3> QED
      BY <1>7, <1>8, <2>1, <2>3, <3>1, OtherExtractions
  <2> QED
    BY <2>2, <2>3
<1>15. \A t \in Stems : r \notin Saving(t) /\ r \notin Saving(t)'
  BY <1>0, <1>8 DEF Saving
<1> QED
  BY <1>0, <1>8, <1>10, <1>11, <1>12, <1>13, <1>14, <1>15, QuietStep

\* ffmpeg creates the file it comes to: after those it has made, if it is alone.
LEMMA CreateStore ==
  ASSUME StoreInv, NEW r \in Requests, CreateFile(r)
  PROVE  StoreInv'
<1>0. PICK s \in Stems : s = StemOf(r)
  BY IsCall DEF StoreInv, CreateFile, At
<1>1. PICK n : n = req[r].next
  OBVIOUS
<1>2. /\ req[r] # None /\ req[r] \in Calls /\ req[r].op = "frame" /\ req[r].at = "extract"
      /\ n \in 1..NumFrames /\ StoreTypeOK
  BY <1>1, IsCall, LabelConstants DEF StoreInv, CreateFile, At, CallOK, Calls
<1>3. PICK new : new = [req[r] EXCEPT !.at = "fill"]
  OBVIOUS
<1>4. /\ new \in Calls /\ new.op = "frame" /\ new.at = "fill" /\ new.clip = req[r].clip
      /\ new.next = n
  BY <1>1, <1>2, <1>3 DEF Calls, Steps
<1>5. /\ SetFile(s, n, Blank) /\ req' = [req EXCEPT ![r] = new]
      /\ UNCHANGED <<doc, faults, saved, spoiled>>
  BY <1>0, <1>1, <1>3 DEF CreateFile
<1>6. s \notin spoiled => /\ Len(Put(cache[s], n, Blank)) = n
                          /\ \A i \in 1..n - 1 : Put(cache[s], n, Blank)[i] # Blank
  <2> SUFFICES ASSUME s \notin spoiled
               PROVE  /\ Len(Put(cache[s], n, Blank)) = n
                      /\ \A i \in 1..n - 1 : Put(cache[s], n, Blank)[i] # Blank
    OBVIOUS
  <2>1. ExtractionOK(s) /\ r \in Extracting(s) /\ ~At(r, "fill")
    BY <1>0, <1>2 DEF StoreInv, Extracting, At
  <2>2. Len(cache[s]) = n - 1 /\ \A i \in 1..n - 1 : cache[s][i] # Blank
    BY <1>1, <2>1 DEF ExtractionOK
  <2>3. PICK files \in Seq(Clips \cup {Blank}) : files = cache[s]
    BY <1>2 DEF StoreTypeOK
  <2>4. n \in Nat /\ Len(files) \in Nat /\ n = Len(files) + 1
    BY <1>2, <2>2, <2>3, LabelConstants
  <2>5. PICK made : made = Append(files, Blank)
    OBVIOUS
  <2>6. Len(made) = n /\ \A i \in 1..n - 1 : made[i] = files[i]
    BY <2>4, <2>5
  <2>7. Put(cache[s], n, Blank) = made
    BY <2>3, <2>4, <2>5 DEF Put
  <2> QED
    BY <2>2, <2>3, <2>6, <2>7
<1>7. new.next <= NumFrames
  BY <1>2, <1>4, LabelConstants
<1>8. PICK whole : whole = new.next - 1
  OBVIOUS
<1>9. s \notin spoiled => /\ Len(Put(cache[s], n, Blank)) = n
                          /\ \A i \in 1..whole : Put(cache[s], n, Blank)[i] # Blank
  <2>1. whole = n - 1
    BY <1>4, <1>8
  <2> QED
    BY <1>6, <2>1
<1>10. s \notin spoiled =>
         /\ Len(Put(cache[s], n, Blank)) = IF new.at = "fill" THEN new.next ELSE whole
         /\ \A i \in 1..whole : Put(cache[s], n, Blank)[i] # Blank
  BY <1>4, <1>9
<1>11. /\ req[r].at \in {"extract", "fill"} /\ new.at \in {"extract", "fill"}
       /\ new.at = "fill" => new.next <= NumFrames
       /\ Blank \in {Blank, req[r].clip}
  BY <1>2, <1>4, <1>7
<1>12. Makes(r, s, n, Blank, new)
  BY <1>0, <1>2, <1>4, <1>5, <1>8, <1>10, <1>11 DEF Makes
<1> QED
  BY <1>12, MakeStore

\* ffmpeg fills the file it has created, with a frame of the clip of the request.
LEMMA FillStore ==
  ASSUME StoreInv, NEW r \in Requests, FillFile(r)
  PROVE  StoreInv'
<1>0. PICK s \in Stems : s = StemOf(r)
  BY IsCall DEF StoreInv, FillFile, At
<1>1. PICK n : n = req[r].next
  OBVIOUS
<1>2. /\ req[r] # None /\ req[r] \in Calls /\ req[r].op = "frame" /\ req[r].at = "fill"
      /\ n \in 1..NumFrames /\ StoreTypeOK /\ req[r].clip \in Clips
  BY <1>1, IsCall, LabelConstants DEF StoreInv, FillFile, At, CallOK, Calls
<1>3. PICK new : new = [[req[r] EXCEPT !.at = "extract"] EXCEPT !.next = n + 1]
  OBVIOUS
<1>4. /\ new \in Calls /\ new.op = "frame" /\ new.at = "extract" /\ new.clip = req[r].clip
      /\ new.next = n + 1 /\ n + 1 - 1 = n
  <2>1. n + 1 \in 1..NumFrames + 1 /\ n + 1 - 1 = n
    BY <1>2, LabelConstants
  <2> QED
    BY <1>2, <1>3, <2>1 DEF Calls, Steps
<1>5. PICK x : x = req[r].clip
  OBVIOUS
<1>6. /\ SetFile(s, n, x) /\ req' = [req EXCEPT ![r] = new]
      /\ UNCHANGED <<doc, faults, saved, spoiled>>
  BY <1>0, <1>1, <1>3, <1>5 DEF FillFile
<1>7. s \notin spoiled => /\ Len(Put(cache[s], n, x)) = n
                          /\ \A i \in 1..n : Put(cache[s], n, x)[i] # Blank
  <2> SUFFICES ASSUME s \notin spoiled
               PROVE  /\ Len(Put(cache[s], n, x)) = n
                      /\ \A i \in 1..n : Put(cache[s], n, x)[i] # Blank
    OBVIOUS
  <2>1. ExtractionOK(s) /\ r \in Extracting(s) /\ At(r, "fill")
    BY <1>0, <1>2 DEF StoreInv, Extracting, At
  <2>2. Len(cache[s]) = n /\ \A i \in 1..n - 1 : cache[s][i] # Blank
    BY <1>1, <2>1 DEF ExtractionOK
  <2>3. PICK files \in Seq(Clips \cup {Blank}) : files = cache[s]
    BY <1>2 DEF StoreTypeOK
  <2>4. n \in Nat \ {0} /\ Len(files) = n
    BY <1>2, <2>2, <2>3, LabelConstants
  <2>5. PICK made : made = [files EXCEPT ![n] = x]
    OBVIOUS
  <2>6. Len(made) = n /\ \A i \in 1..n : made[i] = IF i = n THEN x ELSE files[i]
    BY <2>4, <2>5
  <2>7. Put(cache[s], n, x) = made
    BY <2>3, <2>4, <2>5 DEF Put
  <2>8. x # Blank
    BY <1>2, <1>5, StoreNames
  <2>9. \A i \in 1..n : i = n \/ i \in 1..n - 1
    BY <2>4
  <2>10. \A i \in 1..n : made[i] # Blank
    BY <2>2, <2>3, <2>6, <2>8, <2>9
  <2> QED
    BY <2>6, <2>7, <2>10
<1>8. n = new.next - 1
  BY <1>2, <1>4, LabelConstants
<1>9. x \in {Blank, req[r].clip}
  BY <1>5
<1>10. s \notin spoiled => /\ Len(Put(cache[s], n, x)) = IF new.at = "fill" THEN new.next ELSE n
                           /\ \A i \in 1..n : Put(cache[s], n, x)[i] # Blank
  BY <1>4, <1>7
<1>11. /\ req[r].at \in {"extract", "fill"} /\ new.at \in {"extract", "fill"}
       /\ new.at = "fill" => new.next <= NumFrames
  BY <1>2, <1>4
<1>12. Makes(r, s, n, x, new)
  BY <1>0, <1>2, <1>4, <1>6, <1>8, <1>9, <1>10, <1>11 DEF Makes
<1> QED
  BY <1>12, MakeStore

\* A crash ends what is in progress; saves that had emptied their document have
\* been counted as cut, and so have extractions; the others have changed nothing.
LEMMA CrashStore ==
  ASSUME StoreInv, Crash
  PROVE  StoreInv'
<1>1. /\ UNCHANGED <<doc, cache>> /\ faults < MaxFaults /\ faults' = faults + 1
      /\ req' = [r \in Requests |->
                   IF Active(r)
                   THEN [[[req[r] EXCEPT !.at = "gone"] EXCEPT !.data = None] EXCEPT !.next = 1]
                   ELSE req[r]]
      /\ saved' = [s \in Stems |-> IF \E r \in Saving(s) : At(r, "write") THEN None ELSE saved[s]]
      /\ spoiled' = spoiled \cup {s \in Stems : Extracting(s) # {}}
  BY DEF Crash, Fault
<1>2. \A r \in Requests :
        /\ req'[r] \in Calls \cup {None}
        /\ \/ req'[r] = req[r] /\ ~Active(r)
           \/ req[r] # None /\ req'[r] # None /\ req'[r].at = "gone" /\ req'[r].op = req[r].op
  <2> TAKE r \in Requests
  <2>1. req[r] \in Calls \cup {None} /\ 1 \in 1..NumFrames + 1
    BY LabelConstants DEF StoreInv, StoreTypeOK
  <2>2. CASE Active(r)
    <3> DEFINE new == [[[req[r] EXCEPT !.at = "gone"] EXCEPT !.data = None] EXCEPT !.next = 1]
    <3>1. req[r] \in Calls /\ req[r] # None
      BY <2>1, <2>2 DEF Active
    <3>2. new \in Calls /\ new.at = "gone" /\ new.op = req[r].op
      BY <2>1, <3>1 DEF Calls, Steps
    <3>3. req'[r] = new
      BY <1>1, <2>2
    <3> HIDE DEF new
    <3> QED
      BY <3>1, <3>2, <3>3, StoreNames
  <2>3. CASE ~Active(r)
    BY <1>1, <2>1, <2>3
  <2> QED
    BY <2>2, <2>3
<1>3. \A s \in Stems : Saving(s)' = {} /\ Extracting(s)' = {} /\ Serving(s)' = {}
  <2>1. \A r \in Requests : ~Active(r) => req[r] = None \/ req[r].at \in {"ok", "error", "gone"}
    BY DEF Active
  <2> QED
    BY <1>2, <2>1 DEF Saving, Extracting, Serving, At
<1>4. \A s \in Stems : SavesOK(s)'
  BY <1>1, <1>3 DEF StoreInv, SavesOK, At, Saving
<1>5. StoreTypeOK'
  <2>1. req' \in [Requests -> Calls \cup {None}]
    BY <1>1, <1>2
  <2>2. saved' \in [Stems -> Documents \cup {None}] /\ spoiled' \subseteq Stems
    BY <1>1 DEF StoreInv, StoreTypeOK
  <2>3. faults' \in 0..MaxFaults
    <3>1. faults \in 0..MaxFaults /\ MaxFaults \in Nat
      BY LabelConstants DEF StoreInv, StoreTypeOK
    <3>2. faults < MaxFaults /\ faults' = faults + 1
      BY <1>1
    <3> QED
      BY <3>1, <3>2
  <2> QED
    BY <1>1, <2>1, <2>2, <2>3 DEF StoreInv, StoreTypeOK
<1>6. \A r \in Requests : CallOK(r)' /\ AnswerOK(r)'
  <2> TAKE r \in Requests
  <2>1. CASE req'[r] = req[r]
    <3>1. spoiled \subseteq spoiled' /\ Growing
      BY <1>1, Unchanging DEF StoreInv
    <3> QED
      BY <1>5, <2>1, <3>1, OtherCalls, OtherAnswers DEF StoreInv
  <2>2. CASE req'[r] # None /\ req'[r].at = "gone"
    BY <2>2 DEF CallOK, AnswerOK, At
  <2> QED
    BY <1>2, <2>1, <2>2
<1>7. CacheOK'
  BY <1>1 DEF StoreInv, CacheOK
<1>8. ASSUME NEW s \in Stems \ spoiled' PROVE ExtractionOK(s)'
  <2>1. Extracting(s) = {} /\ ExtractionOK(s) /\ cache' = cache
    BY <1>1, <1>8 DEF StoreInv
  <2>2. cache[s] = <<>> \/ Full(s)
    BY <2>1 DEF ExtractionOK
  <2> QED
    BY <1>3, <2>1, <2>2 DEF ExtractionOK, Full
<1> QED
  BY <1>4, <1>5, <1>6, <1>7, <1>8 DEF StoreInv

-----------------------------------------------------------------------------
\* A request begins at the step of its kind; LabelingPage sends the same ones.
LEMMA NewCall ==
  ASSUME NEW c \in Clips, NEW i \in Frames, NEW label \in Labels,
         NEW new \in {SaveRequest(c, i, label), LabelsRequest(c), FrameRequest(c, i)}
  PROVE  /\ new \in Calls /\ new.at \in {"load", "look"}
         /\ (new.op = "frame") <=> (new.at = "look")
<1>1. 1 \in Frames /\ 1 \in 1..NumFrames + 1 /\ None \in Labels
  BY LabelConstants DEF Frames, Labels
<1> QED
  BY <1>1 DEF SaveRequest, LabelsRequest, FrameRequest, Request, Calls, Steps

\* Beginning a request and taking its answer away touch no file.
LEMMA AskStore ==
  ASSUME StoreInv, NEW r \in Requests, req[r] = None \/ ~Active(r),
         NEW new \in Calls \cup {None},
         new # None => new.at \in {"load", "look"} /\ ((new.op = "frame") <=> (new.at = "look")),
         req' = [req EXCEPT ![r] = new], UNCHANGED <<doc, cache, faults, saved, spoiled>>
  PROVE  StoreInv'
<1>1. /\ req' \in [Requests -> Calls \cup {None}] /\ req'[r] = new
      /\ \A q \in Requests \ {r} : req'[q] = req[q]
  BY DEF StoreInv, StoreTypeOK
<1>2. StoreTypeOK' /\ CacheOK'
  BY <1>1 DEF StoreInv, StoreTypeOK, CacheOK
<1>3. CallOK(r)' /\ AnswerOK(r)'
  BY <1>1 DEF CallOK, AnswerOK, At
<1>4. \A t \in Stems : r \notin Saving(t) /\ r \notin Saving(t)'
  BY <1>1 DEF Saving, Active
<1>5. \A t \in Stems \ spoiled' : ExtractionOK(t)'
  BY <1>1, NoPicture DEF Active
<1>6. Growing
  BY Unchanging DEF StoreInv
<1> QED
  BY <1>1, <1>2, <1>3, <1>4, <1>5, <1>6, QuietStep

LEMMA ServerStore == StoreInv /\ ServerStep => StoreInv'
<1> SUFFICES ASSUME StoreInv, ServerStep PROVE StoreInv'
  OBVIOUS
<1> QED
  BY LoadStore, TruncateStore, WriteStore, LookStore, CreateStore, FillStore, ListStore,
     ServeStore, ExtractionFailsStore, CrashStore DEF ServerStep

LEMMA StutterStore == StoreInv /\ UNCHANGED storeVars => StoreInv'
<1> SUFFICES ASSUME StoreInv, UNCHANGED storeVars PROVE StoreInv'
  OBVIOUS
<1>1. UNCHANGED <<doc, cache, req, faults, saved, spoiled>>
  BY DEF storeVars
<1>2. \A s \in Stems : SavesOK(s)'
  BY <1>1 DEF StoreInv, SavesOK, Saving, StemOf
<1>3. StoreTypeOK' /\ CacheOK'
  BY <1>1 DEF StoreInv, StoreTypeOK, CacheOK
<1>4. \A r \in Requests : CallOK(r)' /\ AnswerOK(r)'
  BY <1>1, <1>3, Unchanging, OtherCalls, OtherAnswers DEF StoreInv
<1>5. ASSUME NEW s \in Stems \ spoiled' PROVE ExtractionOK(s)'
  <2>1. Extracting(s)' = Extracting(s) /\ Serving(s)' = Serving(s) /\ (Full(s)' <=> Full(s))
    BY <1>1 DEF Extracting, Serving, At, StemOf, Full
  <2>2. ExtractionOK(s) /\ \A r \in Requests : At(r, "fill")' <=> At(r, "fill")
    BY <1>1, <1>5 DEF StoreInv, At
  <2>3. Extracting(s) \subseteq Requests
    BY DEF Extracting
  <2> QED
    BY <1>1, <2>1, <2>2, <2>3 DEF ExtractionOK
<1> QED
  BY <1>2, <1>3, <1>4, <1>5 DEF StoreInv

LEMMA NextStore == StoreInv /\ [StoreNext]_storeVars => StoreInv'
<1> SUFFICES ASSUME StoreInv, [StoreNext]_storeVars PROVE StoreInv'
  OBVIOUS
<1>1. CASE ServerStep
  BY <1>1, ServerStore
<1>2. ASSUME NEW r \in Requests, Ask(r) PROVE StoreInv'
  <2>1. PICK c \in Clips, i \in Frames :
          \E new \in {SaveRequest(c, i, <<c, i>>), SaveRequest(c, i, None),
                      LabelsRequest(c), FrameRequest(c, i)} : req' = [req EXCEPT ![r] = new]
    BY <1>2 DEF Ask
  <2>2. PICK new : /\ req' = [req EXCEPT ![r] = new]
                   /\ new \in {SaveRequest(c, i, <<c, i>>), SaveRequest(c, i, None),
                              LabelsRequest(c), FrameRequest(c, i)}
    BY <2>1
  <2>3. <<c, i>> \in Labels /\ None \in Labels
    BY DEF Labels, Pictures
  <2>4. /\ new \in Calls /\ new.at \in {"load", "look"}
        /\ (new.op = "frame") <=> (new.at = "look")
    BY <2>2, <2>3, NewCall
  <2>5. UNCHANGED <<doc, cache, faults, saved, spoiled>> /\ req[r] = None
    BY <1>2 DEF Ask
  <2> QED
    BY <2>2, <2>4, <2>5, AskStore
<1>3. ASSUME NEW r \in Requests, Answered(r) PROVE StoreInv'
  BY <1>3, AskStore DEF Answered
<1>4. CASE UNCHANGED storeVars
  BY <1>4, StutterStore
<1> QED
  BY <1>1, <1>2, <1>3, <1>4 DEF StoreNext

\* The parts of the invariant stand and fall together.
THEOREM StoreInvHolds == StoreSpec => []StoreInv
BY InitStore, NextStore, PTL DEF StoreSpec

-----------------------------------------------------------------------------
\* load_labels, save_label and ensure_frames_extracted keep the type of the files.
THEOREM StoreTypeCorrect == StoreSpec => []StoreTypeOK
<1>1. StoreInv => StoreTypeOK
  BY DEF StoreInv
<1> QED
  BY StoreInvHolds, <1>1, PTL

\* save_label: a clip's document holds the labels saved so far and is unreadable
\* only between truncation and write, until saves overlap or a crash cuts one.
THEOREM FileAlwaysHoldsWhatWasSaved == StoreSpec => []FileHoldsWhatWasSaved
<1>1. StoreInv => FileHoldsWhatWasSaved
  BY DEF StoreInv, SavesOK, FileHoldsWhatWasSaved
<1> QED
  BY StoreInvHolds, <1>1, PTL

\* api_get_frame over an ffmpeg that creates a picture's file before it fills it:
\* the answer is the frame that was asked for, as long as the stem names one clip,
\* or a cut picture or 404 of a stem of which an extraction was cut short or looked
\* in upon (server.py:86-88 looks for files and not for their extraction).
THEOREM ServedPictureIsAlwaysTheFrame == StoreSpec => []ServedPictureIsTheFrame
<1>1. StoreInv => ServedPictureIsTheFrame
  BY DEF StoreInv, AnswerOK, ServedPictureIsTheFrame
<1> QED
  BY StoreInvHolds, <1>1, PTL

-----------------------------------------------------------------------------
(* The page, for a user who may act at any time, over a server that may fail *)
(* at any time, and with clips of any names and lengths.  What the user may  *)
(* spoil that way is excepted by the histories.                              *)

PageTypeOK ==
  /\ clip \in Clips \/ (clip = None /\ \A r \in Requests : req[r] = None)
  /\ labels \in Documents
  /\ frame \in Frames
  /\ DOMAIN reviewed = Clips /\ reviewed = [c \in Clips |-> reviewed[c]]
  /\ shown \in Pictures \cup {Blank}

\* The canvas waits for a request that is under way.
ImageOK == image # None => image \in Requests /\ req[image] # None /\ req[image].op = "frame"

\* On a clip that is not disturbed one thing is done at a time.
Sole ==
  \A r \in Awaited :
    req[r].clip \notin disturbed \/ clip \notin disturbed =>
      /\ Awaited = {r}
      /\ req[r].clip = clip
      /\ req[r].op = "save" => req[r].frame = frame

Saved(c)   == saved[Stem[c]]
Pending(c) == {r \in Awaited : req[r].clip = c}

\* What the page knows of a clip of which all is answered ...
AtRest(c) ==
  /\ Saved(c) # None
  /\ reviewed[c] = Count(Saved(c))
  /\ clip = c => labels = Saved(c)

\* ... and of the clip of the request that is awaited.
Waiting(r) ==
  LET c == req[r].clip IN
    req[r].at # "gone" =>
      /\ req[r].at # "error" /\ Saved(c) # None
      /\ req[r].op = "labels" =>
           /\ reviewed[c] = Count(Saved(c))
           /\ req[r].at = "ok" => req[r].data = Saved(c)
      /\ req[r].op = "save" =>
           IF req[r].at = "ok" THEN Saved(c) = [labels EXCEPT ![req[r].frame] = req[r].label]
           ELSE reviewed[c] = Count(Saved(c)) /\ labels = Saved(c)

ClipOK(c) ==
  OwnsStem(c) /\ c \notin disturbed =>
    /\ Pending(c) = {} => AtRest(c)
    /\ \A r \in Pending(c) : Waiting(r)

\* x is a label that may be stored for frame i of clip c.
Proper(c, i, x) ==
  OwnsStem(c) /\ i <= NumFrames /\ <<c, i>> \notin hasty => x \in {None, <<c, i>>}

LabelsOK ==
  \A c \in Clips : doc[Stem[c]] \notin Unreadable =>
    \A i \in Frames : Proper(c, i, doc[Stem[c]][i])

SaveOK(r) ==
  req[r] # None /\ req[r].op = "save" =>
    /\ Proper(req[r].clip, req[r].frame, req[r].label)
    /\ req[r].at \in {"truncate", "write"} =>
         \A i \in Frames : Proper(req[r].clip, i, req[r].data[i])

\* The canvas shows the current frame or waits for it.
CanvasOK ==
  /\ clip \in Clips \ disturbed /\ OwnsStem(clip) /\ Stem[clip] \notin spoiled
  /\ frame <= NumFrames
  /\ \A r \in Awaited : req[r].op # "labels"
  => IF image = None THEN shown = <<clip, frame>>
     ELSE req[image].clip = clip /\ req[image].frame = frame

PageInv ==
  /\ StoreInv
  /\ PageTypeOK
  /\ ImageOK
  /\ Sole
  /\ \A c \in Clips : ClipOK(c)
  /\ LabelsOK
  /\ \A r \in Requests : SaveOK(r)
  /\ CanvasOK

-----------------------------------------------------------------------------
\* What is asked of a clip is kept by a step that leaves what is known of it.
LEMMA SameClip ==
  ASSUME NEW c \in Clips, ClipOK(c), Saved(c)' = Saved(c), disturbed \subseteq disturbed',
         Pending(c)' = Pending(c), \A q \in Pending(c) : req'[q] = req[q],
         UNCHANGED <<clip, labels, reviewed>>
  PROVE  ClipOK(c)'
<1>1. OwnsStem(c)' <=> OwnsStem(c)
  BY DEF OwnsStem
<1>2. AtRest(c) => AtRest(c)'
  BY DEF AtRest, Count
<1>3. ASSUME NEW q \in Pending(c), Waiting(q) PROVE Waiting(q)'
  <2>1. req[q].clip = c /\ req'[q] = req[q]
    BY DEF Pending
  <2>2. Count(Saved(c))' = Count(Saved(c))
    BY DEF Count
  <2>3. reviewed'[c] = reviewed[c] /\ labels' = labels
    OBVIOUS
  <2> QED
    BY <1>3, <2>1, <2>2, <2>3 DEF Waiting
<1> QED
  BY <1>1, <1>2, <1>3 DEF ClipOK

\* What is left to show for a step of the server: what it makes of its request.
LEMMA ServerStepPage ==
  ASSUME PageInv, StoreInv', NEW r \in Requests, req[r] # None, req'[r] # None,
         \A q \in Requests \ {r} : req'[q] = req[q],
         req'[r].op = req[r].op, req'[r].clip = req[r].clip, req'[r].frame = req[r].frame,
         req'[r].label = req[r].label, UNCHANGED pageVars, spoiled \subseteq spoiled',
         \A t \in Stems \ {StemOf(r)} : saved'[t] = saved[t],
         ClipOK(req[r].clip)', LabelsOK', SaveOK(r)'
  PROVE  PageInv'
<1>1. UNCHANGED <<clip, labels, frame, reviewed, shown, image, disturbed, hasty>>
  BY DEF pageVars
<1>2. \A q \in Requests :
        /\ req'[q] # None <=> req[q] # None
        /\ req[q] # None => /\ req'[q].op = req[q].op /\ req'[q].clip = req[q].clip
                            /\ req'[q].frame = req[q].frame
  OBVIOUS
<1>3. Awaited' = Awaited
  BY <1>2 DEF Awaited
<1>4. PageTypeOK' /\ ImageOK'
  BY <1>1, <1>2 DEF PageInv, PageTypeOK, ImageOK
<1>5. Sole'
  BY <1>1, <1>2, <1>3 DEF PageInv, Sole, Awaited
<1>6. ASSUME NEW c \in Clips PROVE ClipOK(c)'
  <2>1. CASE c = req[r].clip
    BY <2>1
  <2>2. CASE c # req[r].clip
    <3>1. CASE OwnsStem(c)
      <4>1. req[r].clip \in Clips
        BY IsCall DEF PageInv, StoreInv, Calls
      <4>2. Stem[c] # StemOf(r) /\ Stem[c] \in Stems
        BY <2>2, <3>1, <4>1 DEF OwnsStem, StemOf, Stems
      <4>3. Saved(c)' = Saved(c)
        BY <4>2 DEF Saved
      <4>4. Pending(c)' = Pending(c) /\ \A q \in Pending(c) : req'[q] = req[q]
        BY <1>2, <1>3, <2>2 DEF Pending, Awaited
      <4> QED
        BY <1>1, <4>3, <4>4, SameClip DEF PageInv
    <3>2. CASE ~OwnsStem(c)
      BY <3>2 DEF ClipOK, OwnsStem
    <3> QED
      BY <3>1, <3>2
  <2> QED
    BY <2>1, <2>2
<1>7. \A q \in Requests \ {r} : SaveOK(q)'
  BY <1>1 DEF PageInv, SaveOK, Proper, OwnsStem
<1>8. CanvasOK'
  <2>1. image # None => req[image] # None /\ image \in Requests
    BY DEF PageInv, ImageOK
  <2>2. image # None => req'[image].clip = req[image].clip /\ req'[image].frame = req[image].frame
    BY <1>2, <2>1
  <2>3. (\A q \in Awaited' : req'[q].op # "labels") => \A q \in Awaited : req[q].op # "labels"
    BY <1>2, <1>3 DEF Awaited
  <2>4. CanvasOK
    BY DEF PageInv
  <2> QED
    BY <1>1, <2>2, <2>3, <2>4 DEF CanvasOK, OwnsStem
<1> QED
  BY <1>4, <1>5, <1>6, <1>7, <1>8 DEF PageInv

\* A request that is awaited for a clip that is not disturbed is the only one.
LEMMA Alone ==
  ASSUME PageInv, NEW r \in Awaited, req[r].clip \notin disturbed
  PROVE  /\ Awaited = {r} /\ Pending(req[r].clip) = {r} /\ clip = req[r].clip
         /\ req[r].op = "save" => req[r].frame = frame
         /\ OwnsStem(clip) => Waiting(r) /\ Saving(Stem[clip]) \subseteq {r}
<1>1. /\ Awaited = {r} /\ clip = req[r].clip /\ (req[r].op = "save" => req[r].frame = frame)
  BY DEF PageInv, Sole
<1>2. Pending(req[r].clip) = {r}
  BY <1>1 DEF Pending
<1>3. clip \in Clips
  BY <1>1, IsCall DEF PageInv, StoreInv, Calls, Awaited
<1>4. OwnsStem(clip) => Waiting(r)
  BY <1>1, <1>2, <1>3 DEF PageInv, ClipOK
<1>5. \A s : Saving(s) \subseteq Awaited
  BY DEF Saving, Awaited
<1> QED
  BY <1>1, <1>2, <1>4, <1>5

\* What is left to show of the clip of a request that the server takes further.
LEMMA SteppedClip ==
  ASSUME PageInv, NEW r \in Requests, req[r] # None, req[r].op # "frame",
         \A q \in Requests \ {r} : req'[q] = req[q], req'[r] # None,
         req'[r].op = req[r].op, req'[r].clip = req[r].clip, UNCHANGED pageVars,
         r \in Awaited /\ req[r].clip \notin disturbed /\ OwnsStem(req[r].clip) => Waiting(r)'
  PROVE  ClipOK(req[r].clip)'
<1>1. r \in Awaited /\ UNCHANGED <<clip, labels, reviewed, disturbed>>
  BY DEF Awaited, pageVars
<1> SUFFICES ASSUME OwnsStem(req[r].clip), req[r].clip \notin disturbed
             PROVE  ClipOK(req[r].clip)'
  BY <1>1 DEF ClipOK, OwnsStem
<1>2. Awaited = {r} /\ Waiting(r)'
  BY <1>1, Alone
<1>3. Awaited' = {r}
  BY <1>1, <1>2 DEF Awaited
<1>4. Pending(req[r].clip)' = {r}
  BY <1>3 DEF Pending
<1> QED
  BY <1>2, <1>4 DEF ClipOK

\* load_labels: on a clip that is not disturbed what is read is what is saved.
LEMMA LoadPage ==
  ASSUME PageInv, NEW r \in Requests, Load(r), UNCHANGED pageVars
  PROVE  PageInv'
<1>0. PICK s \in Stems : s = StemOf(r)
  BY IsCall DEF PageInv, StoreInv, Load, At
<1>1. /\ req[r] # None /\ req[r] \in Calls /\ req[r].at = "load" /\ req[r].op \in {"save", "labels"}
      /\ StoreTypeOK /\ r \in Awaited
  BY IsCall DEF PageInv, StoreInv, CallOK, Load, At, Calls, Awaited
<1>2. PICK c \in Clips : c = req[r].clip /\ Stem[c] = s
  BY <1>0, <1>1 DEF Calls, StemOf
<1>3. /\ UNCHANGED <<doc, cache, faults, spoiled>>
      /\ saved' = IF req[r].op = "save" /\ Saving(s) # {} THEN [saved EXCEPT ![s] = None] ELSE saved
  BY <1>0 DEF Load
<1> DEFINE label == [doc[s] EXCEPT ![req[r].frame] = req[r].label]
<1>4. PICK read : read = label
  OBVIOUS
<1>5. \/ doc[s] \in Unreadable /\ Moved(r, "error", None)
      \/ doc[s] \notin Unreadable /\ req[r].op = "labels" /\ Moved(r, "ok", doc[s])
      \/ doc[s] \notin Unreadable /\ req[r].op = "save" /\ Moved(r, "truncate", read)
  BY <1>0, <1>1, <1>4 DEF Load
<1>6. doc[s] \in Documents \/ doc[s] \in Unreadable
  BY <1>1 DEF StoreTypeOK
<1>7. /\ doc[s] \in Documents => read \in Documents
      /\ doc[s] \in Documents => \A i \in Frames :
           read[i] = IF i = req[r].frame THEN req[r].label ELSE doc[s][i]
  BY <1>1, <1>4 DEF Documents, Calls
<1>8. /\ req'[r] # None /\ req'[r].op = req[r].op /\ req'[r].clip = req[r].clip
      /\ req'[r].frame = req[r].frame /\ req'[r].label = req[r].label
      /\ \A q \in Requests \ {r} : req'[q] = req[q]
      /\ \/ doc[s] \in Unreadable /\ req'[r].at = "error"
         \/ doc[s] \notin Unreadable /\ req[r].op = "labels" /\ req'[r].at = "ok" /\ req'[r].data = doc[s]
         \/ doc[s] \notin Unreadable /\ req[r].op = "save" /\ req'[r].at = "truncate" /\ req'[r].data = read
  <2>1. CASE doc[s] \in Unreadable /\ Moved(r, "error", None)
    BY <1>1, <2>1, MovedCall DEF Steps
  <2>2. CASE doc[s] \notin Unreadable /\ req[r].op = "labels" /\ Moved(r, "ok", doc[s])
    BY <1>1, <1>6, <2>2, MovedCall DEF Steps
  <2>3. CASE doc[s] \notin Unreadable /\ req[r].op = "save" /\ Moved(r, "truncate", read)
    BY <1>1, <1>6, <1>7, <2>3, MovedCall DEF Steps
  <2> QED
    BY <1>5, <2>1, <2>2, <2>3
<1> HIDE DEF label
<1>9. StoreInv'
  BY LoadStore DEF PageInv
<1>10. LabelsOK'
  BY <1>3 DEF PageInv, LabelsOK, Proper, OwnsStem, pageVars
<1>11. SaveOK(r)'
  <2>0. PICK n, x, old : n = req[r].frame /\ x = req[r].label /\ old = doc[s]
    OBVIOUS
  <2>1. Proper(c, n, x)' \/ req[r].op # "save"
    <3>1. Proper(c, n, x) \/ req[r].op # "save"
      BY <1>1, <1>2, <2>0 DEF PageInv, SaveOK
    <3> QED
      BY <3>1 DEF Proper, OwnsStem, pageVars
  <2>2. CASE req'[r].at # "truncate"
    BY <1>2, <1>8, <2>0, <2>1, <2>2 DEF SaveOK
  <2>3. CASE req'[r].at = "truncate"
    <3>1. doc[s] \notin Unreadable /\ req'[r].data = read /\ req[r].op = "save" /\ doc[s] \in Documents
      BY <1>6, <1>8, <2>3
    <3>2. \A i \in Frames : Proper(c, i, old[i])'
      <4>1. \A i \in Frames : Proper(c, i, old[i])
        BY <1>2, <2>0, <3>1 DEF PageInv, LabelsOK
      <4> QED
        BY <4>1 DEF Proper, OwnsStem, pageVars
    <3>3. \A i \in Frames : Proper(c, i, read[i])'
      <4> TAKE i \in Frames
      <4>1. CASE i = req[r].frame
        BY <1>7, <2>0, <2>1, <3>1, <4>1
      <4>2. CASE i # req[r].frame
        BY <1>7, <2>0, <3>1, <3>2, <4>2
      <4> QED
        BY <4>1, <4>2
    <3> QED
      BY <1>2, <1>8, <2>0, <2>1, <2>3, <3>1, <3>3 DEF SaveOK
  <2> QED
    BY <2>2, <2>3
<1>12. ASSUME c \notin disturbed, OwnsStem(c) PROVE Waiting(r)'
  <2>1. Waiting(r) /\ Saving(s) \subseteq {r}
    BY <1>1, <1>2, <1>12, Alone
  <2>2. Saving(s) = {}
    BY <1>1, <2>1 DEF Saving
  <2>3. saved' = saved /\ Saved(c) # None /\ Saved(c) = saved[s]
    BY <1>1, <1>2, <1>3, <2>1, <2>2 DEF Waiting, Saved
  <2>4. doc[s] = saved[s] /\ doc[s] \notin Unreadable
    <3>1. SavesOK(s) /\ saved[s] # None
      BY <2>3 DEF PageInv, StoreInv
    <3>2. doc[s] = saved[s]
      BY <2>2, <3>1 DEF SavesOK
    <3>3. saved[s] \in Documents
      BY <1>1, <3>1 DEF StoreTypeOK
    <3> QED
      BY <3>2, <3>3, StoreNames
  <2>5. Saved(c)' = Saved(c) /\ UNCHANGED <<labels, reviewed>>
    BY <2>3 DEF Saved, pageVars
  <2>6. /\ req'[r].at \in {"ok", "truncate"}
        /\ req'[r].op = "labels" => req'[r].data = Saved(c)
        /\ req'[r].op = "save" => req'[r].at = "truncate"
    BY <1>8, <2>3, <2>4
  <2>7. /\ req[r].op = "labels" => reviewed[c] = Count(Saved(c))
        /\ req[r].op = "save" => reviewed[c] = Count(Saved(c)) /\ labels = Saved(c)
    BY <1>1, <1>2, <2>1 DEF Waiting
  <2> QED
    BY <1>2, <1>8, <2>3, <2>5, <2>6, <2>7 DEF Waiting, Count
<1>13. ClipOK(req[r].clip)'
  BY <1>1, <1>2, <1>8, <1>12, SteppedClip
<1>14. \A t \in Stems \ {s} : saved'[t] = saved[t]
  BY <1>1, <1>3 DEF StoreTypeOK
<1> QED
  BY <1>0, <1>1, <1>3, <1>8, <1>9, <1>10, <1>11, <1>13, <1>14, ServerStepPage

LEMMA TruncatePage ==
  ASSUME PageInv, NEW r \in Requests, Truncate(r), UNCHANGED pageVars
  PROVE  PageInv'
<1>0. PICK s \in Stems : s = StemOf(r)
  BY IsCall DEF PageInv, StoreInv, Truncate, At
<1>1. /\ req[r] # None /\ req[r].at = "truncate" /\ req[r].op = "save" /\ req[r].data \in Documents
      /\ StoreTypeOK /\ r \in Awaited
  BY DEF PageInv, StoreInv, CallOK, Truncate, At, Awaited
<1>2. /\ UNCHANGED <<cache, faults, saved, spoiled>> /\ Moved(r, "write", req[r].data)
      /\ doc' = [doc EXCEPT ![s] = Empty]
  BY <1>0 DEF Truncate
<1>3. /\ req'[r] # None /\ req'[r].op = req[r].op /\ req'[r].clip = req[r].clip
      /\ req'[r].frame = req[r].frame /\ req'[r].label = req[r].label
      /\ req'[r].data = req[r].data /\ req'[r].at = "write"
      /\ \A q \in Requests \ {r} : req'[q] = req[q]
  BY <1>1, <1>2, MovedCall DEF Steps
<1>4. StoreInv'
  BY TruncateStore DEF PageInv
<1>5. LabelsOK'
  <2> SUFFICES ASSUME NEW c \in Clips, doc'[Stem[c]] \notin Unreadable, NEW i \in Frames
               PROVE  Proper(c, i, doc[Stem[c]][i])'
    BY DEF LabelsOK
  <2>1. Stem[c] \in Stems /\ doc'[s] = Empty /\ \A t \in Stems \ {s} : doc'[t] = doc[t]
    BY <1>1, <1>2 DEF StoreTypeOK, Stems
  <2>2. doc'[Stem[c]] = doc[Stem[c]]
    BY <2>1 DEF Unreadable
  <2> QED
    BY <2>2 DEF PageInv, LabelsOK, Proper, OwnsStem, pageVars
<1>6. SaveOK(r)'
  BY <1>1, <1>3 DEF PageInv, SaveOK, Proper, OwnsStem, pageVars
<1>7. ASSUME req[r].clip \notin disturbed, OwnsStem(req[r].clip) PROVE Waiting(r)'
  <2>1. Waiting(r)
    BY <1>1, <1>7, Alone
  <2>2. Saved(req[r].clip)' = Saved(req[r].clip) /\ UNCHANGED <<labels, reviewed>>
    BY <1>2, <1>3 DEF Saved, pageVars
  <2> QED
    BY <1>1, <1>3, <2>1, <2>2 DEF Waiting, Count
<1>8. ClipOK(req[r].clip)'
  BY <1>1, <1>3, <1>7, SteppedClip
<1> QED
  BY <1>1, <1>2, <1>3, <1>4, <1>5, <1>6, <1>8, ServerStepPage

\* What is written for a clip is proper for that clip, if the stem is its own.
LEMMA WritePage ==
  ASSUME PageInv, NEW r \in Requests, Write(r), UNCHANGED pageVars
  PROVE  PageInv'
<1>0. PICK s \in Stems : s = StemOf(r)
  BY IsCall DEF PageInv, StoreInv, Write, At
<1>1. /\ req[r] # None /\ req[r] \in Calls /\ req[r].at = "write" /\ req[r].op = "save"
      /\ req[r].data \in Documents /\ StoreTypeOK /\ r \in Awaited
  BY IsCall DEF PageInv, StoreInv, CallOK, Write, At, Awaited
<1>2. PICK c \in Clips : c = req[r].clip /\ Stem[c] = s
  BY <1>0, <1>1 DEF Calls, StemOf
<1>3. PICK result \in {req[r].data, Torn} : doc' = [doc EXCEPT ![s] = result]
  BY <1>0 DEF Write
<1>4. /\ UNCHANGED <<cache, faults, spoiled>> /\ Moved(r, "ok", None)
      /\ saved' = IF saved[s] = None THEN saved
                  ELSE [saved EXCEPT ![s][req[r].frame] = req[r].label]
  BY <1>0 DEF Write
<1>5. /\ req'[r] # None /\ req'[r].op = req[r].op /\ req'[r].clip = req[r].clip
      /\ req'[r].frame = req[r].frame /\ req'[r].label = req[r].label
      /\ req'[r].at = "ok" /\ \A q \in Requests \ {r} : req'[q] = req[q]
  BY <1>1, <1>4, MovedCall DEF Steps
<1>6. /\ saved[s] # None =>
           /\ saved'[s] = [saved[s] EXCEPT ![req[r].frame] = req[r].label]
           /\ saved'[s] \in Documents
      /\ \A t \in Stems \ {s} : saved'[t] = saved[t]
  <2>1. saved \in [Stems -> Documents \cup {None}]
    BY <1>1 DEF StoreTypeOK
  <2>2. saved[s] # None => saved' = [saved EXCEPT ![s] =
                                      [saved[s] EXCEPT ![req[r].frame] = req[r].label]]
    BY <1>4, <2>1
  <2>3. saved[s] # None => [saved[s] EXCEPT ![req[r].frame] = req[r].label] \in Documents
    BY <1>1, <2>1 DEF Documents, Calls
  <2> QED
    BY <1>4, <2>1, <2>2, <2>3
<1>7. StoreInv'
  BY WriteStore DEF PageInv
<1>8. LabelsOK'
  <2> SUFFICES ASSUME NEW d \in Clips, doc'[Stem[d]] \notin Unreadable, NEW i \in Frames,
                      OwnsStem(d)
               PROVE  Proper(d, i, doc[Stem[d]][i])'
    BY DEF LabelsOK, Proper, OwnsStem
  <2>1. Stem[d] \in Stems /\ doc'[s] = result /\ \A t \in Stems \ {s} : doc'[t] = doc[t]
    BY <1>1, <1>3 DEF StoreTypeOK, Stems
  <2>2. CASE Stem[d] # s
    BY <2>1, <2>2 DEF PageInv, LabelsOK, Proper, OwnsStem, pageVars
  <2>3. CASE Stem[d] = s
    <3>1. d = c /\ doc'[Stem[d]] = req[r].data
      BY <1>2, <2>1, <2>3 DEF OwnsStem, Unreadable
    <3>2. Proper(c, i, req[r].data[i])
      BY <1>1, <1>2 DEF PageInv, SaveOK
    <3> QED
      BY <3>1, <3>2 DEF Proper, OwnsStem, pageVars
  <2> QED
    BY <2>2, <2>3
<1>9. SaveOK(r)'
  BY <1>1, <1>5 DEF PageInv, SaveOK, Proper, OwnsStem, pageVars
<1>10. ASSUME c \notin disturbed, OwnsStem(c) PROVE Waiting(r)'
  <2>1. Waiting(r)
    BY <1>1, <1>2, <1>10, Alone
  <2>2. Saved(c) # None /\ labels = Saved(c) /\ Saved(c) = saved[s]
    BY <1>1, <1>2, <2>1 DEF Waiting, Saved
  <2>3. Saved(c)' = [labels EXCEPT ![req[r].frame] = req[r].label] /\ Saved(c)' # None
    BY <1>2, <1>6, <2>2, StoreNames DEF Saved
  <2>4. labels' = labels
    BY DEF pageVars
  <2> QED
    BY <1>1, <1>2, <1>5, <2>3, <2>4 DEF Waiting
<1>11. ClipOK(req[r].clip)'
  BY <1>1, <1>2, <1>5, <1>10, SteppedClip
<1> QED
  BY <1>0, <1>1, <1>4, <1>5, <1>6, <1>7, <1>8, <1>9, <1>11, ServerStepPage

\* What is done for a picture changes nothing that is known of labels.
LEMMA PictureStep ==
  ASSUME PageInv, StoreInv', NEW r \in Requests, req[r] # None, req'[r] # None,
         \A q \in Requests \ {r} : req'[q] = req[q], req[r].op = "frame",
         req'[r].op = req[r].op, req'[r].clip = req[r].clip, req'[r].frame = req[r].frame,
         req'[r].label = req[r].label, UNCHANGED pageVars, spoiled \subseteq spoiled',
         UNCHANGED <<doc, saved>>
  PROVE  PageInv'
<1>1. LabelsOK' /\ SaveOK(r)'
  BY DEF PageInv, LabelsOK, SaveOK, Proper, OwnsStem, pageVars
<1>2. PICK c \in Clips : c = req[r].clip
  BY IsCall DEF PageInv, StoreInv, Calls
<1>3. ClipOK(c)'
  <2>1. Pending(c)' = Pending(c) /\ \A q \in Pending(c) : req'[q] = req[q]
    BY DEF Pending, Awaited
  <2> QED
    BY <2>1, SameClip DEF PageInv, Saved, pageVars
<1> QED
  BY <1>1, <1>2, <1>3, ServerStepPage

LEMMA PicturesPage ==
  ASSUME PageInv, NEW r \in Requests, UNCHANGED pageVars,
         \/ LookInCache(r) \/ CreateFile(r) \/ FillFile(r) \/ ListExtracted(r) \/ ServeFile(r)
         \/ ExtractionFails(r)
  PROVE  PageInv'
<1>1. StoreInv'
  BY LookStore, CreateStore, FillStore, ListStore, ServeStore, ExtractionFailsStore DEF PageInv
<1>2. /\ req[r] # None /\ req[r] \in Calls /\ req[r].op = "frame" /\ StoreTypeOK
      /\ req \in [Requests -> Calls \cup {None}]
  BY IsCall DEF PageInv, StoreInv, StoreTypeOK, CallOK, At, Calls, LookInCache, CreateFile,
                FillFile, ListExtracted, ServeFile, ExtractionFails
<1>3. UNCHANGED <<doc, saved>> /\ spoiled \subseteq spoiled'
  BY DEF LookInCache, CreateFile, FillFile, ListExtracted, ServeFile, ExtractionFails, Spoil
<1>4. /\ req'[r] # None /\ req'[r].op = req[r].op /\ req'[r].clip = req[r].clip
      /\ req'[r].frame = req[r].frame /\ req'[r].label = req[r].label
      /\ \A q \in Requests \ {r} : req'[q] = req[q]
  <2>1. ASSUME NEW new \in Calls, req' = [req EXCEPT ![r] = new], new.op = req[r].op,
               new.clip = req[r].clip, new.frame = req[r].frame, new.label = req[r].label
        PROVE  /\ req'[r] # None /\ req'[r].op = req[r].op /\ req'[r].clip = req[r].clip
               /\ req'[r].frame = req[r].frame /\ req'[r].label = req[r].label
               /\ \A q \in Requests \ {r} : req'[q] = req[q]
    BY <1>2, <2>1, StoreNames
  <2>2. CASE CreateFile(r)
    <3>1. PICK new : new = [req[r] EXCEPT !.at = "fill"]
      OBVIOUS
    <3>2. /\ new \in Calls /\ new.op = req[r].op
          /\ new.clip = req[r].clip /\ new.frame = req[r].frame /\ new.label = req[r].label
      BY <1>2, <3>1 DEF Calls, Steps
    <3>3. req' = [req EXCEPT ![r] = new]
      BY <2>2, <3>1 DEF CreateFile
    <3> QED
      BY <2>1, <3>2, <3>3
  <2>3. CASE FillFile(r)
    <3>1. PICK new : new = [[req[r] EXCEPT !.at = "extract"] EXCEPT !.next = req[r].next + 1]
      OBVIOUS
    <3>2. req[r].next + 1 \in 1..NumFrames + 1
      BY <1>2, <2>3, LabelConstants DEF PageInv, StoreInv, CallOK, FillFile, At, Calls
    <3>3. /\ new \in Calls /\ new.op = req[r].op
          /\ new.clip = req[r].clip /\ new.frame = req[r].frame /\ new.label = req[r].label
      BY <1>2, <3>1, <3>2 DEF Calls, Steps
    <3>4. req' = [req EXCEPT ![r] = new]
      BY <1>2, <2>3, <3>1 DEF FillFile
    <3> QED
      BY <2>1, <3>3, <3>4
  <2>4. CASE ServeFile(r)
    <3>1. PICK picture \in Pictures \cup {Blank} : Moved(r, "ok", picture)
      BY <2>4, Served DEF PageInv
    <3> QED
      BY <1>2, <3>1, MovedCall DEF Steps
  <2>5. CASE LookInCache(r) \/ ListExtracted(r) \/ ExtractionFails(r)
    <3>1. PICK step \in {"error", "serve", "extract"} : Moved(r, step, None)
      BY <2>5 DEF LookInCache, ListExtracted, ExtractionFails, PickFile
    <3> QED
      BY <1>2, <3>1, MovedCall DEF Steps
  <2> QED
    BY <2>2, <2>3, <2>4, <2>5
<1> QED
  BY <1>1, <1>2, <1>3, <1>4, PictureStep

\* What a crash makes of the requests and of the labels saved.
LEMMA Crashed ==
  ASSUME StoreInv, Crash
  PROVE  /\ UNCHANGED <<doc, cache>> /\ spoiled \subseteq spoiled'
         /\ \A r \in Requests :
              /\ ~Active(r) => req'[r] = req[r]
              /\ Active(r) => /\ req'[r].at = "gone" /\ req'[r].op = req[r].op
                              /\ req'[r].clip = req[r].clip /\ req'[r].frame = req[r].frame
                              /\ req'[r].label = req[r].label
                              /\ req[r] # None /\ req'[r] # None
         /\ \A s \in Stems : (\A r \in Saving(s) : ~At(r, "write")) => saved'[s] = saved[s]
<1>1. /\ UNCHANGED <<doc, cache>>
      /\ req' = [r \in Requests |->
                   IF Active(r)
                   THEN [[[req[r] EXCEPT !.at = "gone"] EXCEPT !.data = None] EXCEPT !.next = 1]
                   ELSE req[r]]
      /\ saved' = [s \in Stems |-> IF \E r \in Saving(s) : At(r, "write") THEN None ELSE saved[s]]
      /\ spoiled' = spoiled \cup {s \in Stems : Extracting(s) # {}}
  BY DEF Crash
<1>2. spoiled \subseteq spoiled'
  BY <1>1
<1>3. ASSUME NEW r \in Requests
      PROVE  /\ ~Active(r) => req'[r] = req[r]
             /\ Active(r) => /\ req'[r].at = "gone" /\ req'[r].op = req[r].op
                             /\ req'[r].clip = req[r].clip /\ req'[r].frame = req[r].frame
                             /\ req'[r].label = req[r].label
                             /\ req[r] # None /\ req'[r] # None
  <2>1. CASE Active(r)
    <3> DEFINE new == [[[req[r] EXCEPT !.at = "gone"] EXCEPT !.data = None] EXCEPT !.next = 1]
    <3>1. req[r] \in Calls /\ req[r] # None /\ 1 \in 1..NumFrames + 1
      BY <2>1, LabelConstants DEF Active, StoreInv, StoreTypeOK
    <3>2. /\ new.at = "gone" /\ new.op = req[r].op /\ new.clip = req[r].clip
          /\ new.frame = req[r].frame /\ new.label = req[r].label /\ new \in Calls
      BY <3>1 DEF Calls, Steps
    <3>3. req'[r] = new
      BY <1>1, <2>1
    <3> HIDE DEF new
    <3> QED
      BY <2>1, <3>1, <3>2, <3>3, StoreNames
  <2>2. CASE ~Active(r)
    BY <1>1, <2>2
  <2> QED
    BY <2>1, <2>2
<1>4. \A s \in Stems : (\A r \in Saving(s) : ~At(r, "write")) => saved'[s] = saved[s]
  BY <1>1
<1> QED
  BY <1>1, <1>2, <1>3, <1>4

\* A crash: of a save it cuts, and of all else it ends, no answer comes.
LEMMA CrashPage ==
  ASSUME PageInv, Crash, UNCHANGED pageVars
  PROVE  PageInv'
<1>1. StoreInv' /\ StoreTypeOK
  BY CrashStore DEF PageInv, StoreInv
<1>2. /\ UNCHANGED <<doc, cache>> /\ spoiled \subseteq spoiled'
      /\ \A s \in Stems : (\A r \in Saving(s) : ~At(r, "write")) => saved'[s] = saved[s]
  BY Crashed DEF PageInv
<1>3. UNCHANGED <<clip, labels, frame, reviewed, shown, image, disturbed, hasty>>
  BY DEF pageVars
<1>4. ASSUME NEW r \in Requests
      PROVE  /\ ~Active(r) => req'[r] = req[r]
             /\ Active(r) => /\ req'[r].at = "gone" /\ req'[r].op = req[r].op /\ req'[r].clip = req[r].clip
                             /\ req'[r].frame = req[r].frame /\ req'[r].label = req[r].label
                             /\ req[r] # None /\ req'[r] # None
  BY Crashed DEF PageInv
<1>5. \A r \in Requests :
        /\ req'[r] # None <=> req[r] # None
        /\ req[r] # None => /\ req'[r].op = req[r].op /\ req'[r].clip = req[r].clip
                            /\ req'[r].frame = req[r].frame /\ req'[r].label = req[r].label
                            /\ req'[r].at \in {req[r].at, "gone"}
  BY <1>4
<1>6. Awaited' = Awaited /\ \A c : Pending(c)' = Pending(c)
  BY <1>5 DEF Awaited, Pending
<1>7. PageTypeOK' /\ ImageOK' /\ Sole'
  <2>1. PageTypeOK' /\ ImageOK'
    BY <1>3, <1>5 DEF PageInv, PageTypeOK, ImageOK
  <2>2. Sole'
    BY <1>3, <1>5, <1>6 DEF PageInv, Sole, Awaited
  <2> QED
    BY <2>1, <2>2
<1>8. ASSUME NEW c \in Clips PROVE ClipOK(c)'
  <2> SUFFICES ASSUME OwnsStem(c), c \notin disturbed
               PROVE  (Pending(c) = {} => AtRest(c)') /\ \A r \in Pending(c) : Waiting(r)'
    BY <1>3, <1>6 DEF ClipOK, OwnsStem
  <2>1. Stem[c] \in Stems /\ Saving(Stem[c]) \subseteq Pending(c)
    <3>1. \A r \in Saving(Stem[c]) : r \in Awaited /\ req[r].clip \in Clips /\ Stem[req[r].clip] = Stem[c]
      BY <1>1 DEF Saving, Awaited, StemOf, StoreTypeOK, Calls
    <3> QED
      BY <3>1 DEF Stems, Pending, OwnsStem
  <2>2. (\A r \in Saving(Stem[c]) : ~At(r, "write")) => Saved(c)' = Saved(c)
    BY <1>2, <2>1 DEF Saved
  <2>3. Pending(c) = {} => AtRest(c)'
    <3> SUFFICES ASSUME Pending(c) = {}
                 PROVE  AtRest(c)'
      OBVIOUS
    <3>1. AtRest(c) /\ Saved(c)' = Saved(c)
      BY <2>1, <2>2 DEF PageInv, ClipOK
    <3> QED
      BY <1>3, <3>1 DEF AtRest, Count
  <2>4. ASSUME NEW r \in Pending(c) PROVE Waiting(r)'
    <3>1. r \in Awaited /\ r \in Requests /\ req[r].clip = c /\ Waiting(r) /\ req[r] # None
      BY DEF Pending, Awaited, PageInv, ClipOK
    <3>2. CASE Active(r)
      BY <1>4, <3>1, <3>2 DEF Waiting
    <3>3. CASE ~Active(r)
      <4>1. Pending(c) = {r} /\ ~At(r, "write") /\ req'[r] = req[r]
        BY <1>4, <3>1, <3>3, Alone DEF Active, At
      <4>2. Saved(c)' = Saved(c) /\ Count(Saved(c))' = Count(Saved(c))
        BY <2>1, <2>2, <4>1 DEF Count
      <4> QED
        BY <1>3, <3>1, <4>1, <4>2 DEF Waiting
    <3> QED
      BY <3>2, <3>3
  <2> QED
    BY <2>3, <2>4
<1>9. LabelsOK'
  BY <1>2, <1>3 DEF PageInv, LabelsOK, Proper, OwnsStem
<1>10. ASSUME NEW r \in Requests PROVE SaveOK(r)'
  <2>1. SaveOK(r)
    BY DEF PageInv
  <2>2. CASE Active(r)
    BY <1>3, <1>4, <2>1, <2>2 DEF SaveOK, Proper, OwnsStem
  <2>3. CASE ~Active(r)
    BY <1>3, <1>4, <2>1, <2>3 DEF SaveOK, Proper, OwnsStem
  <2> QED
    BY <2>2, <2>3
<1>11. CanvasOK'
  <2>1. image # None => req[image] # None /\ image \in Requests
    BY DEF PageInv, ImageOK
  <2>2. image # None => req'[image].clip = req[image].clip /\ req'[image].frame = req[image].frame
    BY <1>5, <2>1
  <2>3. (\A q \in Awaited' : req'[q].op # "labels") => \A q \in Awaited : req[q].op # "labels"
    BY <1>5, <1>6 DEF Awaited
  <2>4. CanvasOK
    BY DEF PageInv
  <2> QED
    BY <1>2, <1>3, <2>2, <2>3, <2>4 DEF CanvasOK, OwnsStem
<1> QED
  BY <1>1, <1>7, <1>8, <1>9, <1>10, <1>11 DEF PageInv

LEMMA ServerPage == PageInv /\ ServerStep /\ UNCHANGED pageVars => PageInv'
<1> SUFFICES ASSUME PageInv, ServerStep, UNCHANGED pageVars PROVE PageInv'
  OBVIOUS
<1> QED
  BY LoadPage, TruncatePage, WritePage, PicturesPage, CrashPage DEF ServerStep

-----------------------------------------------------------------------------
\* The requests that the page sends.
LEMMA Sent ==
  ASSUME NEW c \in Clips, NEW i \in Frames, NEW label \in Labels,
         NEW new \in {SaveRequest(c, i, label), LabelsRequest(c), FrameRequest(c, i)}
  PROVE  /\ new \in Calls /\ new # None /\ new.at \in {"load", "look"}
         /\ (new.op = "frame") <=> (new.at = "look")
         /\ new.clip = c
         /\ new = SaveRequest(c, i, label) => new.op = "save" /\ new.frame = i /\ new.label = label
         /\ new = LabelsRequest(c) => new.op = "labels"
         /\ new = FrameRequest(c, i) => new.op = "frame" /\ new.frame = i
<1>1. new \in Calls /\ new.at \in {"load", "look"} /\ ((new.op = "frame") <=> (new.at = "look"))
  BY NewCall
<1>2. new # None
  BY <1>1, StoreNames
<1> QED
  BY <1>1, <1>2 DEF SaveRequest, LabelsRequest, FrameRequest, Request

\* The request that a handler leaves behind, if it leaves one.
Begins(new) == new # None => /\ new \in Calls /\ new.at \in {"load", "look"}
                             /\ (new.op = "frame") <=> (new.at = "look")

\* What Send does to the requests.
LEMMA SentCall ==
  ASSUME PageInv, NEW r \in Requests, NEW new, Begins(new), Send(r, new)
  PROVE  req'[r] = new /\ \A q \in Requests \ {r} : req'[q] = req[q]
BY DEF PageInv, StoreInv, StoreTypeOK, Send

\* What is left to show for a handler that runs up to its next await or its end.
LEMMA HandlerStep ==
  ASSUME PageInv, NEW r \in Requests, req[r] = None \/ Done(r),
         NEW new, Begins(new), Send(r, new), UNCHANGED Store,
         hasty \subseteq hasty', PageTypeOK', ImageOK', Sole',
         \A c \in Clips : ClipOK(c)', SaveOK(r)', CanvasOK'
  PROVE  PageInv'
<1>1. UNCHANGED <<doc, cache, faults, saved, spoiled>> /\ req' = [req EXCEPT ![r] = new]
  BY DEF Store, Send
<1>2. StoreInv'
  <2>1. new \in Calls \cup {None}
    BY DEF Begins
  <2> QED
    BY <1>1, <2>1, AskStore DEF PageInv, Done, Begins
<1>3. \A c, i, x : Proper(c, i, x) => Proper(c, i, x)'
  BY DEF Proper, OwnsStem
<1>4. LabelsOK'
  <2>1. \A c \in Clips, i \in Frames : doc[Stem[c]] \notin Unreadable => Proper(c, i, doc[Stem[c]][i])
    BY DEF PageInv, LabelsOK
  <2>2. PICK old : old = doc
    OBVIOUS
  <2>3. \A c \in Clips, i \in Frames : old[Stem[c]] \notin Unreadable => Proper(c, i, old[Stem[c]][i])'
    BY <1>3, <2>1, <2>2
  <2> QED
    BY <1>1, <2>2, <2>3 DEF LabelsOK
<1>5. ASSUME NEW q \in Requests \ {r} PROVE SaveOK(q)'
  <2>1. PICK call : call = req[q] /\ call = req'[q]
    BY SentCall
  <2>2. call # None /\ call.op = "save" =>
          /\ Proper(call.clip, call.frame, call.label)
          /\ call.at \in {"truncate", "write"} => \A i \in Frames : Proper(call.clip, i, call.data[i])
    BY <2>1 DEF PageInv, SaveOK
  <2>3. call # None /\ call.op = "save" =>
          /\ Proper(call.clip, call.frame, call.label)'
          /\ call.at \in {"truncate", "write"} => \A i \in Frames : Proper(call.clip, i, call.data[i])'
    BY <1>3, <2>2
  <2> QED
    BY <2>1, <2>3 DEF SaveOK
<1> QED
  BY <1>2, <1>4, <1>5 DEF PageInv

\* Whatever the user does next on a clip, if all is answered it is the only thing
\* that is done there; and if not the clips it concerns are disturbed.
LEMMA ActPage ==
  ASSUME PageInv, NEW r \in Requests, NEW c \in Clips, Act(r, c), NEW new, Begins(new), new # None,
         Send(r, new), new.clip = c, clip' = c,
         new.op = "save" => c = clip /\ new.frame = frame',
         new.op # "labels" => c = clip,
         UNCHANGED <<labels, reviewed>>, UNCHANGED Store
  PROVE  Sole' /\ \A d \in Clips : ClipOK(d)'
<1>1. /\ req[r] = None /\ req'[r] = new /\ \A q \in Requests \ {r} : req'[q] = req[q]
      /\ new \in Calls /\ new.at \in {"load", "look"} /\ (new.op = "frame" <=> new.at = "look")
  BY SentCall DEF Act, Begins
<1>2. saved' = saved /\ \A d : Saved(d)' = Saved(d) /\ Count(Saved(d))' = Count(Saved(d))
  BY DEF Store, Saved, Count
<1>3. disturbed' = IF Awaited = {} THEN disturbed
                   ELSE disturbed \cup {clip, c} \cup {req[q].clip : q \in Awaited}
  BY DEF Act
<1>4. Awaited' \subseteq Awaited \cup {r} /\ r \notin Awaited
  BY <1>1 DEF Awaited
<1>5. r \in Awaited' => new.op \in {"save", "labels"}
  BY <1>1 DEF Awaited, Calls
<1>6. CASE Awaited = {}
  <2>1. Awaited' \subseteq {r} /\ disturbed' = disturbed
    BY <1>3, <1>4, <1>6
  <2>2. Sole'
    BY <1>1, <2>1 DEF Sole
  <2>3. ASSUME NEW d \in Clips PROVE ClipOK(d)'
    <3> SUFFICES ASSUME OwnsStem(d), d \notin disturbed
                 PROVE  (Pending(d)' = {} => AtRest(d)') /\ \A q \in Pending(d)' : Waiting(q)'
      BY <2>1 DEF ClipOK, OwnsStem
    <3>1. AtRest(d)
      BY <1>6 DEF PageInv, ClipOK, Pending
    <3>2. Pending(d)' = {} => AtRest(d)'
      <4> SUFFICES ASSUME Pending(d)' = {}
                   PROVE  AtRest(d)'
        OBVIOUS
      <4>1. c = d => c = clip
        <5>1. c = d => new.op = "frame"
          BY <1>1 DEF Pending, Awaited
        <5> QED
          BY <5>1
      <4> QED
        BY <1>2, <3>1, <4>1 DEF AtRest
    <3>3. ASSUME NEW q \in Pending(d)' PROVE Waiting(q)'
      <4>1. q = r /\ c = d /\ req'[q] = new /\ new.op \in {"save", "labels"} /\ new.at = "load"
        BY <1>1, <1>5, <2>1 DEF Pending
      <4>2. reviewed'[c] = Count(Saved(c))' /\ Saved(c)' # None
        BY <1>2, <3>1, <4>1 DEF AtRest
      <4>3. new.op = "save" => labels' = Saved(c)'
        BY <1>2, <3>1, <4>1 DEF AtRest
      <4> QED
        BY <4>1, <4>2, <4>3 DEF Waiting
    <3> QED
      BY <3>2, <3>3
  <2> QED
    BY <2>2, <2>3
<1>7. CASE Awaited # {}
  <2>1. /\ disturbed \subseteq disturbed' /\ clip \in disturbed' /\ c \in disturbed'
        /\ \A q \in Awaited : req[q].clip \in disturbed'
    BY <1>3, <1>7
  <2>2. Sole'
    <3>1. \A q \in Awaited' : req'[q].clip \in disturbed'
      BY <1>1, <1>4, <2>1 DEF Awaited
    <3> QED
      BY <2>1, <3>1 DEF Sole
  <2>3. ASSUME NEW d \in Clips PROVE ClipOK(d)'
    <3> SUFFICES ASSUME OwnsStem(d), d \notin disturbed'
                 PROVE  (Pending(d)' = {} => AtRest(d)') /\ \A q \in Pending(d)' : Waiting(q)'
      BY DEF ClipOK, OwnsStem
    <3>1. Pending(d) = {} /\ Pending(d)' = {} /\ c # d
      BY <1>1, <1>4, <2>1 DEF Pending, Awaited
    <3>2. AtRest(d)
      BY <2>1, <3>1 DEF PageInv, ClipOK
    <3> QED
      BY <1>2, <3>1, <3>2 DEF AtRest
  <2> QED
    BY <2>2, <2>3
<1> QED
  BY <1>6, <1>7

LEMMA OpenClipPage ==
  ASSUME PageInv, NEW r \in Requests, NEW c \in Clips, OpenClip(r, c)
  PROVE  PageInv'
<1>1. PICK new : new = LabelsRequest(c)
  OBVIOUS
<1>2. 1 \in Frames /\ None \in Labels
  BY LabelConstants DEF Frames, Labels
<1>3. /\ new \in Calls /\ new # None /\ new.at \in {"load", "look"}
      /\ (new.op = "frame") <=> (new.at = "look")
      /\ new.clip = c /\ new.op = "labels"
  BY <1>1, <1>2, Sent
<1>4. /\ Act(r, c) /\ clip' = c /\ frame' = 1 /\ Send(r, new) /\ req[r] = None
      /\ UNCHANGED <<labels, reviewed, shown, image, hasty>> /\ UNCHANGED Store
  BY <1>1 DEF OpenClip, Act
<1>5. Begins(new)
  BY <1>3 DEF Begins
<1>6. req'[r] = new /\ \A q \in Requests \ {r} : req'[q] = req[q]
  BY <1>4, <1>5, SentCall
<1>7. Sole' /\ \A d \in Clips : ClipOK(d)'
  BY <1>3, <1>4, <1>5, ActPage
<1>8. PageTypeOK'
  BY <1>2, <1>4 DEF PageInv, PageTypeOK
<1>9. ImageOK'
  BY <1>4, <1>6 DEF PageInv, ImageOK
<1>10. SaveOK(r)' /\ CanvasOK'
  <2>1. r \in Awaited' /\ req'[r].op = "labels"
    BY <1>3, <1>6 DEF Awaited
  <2> QED
    BY <2>1 DEF SaveOK, CanvasOK
<1> QED
  BY <1>4, <1>5, <1>7, <1>8, <1>9, <1>10, HandlerStep

\* Mark and Clear.  A user who can rely on the canvas labels the frame that the
\* page is at.
LEMMA LabelPage ==
  ASSUME PageInv, NEW r \in Requests, Mark(r) \/ Clear(r)
  PROVE  PageInv'
<1>1. /\ Act(r, clip) /\ req[r] = None /\ clip # None
      /\ UNCHANGED <<clip, labels, frame, reviewed, shown, image>> /\ UNCHANGED Store
  BY DEF Mark, Clear, Act
<1>2. clip \in Clips /\ frame \in Frames /\ shown \in Labels
  BY <1>1 DEF PageInv, PageTypeOK, Labels
<1>3. PICK label \in Labels :
        /\ Send(r, SaveRequest(clip, frame, label))
        /\ label = None \/ (label = shown /\ Mark(r))
  BY <1>2 DEF Mark, Clear, Labels
<1>4. PICK new : new = SaveRequest(clip, frame, label)
  OBVIOUS
<1>5. /\ new \in Calls /\ new # None /\ new.at \in {"load", "look"}
      /\ (new.op = "frame") <=> (new.at = "look")
      /\ new.clip = clip /\ new.op = "save" /\ new.frame = frame /\ new.label = label
  BY <1>2, <1>4, Sent
<1>6. Begins(new) /\ Send(r, new)
  BY <1>3, <1>4, <1>5 DEF Begins
<1>7. new.at = "load" /\ req'[r] = new /\ \A q \in Requests \ {r} : req'[q] = req[q]
  BY <1>5, <1>6, SentCall
<1>8. Sole' /\ \A d \in Clips : ClipOK(d)'
  BY <1>1, <1>2, <1>5, <1>6, ActPage
<1>9. PageTypeOK'
  BY <1>1 DEF PageInv, PageTypeOK
<1>10. ImageOK'
  BY <1>1, <1>7 DEF PageInv, ImageOK
<1>11. /\ hasty \subseteq hasty' /\ (label # None /\ Doubtful => <<clip, frame>> \in hasty')
  <2>1. CASE Mark(r)
    BY <2>1 DEF Mark
  <2>2. CASE Clear(r) /\ ~Mark(r)
    BY <1>3, <2>2 DEF Clear
  <2> QED
    BY <2>1, <2>2
<1>12. SaveOK(r)'
  <2>1. PICK c, i : c = clip /\ i = frame
    OBVIOUS
  <2>2. Proper(c, i, label)'
    <3> SUFFICES ASSUME OwnsStem(c), i <= NumFrames, <<c, i>> \notin hasty', label # None
                 PROVE  label = <<c, i>>
      BY DEF Proper, OwnsStem
    <3>1. ~Doubtful
      BY <1>11, <2>1
    <3>2. image = None /\ Awaited = {} /\ clip \notin disturbed /\ Stem[clip] \notin spoiled
      BY <3>1 DEF Doubtful
    <3>3. shown = <<clip, frame>>
      BY <1>2, <2>1, <3>2 DEF PageInv, CanvasOK
    <3> QED
      BY <1>3, <2>1, <3>3
  <2> QED
    BY <1>5, <1>7, <2>1, <2>2 DEF SaveOK
<1>13. CanvasOK'
  <2>1. /\ spoiled' = spoiled /\ disturbed \subseteq disturbed'
        /\ \A q \in Awaited : q \in Awaited' /\ req'[q] = req[q]
    BY <1>1, <1>7 DEF Store, Act, Awaited
  <2>2. image # None => req'[image] = req[image]
    BY <1>1, <1>7 DEF PageInv, ImageOK
  <2>3. CanvasOK
    BY DEF PageInv
  <2> QED
    BY <1>1, <2>1, <2>2, <2>3 DEF CanvasOK, OwnsStem
<1> QED
  BY <1>1, <1>6, <1>8, <1>9, <1>10, <1>11, <1>12, <1>13, HandlerStep

\* showFrame: from now on the canvas waits for the frame that the page comes to.
LEMMA ShowFramePage ==
  ASSUME PageInv, NEW r \in Requests, req[r] = None \/ Done(r), clip \in Clips, clip' = clip,
         NEW i \in Frames, frame' = i, ShowFrame(r, clip, i), UNCHANGED Store,
         hasty \subseteq hasty', PageTypeOK', Sole', \A c \in Clips : ClipOK(c)'
  PROVE  PageInv'
<1>1. PICK new : new = FrameRequest(clip, i)
  OBVIOUS
<1>2. None \in Labels
  BY DEF Labels
<1>3. /\ new \in Calls /\ new # None /\ new.at \in {"load", "look"}
      /\ (new.op = "frame") <=> (new.at = "look")
      /\ new.clip = clip /\ new.op = "frame" /\ new.frame = i
  BY <1>1, <1>2, Sent
<1>4. Begins(new) /\ Send(r, new) /\ image' = r
  BY <1>1, <1>3 DEF Begins, ShowFrame
<1>5. req'[r] = new
  BY <1>4, SentCall
<1>6. ImageOK' /\ SaveOK(r)'
  BY <1>3, <1>4, <1>5 DEF ImageOK, SaveOK
<1>7. CanvasOK'
  <2>1. image' # None => image' = r /\ req'[r].clip = clip' /\ req'[r].frame = frame'
    BY <1>3, <1>4, <1>5
  <2>2. r # None
    BY PageNames
  <2> QED
    BY <1>4, <2>1, <2>2 DEF CanvasOK
<1> QED
  BY <1>4, <1>6, <1>7, HandlerStep

\* The arrow keys and the space bar.
LEMMA KeyPage ==
  ASSUME PageInv, NEW r \in Requests, KeyNext(r) \/ KeyPrev(r)
  PROVE  PageInv'
<1>1. /\ Act(r, clip) /\ req[r] = None /\ clip # None
      /\ UNCHANGED <<clip, labels, reviewed, shown, hasty>> /\ UNCHANGED Store
  BY DEF KeyNext, KeyPrev, Act
<1>2. clip \in Clips /\ frame \in 1..FrameCount /\ FrameCount \in Nat
  BY <1>1, LabelConstants DEF PageInv, PageTypeOK, Frames
<1>3. PICK i \in Frames : frame' = i /\ ShowFrame(r, clip, i)
  <2>1. CASE KeyNext(r)
    BY <1>2, <2>1 DEF KeyNext, NextFrame, Frames
  <2>2. CASE KeyPrev(r)
    BY <1>2, <2>2 DEF KeyPrev, Frames
  <2> QED
    BY <2>1, <2>2
<1>4. PICK new : new = FrameRequest(clip, i)
  OBVIOUS
<1>5. /\ new \in Calls /\ new # None /\ new.at \in {"load", "look"}
      /\ (new.op = "frame") <=> (new.at = "look")
      /\ new.clip = clip /\ new.op = "frame"
  <2>1. None \in Labels
    BY DEF Labels
  <2> QED
    BY <1>2, <1>4, <2>1, Sent
<1>6. Begins(new) /\ Send(r, new)
  BY <1>3, <1>4, <1>5 DEF Begins, ShowFrame
<1>7. Sole' /\ \A d \in Clips : ClipOK(d)'
  BY <1>1, <1>2, <1>5, <1>6, ActPage
<1>8. PageTypeOK'
  BY <1>1, <1>2, <1>3 DEF PageInv, PageTypeOK
<1> QED
  BY <1>1, <1>2, <1>3, <1>7, <1>8, ShowFramePage

-----------------------------------------------------------------------------
\* What is left to show of the clips for a handler that goes on with the answer
\* about labels or a save: that, if it was not disturbed, all is at rest again.
LEMMA AnsweredPage ==
  ASSUME PageInv, NEW r \in Awaited, Resume(r), NEW new, Begins(new),
         new # None => new.op = "frame", Send(r, new), UNCHANGED clip, UNCHANGED Store,
         \A c \in Clips \ {clip} : reviewed'[c] = reviewed[c],
         req[r].clip \notin disturbed' /\ OwnsStem(clip) => AtRest(clip)'
  PROVE  Sole' /\ \A c \in Clips : ClipOK(c)'
<1>1. /\ r \in Requests /\ req'[r] = new /\ \A q \in Requests \ {r} : req'[q] = req[q]
  BY SentCall DEF Awaited
<1>2. Awaited' = Awaited \ {r} /\ disturbed \subseteq disturbed'
  BY <1>1 DEF Awaited, Resume
<1>3. \A q \in Awaited' : req'[q] = req[q] /\ q # r /\ q \in Awaited
  BY <1>1, <1>2 DEF Awaited
<1>4. Sole'
  <2> SUFFICES ASSUME NEW q \in Awaited', req'[q].clip \notin disturbed' \/ clip' \notin disturbed'
               PROVE  FALSE
    BY DEF Sole
  <2>1. Awaited = {q}
    BY <1>2, <1>3 DEF PageInv, Sole
  <2> QED
    BY <1>3, <2>1
<1>5. ASSUME NEW c \in Clips PROVE ClipOK(c)'
  <2> SUFFICES ASSUME OwnsStem(c), c \notin disturbed'
               PROVE  Pending(c)' = {} /\ AtRest(c)'
    BY DEF ClipOK, OwnsStem
  <2>1. saved' = saved /\ Saved(c)' = Saved(c) /\ Count(Saved(c))' = Count(Saved(c)) /\ c \notin disturbed
    BY <1>2 DEF Store, Saved, Count
  <2>2. \A q \in Pending(c) : q = r
    <3> TAKE q \in Pending(c)
    <3>1. q \in Awaited /\ req[q].clip = c
      BY DEF Pending
    <3>2. Awaited = {q}
      BY <2>1, <3>1, Alone
    <3> QED
      BY <3>2
  <2>3. Pending(c)' = {}
    BY <1>3, <2>2 DEF Pending
  <2>4. CASE c = clip
    <3>1. req[r].clip = clip
      BY <2>1, <2>4 DEF PageInv, Sole
    <3> QED
      BY <2>3, <2>4, <3>1
  <2>5. CASE c # clip
    <3>1. r \notin Pending(c)
      <4> SUFFICES ASSUME r \in Pending(c) PROVE FALSE
        OBVIOUS
      <4>1. req[r].clip = c
        BY DEF Pending
      <4>2. clip = c
        BY <2>1, <4>1, Alone
      <4> QED
        BY <2>5, <4>2
    <3>2. AtRest(c)
      BY <2>1, <2>2, <3>1 DEF PageInv, ClipOK
    <3>3. AtRest(c)'
      BY <2>1, <2>5, <3>2 DEF AtRest
    <3> QED
      BY <2>3, <3>3
  <2> QED
    BY <2>4, <2>5
<1> QED
  BY <1>4, <1>5

LEMMA OpenedPage ==
  ASSUME PageInv, NEW r \in Requests, Opened(r)
  PROVE  PageInv'
<1>1. /\ Resume(r) /\ Done(r) /\ req[r] # None /\ req[r].op = "labels" /\ r \in Awaited
      /\ UNCHANGED <<clip, frame, reviewed, shown, hasty>> /\ UNCHANGED Store
  BY DEF Opened, Resume, Done, Awaited
<1>2. clip \in Clips /\ frame \in Frames
  BY <1>1 DEF PageInv, PageTypeOK
<1>3. ASSUME req[r].clip \notin disturbed' \/ clip \notin disturbed', OwnsStem(clip)
      PROVE  At(r, "ok") /\ req[r].data = Saved(clip) /\ reviewed[clip] = Count(Saved(clip))
             /\ Saved(clip) # None
  <2>1. disturbed' = IF At(r, "gone") THEN disturbed \cup {clip, req[r].clip} ELSE disturbed
    BY <1>1 DEF Resume
  <2>2. ~At(r, "gone") /\ disturbed' = disturbed
    BY <1>3, <2>1
  <2>3. req[r].clip = clip
    BY <1>1, <1>3, <2>2 DEF PageInv, Sole
  <2>4. Waiting(r)
    BY <1>1, <1>3, <2>2, <2>3, Alone
  <2>5. At(r, "ok")
    BY <1>1, <2>2, <2>4 DEF Waiting, At, Done, Active
  <2> QED
    BY <1>1, <2>3, <2>4, <2>5 DEF Waiting, At
<1>4. CASE At(r, "ok")
  <2>1. labels' = req[r].data /\ ShowFrame(r, clip, frame)
    BY <1>4 DEF Opened
  <2>2. PICK new : new = FrameRequest(clip, frame)
    OBVIOUS
  <2>3. Begins(new) /\ new.op = "frame" /\ Send(r, new)
    <3>1. None \in Labels
      BY DEF Labels
    <3>2. /\ new \in Calls /\ new.at \in {"load", "look"}
          /\ (new.op = "frame") <=> (new.at = "look")
          /\ new.op = "frame"
      BY <1>2, <2>2, <3>1, Sent
    <3> QED
      BY <2>1, <2>2, <3>2 DEF Begins, ShowFrame
  <2>4. req[r].clip \notin disturbed' /\ OwnsStem(clip) => AtRest(clip)'
    <3>1. Saved(clip)' = Saved(clip) /\ Count(Saved(clip))' = Count(Saved(clip))
      BY <1>1 DEF Store, Saved, Count
    <3> QED
      BY <1>1, <1>3, <2>1, <3>1 DEF AtRest
  <2>5. Sole' /\ \A c \in Clips : ClipOK(c)'
    BY <1>1, <2>3, <2>4, AnsweredPage
  <2>6. PageTypeOK'
    <3>1. labels' \in Documents
      BY <1>1, <1>4, <2>1 DEF PageInv, StoreInv, CallOK, At
    <3> QED
      BY <1>1, <1>2, <3>1 DEF PageInv, PageTypeOK
  <2> QED
    BY <1>1, <1>2, <2>1, <2>5, <2>6, ShowFramePage
<1>5. CASE ~At(r, "ok")
  <2>1. Send(r, None) /\ Begins(None) /\ UNCHANGED <<labels, image>>
    BY <1>5 DEF Opened, End, Begins
  <2>2. req'[r] = None /\ \A q \in Requests \ {r} : req'[q] = req[q]
    BY <2>1, SentCall
  <2>3. Sole' /\ \A c \in Clips : ClipOK(c)'
    BY <1>1, <1>3, <1>5, <2>1, AnsweredPage
  <2>4. PageTypeOK' /\ ImageOK' /\ SaveOK(r)'
    <3>1. ImageOK'
      BY <1>1, <2>1, <2>2 DEF PageInv, ImageOK
    <3> QED
      BY <1>1, <1>2, <2>1, <2>2, <3>1 DEF PageInv, PageTypeOK, SaveOK
  <2>5. CanvasOK'
    <3>1. clip \in disturbed' \/ ~OwnsStem(clip)
      BY <1>3, <1>5
    <3> QED
      BY <1>1, <3>1 DEF CanvasOK, OwnsStem
  <2> QED
    BY <1>1, <2>1, <2>3, <2>4, <2>5, HandlerStep
<1> QED
  BY <1>4, <1>5

\* A handler that ends without another picture leaves the canvas as it is.
LEMMA EndsPage ==
  ASSUME PageInv, NEW r \in Awaited, Resume(r), req[r].op = "save", End(r), UNCHANGED Store,
         UNCHANGED <<clip, frame, shown, image, hasty>>, labels' \in Documents,
         DOMAIN reviewed' = Clips /\ reviewed' = [c \in Clips |-> reviewed'[c]],
         Sole', \A c \in Clips : ClipOK(c)'
  PROVE  PageInv'
<1>1. /\ r \in Requests /\ Done(r) /\ Send(r, None) /\ Begins(None) /\ req[r] # None
      /\ disturbed \subseteq disturbed'
  BY DEF Awaited, Resume, End, Begins
<1>2. req'[r] = None /\ \A q \in Requests \ {r} : req'[q] = req[q]
  BY <1>1, SentCall
<1>3. PageTypeOK' /\ ImageOK' /\ SaveOK(r)'
  <2>1. clip \in Clips
    BY <1>1 DEF PageInv, PageTypeOK
  <2> QED
    BY <1>2, <2>1 DEF PageInv, PageTypeOK, ImageOK, SaveOK
<1>4. CanvasOK'
  <2>1. (\A q \in Awaited' : req'[q].op # "labels") => \A q \in Awaited : req[q].op # "labels"
    BY <1>2 DEF Awaited
  <2>2. image # None => req'[image] = req[image]
    BY <1>2 DEF PageInv, ImageOK
  <2>3. CanvasOK /\ spoiled' = spoiled
    BY DEF PageInv, Store
  <2> QED
    BY <1>1, <2>1, <2>2, <2>3 DEF CanvasOK, OwnsStem
<1> QED
  BY <1>1, <1>3, <1>4, HandlerStep

LEMMA PostedPage ==
  ASSUME PageInv, NEW r \in Requests, Posted(r)
  PROVE  PageInv'
<1>1. /\ Resume(r) /\ Done(r) /\ req[r] # None /\ req[r].op = "save" /\ r \in Awaited
      /\ UNCHANGED <<clip, shown, hasty>> /\ UNCHANGED Store
  BY DEF Posted, Resume, Done, Awaited
<1>2. clip \in Clips /\ frame \in 1..FrameCount /\ FrameCount \in Nat /\ labels \in Documents
      /\ req[r] \in Calls /\ reviewed = [c \in Clips |-> reviewed[c]] /\ DOMAIN reviewed = Clips
  BY <1>1, IsCall, LabelConstants DEF PageInv, StoreInv, PageTypeOK, Frames
<1>3. disturbed' = IF At(r, "gone") THEN disturbed \cup {clip, req[r].clip} ELSE disturbed
  BY <1>1 DEF Resume
<1>4. CASE At(r, "gone")
  <2>1. End(r) /\ UNCHANGED <<labels, reviewed, frame, image>>
    BY <1>4 DEF Posted
  <2>2. Send(r, None) /\ Begins(None) /\ req[r].clip \in disturbed'
    BY <1>3, <1>4, <2>1 DEF End, Begins
  <2>3. Sole' /\ \A c \in Clips : ClipOK(c)'
    BY <1>1, <2>1, <2>2, AnsweredPage
  <2> QED
    BY <1>1, <1>2, <2>1, <2>3, EndsPage
<1>5. CASE ~At(r, "gone")
  <2>1. /\ labels' = [labels EXCEPT ![frame] = req[r].label]
        /\ reviewed' = [reviewed EXCEPT ![clip] = Count(labels')]
        /\ disturbed' = disturbed
        /\ NextFrame(r) \/ (End(r) /\ UNCHANGED <<frame, image>>)
    BY <1>3, <1>5 DEF Posted
  <2>2. /\ labels' \in Documents /\ reviewed'[clip] = Count(labels')
        /\ \A c \in Clips \ {clip} : reviewed'[c] = reviewed[c]
        /\ DOMAIN reviewed' = Clips /\ reviewed' = [c \in Clips |-> reviewed'[c]]
    BY <1>2, <2>1 DEF Documents, Calls, Frames
  <2>3. req[r].clip \notin disturbed' /\ OwnsStem(clip) => AtRest(clip)'
    <3> SUFFICES ASSUME req[r].clip \notin disturbed, OwnsStem(clip)
                 PROVE  AtRest(clip)'
      BY <2>1
    <3>1. Waiting(r) /\ req[r].clip = clip /\ req[r].frame = frame
      BY <1>1, Alone
    <3>2. req[r].at = "ok"
      BY <1>1, <1>5, <3>1 DEF Waiting, At, Done, Active
    <3>3. Saved(clip) = labels' /\ Saved(clip) # None
      BY <1>1, <2>1, <3>1, <3>2 DEF Waiting
    <3>4. Saved(clip)' = Saved(clip) /\ Count(Saved(clip))' = Count(Saved(clip))
      BY <1>1 DEF Store, Saved, Count
    <3>5. Count(labels') = Count(Saved(clip))
      BY <3>3
    <3> QED
      BY <1>1, <2>2, <3>3, <3>4, <3>5 DEF AtRest
  <2>4. CASE End(r) /\ UNCHANGED <<frame, image>>
    <3>1. Send(r, None) /\ Begins(None)
      BY <2>4 DEF End, Begins
    <3>2. Sole' /\ \A c \in Clips : ClipOK(c)'
      BY <1>1, <2>2, <2>3, <3>1, AnsweredPage
    <3> QED
      BY <1>1, <2>2, <2>4, <3>2, EndsPage
  <2>5. CASE frame < FrameCount /\ frame' = frame + 1 /\ ShowFrame(r, clip, frame + 1)
    <3>1. PICK i \in Frames : frame' = i /\ ShowFrame(r, clip, i)
      BY <1>2, <2>5 DEF Frames
    <3>2. PICK new : new = FrameRequest(clip, i)
      OBVIOUS
    <3>3. Begins(new) /\ new.op = "frame" /\ Send(r, new)
      <4>1. None \in Labels
        BY DEF Labels
      <4>2. /\ new \in Calls /\ new.at \in {"load", "look"}
            /\ (new.op = "frame") <=> (new.at = "look")
            /\ new.op = "frame"
        BY <1>2, <3>2, <4>1, Sent
      <4> QED
        BY <3>1, <3>2, <4>2 DEF Begins, ShowFrame
    <3>4. Sole' /\ \A c \in Clips : ClipOK(c)'
      BY <1>1, <2>2, <2>3, <3>3, AnsweredPage
    <3>5. PageTypeOK'
      BY <1>1, <1>2, <2>2, <3>1 DEF PageInv, PageTypeOK
    <3> QED
      BY <1>1, <1>2, <3>1, <3>4, <3>5, ShowFramePage
  <2> QED
    BY <2>1, <2>4, <2>5 DEF NextFrame
<1> QED
  BY <1>4, <1>5

\* The picture that the canvas waits for is, if it can be relied upon, that of the
\* current frame.
LEMMA PictureLoadedPage ==
  ASSUME PageInv, NEW r \in Requests, PictureLoaded(r)
  PROVE  PageInv'
<1>1. /\ Resume(r) /\ Done(r) /\ req[r] # None /\ req[r].op = "frame" /\ r \notin Awaited
      /\ UNCHANGED <<clip, labels, frame, reviewed, hasty>> /\ UNCHANGED Store
      /\ Send(r, None) /\ Begins(None)
  BY DEF PictureLoaded, Resume, Done, Awaited, End, Begins
<1>2. req'[r] = None /\ \A q \in Requests \ {r} : req'[q] = req[q]
  BY <1>1, SentCall
<1>3. \/ r = image /\ image' = None /\ Draw(r)
      \/ r # image /\ UNCHANGED <<shown, image>>
  BY DEF PictureLoaded
<1>4. /\ disturbed \subseteq disturbed' /\ (At(r, "gone") => clip \in disturbed')
      /\ Awaited' = Awaited /\ \A q \in Awaited : req'[q] = req[q]
  BY <1>1, <1>2 DEF Resume, Awaited
<1>5. Sole'
  BY <1>1, <1>4 DEF PageInv, Sole
<1>6. ASSUME NEW c \in Clips PROVE ClipOK(c)'
  <2>1. Pending(c)' = Pending(c) /\ \A q \in Pending(c) : req'[q] = req[q]
    BY <1>4 DEF Pending
  <2>2. Saved(c)' = Saved(c)
    BY <1>1 DEF Store, Saved
  <2> QED
    BY <1>1, <1>4, <2>1, <2>2, SameClip DEF PageInv
<1>7. PageTypeOK' /\ ImageOK' /\ SaveOK(r)'
  <2>1. clip \in Clips
    BY <1>1 DEF PageInv, PageTypeOK
  <2>2. shown' \in Pictures \cup {Blank}
    <3>1. At(r, "ok") => req[r].data \in Pictures \cup {Blank}
      BY <1>1 DEF PageInv, StoreInv, CallOK, At
    <3> QED
      BY <1>3, <3>1 DEF PageInv, PageTypeOK, Draw
  <2>3. ImageOK'
    BY <1>2, <1>3 DEF PageInv, ImageOK
  <2> QED
    BY <1>1, <1>2, <2>1, <2>2, <2>3 DEF PageInv, PageTypeOK, SaveOK
<1>8. CanvasOK'
  <2> SUFFICES ASSUME clip \in Clips \ disturbed', OwnsStem(clip), Stem[clip] \notin spoiled,
                      frame <= NumFrames, \A q \in Awaited : req[q].op # "labels"
               PROVE  IF image' = None THEN shown' = <<clip, frame>>
                      ELSE req'[image'].clip = clip /\ req'[image'].frame = frame
    BY <1>1, <1>4 DEF CanvasOK, OwnsStem, Store
  <2>1. IF image = None THEN shown = <<clip, frame>>
        ELSE req[image].clip = clip /\ req[image].frame = frame
    BY <1>4 DEF PageInv, CanvasOK
  <2>2. CASE r # image
    <3>1. image # None => req'[image] = req[image]
      BY <1>2, <2>2 DEF PageInv, ImageOK
    <3> QED
      BY <1>3, <2>1, <2>2, <3>1
  <2>3. CASE r = image
    <3>1. image # None /\ req[r].clip = clip /\ req[r].frame = frame
      BY <2>1, <2>3, PageNames
    <3>2. ~At(r, "gone")
      BY <1>4
    <3>3. At(r, "ok") \/ At(r, "error")
      BY <1>1, <3>2 DEF Done, Active, At
    <3>4. At(r, "ok") /\ req[r].data = <<clip, frame>>
      BY <1>1, <3>1, <3>3 DEF PageInv, StoreInv, AnswerOK, StemOf
    <3>5. <<clip, frame>> \in Pictures
      BY DEF PageInv, PageTypeOK, Pictures
    <3>6. shown' = <<clip, frame>>
      BY <1>3, <2>3, <3>4, <3>5, StoreNames DEF Draw
    <3> QED
      BY <1>3, <2>3, <3>6
  <2> QED
    BY <2>2, <2>3
<1> QED
  BY <1>1, <1>5, <1>6, <1>7, <1>8, HandlerStep

-----------------------------------------------------------------------------
LEMMA InitPage == Init => PageInv
<1> SUFFICES ASSUME Init PROVE PageInv
  OBVIOUS
<1>1. StoreInv
  BY InitStore DEF Init
<1>2. /\ req = [r \in Requests |-> None] /\ clip = None /\ image = None /\ shown = Blank
      /\ doc = [s \in Stems |-> Unlabeled] /\ saved = [s \in Stems |-> Unlabeled]
      /\ labels = Unlabeled /\ frame = 1 /\ reviewed = [c \in Clips |-> 0]
  BY DEF Init, StoreInit, Unlabeled
<1>3. Unlabeled \in Documents /\ Unlabeled # None /\ \A i \in Frames : Unlabeled[i] = None
  BY StoreNames DEF Unlabeled, Documents, Labels
<1>4. Awaited = {}
  BY <1>2 DEF Awaited
<1>5. PageTypeOK
  BY <1>2, <1>3, LabelConstants DEF PageTypeOK, Frames
<1>6. ImageOK /\ Sole /\ \A r \in Requests : SaveOK(r)
  BY <1>2, <1>4 DEF ImageOK, Sole, SaveOK
<1>7. CanvasOK
  BY <1>2, PageNames DEF CanvasOK
<1>8. LabelsOK
  BY <1>2, <1>3 DEF LabelsOK, Proper, Stems
<1>9. ASSUME NEW c \in Clips PROVE ClipOK(c)
  <2>1. Count(Unlabeled) = 0
    <3>1. {i \in Frames : Unlabeled[i] # None} = {}
      BY <1>3
    <3> QED
      BY <3>1, FS_EmptySet DEF Count
  <2>2. AtRest(c)
    BY <1>2, <1>3, <2>1 DEF AtRest, Saved, Stems
  <2> QED
    BY <1>4, <2>2 DEF ClipOK, Pending
<1> QED
  BY <1>1, <1>5, <1>6, <1>7, <1>8, <1>9 DEF PageInv

LEMMA StutterPage == PageInv /\ UNCHANGED vars => PageInv'
<1> SUFFICES ASSUME PageInv, UNCHANGED vars PROVE PageInv'
  OBVIOUS
<1>1. UNCHANGED storeVars /\ UNCHANGED <<doc, cache, req, faults, saved, spoiled>>
      /\ UNCHANGED <<clip, labels, frame, reviewed, shown, image, disturbed, hasty>>
  BY DEF vars, storeVars, pageVars
<1>2. StoreInv'
  BY <1>1, StutterStore DEF PageInv
<1>3. Awaited' = Awaited /\ \A c : Pending(c)' = Pending(c)
  BY <1>1 DEF Awaited, Pending
<1>4. PageTypeOK' /\ ImageOK' /\ Sole' /\ CanvasOK'
  BY <1>1, <1>3 DEF PageInv, PageTypeOK, ImageOK, Sole, CanvasOK, OwnsStem
<1>5. ASSUME NEW c \in Clips PROVE ClipOK(c)'
  <2>1. Saved(c)' = Saved(c)
    BY <1>1 DEF Saved
  <2> QED
    BY <1>1, <1>3, <2>1, SameClip DEF PageInv
<1>6. LabelsOK' /\ \A r \in Requests : SaveOK(r)'
  BY <1>1 DEF PageInv, LabelsOK, SaveOK, Proper, OwnsStem
<1> QED
  BY <1>2, <1>4, <1>5, <1>6 DEF PageInv

LEMMA NextPage == PageInv /\ [Next]_vars => PageInv'
<1> SUFFICES ASSUME PageInv, [Next]_vars PROVE PageInv'
  OBVIOUS
<1>1. CASE UNCHANGED vars
  BY <1>1, StutterPage
<1>2. CASE \E r \in Requests : User(r)
  BY <1>2, OpenClipPage, LabelPage, KeyPage DEF User
<1>3. CASE \E r \in Requests : Continue(r)
  BY <1>3, OpenedPage, PostedPage, PictureLoadedPage DEF Continue
<1>4. CASE ServerStep /\ UNCHANGED pageVars
  BY <1>4, ServerPage
<1> QED
  BY <1>1, <1>2, <1>3, <1>4 DEF Next

\* The parts of the invariant stand and fall together.
THEOREM PageInvHolds == Spec => []PageInv
BY InitPage, NextPage, PTL DEF Spec

\* A label that is stored for a frame of a clip was made on that frame of that
\* clip (README: keyed by the frame's index), whatever the user does while
\* requests are outstanding and in whatever order they are answered, unless he
\* made it while the canvas could not be relied upon.
THEOREM LabelIsAlwaysOnItsFrame == Spec => []LabelIsOnItsFrame
<1>1. PageInv => LabelIsOnItsFrame
  <2> SUFFICES ASSUME PageInv, NEW c \in Clips, NEW i \in 1..NumFrames, OwnsStem(c),
                      doc[Stem[c]] \notin Unreadable, <<c, i>> \notin hasty
               PROVE  doc[Stem[c]][i] \in {None, <<c, i>>}
    BY DEF LabelIsOnItsFrame
  <2>1. i \in Frames /\ i <= NumFrames
    BY LabelConstants DEF Frames
  <2> QED
    BY <2>1 DEF PageInv, LabelsOK, Proper
<1> QED
  BY <1>1, PageInvHolds, PTL

\* What the page shows of a clip, the count of its labels and, if it is open, the
\* labels themselves, is what its file says as soon as the last answer about it is
\* there (index.html's openClip and postLabel, each of which reads the page's
\* variables after an await): for every clip that the user did not go on from, to
\* or in meanwhile, and whatever happens to the others.
THEOREM PageAlwaysAgreesWithFile == Spec => []PageAgreesWithFile
<1>1. PageInv => PageAgreesWithFile
  <2> SUFFICES ASSUME PageInv, NEW c \in Clips \ disturbed, OwnsStem(c),
                      \A r \in Awaited : req[r].clip # c
               PROVE  /\ reviewed[c] = Count(doc[Stem[c]])
                      /\ clip = c => labels = doc[Stem[c]]
    BY DEF PageAgreesWithFile
  <2>1. Pending(c) = {}
    BY DEF Pending
  <2>2. AtRest(c)
    BY <2>1 DEF PageInv, ClipOK
  <2>3. Stem[c] \in Stems /\ Saving(Stem[c]) = {}
    <3>1. \A r \in Saving(Stem[c]) : r \in Awaited /\ req[r].clip \in Clips /\ Stem[req[r].clip] = Stem[c]
      BY DEF Saving, Awaited, StemOf, PageInv, StoreInv, StoreTypeOK, Calls
    <3> QED
      BY <3>1 DEF Stems, OwnsStem
  <2>4. doc[Stem[c]] = Saved(c)
    BY <2>2, <2>3 DEF PageInv, StoreInv, SavesOK, AtRest, Saved
  <2> QED
    BY <2>2, <2>4 DEF AtRest
<1> QED
  BY <1>1, PageInvHolds, PTL

=============================================================================
