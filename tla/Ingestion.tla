----------------------------- MODULE Ingestion -----------------------------
(***************************************************************************)
(* The ingestion helpers: a sampler that limits the rate of frames, drops  *)
(* exact duplicates and may reuse its last frame for one that looks like   *)
(* it, and a segmenter that cuts audio at pauses.  Each has one owner; a   *)
(* behaviour is a sequence of calls.                                       *)
(***************************************************************************)
EXTENDS Integers, Sequences, FiniteSets

CONSTANTS
  Sample,          \* what a frame's bytes can be
  Similar,         \* pairs of them that reach the threshold
  NoSample,
  MinimumInterval,
  RecentCapacity,
  TrailingSilence, \* the pause that ends a segment, in samples
  ChunkLength,     \* the lengths of chunks, in samples
  MaxTime,         \* bound: times of capture
  MaxChunks        \* bound: chunks in a run

ASSUME IngestionAssumption ==
  /\ Similar \subseteq Sample \X Sample /\ NoSample \notin Sample
  /\ {MinimumInterval, RecentCapacity, TrailingSilence, MaxTime, MaxChunks} \subseteq Nat
  /\ ChunkLength \subseteq Nat \ {0}

Never == -1

VARIABLES
  lastAccepted,    \* when a frame was last returned, or Never
  recentDigests,
  caching,         \* whether the configuration has a threshold
  cachedFrame,     \* or NoSample
  returned,        \* history: the frame returned last
  spoken,          \* history: per chunk pushed, whether it was voiced and its length
  openSegment,     \* the chunks of the segment that is open
  silentSamples,
  segments         \* history: the segments returned

samplerVars == <<lastAccepted, recentDigests, caching, cachedFrame, returned>>
segmenterVars == <<spoken, openSegment, silentSamples, segments>>

IngestionTypeOK ==
  /\ lastAccepted \in {Never} \cup 0 .. MaxTime
  /\ Len(recentDigests) <= RecentCapacity
  /\ caching \in BOOLEAN /\ {cachedFrame, returned} \subseteq Sample \cup {NoSample}
  /\ \A i \in DOMAIN openSegment : openSegment[i] \in DOMAIN spoken
  /\ silentSamples \in Nat /\ (openSegment = <<>> => silentSamples = 0)

IngestionInit ==
  /\ lastAccepted = Never /\ recentDigests = <<>> /\ caching = FALSE
  /\ cachedFrame = NoSample /\ returned = NoSample
  /\ spoken = <<>> /\ openSegment = <<>> /\ silentSamples = 0 /\ segments = <<>>

-----------------------------------------------------------------------------
(* FrameSampler.  A call that returns nothing changes nothing.             *)

TooSoon(time) == lastAccepted # Never /\ time - lastAccepted < MinimumInterval

Reusable(s) == caching /\ cachedFrame # NoSample /\ <<cachedFrame, s>> \in Similar

SamplesCached(time, s) ==
  /\ ~TooSoon(time) /\ Reusable(s)
  /\ lastAccepted' = time /\ returned' = cachedFrame
  /\ UNCHANGED <<recentDigests, caching, cachedFrame>>

(* Mutant: the oldest digest is not forgotten.                             *)
WithRecent_All(s) == IF RecentCapacity = 0 THEN recentDigests ELSE Append(recentDigests, s)

WithRecent(s) ==
  IF RecentCapacity = 0 THEN recentDigests
  ELSE Append(IF Len(recentDigests) = RecentCapacity THEN Tail(recentDigests) ELSE recentDigests, s)

SamplesNew(time, s) ==
  /\ ~TooSoon(time) /\ ~Reusable(s)
  /\ \A i \in DOMAIN recentDigests : recentDigests[i] # s
  /\ lastAccepted' = time /\ returned' = s
  /\ recentDigests' = WithRecent(s)
  /\ cachedFrame' = IF caching THEN s ELSE cachedFrame
  /\ UNCHANGED caching

(* Mutant: the frame is kept while reuse is off.                           *)
CachedUnder_Kept(config) == cachedFrame

CachedUnder(config) == IF config THEN cachedFrame ELSE NoSample

SetsCacheConfig(config) ==
  /\ caching' = config
  /\ cachedFrame' = CachedUnder(config)
  /\ UNCHANGED <<lastAccepted, recentDigests, returned>>

-----------------------------------------------------------------------------
(* VoiceSegmenter                                                          *)

(* Mutant: the samples are copied, not taken.                              *)
ActiveAfterTaking_Copied(chunks) == chunks

ActiveAfterTaking(chunks) == <<>>

TakesSegment(chunks) ==
  /\ segments' = Append(segments, chunks)
  /\ openSegment' = ActiveAfterTaking(chunks)
  /\ silentSamples' = 0

PushesChunk(voiced, length) ==
  LET chunks == Append(openSegment, Len(spoken) + 1)
      silent == IF voiced THEN 0 ELSE silentSamples + length
  IN
  /\ Len(spoken) < MaxChunks
  /\ spoken' = Append(spoken, [voiced |-> voiced, length |-> length])
  /\ IF openSegment = <<>> /\ ~voiced
     THEN UNCHANGED <<openSegment, silentSamples, segments>>
     ELSE IF silent >= TrailingSilence
     THEN TakesSegment(chunks)
     ELSE openSegment' = chunks /\ silentSamples' = silent /\ UNCHANGED segments

FlushesSegment ==
  /\ openSegment # <<>>
  /\ TakesSegment(openSegment)
  /\ UNCHANGED spoken

SamplerNext ==
  \/ \E time \in 0 .. MaxTime, s \in Sample : SamplesCached(time, s) \/ SamplesNew(time, s)
  \/ \E config \in BOOLEAN : SetsCacheConfig(config)

SegmenterNext ==
  \/ \E voiced \in BOOLEAN, length \in ChunkLength : PushesChunk(voiced, length)
  \/ FlushesSegment

-----------------------------------------------------------------------------
(* Properties                                                              *)

(* What the sampler would reuse is the frame it returned last, whatever    *)
(* was turned on and off in between: reuse never brings an older one back. *)
ReusesLastSampled == cachedFrame # NoSample => cachedFrame = returned

(* Segments lose no voice and repeat nothing: they and the open segment    *)
(* are separate runs of consecutive chunks in order, each begins with      *)
(* voice, and every voiced chunk is in one of them.                        *)
SegmentsComplete ==
  LET runs == Append(segments, openSegment)
      Chunks(run) == {run[i] : i \in DOMAIN run}
  IN
  /\ \A r \in DOMAIN runs : \A i \in DOMAIN runs[r] :
       /\ runs[r][i] = runs[r][1] + i - 1
       /\ spoken[runs[r][1]].voiced
  /\ \A r, q \in DOMAIN runs : r < q =>
       \A c \in Chunks(runs[r]), d \in Chunks(runs[q]) : c < d
  /\ \A c \in DOMAIN spoken : spoken[c].voiced =>
       \E r \in DOMAIN runs : c \in Chunks(runs[r])
=============================================================================
