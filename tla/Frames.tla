------------------------------- MODULE Frames -------------------------------
(***************************************************************************)
(* Window capture: a PipeWire thread per portal session that offers frames *)
(* to a short queue, and the control window, which drains the queue while  *)
(* no frame is being encoded, lets the vision cache replace a frame that   *)
(* looks like the one it has, and encodes the result on another thread.    *)
(* Frames arrive while the queue is drained.                               *)
(***************************************************************************)
EXTENDS Naturals, Sequences, FiniteSets

CONSTANTS
  Picture,     \* what a frame can show
  Alike,       \* pairs of pictures that reach the similarity threshold
  FrameQueue,  \* the places of the queue
  MaxFrames,   \* bound: frames in a run
  MaxStreams   \* bound: capture sessions in a run

ASSUME FramesAssumption ==
  /\ Alike \subseteq Picture \X Picture
  /\ \A p \in Picture : <<p, p>> \in Alike
  /\ FrameQueue \in Nat \ {0} /\ MaxStreams \in Nat /\ MaxFrames \in Nat

Stream == 1 .. MaxStreams
NoFrame == [stream |-> 0, n |-> 0]

VARIABLES
  spawned,     \* capture threads started so far
  capturing,   \* those that run
  settingUp,   \* those whose command waits for the outcome of their setup
  stopped,     \* those whose stop flag is set
  handed,      \* those whose receiver the window has not been handed yet
  receiver,    \* the stream the window receives from, or 0
  frames,      \* per stream, the queue of frames
  arrived,     \* frames that PipeWire has delivered, all streams together
  lost,        \* history: per stream, whether the last frame delivered found the queue full
  newest,      \* history: per stream, the last frame that PipeWire delivered
  drained,     \* the latest frame of a drain under way, or NoFrame
  visionCache, \* vision_cache, or NoFrame while it is lent or empty
  encoding     \* the frame being encoded and the cache lent with it, or <<>>

frameVars == <<spawned, capturing, settingUp, stopped, handed, receiver, frames, arrived,
               lost, newest, drained, visionCache, encoding>>

FramesTypeOK ==
  /\ spawned \in 0 .. MaxStreams /\ receiver \in 0 .. spawned
  /\ capturing \subseteq 1 .. spawned /\ stopped \subseteq 1 .. spawned
  /\ handed \subseteq 1 .. spawned /\ settingUp \subseteq 1 .. spawned
  /\ \A s \in Stream : Len(frames[s]) <= FrameQueue
  /\ arrived \in 0 .. MaxFrames
  /\ Len(encoding) \in {0, 2}

FramesInit ==
  /\ spawned = 0 /\ receiver = 0
  /\ capturing = {} /\ settingUp = {} /\ stopped = {} /\ handed = {}
  /\ frames = [s \in Stream |-> <<>>] /\ arrived = 0
  /\ lost = [s \in Stream |-> FALSE] /\ newest = [s \in Stream |-> 0]
  /\ drained = NoFrame /\ visionCache = NoFrame /\ encoding = <<>>

Capturers == <<spawned, capturing, settingUp, stopped, handed, receiver>>
Queues == <<frames, arrived, lost, newest>>
Vision == <<drained, visionCache, encoding>>

(* SelectWindow: a command opens the session, spawns its thread and waits  *)
(* for it ...                                                              *)
SpawnsCapture ==
  /\ spawned < MaxStreams
  /\ spawned' = spawned + 1
  /\ capturing' = capturing \cup {spawned + 1}
  /\ settingUp' = settingUp \cup {spawned + 1}
  /\ UNCHANGED <<stopped, handed, receiver, Queues, Vision>>

(* ... to be connected, ...                                                *)
SetsUp(s) ==
  /\ s \in settingUp
  /\ settingUp' = settingUp \ {s}
  /\ handed' = handed \cup {s}
  /\ UNCHANGED <<spawned, capturing, stopped, receiver, Queues, Vision>>

(* ... or to end with an error of any step of its setup.                   *)
SetupFails(s) ==
  /\ s \in settingUp
  /\ settingUp' = settingUp \ {s}
  /\ capturing' = capturing \ {s}
  /\ UNCHANGED <<spawned, stopped, handed, receiver, Queues, Vision>>

(* Mutant: a receiver that is dropped does not stop its thread.            *)
StoppedWith_None(old) == stopped

(* The threads to stop when the receiver of a stream is dropped.           *)
StoppedWith(old) == stopped \cup ({old} \ {0})

(* CommandOutput::Capture: in the order in which the commands end.         *)
ReceivesCapture(s) ==
  /\ s \in handed /\ drained = NoFrame
  /\ handed' = handed \ {s}
  /\ receiver' = s
  /\ stopped' = StoppedWith(receiver)
  /\ UNCHANGED <<spawned, capturing, settingUp, Queues, Vision>>

(* The process callback: it ends the thread if it was told to stop, and    *)
(* otherwise offers the frame, if there is one in a format that is known;  *)
(* a full queue keeps the older ones.                                      *)
FrameArrives(s, p) ==
  LET frame == [stream |-> s, n |-> arrived + 1, picture |-> p]
      full == Len(frames[s]) = FrameQueue
  IN
  /\ s \in capturing \ settingUp /\ arrived < MaxFrames
  /\ IF s \in stopped
     THEN capturing' = capturing \ {s} /\ UNCHANGED Queues
     ELSE /\ arrived' = arrived + 1
          /\ frames' = [frames EXCEPT ![s] = IF full THEN @ ELSE Append(@, frame)]
          /\ lost' = [lost EXCEPT ![s] = full]
          /\ newest' = [newest EXCEPT ![s] = arrived + 1]
          /\ UNCHANGED capturing
  /\ UNCHANGED <<spawned, settingUp, stopped, handed, receiver, Vision>>

(* PollFrame: the first frame of the queue is taken, ...                   *)
PollsFrame ==
  /\ encoding = <<>> /\ drained = NoFrame /\ receiver # 0
  /\ frames[receiver] # <<>>
  /\ drained' = Head(frames[receiver])
  /\ frames' = [frames EXCEPT ![receiver] = Tail(@)]
  /\ UNCHANGED <<Capturers, arrived, lost, newest, visionCache, encoding>>

(* Mutant: the first frame of a drain is kept.                             *)
Latest_First(latest, frame) == latest

Latest(latest, frame) == frame

(* ... try_recv_latest: then those that wait, one by one, ...              *)
DrainsFrame ==
  /\ drained # NoFrame
  /\ frames[receiver] # <<>>
  /\ drained' = Latest(drained, Head(frames[receiver]))
  /\ frames' = [frames EXCEPT ![receiver] = Tail(@)]
  /\ UNCHANGED <<Capturers, arrived, lost, newest, visionCache, encoding>>

(* ... until none does; the cache goes with the latest to another thread.  *)
BeginsEncoding ==
  /\ drained # NoFrame
  /\ frames[receiver] = <<>>
  /\ encoding' = <<drained, visionCache>>
  /\ visionCache' = NoFrame /\ drained' = NoFrame
  /\ UNCHANGED <<Capturers, Queues>>

LooksLike(cached, frame) == cached # NoFrame /\ <<cached.picture, frame.picture>> \in Alike

(* select: the cached frame is kept while frames look like it.             *)
CachedAfter(cached, frame) == IF LooksLike(cached, frame) THEN cached ELSE frame

(* select and encode_png, which may fail, on a thread of their own, then   *)
(* FrameEncoded, whatever window is selected by then.                      *)
Encodes ==
  /\ encoding # <<>>
  /\ visionCache' = CachedAfter(encoding[2], encoding[1])
  /\ encoding' = <<>>
  /\ UNCHANGED <<Capturers, Queues, drained>>

FramesNext ==
  \/ SpawnsCapture
  \/ \E s \in Stream :
       \/ SetsUp(s) \/ SetupFails(s) \/ ReceivesCapture(s)
       \/ \E p \in Picture : FrameArrives(s, p)
  \/ PollsFrame \/ DrainsFrame \/ BeginsEncoding \/ Encodes

-----------------------------------------------------------------------------
(* Properties                                                              *)

(* The frame that is encoded is the newest that was delivered by the end   *)
(* of the drain, whatever arrives while it goes on, unless that one found  *)
(* the queue full: then it is lost, and an older one passes for current.   *)
TakesNewest ==
  [][encoding = <<>> /\ encoding' # <<>> =>
       \/ lost[receiver]
       \/ encoding'[1].n = newest[receiver]]_frameVars

(* At most one capture runs for the window and one for each command that   *)
(* is on its way to it; all others have been told to stop.                 *)
OneCapture ==
  (capturing \ stopped) \subseteq (settingUp \cup handed \cup ({receiver} \ {0}))
=============================================================================
