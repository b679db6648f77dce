----------------------------- MODULE PushToTalk -----------------------------
(***************************************************************************)
(* Recording and playing voice messages on the phone.  The user's calls    *)
(* run on the main thread, each recording has a capture loop of its own on *)
(* another, and so has each playback.  They share the list of frames, its  *)
(* counter, the microphone and the one codec.                              *)
(*                                                                         *)
(* A cancelled loop goes on until it asks for the main thread.  Frames are *)
(* known by the loop that added them and the codec that made them.  A      *)
(* codec freed while the native code is inside it is not modelled: a frame *)
(* is encoded before or after a switch.                                    *)
(***************************************************************************)
EXTENDS Naturals, Sequences, FiniteSets

CONSTANTS
    Modes,     \* codec modes of the messages played
    Home,      \* the mode the manager was initialised with
    Samples,   \* samples per frame of each mode
    NoCodec,   \* samples per frame that a pipeline without a codec reports
    Native,    \* modes for which the pipeline can create a codec
    MaxFrames, \* maxFrames of the capture loop
    Players,   \* playbacks that can be under way at the same time
    MaxTakes,  \* bound: recordings
    MaxPlays   \* bound: playbacks

TalkAssumption ==
    /\ Home \in Native /\ Native \subseteq Modes
    /\ Samples \in [Modes -> Nat] /\ NoCodec \in Nat
    /\ {MaxTakes, MaxPlays} \subseteq Nat /\ MaxFrames \in Nat \ {0}

VARIABLES
    take,      \* recordings so far: the number of the last one
    recording, \* isRecording
    mic,       \* recording whose AudioRecord is open; 0: none
    frames,    \* encodedFrames
    count,     \* frameCount
    loop,      \* where each recording's capture loop is
    asked,     \* samples per frame that each loop reads
    local,     \* frameCount as the loop read it, to be incremented
    cancelled, \* recordings whose job is cancelled
    ended,     \* destroy was called
    mode,      \* currentMode
    codec,     \* mode of the native codec, or None
    player,    \* of each playback under way the mode to restore and its own
    plays,
    disturbed, \* history: a playback was under way during the last recording
    alone,     \* history: no other capture loop was, either
    messages   \* history: messages handed to onMessageReady

vars == <<take, recording, mic, frames, count, loop, asked, local, cancelled, ended,
          mode, codec, player, plays, disturbed, alone, messages>>
capture == <<take, recording, mic, cancelled, ended, disturbed, alone, messages>>
codecs == <<mode, codec, player, plays>>

None == "none"
Idle == <<>>
Takes == 1..MaxTakes
Running == {t \in Takes : loop[t] \notin {"off", "done"}}
Playing == \E p \in Players : player[p] # Idle


Init ==
    /\ take = 0 /\ recording = FALSE /\ mic = 0 /\ frames = <<>> /\ count = 0
    /\ loop = [t \in Takes |-> "off"]
    /\ asked = [t \in Takes |-> 0] /\ local = [t \in Takes |-> 0]
    /\ cancelled = {} /\ ended = FALSE
    /\ mode = Home /\ codec = Home
    /\ player = [p \in Players |-> Idle] /\ plays = 0
    /\ disturbed = FALSE /\ alone = TRUE /\ messages = {}

-----------------------------------------------------------------------------
(* The main thread. *)

\* startRecording; after destroy the scope starts no loop.
StartRecording ==
    /\ ~recording
    /\ take < MaxTakes
    /\ take' = take + 1
    /\ mic' = take + 1
    /\ frames' = <<>> /\ count' = 0
    /\ recording' = TRUE
    /\ loop' = [loop EXCEPT ![take + 1] = IF ended THEN "done" ELSE "begin"]
    /\ disturbed' = Playing
    /\ alone' = (Running = {})
    /\ UNCHANGED <<asked, local, cancelled, ended, codecs, messages>>

\* recordJob?.cancel()
Cancel(t) == cancelled \cup {t}

\* stopRecording, for the user (0) or for the loop that is full.
Stopped(by) ==
    /\ recording' = FALSE /\ mic' = 0
    /\ messages' = IF ~recording \/ frames = <<>> THEN messages
                   ELSE messages \cup {[take |-> take, by |-> by, frames |-> frames, mode |-> mode,
                                        disturbed |-> disturbed, alone |-> alone]}

StopRecording ==
    /\ recording
    /\ Stopped(0)
    /\ cancelled' = Cancel(take)
    /\ UNCHANGED <<take, frames, count, loop, asked, local, ended, codecs, disturbed, alone>>

\* withContext(Dispatchers.Main) { stopRecording() }
AutoStop(t) ==
    /\ loop[t] = "full" /\ t \notin cancelled
    /\ Stopped(t)
    /\ cancelled' = Cancel(take)
    /\ loop' = [loop EXCEPT ![t] = "done"]
    /\ UNCHANGED <<take, frames, count, asked, local, ended, codecs, disturbed, alone>>

\* stopRecording, and the scope cancels every job.
Destroy ==
    /\ ~ended
    /\ Stopped(0)
    /\ ended' = TRUE
    /\ cancelled' = 1..take
    /\ UNCHANGED <<take, frames, count, loop, asked, local, codecs, disturbed, alone>>

-----------------------------------------------------------------------------
(* captureLoop *)

Goes(t, from, to) == loop[t] = from /\ loop' = [loop EXCEPT ![t] = to]

\* The length of a frame is that of the codec when the loop begins.
Begin(t) ==
    /\ t \notin cancelled
    /\ Goes(t, "begin", "check")
    /\ asked' = [asked EXCEPT ![t] = IF codec = None THEN NoCodec ELSE Samples[codec]]
    /\ UNCHANGED <<capture, frames, count, local, codecs>>

\* The condition of the loop; after the loop, whether it stops the recording.
Check(t) ==
    /\ Goes(t, "check", IF count >= MaxFrames THEN "full"
                         ELSE IF recording THEN "reading" ELSE "done")
    /\ UNCHANGED <<capture, frames, count, asked, local, codecs>>

\* A frame of audio, from whichever AudioRecord is open now; a short read tries again.
Read(t) ==
    /\ mic # 0
    /\ \/ Goes(t, "reading", "metering")
       \/ Goes(t, "reading", "check")
    /\ UNCHANGED <<capture, frames, count, asked, local, codecs>>

\* The AudioRecord is gone, or fails.
ReadError(t) ==
    /\ Goes(t, "reading", IF count >= MaxFrames THEN "full" ELSE "done")
    /\ UNCHANGED <<capture, frames, count, asked, local, codecs>>

\* The level goes to the main thread; a frame that is not silent is encoded.
Meter(t) ==
    /\ t \notin cancelled
    /\ \/ Goes(t, "metering", "encoding")
       \/ Goes(t, "metering", "check")
    /\ UNCHANGED <<capture, frames, count, asked, local, codecs>>

\* A cancelled loop does not get the main thread: it ends.
Cancelled(t) ==
    /\ t \in cancelled
    /\ \E from \in {"begin", "metering", "full"} : Goes(t, from, "done")
    /\ UNCHANGED <<capture, frames, count, asked, local, codecs>>

\* The pipeline encodes frames of its codec's length only.
Fits(t) == codec # None /\ Samples[codec] = asked[t]

Encode(t) ==
    \/ /\ Fits(t)
       /\ Goes(t, "encoding", "added")
       /\ frames' = Append(frames, [by |-> t, mode |-> codec])
       /\ UNCHANGED <<capture, count, asked, local, codecs>>
    \/ /\ ~Fits(t)
       /\ Goes(t, "encoding", "check")
       /\ UNCHANGED <<capture, frames, count, asked, local, codecs>>

\* frameCount++ reads and writes the counter.
Load(t) ==
    /\ Goes(t, "added", "counting")
    /\ local' = [local EXCEPT ![t] = count]
    /\ UNCHANGED <<capture, frames, count, asked, codecs>>

Store(t) ==
    /\ Goes(t, "counting", "check")
    /\ count' = local[t] + 1
    /\ local' = [local EXCEPT ![t] = 0]
    /\ UNCHANGED <<capture, frames, asked, codecs>>

-----------------------------------------------------------------------------
(* playMessage and the codec manager *)

\* setMode: the old codec goes even if there is no new one.
SetMode(m) ==
    /\ codec' = IF m \in Native THEN m ELSE None
    /\ mode' = IF m \in Native THEN m ELSE mode

Play(p, m) ==
    /\ ~ended
    /\ player[p] = Idle /\ plays < MaxPlays
    /\ plays' = plays + 1
    /\ player' = [player EXCEPT ![p] = <<mode, m>>]
    /\ IF m # mode THEN SetMode(m) ELSE UNCHANGED <<mode, codec>>
    /\ disturbed' = TRUE
    /\ UNCHANGED <<take, recording, mic, frames, count, loop, asked, local, cancelled, ended, alone, messages>>

Played(p) ==
    /\ player[p] # Idle
    /\ player' = [player EXCEPT ![p] = Idle]
    /\ IF player[p][1] # player[p][2] THEN SetMode(player[p][1]) ELSE UNCHANGED <<mode, codec>>
    /\ UNCHANGED <<capture, frames, count, loop, asked, local, plays>>

\* The audio track fails: the exception passes over the switch back.
PlaybackFails(p) ==
    /\ player[p] # Idle
    /\ player' = [player EXCEPT ![p] = Idle]
    /\ UNCHANGED <<capture, frames, count, loop, asked, local, mode, codec, plays>>

Next ==
    \/ StartRecording \/ StopRecording \/ Destroy
    \/ \E t \in Takes :
          \/ Begin(t) \/ Check(t) \/ Read(t) \/ ReadError(t) \/ Meter(t) \/ Cancelled(t)
          \/ Encode(t) \/ Load(t) \/ Store(t) \/ AutoStop(t)
    \/ \E p \in Players :
          \/ \E m \in Modes : Play(p, m)
          \/ Played(p) \/ PlaybackFails(p)

Spec == Init /\ [][Next]_vars

-----------------------------------------------------------------------------
TypeOK ==
    /\ take \in 0..MaxTakes /\ mic \in 0..take /\ count \in Nat
    /\ {recording, ended, disturbed, alone} \subseteq BOOLEAN
    /\ frames \in Seq([by : Takes, mode : Modes])
    /\ loop \in [Takes -> {"off", "begin", "check", "reading", "metering", "encoding",
                           "added", "counting", "full", "done"}]
    /\ asked \in [Takes -> Nat] /\ local \in [Takes -> Nat] /\ cancelled \subseteq Takes
    /\ mode \in Native /\ codec \in Native \cup {None}
    /\ \A p \in Players : player[p] \in {Idle} \cup (Modes \X Modes)

(* A recording becomes at most one message, ended by the user or by its    *)
(* own loop; the microphone is open only during it.  Of what an earlier    *)
(* loop still had in hand one frame at most comes into the message; what   *)
(* the loop itself adds is of the message's codec, unless something was    *)
(* played meanwhile; and the limit holds when no earlier loop is about.    *)
RecordsWhatWasSaid ==
    /\ mic # 0 => recording /\ mic = take
    /\ \A m, n \in messages : m.take = n.take => m = n
    /\ \A m \in messages :
          LET By(t) == {i \in DOMAIN m.frames : m.frames[i].by = t}
          IN  /\ m.by \in {0, m.take}
              /\ \A t \in Takes \ {m.take} : Cardinality(By(t)) <= 1
              /\ ~m.disturbed => \A i \in By(m.take) : m.frames[i].mode = m.mode
              /\ m.alone => Len(m.frames) <= MaxFrames
              /\ m.alone /\ m.by # 0 => Len(m.frames) = MaxFrames

=============================================================================
