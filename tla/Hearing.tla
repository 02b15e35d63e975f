------------------------------- MODULE Hearing -------------------------------
(***************************************************************************)
(* One utterance from the microphone to the router (crates/parlad/src/     *)
(* audio.rs, vad.rs, asr.rs and transcribe in main.rs): the capture thread *)
(* opens the device, the stream's callback resamples what comes in and     *)
(* appends it to a shared buffer, the main loop holds a handle on the      *)
(* thread, and the worker waits for the samples, passes them through the   *)
(* speech gate and gives them to whisper.                                  *)
(*                                                                         *)
(* Everything runs concurrently: a key may go up before the device is      *)
(* open, the stream may still call back after it was told to stop, and     *)
(* opening or closing the device may block for good.                       *)
(*                                                                         *)
(* Audio is a sequence of whole numbers, multiples of the size of every    *)
(* window so that means are whole; a sample that came out of the resampler *)
(* carries the part of the stream it is the mean of.  The ratio of the     *)
(* rates is SrcRate / DstRate, in lowest terms, and exact, where the code  *)
(* multiplies in f64.                                                      *)
(***************************************************************************)
EXTENDS Integers, SequencesExt, FiniteSetsExt

CONSTANTS
  SrcRate, DstRate,   \* the device's rate and whisper's, in lowest terms
  Levels,             \* the values a frame of the device may have
  MaxFrames,          \* bound: frames a stream delivers
  MaxChunk,           \* bound: frames of one callback
  MaxSamples,         \* capacity of the capture buffer
  Frame,              \* samples of one 30 ms frame of the energy gate
  PerMs, PerCs,       \* samples in a millisecond and in a centisecond
  MinMs, MaxMs,       \* min_utterance_ms, max_utterance_ms
  Threshold,          \* speech_threshold
  Gates,              \* the gates that may have been loaded
  Transcripts,        \* what whisper may make of samples: sequences of words
  Marks,              \* words that are punctuation alone
  Blocklist           \* hallucination_blocklist, in its order

ASSUME RatesAreRates == SrcRate \in Nat \ {0} /\ DstRate \in Nat \ {0}
ASSUME SizesAreSizes ==
  /\ Frame \in Nat \ {0} /\ PerMs \in Nat \ {0} /\ PerCs \in Nat \ {0}
  /\ {MaxFrames, MaxChunk, MaxSamples, MinMs, MaxMs, Threshold} \subseteq Nat
ASSUME PolicyHolds == MinMs <= MaxMs /\ 0 < MaxMs    \* as the configuration must (config.rs:533)
ASSUME LevelsAreLevels == Levels \subseteq Int
ASSUME GatesAreGates == Gates \subseteq {"silero", "energy"}

VARIABLES
  thread,    \* where the capture thread is
  heard,     \* the frames the device delivered, for the properties
  carry, carryStart, outIdx,   \* the resampler
  buf,       \* the shared buffer
  ready,     \* the channel of ready(): what the thread sent, if anything
  done,      \* the channel of the samples: nothing yet, samples or an error
  taken,     \* the samples sent through it
  session,   \* who has the handle: the main loop, a job, nobody
  started,   \* whether the loop has taken the message of ready()
  gate,      \* the gate loaded at start-up
  phase,     \* where the worker is with this utterance
  speech,    \* what the gate let through
  text,      \* what the router gets
  told       \* how often the user was told that this utterance failed

vars == <<thread, heard, carry, carryStart, outIdx, buf, ready, done, taken,
          session, started, gate, phase, speech, text, told>>

Resampling == <<heard, carry, carryStart, outIdx, buf>>
Handle == <<session, started>>
Work == <<phase, speech, text>>

-----------------------------------------------------------------------------
(* The resampler: output i is the mean of the frames from WindowStart(i) up *)
(* to WindowStart(i + 1), counted from the start of the stream.            *)

\* fn window_start: floor(i * ratio).
WindowStart(i) == (i * SrcRate) \div DstRate

\* The end of window i, at least one frame after its start.
WindowEnd(i) == Max({WindowStart(i + 1), WindowStart(i) + 1})

Mean(s) == FoldSeq(+, 0, s) \div Len(s)

\* One output sample from the frames of the carry that starts at frame `start`.
Sample(frames, start, i) ==
  [from |-> WindowStart(i), upto |-> WindowEnd(i),
   level |-> Mean(SubSeq(frames, WindowStart(i) - start + 1, WindowEnd(i) - start))]

\* The windows that are complete once `available` frames have come in, from
\* output i on.
Complete(i, available) ==
  {j \in i..(i + available * DstRate) : WindowEnd(j) <= available}

\* How many of the frames are dropped once the next window begins at `next`.
Dropped(frames, start, next) == Min({Max({next - start, 0}), Len(frames)})

\* fn push: what the frames `input` add, given the carry; a ratio of one
\* passes them on untouched.
Push(input) ==
  IF SrcRate = DstRate
  THEN [out |-> [k \in DOMAIN input |->
                   [from |-> Len(heard) + k - 1, upto |-> Len(heard) + k, level |-> input[k]]],
        carry |-> carry, start |-> carryStart, idx |-> outIdx]
  ELSE LET frames == carry \o input
           n      == Cardinality(Complete(outIdx, carryStart + Len(frames)))
           d      == Dropped(frames, carryStart, WindowStart(outIdx + n))
       IN [out   |-> [k \in 1..n |-> Sample(frames, carryStart, outIdx + k - 1)],
           carry |-> SubSeq(frames, d + 1, Len(frames)),
           start |-> carryStart + d,
           idx   |-> outIdx + n]

\* A chunk that does not fit is dropped as a whole.
KeptWhole(out) == IF Len(buf) + Len(out) <= MaxSamples THEN out ELSE <<>>

\* What goes into the buffer: as much as there is room for.
Kept(out) == SubSeq(out, 1, Min({Max({MaxSamples - Len(buf), 0}), Len(out)}))

-----------------------------------------------------------------------------
(* The gate.  A sample span is a pair of positions in what was recorded.   *)

\* The part of the samples from the first position to the last, if any.
Span(samples, first, last) == SubSeq(samples, first + 1, last)

Frames(samples) == (Len(samples) + Frame - 1) \div Frame
FrameAt(samples, f) ==
  SubSeq(samples, f * Frame + 1, Min({(f + 1) * Frame, Len(samples)}))

\* fn rms, squared: the frame reaches the threshold.
Loud(frame) ==
  FoldSeq(LAMBDA s, sum : sum + s.level * s.level, 0, frame) >= Threshold * Threshold * Len(frame)

LoudFrames(samples) == {f \in 0..(Frames(samples) - 1) : Loud(FrameAt(samples, f))}

\* The end of the span taken for the start of its last frame.
TrimSilenceShort(samples) ==
  LET loud == LoudFrames(samples)
  IN IF loud = {} THEN <<>>
     ELSE Span(samples, Min(loud) * Frame, Min({Max({1, Max(loud) * Frame}), Len(samples)}))

\* fn trim_silence: from the first loud frame to the end of the last one.
TrimSilence(samples) ==
  LET loud == LoudFrames(samples)
  IN IF loud = {} THEN <<>>
     ELSE Span(samples, Min(loud) * Frame, Min({(Max(loud) + 1) * Frame, Len(samples)}))

\* fn speech_span: from the first segment's start to the last one's end, in
\* samples and within the recording.  The segments are whisper.cpp's, in
\* centiseconds and padded at both ends.
SpeechSpan(samples, segments) ==
  LET within(lo, x) == Min({Max({x, lo}), Len(samples)})
      start == within(0, Min({s[1] : s \in segments}) * PerCs)
      end   == within(start, Max({s[2] : s \in segments}) * PerCs)
  IN IF samples = <<>> \/ segments = {} THEN <<>> ELSE Span(samples, start, end)

Segments(samples) ==
  LET times == (-1)..(Len(samples) \div PerCs + 1)
  IN UNION {kSubset(k, {s \in times \X times : s[1] < s[2]}) : k \in 0..2}

\* fn finish, and the check for an empty span before it: nothing when there
\* is no speech or too little of it, and at most the first MaxMs.
Finish(trimmed) ==
  IF trimmed = <<>> \/ Len(trimmed) \div PerMs < MinMs THEN <<>>
  ELSE SubSeq(trimmed, 1, Min({PerMs * MaxMs, Len(trimmed)}))

\* Gate::validate: what may become of the samples.  Silero may fail on them,
\* and the energy gate takes over.
Validated(samples) ==
  {Finish(TrimSilence(samples))}
    \cup (IF gate = "silero"
          THEN {Finish(SpeechSpan(samples, segments)) : segments \in Segments(samples)}
          ELSE {})

-----------------------------------------------------------------------------
(* The transcript, as a sequence of words.                                 *)

\* `text` without the punctuation at either end.
Core(words) ==
  LET said == {k \in DOMAIN words : words[k] \notin Marks}
  IN IF said = {} THEN <<>> ELSE SubSeq(words, Min(said), Max(said))

\* fn strip_suffix_word: the phrase ends the words and is not all of them.
Tacked(words, b) == IsSuffix(b, words) /\ Len(b) < Len(words)

\* fn filter: a blocklisted transcript is nothing; of the entries that end it
\* the first in the list is stripped, once.
Filter(words) ==
  LET core  == Core(words)
      tacked == {k \in DOMAIN Blocklist : Tacked(core, Blocklist[k])}
  IN IF core = <<>> \/ core \in ToSet(Blocklist) THEN <<>>
     ELSE IF tacked = {} THEN words
     ELSE SubSeq(core, 1, Len(core) - Len(Blocklist[Min(tacked)]))

-----------------------------------------------------------------------------
Init ==
  /\ thread = "opening" /\ ready = "none" /\ done = "none"
  /\ heard = <<>> /\ carry = <<>> /\ carryStart = 0 /\ outIdx = 0 /\ buf = <<>>
  /\ taken = <<>> /\ session = "held" /\ started = FALSE /\ gate \in Gates
  /\ phase = "none" /\ speech = <<>> /\ text = <<>> /\ told = 0

\* fn open returns: the stream plays already.
Opens ==
  /\ thread = "opening" /\ thread' = "playing"
  /\ UNCHANGED <<Resampling, Handle, Work, ready, done, taken, gate, told>>

\* fn open fails: the error goes to whoever waits for the samples first.
OpenFails ==
  /\ thread = "opening" /\ thread' = "failing" /\ done' = "error"
  /\ UNCHANGED <<Resampling, Handle, Work, ready, taken, gate, told>>

\* The result of open is sent on ready's channel.
SaysReady ==
  /\ \/ thread = "playing" /\ thread' = "waiting" /\ ready' = "ok"
     \/ thread = "failing" /\ thread' = "ended" /\ ready' = "error"
  /\ UNCHANGED <<Resampling, Handle, Work, done, taken, gate, told>>

\* blocking_recv returns: stop() was called or the handle was dropped.
Stops ==
  /\ thread = "waiting" /\ session # "held" /\ thread' = "closing"
  /\ UNCHANGED <<Resampling, Handle, Work, ready, done, taken, gate, told>>

\* drop(stream) returns; until then the callback may run.
StreamCloses ==
  /\ thread = "closing" /\ thread' = "closed"
  /\ UNCHANGED <<Resampling, Handle, Work, ready, done, taken, gate, told>>

\* fn take: the buffer is moved into the channel.
HandsOver ==
  /\ thread = "closed" /\ thread' = "ended"
  /\ done' = "samples" /\ taken' = buf /\ buf' = <<>>
  /\ UNCHANGED <<heard, carry, carryStart, outIdx, Handle, Work, ready, gate, told>>

\* The stream's callback, with the frames of all channels mixed down to one.
Callback(chunk) ==
  /\ thread \in {"playing", "waiting", "closing"}
  /\ Len(heard) + Len(chunk) <= MaxFrames
  /\ heard' = heard \o chunk
  /\ LET r == Push(chunk)
     IN /\ carry' = r.carry /\ carryStart' = r.start /\ outIdx' = r.idx
        /\ buf' = buf \o Kept(r.out)
  /\ UNCHANGED <<thread, ready, done, taken, Handle, Work, gate, told>>

Chunks == UNION {[1..n -> Levels] : n \in 1..MaxChunk}

\* The main loop polls ready(): after an error it drops the handle and says so.
HearsReady ==
  /\ session = "held" /\ ~started /\ ready # "none" /\ started' = TRUE
  /\ IF ready = "ok" THEN UNCHANGED <<session, told>>
     ELSE session' = "nobody" /\ told' = told + 1
  /\ UNCHANGED <<thread, Resampling, ready, done, taken, gate, Work>>

\* The key goes up: stop() is called, and the job is accepted or refused aloud.
KeyReleased ==
  /\ session = "held"
  /\ \/ session' = "job" /\ told' = told
     \/ session' = "nobody" /\ told' = told + 1
  /\ UNCHANGED <<thread, Resampling, ready, done, taken, gate, started, Work>>

\* Cancel drops the handle.
Cancelled ==
  /\ session = "held" /\ session' = "nobody"
  /\ UNCHANGED <<thread, Resampling, ready, done, taken, gate, started, Work, told>>

\* The worker's turn comes: it awaits the samples.
Awaits ==
  /\ phase = "none" /\ session = "job" /\ phase' = "awaiting"
  /\ UNCHANGED <<thread, Resampling, ready, done, taken, gate, Handle, speech, text, told>>

\* The utterance ends with an error, which report() tells.
Failed == phase' = "ended" /\ told' = told + 1

\* The samples, or the error of the thread that never had any.
Receives ==
  /\ phase = "awaiting" /\ done # "none"
  /\ IF done = "error" THEN Failed ELSE phase' = "gating" /\ told' = told
  /\ UNCHANGED <<thread, Resampling, ready, done, taken, gate, Handle, speech, text>>

\* The wait goes on for as long as the device takes.
GraceNeverElapses == FALSE /\ UNCHANGED vars

\* STOP_GRACE is over and the thread has handed nothing over.
GraceElapses ==
  /\ phase = "awaiting" /\ done = "none" /\ Failed
  /\ UNCHANGED <<thread, Resampling, ready, done, taken, gate, Handle, speech, text>>

\* Gate::validate.
Validates ==
  /\ phase = "gating" /\ speech' \in Validated(taken)
  /\ IF speech' = <<>> THEN Failed ELSE phase' = "hearing" /\ told' = told
  /\ UNCHANGED <<thread, Resampling, ready, done, taken, gate, Handle, text>>

\* Nothing is said of a transcript with nothing in it.
TranscribesSilently ==
  /\ phase = "hearing" /\ \E words \in Transcripts : text' = Filter(words)
  /\ phase' = (IF text' = <<>> THEN "ended" ELSE "routed") /\ told' = told
  /\ UNCHANGED <<thread, Resampling, ready, done, taken, gate, Handle, speech>>

\* Asr::transcribe: whisper's words, filtered.  Nothing usable is a failure.
Transcribes ==
  /\ phase = "hearing" /\ \E words \in Transcripts : text' = Filter(words)
  /\ IF text' = <<>> THEN Failed ELSE phase' = "routed" /\ told' = told
  /\ UNCHANGED <<thread, Resampling, ready, done, taken, gate, Handle, speech>>

\* whisper fails, or its task panics.
WhisperFails ==
  /\ phase = "hearing" /\ Failed
  /\ UNCHANGED <<thread, Resampling, ready, done, taken, gate, Handle, speech, text>>

CaptureThread == Opens \/ OpenFails \/ SaysReady \/ Stops \/ StreamCloses \/ HandsOver
Loop == HearsReady \/ KeyReleased \/ Cancelled
Worker == Awaits \/ Receives \/ GraceElapses \/ Validates \/ Transcribes \/ WhisperFails

Next == CaptureThread \/ (\E chunk \in Chunks : Callback(chunk)) \/ Loop \/ Worker

\* The threads run, timers fire and whisper returns; the device need not open
\* or close, and nobody has to release a key.
Fairness ==
  /\ WF_vars(SaysReady) /\ WF_vars(Stops) /\ WF_vars(HandsOver)
  /\ WF_vars(Awaits) /\ WF_vars(Receives) /\ WF_vars(GraceElapses)
  /\ WF_vars(Validates) /\ WF_vars(Transcribes \/ WhisperFails)

Spec == Init /\ [][Next]_vars /\ Fairness

-----------------------------------------------------------------------------
\* Every variable is of its type.
TypeOK ==
  /\ thread \in {"opening", "playing", "failing", "waiting", "closing", "closed", "ended"}
  /\ ready \in {"none", "ok", "error"} /\ done \in {"none", "samples", "error"}
  /\ session \in {"held", "job", "nobody"} /\ started \in BOOLEAN /\ gate \in Gates
  /\ phase \in {"none", "awaiting", "gating", "hearing", "routed", "ended"}
  /\ told \in Nat /\ carryStart \in Nat /\ outIdx \in Nat
  /\ heard \in Seq(Levels) /\ carry \in Seq(Levels)

\* "Feeding it audio in arbitrary chunks yields exactly what one pass over the
\* whole signal would" (audio.rs): however the callbacks cut the stream, the
\* recording is the complete windows of all that was heard, up to the capacity
\* of the buffer, none lost at the end; and the carry never grows beyond the
\* frames of one window.
OnePass(frames) ==
  LET n == Cardinality({i \in 0..(Len(frames) * DstRate) : WindowEnd(i) <= Len(frames)})
  IN [k \in 1..Min({n, MaxSamples}) |->
        [from |-> WindowStart(k - 1), upto |-> WindowEnd(k - 1),
         level |-> Mean(SubSeq(frames, WindowStart(k - 1) + 1, WindowEnd(k - 1)))]]

ChunksDoNotShow ==
  /\ (IF done = "samples" THEN taken ELSE buf) = OnePass(heard)
  /\ Len(carry) * DstRate < SrcRate + DstRate

\* What whisper gets is one piece of the recording, pauses included, of a length
\* the policy admits.  The energy gate begins and ends it with a loud frame
\* and leaves no loud frame out, unless the cap cuts it; it refuses a recording
\* only when the speech in it is too short (vad.rs).
Admitted(s) == Len(s) >= MinMs * PerMs /\ Len(s) <= MaxMs * PerMs

Pieces(samples, part) ==
  {k \in 0..(Len(samples) - Len(part)) : SubSeq(samples, k + 1, k + Len(part)) = part}

PassesSpeech ==
  phase = "gating" =>
    LET loud == LoudFrames(taken)
    IN IF phase' = "hearing"
       THEN /\ Pieces(taken, speech') # {} /\ Admitted(speech')
            /\ gate = "energy" =>
                 \E k \in Pieces(taken, speech') :
                   /\ k = Min(loud) * Frame
                   /\ Len(speech') = MaxMs * PerMs
                        \/ \A f \in loud : (f + 1) * Frame <= k + Len(speech')
                                          \/ k + Len(speech') = Len(taken)
       ELSE gate = "energy" =>
              \/ loud = {}
              \/ Min({(Max(loud) + 1) * Frame, Len(taken)}) - Min(loud) * Frame
                   < MinMs * PerMs

GateKeepsSpeech == [][PassesSpeech]_vars

\* Speech arrives whole: nothing is lost of it between the stream and whisper,
\* wherever a callback, the gate or the cap cuts (audio.rs, vad.rs).
SpeechArrivesWhole == []ChunksDoNotShow /\ GateKeepsSpeech

\* A capture that comes to nothing is told of exactly once, by the main loop or
\* by the worker, whichever of them the failure of the device reaches first,
\* and one that reaches the router is not told of as a failure.
FailureToldOnce ==
  /\ told <= 1
  /\ phase = "ended" => told = 1
  /\ phase # "ended" /\ session # "nobody" => told = 0
  /\ ready = "error" /\ started /\ session # "job" => told = 1

\* Every released utterance ends, though the device may hang, and a stream that
\* plays does not go on once nobody holds the handle.
EveryStopEnds ==
  /\ session = "job" ~> phase \in {"routed", "ended"}
  /\ (session # "held" /\ thread = "playing") ~> thread = "closing"
=============================================================================
