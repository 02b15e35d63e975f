# parla in TLA+

A verification development of **parla**, a voice-dictation daemon for KDE Plasma
written in Rust. The user holds one of two hotkeys and speaks; `parlad` records
while the key is down, transcribes with whisper, and either types the text into the
focused window (dictate key) or carries out a command (command key). A UI follows
the daemon over the session bus.

Paths below are relative to the repository; `main.rs`, `dbus.rs`, `router.rs` and
other bare names are in `crates/parlad/src/`.

## 1. Inventory

| Component | State it keeps | Operations | Talks to |
|---|---|---|---|
| Main loop (`main.rs`, `serve`) | the capture in progress, its deadline | key events, `Start`/`Stop`/`Cancel`/`Enabled`, device ready or failed, hold timer, signals | audio thread, job channel, status |
| Job channel and worker (`main.rs`) | up to 8 finished captures, the one in work | transcribe, hand to the router, record, report, start the prompt's timer | whisper, router, status |
| Status and bus object (`dbus.rs`) | state, mode, last result, `Enabled` | `set_state`, `finish`, property writes, methods, the publisher task | every other task; the UI |
| Lock watcher, `publish_lock` (`lock.rs`, `main.rs`) | the last lock value seen | signal, re-read after a reconnect, mirror onto the status | screensaver, status |
| Router (`router.rs`) | the parked confirmation, the last dictation with its learn pass, a sequence number | dictate, grammar path, judged path, scratch, edit, ask, confirm | executor, flow, judge |
| Confirmations, policy (`confirm.rs`, `policy.rs`) | one slot: command, window, deadline | arm, take, cancel, check_target, decide | router |
| Flow (`flow.rs`, `crates/flow`) | snippets, dictionary, apps | process, edit, reload | cleanup model, files |
| Learned corrections (`crates/flow/src/learned.rs`, `flow.rs`) | `learned.toml`, `dictionary.toml` | learn, promote, reload; accept, dismiss, edit in the UI | both programs write the files |
| History (`crates/flow/src/history.rs`) | the file of records | append, recent, delete, clear | bus, the UI's page |
| Judge (`judge.rs`, `oracle.rs`, `typesafe.rs`, `payload.rs`) | none between utterances | candidates, two rounds of questions, build, retries | local or remote model |
| Calibration (`calibrate.rs`) | none | assess a corpus, suggest thresholds | judge |
| Local model (`local.rs`) | request channel, KV cache of the shared prefix | submit, serve, score, prefill, flush | judge, flow |
| Audio, gate, whisper (`audio.rs`, `vad.rs`, `asr.rs`) | the recording thread, the resampler, the shared buffer, its handle | start, ready, stop, take, validate, transcribe, filter | sound server, worker |
| Hotkeys (`hotkeys.rs`) | two registrations | register, unregister, signal task | kglobalaccel |
| Executor (`crates/desktopd`) | last focused text field | resolve a window or an app, launch, delete, execute | KWin, AT-SPI, injector, tmux |
| Injector (`crates/desktopd/src/injector`) | the EIS session, keymap, layout and cache; the command channel | select, connect, pump, type, chord, probe | KWin |
| Grammar (`crates/grammar`) | none | normalise, match | router |
| UI (`crates/ui`) | property cache, pages, the dictionary files | follow the daemon, page the history, accept or dismiss, edit entries | bus, files |

What makes each hard, and what makes it correct:

* **Main loop, worker, status.** Five tasks on a runtime with several threads share
  the status and write it without knowing of each other; keys, the lock, clients and
  timers come in any order. Correct: no utterance is lost silently or handled twice,
  none overtakes, what was said to a locked session stays inert, the microphone
  closes, the status tells the truth.
* **Confirmations.** A risky command waits for a spoken yes while windows open,
  close and change focus. Correct: it runs at most once, only after a yes to the
  last prompt, in time, on the window the prompt named.
* **Dictation memory.** The text just typed may be taken back or rewritten while the
  user types too and timers re-read the field. Correct: parla deletes only what it
  typed, and never learns from its own rewrite.
* **Files shared by daemon and UI.** Read-modify-write on both sides without a lock.
  Correct: no accepted or learned pair is lost, no file is ever torn.
* **Local model.** Callers give up on a timeout while their request is still queued;
  a cache is rolled back on every path. Correct: an answer belongs to its question
  and the cache always holds exactly the prefix.
* **Capture to transcript.** A device that hangs, a callback that outlives the stop,
  a resampler fed in arbitrary chunks. Correct: no sample is lost, no failure goes
  untold or is told twice.
* **Injector.** KWin's events are read only now and then, and a burst lands by the
  keymap KWin then has. Correct: no key stays down, nothing is typed twice or out of
  order, and the answer is true.
* **Bus, UI.** Signals of two streams overtake each other, the watch coalesces, the
  daemon dies and comes back, pages are loaded while records arrive. Correct: when
  things are quiet the UI shows what is.
* **History.** A write may be torn, even inside a character. Correct: the rest stays
  readable, in order (inside a character it does not: section 6).
* **Pure algorithms** (message and chord parsing, rules, judging, retries, suffix
  matching, corrections, spacing and breaks, thresholds, window and app choice):
  boundaries, and rules that hide one another.

`PROJECT.json` lists the hazards one by one, each at its line.

## 2. Plan

Each module is one component, parameterised by CONSTANTS; MC modules hold what TLC
needs, proofs have modules of their own.

1. `Utterances`, `Daemon`, `DaemonClaims`, `DaemonProofs`: the core.
2. `Consent`, `Commands`, `CommandsProofs`: the command path of the router with
   policy, the parked command, its deadline and the windows.
3. `Dictation`, `MCDictation`: the last dictation, learn passes and timers, scratch
   and edit against a field that the user edits too. Its proofs are in `TypingProofs`,
   with those of `Injection`.
4. `LocalModel`, `MCLocalModel`, `LocalModelProofs`: the request channel with
   abandoned requests, and the KV cache.
5. `Learning`, `MCLearning`, `LearningProofs`: two files between two programs.
6. `Hearing`, `MCHearing`, `HearingProofs`; `Injection`, `MCInjection`,
   `TypingProofs`; `Mirror`, `MirrorProofs`; `History`, `HistoryProofs`:
   the tasks at the edge, with the platform on the other side.
7. `Payload`, `Chords`, `Grammar`, `Judging`, `Matching`, `Calibration`, `Prose`,
   `Places`: the pure algorithms, what is promised of them in `Reckoning`, checked by
   `MCReckoning` and proved in `CommandsProofs`.

All of it is done. What could follow: the lock watcher's back-off, the focus
follower of `a11y.rs`, the level meter, and a proof of `AnswersTrue`.

`Commands` and `Dictation` detail what the worker of `Daemon` does in its phases
`routing`, `thinking` and `typing`, where `Daemon` leaves the outcome open.
`Hearing` details what comes before: a capture of `Daemon` from its key to its
transcript. `Injection` is what `Types` of `Dictation` and `Acts` of `Commands`
call; `Mirror` is what becomes of the status that `Daemon` writes.

## 3. The modules

### Utterances

The promise. An utterance goes `unborn -> recording -> waiting -> working -> over`,
may be over early, at most one is recorded, and one is taken to work only when every
earlier one is over. `EveryReleaseEnds` and `EveryRecordingEnds` say that nothing
stays behind.

### Daemon

| Variable | In the code |
|---|---|
| `run` | the select loop of `serve`, the wait of at most `SHUTDOWN_GRACE`, the end of the process |
| `born`, `modeOf` | captures are numbered as they start; `Capture::mode` |
| `capture`, `opened` | the local `capture: Option<Capture>`, and whether `capture_ready` has returned |
| `jobs` | the channel `job_tx`/`job_rx` of depth `JOB_QUEUE` |
| `phase`, `current` | where the worker task is suspended, and with which job |
| `locked`, `lockNews` | the watch channel of the lock, and its unseen version for `publish_lock` |
| `verdict`, `ruling` | what `publish_lock`, and the handler of `Enabled`, have decided to write but not yet written |
| `enabled`, `toggles` | the atomic flag, and the messages `Control::Enabled` that follow its writes |
| `state` | `Status::state` |
| `timers`, `firing` | the tasks spawned for a prompt: asleep, and between `bus.state()` and `bus.finish()` |
| `fate`, `reports`, `muted` | history only: what became of each utterance, how often the user was told, which ones met a locked session at a checkpoint |

Every arm of the select loop is an action: `KeyPressed` and `StartRequested`
(`start_capture`), `StartFails`, `DeviceReady`, `DeviceFails`, `KeyReleased`,
`StopRequested` and `HoldExpired` (`finish_capture`), `CancelCapture`,
`EnabledReceived` with `EnabledShown`, `Terminate`. `EnabledWritten` is the bus
object's setter; it stores the flag before the loop hears of it. `LockSeen`,
`PublisherReads` and `PublisherWrites` are the watcher and `publish_lock`. The
worker is `TakesJob`, `HearsNothing`, `HearsUnderLock`, `Hears`, `Judges`, `Types`,
`Reports`, `Asks` and `WorkerPanics`; `TimerWakes` and `TimerClears` are a prompt's
timer; `WorkerDrained` and `GraceElapsed` are the two ends of a shutdown.

**Grain.** A handler that does not await is one action. This hides one order inside
`finish_capture`, which publishes `transcribing` a moment before it sends the job; a
worker or timer step between the two ends in a state that the model reaches with the
step after both. Where a task looks at the status and overwrites it depending on
what it saw, the look and the write are two actions, because the runtime has several
threads: `publish_lock`, the prompt timers and the handler of `Enabled`.

**Abstracted.** The words of an utterance; which command it is; the status' mode,
last result and error flag, the level meter, cues and notifications (`reports`
counts the occasions on which the user is told). The text of an utterance decides
which way the worker goes, so those ways are a free choice: a command may end with a
result, an error, a question, with or without the judge, with or without touching
the desktop. A dictation always reaches `typing`, as in `Router::dictate`, where
`Flow::process` cannot fail. When the bus cannot be reached at start-up the daemon
runs without a status; that case has fewer interleavings and no status, and is not
modelled.

**Bounds.** `MaxUtt` captures, `MaxToggles` unhandled writes of `Enabled`. Both
appear as guards marked in the module. `JobQueue` is the code's constant, made
smaller.

**Fairness.** The runtime polls tasks that are ready, so the worker, both halves of
`publish_lock`, the timers and the handler of `Enabled` are weakly fair. Every await
of the worker is bounded: the focus lookup and the model calls have timeouts,
whisper computes a bounded input; for calls to KWin and the accessibility bus, which
the daemon makes without a timeout of its own, this assumes that those services
answer. `HoldExpired` is the deadline that every capture carries; it is compared on
each turn of the loop, whatever other events arrive. `GraceElapsed` is
`tokio::time::timeout`. Keys, clients, the lock, device failures, panics and signals
owe nothing.

Only the worker as a whole is fair, not each of its steps: `Reports` never has to
happen while another of its steps can.

### DaemonClaims

One statement of a comment that the code does not keep, with a run that shows how
(section 4).

### DaemonProofs

See section 5.

### Consent

The promise about prompts: one is up at a time; it may lapse and then only be
dropped; a consent to it carries it out once or not at all.

### Commands

| Variable | In the code |
|---|---|
| `spoken`, `current` | utterances in the job queue: recorded, and taken by the worker |
| `phase`, `hand`, `picked`, `listed` | where the worker is suspended between two awaits of `route_command`; its local `command`, the window it resolved, `Snapshot::windows` |
| `slot`, `late` | `Confirmations::slot`, and whether its deadline has passed |
| `open`, `closed`, `means` | the desktop: open windows, ids that are gone, and the window each phrase denotes now |
| `seen`, `routed`, `prompts`, `acts` | history only: the prompt on the screen as an utterance was recorded, what reached the command path, what each prompt said, what was done |

`HearsYes` is `confirm` up to its first await, `Checks` the rest of it; `HearsNo`,
`HearsCommand`, `HearsOther` and `HearsFreely` are the other branches of
`route_command`; `Looks` is `snapshot`, `Judges` the verdict, `Asks` is `ask`.
`Dispatch` is the single gate, `Decide` the policy. `Executes` and `Acts` are the
executor: it resolves the window and then tells KWin its id. `PassedOver` is an
utterance that does not come this way: a dictation, silence, a locked session.
`ComesToNothing` is every error on the way, a verdict that is no command, and a
judged edit. `Speaks`, `DesktopChanges` and `WindowElapses` are the world.

**Abstracted.** Four commands stand for all: one per way of being gated (always
asks, never asks, left to the judge's answer on risk) and per whether it has a
window. What a phrase means, which in the code follows from titles, classes, the
stacking order and the focus, is a function that changes freely; an ambiguous phrase
means no window. Probabilities are the three or two sides of their thresholds, and
"unsaid". What the utterance says is chosen when it is transcribed. The deadline is
a flag that is raised at any time.

A confirmed key chord or search has no window to check: it goes to whatever has the
focus, as `check_target` says (`confirm.rs:76`).

**Bounds.** `MaxUtt`, as a guard of `Speaks`. KWin's ids are never used again, so
`DesktopChanges` is bounded by the set of windows.

### CommandsProofs

See section 5.

### Dictation

| Variable | In the code |
|---|---|
| `field`, `focus` | the desktop: the text before the caret of each window, and the focused one |
| `spoken`, `keyed` | utterances in the job queue, each with the window of its `Focus`, looked up at key-down |
| `current`, `phase` | what the worker took last, and where in `dictate`, `scratch` or `edit` it is suspended |
| `hand`, `checked` | the local `last` of `scratch` and `edit`; whether `verified_backspace` has got past its check |
| `last` | `Router::last`: text, window, `seq`, and whether `learn` is still there |
| `timers`, `passes` | the tasks spawned with a sleep; the tasks in `learn_from` |
| `doomed`, `begun`, `calm` | history only: dictations whose deletion was decided, whose pass has begun; whether the field is as parla typed or found it |

`Dictates`, `Types` and `Remembers` are `dictate` up to the cleanup model, the keys,
and the bookkeeping after the awaits of `learn_region`. `Scratches`, and `Edits`
with `Rewrites` after the model, lead to `verified_backspace`, which is `Verifies`
and `Deletes`; `Retypes` is the end of `edit`. `GivesUp` and `InjectionFails` are
their errors. `TimerFires` and `PassReads` are the tasks. `PassedOver` is every
utterance that comes to nothing here: another command, silence, a locked session, a
reference that died. `Speaks`, `UserTypes`, `UserDeletes` and `FocusMoves` are the
world; what other commands do to a field counts as theirs.

**Abstracted.** A dictation is one mark in a field, different from the marks of
other dictations and of the user, so that a property can tell whose text is deleted;
two equal texts, the tolerance of `match_suffix`, and a deletion that stops half-way
are not told apart. Any read of a field may fail, which makes the deletion blind or
ends it. The edit window may be over at any time. `hand` is read once the judge has
spoken, in the step that takes the utterance: in between only a timer can touch
`last`, and only its `learn`.

**Bounds.** `MaxUtt`, as a guard of `Speaks`; `MaxText`, the length beyond which the
user adds nothing more (parla does).

### MCDictation, TypingProofs

The symmetry of the windows for TLC; and section 5.

### LocalModel

| Variable | In the code |
|---|---|
| `held`, `asked`, `waiting`, `jobs` | whether the daemon still has its `LocalModel`; requests sent; the one whose caller awaits; the channel |
| `stage`, `job` | where the thread is in `serve`, `prefill`, `score` or `generate`, and for which request |
| `prompt`, `options`, `goal` | the question in work, or the generation and its `max_tokens` |
| `cells`, `cached` | llama.cpp's cache: for each cell token, position and sequences; `Worker::cached` |
| `logits` | the text after which the model last computed the logits that are used next |
| `offset`, `next`, `batch`, `tally` | the round, the place in the loops of `score`, the batch with `pending`, and how many probabilities each `logp` has taken |
| `made` | tokens generated |
| `torn` | history only: a decode has failed while options were scored |

`Submits`, `TimesOut` and `Drops` are the daemon: `LocalModel::submit`, its timeout,
and `drop`. `TakesJob`, `NextQuestion`, `Answers` and `Ends` are `serve` and the
loop of `evaluate`. `Prefills` and `Prefilled` are `prefill`, `Forks`, `Batches`,
`Flushes` and `ClearsRound` are `score`, `Generates` is `generate`; `Fails` is any
of their decodes returning an error.

**Abstracted.** Numbers: the model is what it was given to read, so logits are the
text they follow and a score counts its factors. What a request asks is chosen as
the thread comes to it. The cache is external: a decode takes free cells and may
fail, in which case it leaves the cells as they were. A request without questions,
or a generation of no tokens, is left out; so is a panic of the thread, after which
every request is refused. The worker is the only caller, so one request at most is
waited for.

**Bounds.** `MaxAsked`, as a guard of `Submits`. `NCtx`, `Batch` and `PerRound` are
the code's constants, made smaller.

### MCLocalModel, LocalModelProofs

Prompts and options for TLC; and section 5.

### Learning

| Variable | In the code |
|---|---|
| `disk` | `learned.toml` and `dictionary.toml`, each with the temporary file of `write_atomic` (`paths.rs:48`) |
| `task` | the call each task is in: what it read, its own copies, the files it has still to save, where the inode it writes is by now |
| `store`, `page` | the daemon's `Dictionary` behind its lock; the dictionary as `DictionaryPage.qml` shows it |
| `reloads`, `mode` | `Reload` calls on their way; `flow.learn` |
| `seen`, `asked`, `clashed`, `alone`, `excused` | history only |

`LearnBegins` to `Counted` are `learn`; `SuggestionClicked` is `accept_suggestion`
and `dismiss_suggestion`; `PageEdited` saves the page; `ReloadBegins` and `Installs`
are `reload`; `Opens`, `Writes`, `WriteFails` and `Renames` are `write_atomic`, step
by step, because the temporary name is the same in both programs. `DaemonRestarts`
and `UIRestarts` are crashes at any point.

**Abstracted.** A pair is two spellings, a dictionary a set of words and a set of
replacements; the order of entries, timestamps and examples are left out. An inode
is known by where it is (under the temporary name, renamed, replaced), which is all
that two writers can tell of it. **Bounds.** `MaxPasses`, `MaxEdits`, `MaxFaults`,
as guards.

### MCLearning, LearningProofs

Two interchangeable daemon tasks beside the UI, one heard and two written spellings,
two passes, one call of the user, one fault: enough for two passes to overlap each
other and a call of the UI, and for a crash in any of them. See also section 5.

### Hearing, MCHearing, HearingProofs

| Variable | In the code |
|---|---|
| `thread`, `session`, `started` | where the thread of `audio.rs` is; who owns the `Recording` handle (`main.rs`); whether `ready()` was polled to its end |
| `ready`, `done`, `taken` | the two channels from the thread |
| `carry`, `carryStart`, `outIdx`, `buf` | the resampler, and the shared buffer |
| `gate`, `phase`, `speech`, `text` | the gate that was loaded; where `transcribe` is with the utterance |
| `heard`, `told` | history only: the frames of the device; how often the user was told of a failure |

`Opens` to `HandsOver` are the thread, `Callback` the stream's callback, which may
run until `drop(stream)` returns; `HearsReady`, `KeyReleased`, `Cancelled` are the
main loop's side; `Awaits`, `Receives`, `GraceElapses`, `Validates`, `Transcribes`,
`WhisperFails` the worker's.

**Abstracted.** Samples are whole numbers, and carry the part of the stream they are
the mean of; the ratio of the rates is exact, where the code multiplies in `f64`.
The root of the energy is left out on both sides. Silero's segments (external) are
any two spans; whisper's transcript is one of a few sequences of words. **Bounds.**
3 frames of the device for 2 samples (windows of one and of two frames, as with 44.1
kHz), 7 frames in callbacks of at most 3, a buffer of 4 samples: windows straddle
callbacks, and the buffer fills in the middle of one. **Fairness.** The threads run,
the timer of `STOP_GRACE` fires and whisper returns; the device owes nothing,
neither opening nor closing, and no user need release a key.

### Injection, MCInjection, TypingProofs

| Variable | In the code |
|---|---|
| `picked`, `candidate` | `injector::select` and its list |
| `asked`, `waiting`, `queue`, `held` | commands, the one whose caller waits, the channel, and whether the handle lives |
| `stage`, `attempt`, `purpose`, `job`, `result` | where the thread `parla-eis` is |
| `session` | `Inner`: capabilities, devices, keymap, group, cache, flags |
| `kwin`, `wire`, `pipe` | external: KWin's half of the session, and the two directions of the socket |
| `got`, `answer`, `disturbed`, `strayed`, `deaf` | history only |

The worker is `Connects`, `Reads` (`pump`, one event), `Connected`, `SetupEnds`,
`Receives`, `EnsuresReady`, `Bursts` within them, `ReadsBack` and `ShutsDown`. A
burst is written whole; KWin reads it an event at a time (`Lands`) and may pause,
switch layouts, change the keymap or hang up before, between and after (`OnItsOwn`).
An event on its way carries the command and the number it has in its burst (`Sent`),
and what lands also the place of a character in its text event (`Landed`): history,
by which `OnceInOrder` tells two equal characters apart.

**Abstracted.** Four keys, two of them modifiers, in one keymap with two layouts and
in another with one; characters have a width so that text events can be cut. A
caller that gives up (`CallerGivesUp`) may do so at any time. **Bounds.** `MaxCommands`
(the probe and two more), `MaxEvents` = 1 thing that KWin does on its own, 2
attempts to connect: a burst can be caught by it at every point, and a dead session
is found at every stage. `AnswersTrue` sets aside two kinds of command and says so
by name: `disturbed`, which KWin caught on the way, and `strayed`, for which the
keymap leaves open what the keys mean (section 6).

### Mirror, MirrorProofs

The way of the status from `Bus` to what QML shows: the watch channel (`status`,
`changed`), the task `publish` (`previous`, `publishing`), `Daemon` on the bus
(`enabled`, `setter`, `control`), one queue per stream of signals (`signals`), and
the UI's `worker` with its properties (`connected`, `commands`, `ui`). Each signal
has a stream of its own and `select!` takes from any that has something, so signals
of one kind stay in order and those of two kinds do not. The interface's lock is
modelled as zbus holds it: a setter has it across the send to the main loop, the
publisher while it emits. `Dies` and `Starts` are the daemon's.

**Abstracted.** A mode goes with its state; constant properties, the level and
events that are passed on as they come are left out. A daemon that starts takes
longer to load its models than the UI to empty its streams. **Bounds.** Two changes
of the status, one write of `Enabled`, one call, one restart, a control channel of
one: a status can be overwritten before it is seen, and the channel can be full
while the lock is held. **Fairness.** Publisher, setter, main loop and the UI's
worker run; nobody has to do anything of his own accord. See also section 5.

### History, HistoryProofs

`file` are the lines as they are, a record or `Broken`; `torn` says that the last has
no newline, `garbled` that some line is not UTF-8, `stored` are the records that
`append` has returned. A write that tears leaves the beginning of a line
(`WriteTears`): all but the newline, so the record can be read though `append`
failed; less than that, which is skipped as unparsable; or a piece that ends inside a
character. `read_all` ends with an error at such a line, so `garbled` makes every
query fail (`HistoryFails`: the UI shows the error and the page goes on waiting) and
`delete` with it, until the file is cleared. One flag is enough, for only `clear`
takes such a line out. `signals` and `commands` are the two
channels to the UI's worker, `page` is what `HistoryPage.qml` shows, with its flags.
`Appends`, `WriteTears`, `Deleted`, `Cleared`, `Recent` are `history.rs`;
`LoadMore`, `Reload`, `WithBatch` and the handlers are the page. A record is its
number, and filters are one recursive function (`Without`), which can be reasoned
about. **Bounds.** Pages of 2, 5 records, 2 torn writes, 3 requests: two pages and a
half, and a tear before and after a delete. `PageIsTrue` leaves out, by `raced`, what
the page is known not to expect: overlaps, a failed query, and a tear that changes what
can be read without a signal (section 6). `HistoryProofs`: see section 5.

### Payload, Chords, Grammar, Judging, Matching, Calibration, Prose, Places

The algorithms without state of their own, one module each, as operators and
recursive functions. `Reckoning` states what they return for an input `given` to one
of them, whatever it is; `MCReckoning` gives bounded inputs, one state per input.
What is proved of them (section 5) is proved of every input.

| Module | Code | Inputs | What is abstracted |
|---|---|---|---|
| `Payload` | `payload.rs` | up to 3 of 16 phrases, 3 intents | case, punctuation inside words |
| `Chords` | `grammar/src/chord.rs`, `injector/mod.rs`, `ydotool.rs` | up to 3 of 19 words | "+" between keys |
| `Grammar` | `crates/grammar/src` | each rule's prefix with up to 2 words, joined or dashed | user rules of a file |
| `Judging` | `judge.rs`, `oracle.rs`, `policy.rs`, `typesafe.rs` | 4 utterances, windows and apps listed twice, every set of answers with invented ones; 3 attempts in time and late | wording of the questions, HTTP |
| `Matching` | `match_suffix` of `a11y.rs`, `learn_region` of `router.rs`, `corrections` of `learned.rs` | every field up to 7 characters; fields of up to 6 words with an edit in any place | case, diacritics |
| `Calibration` | `calibrate.rs` | corpora of 3 outcomes, every case against every build | the report's wording |
| `Prose` | `process` of `flow.rs`, `text.rs`, `snippets.rs`, `dictionary.rs`, `apps.rs` | texts up to 5 characters over classes of characters | case; a class has one or two members |
| `Places` | `windows.rs`, `desktop.rs`, `executor.rs`, `launcher.rs` | 3 windows in every stacking order; 2 directories of entries; every outcome of 3 launchers | the fuzzy matcher (external) is a number |

The constants of the code (`PAYLOAD_SPANS`, `LEARN_CONTEXT`, the grid of thresholds)
are CONSTANTS, made smaller so that their limits are met by short inputs.
Probabilities are levels on the sides of the thresholds.

## 4. What the runs show

| Run | Instance | Shows |
|---|---|---|
| `daemon_safety` | 3 utterances, queue of 2, 1 write of `Enabled` | four invariants and the refinement of `Utterances` |
| `daemon_liveness` | 2 utterances, queue of 1, 1 write | three liveness properties |
| `claim_prompt` | 2 utterances, queue of 1, 1 write | a counterexample |
| `commands_safety` | 3 utterances, 2 windows, 1 phrase | three invariants and the refinement of `Consent` |
| `dictation_safety` | 3 utterances, 2 windows, user text up to 2 | an invariant and two action properties |
| `localmodel_safety` | 3 requests, 6 cells, batches of 2, 2 options a round | four invariants |
| `learning_safety` | 2 daemon tasks and the UI, 2 passes, 1 call, 1 fault | four invariants |
| `hearing_safety` | 7 frames at 3:2, a buffer of 4, both gates | an invariant, an action property, liveness |
| `injection_safety` | 2 keymaps, 3 commands, 1 event of KWin's | three invariants |
| `mirror_safety` | 2 changes, 1 write, 1 call, 1 restart | an invariant and liveness |
| `history_safety` | 5 records, pages of 2, 2 torn writes, 3 requests | two invariants |
| `reckoning` | the table above, some 150 000 inputs | seven invariants over inputs |

* `Accounted`: an utterance is open exactly while it sits in the capture, the queue
  or the worker; once over, it has been reported exactly once. It goes unmentioned
  only at shutdown or with a worker that panicked.
* `NoOvertaking`: nothing that still waits is older than what is in work or was
  handled.
* `LockedSpeechIsInert`: what met the lock at either checkpoint never reaches the
  router, not even if the session unlocks at once.
* `StatusNeverStale`: a busy state always has its work behind it. This is the half
  of "the status is true" that the code keeps in spite of four tasks that overwrite
  each other: the check-then-write of `publish_lock`, of a timer and of the handler
  of `Enabled` can only ever write `idle` or `paused`.
* `KeepsPromise`: the daemon implements `Utterances`.
* `EveryReleaseEnds`, `EveryRecordingEnds`, `PromptEnds`: nothing waits for ever,
  even when the key's release is lost, the session locks, or the worker panics.

For `daemon_safety`: with three utterances one can be recorded, one wait and one be
in work, and two can wait at a queue of two; with a third in the capture the queue
is full. A fourth brings no new relation between two utterances, and the theorems
hold for any number. One unhandled write of `Enabled` at a time still allows any
number of writes in a behaviour. The liveness run uses two utterances with a queue
of one: one waits behind the other.

* `RiskyOnlyAsked`: what always asks is never done without a yes, from the grammar
  or the judge, whatever the judge left unsaid.
* `AsNamed`: a confirmed act is the one its prompt named, on the window its prompt
  named, although the phrase is resolved three times across awaits.
* `NextReplyDecides`: a yes answers the last prompt, and only as the next command
  heard; anything else said in command mode drops the prompt.
* `KeepsConsent`: nothing is carried out late, or twice from one prompt.

For `commands_safety`, two windows let the one a phrase means close, or be replaced
by the other, at every await; with three utterances one asks, one comes in between
or asks again, and one answers.

* `TakesBackItsOwn`: what a scratch or an edit deletes is the dictation it works on,
  if the user left field and focus alone since the text was checked or, where it
  cannot be, since it was typed. This is a fact about the bookkeeping of `last`:
  through rewrites of rewrites, utterances that came to nothing and keys that did
  not go out, it names what the field ends with. One exception is built into the
  history variable `calm`: an edit that fails between its deletion and its rewrite
  leaves `last` with a text that is gone.
* `PassNotAfterRewrite`: no correction pass begins for text that parla has set about
  deleting; it would take the rewrite for a correction by hand. A pass that had
  begun before may still be reading.
* `WaitsOnce`: a pass that waits has not begun, and its timer is still to come.

For `dictation_safety`, three utterances make a dictation, an edit of it and a
scratch of the result; a dictation with two repairs that fail; or two dictations,
whose timers and passes cross, and a repair. Two windows are enough for the focus to
be elsewhere, and two marks of the user's to have text of theirs before and after.

* `CacheInSync`: sequence 0 holds exactly the tokens of the thread's own list, after
  every kind of failure.
* `ReadsOwnText`: the logits an answer is read off follow its own prompt, and what
  was generated since; reuse never leaves the ones of an earlier request.
* `PromptHasRoom`: a prompt that was let in, and what it generates, find their cells
  free, until a decode has failed while options were scored.
* `ForkedUnlessTorn`: an option is scored after the prompt and its own earlier
  tokens, with the same reservation.

For `localmodel_safety`: the six prompts share beginnings of none to all of their
tokens, and are longer and shorter than a batch and than each other. One question
has its options in one round; the other needs two, and the first of them three
batches, the second of which ends one option and begins the next; with a prompt of
two tokens that round does not fit, although each option does. Three requests leave
a failed one behind, and one that nobody waits for.

* `WholeFiles`: under its own name a file is always somebody's whole content, after
  a crash and a full disk too, unless two calls had its temporary file open at once;
  that exception is real (section 6).
* `SeenTwice`: nothing reaches the dictionary that the user did not put there,
  except in the auto mode a pair that was sighted twice, however passes and calls
  overwrite each other.
* `Effective`: while a call is alone, an accepted pair is in one of the two files at
  every moment, and what a call saved is on the disk when it returns.
* `NewsArrives`: the daemon works with the dictionary on the disk, or somebody is
  still going to tell it, unless a call failed or two reloads crossed.
* `SpeechArrivesWhole`: however callbacks cut the stream, the recording is what one
  pass over the signal would give, up to the buffer's capacity; and the gate passes
  one piece of it with all loud frames.
* `FailureToldOnce`: a device that fails is heard of by the main loop and by the
  worker, in either order; the user is told once.
* `EveryStopEnds`: a released utterance ends though the device hangs, and a stream
  stops once nobody holds the handle.
* `KeysUp`, `AnswersTrue`, `OnceInOrder`: no burst leaves a key down; a command is
  answered with success exactly if all of it arrived; none is sent twice or
  overtakes another over reconnects and callers that gave up.
* `Mirrors`: when nothing is on its way the UI shows the daemon's state, last result
  and switch, and whether there is a daemon, in whatever order the streams were
  read; unless the watch coalesced a state away. The last exception is needed: a
  state that comes and goes between two looks of the publisher leaves no
  `StateChanged`.
* `CallsReturn`: the interface's lock, the channel to the main loop and the
  publisher never wait for one another in a circle.
* `TearsCostOne`: as long as no write was cut inside a character since the file was
  last cleared, a torn write costs at most one record besides its own, or leaves its
  own where `append` said it did not; everything else can be read, in order, through
  deletes and further tears. Without the condition it is not true of what can be
  read: one write cut inside a character hides every record (section 6), against the
  comment at `history.rs:109`.
* `PageIsTrue`: the page shows the newest records, each once, without a gap, and
  claims to be complete only when it is.
* `WordsAsSaid`: a message is a contiguous piece of what was said, behind the
  longest cue, the same with and without politeness; a rule's captures are the words
  as spoken; a dictation is typed as said: replacements by whole words, breaks where
  they were spoken, spacing that fits between its neighbours, an answer of the
  cleanup model of bounded length.
* `FindsWhatWasNamed`: no built-in rule is hidden by an earlier one; the window with
  the highest score and topmost among near ones is picked; a hidden entry hides
  those behind it; an app named by its name is on the shortlist; an app is brought
  forward or opened, not both, and opened by one launcher only.
* `ChordsArePressed`: what is read as a chord has a code for every key, modifiers
  first, and is released in reverse; where the grammar's path can press the words as
  they are, the judge's path holds the same keys down. "f 5", which the two read
  differently (section 6), is exempt.
* `AnswersDecide`: the second round asks exactly what the build reads, answers to
  other questions change nothing, and nothing runs unasked on an answer that is
  missing, doubtful or invented.
* `RetriesEnd`: an evaluation with its retries is over in time and does not give up
  while an attempt could still bring an answer.
* `TextFoundAgain`: the suffix that a scratch deletes is the text itself or the
  closest to it; from a field with one edit a pass learns nothing but the word
  respelled.
* `AdviceIsSound`: calibration counts no act as right that was not asked for, and no
  pair of thresholds of the grid beats the one suggested.

The claim:

* `claim_prompt` (`PromptKeepsItsWindow`). `main.rs:660`: "the UI shows it that long
  unless something else happens first". The timer of an earlier prompt, answered or
  replaced, only checks that some prompt is up and clears it.

## 5. What is proved

`DaemonProofs` proves, for every `MaxUtt`, `JobQueue` and `MaxToggles` that satisfy
`DaemonAssumption` (the first two positive):

| Theorem | Says |
|---|---|
| `TypeCorrect` | `TypeOK`, and the worker holds an utterance exactly while it works (`Engaged`) |
| `StandInLine` | worker, queue and capture hold utterances in ascending order (`InLine`) |
| `AllAccounted` | `Accounted` |
| `NobodyOvertakes` | `NoOvertaking` |
| `LockedSpeechInert` | `LockedSpeechIsInert` |
| `StatusTrue` | `StatusNeverStale` |
| `PromiseKept` | `KeepsPromise`, the refinement of `Utterances` |

The argument goes in layers, each an invariant proved with the ones below it.

1. Types, flags and data apart, and `Engaged`.
2. `Moves`: of the thirty-odd actions only eight things can happen to the line of
   utterances: one starts, the capture is dropped, it is sent, the worker takes one,
   the worker ends one, the worker dies with the queue, the daemon leaves, or all
   rests. Each later proof about utterances has one step per move instead of one per
   action.
3. `InLine` is the inductive core: numbers grow from the worker through the queue to
   the capture. `Accounted` is not inductive without it, since ending the worker's
   utterance must not end one that waits, which needs them to differ; nor is
   `NoOvertaking`, which follows from `InLine` and `Accounted`.
4. `LockedSpeechIsInert` is strengthened to `MutedOver`: what met the lock is over
   and was not handled.
5. `StatusNeverStale` is inductive with the types alone, once its cases are split by
   who writes the state.
6. `PromiseKept` maps each move to the step of `Utterances` it stands for, and the
   rest to a stutter.

`CommandsProofs` proves, for every set of windows and phrases and every `MaxUtt`
that satisfy `CommandsAssumption`:

| Theorem | Says |
|---|---|
| `CommandsTyped` | `TypeOK` |
| `RiskyAsked`, `ActsAsNamed`, `NextReplyOnly` | `RiskyOnlyAsked`, `AsNamed`, `NextReplyDecides` |
| `ConsentKept` | `KeepsConsent`, the refinement of `Consent` |
| `DoubtNeverHelps` | the policy is monotone in confidence, risk and dictation |

None of the properties about `acts` is inductive: each says of the past what the
commands under way must still satisfy. The invariant `Inv` therefore says it of the
parked command (`InSlot`) and of the one in hand (`InHand`, `Confirmed`) too: they
are what their prompt said, have not been done, and no command has been heard since
the prompt, or between the prompt and the yes. `Busy` keeps the two apart (while the
worker is busy nothing is parked) and `Unheard` says that utterances to come have
left no trace. Its step is proved by the kind of move: nothing heard (`StillKept`), heard
and dropped (`HeardKept`), taken from the slot (`TakenKept`), done (`DoneKept`),
given up (`FinishedKept`). The refinement needs the same invariant: that a prompt is
raised only when no other is up or granted is `Busy`, and that it is carried out
once is the "has not been done" of `Confirmed`.

`CommandsProofs` also proves about the algorithms that lead to a command, and about
those that tune and press one, what `Reckoning` states of their inputs:

| Theorem | Says | For every |
|---|---|---|
| `EvaluationsEnd` | `RetriesEnd` | script of answers, positive timeout, any first delay |
| `MessagesAreHeard` | a message is what was said from some word on, without its cue | utterance that is a sequence of words |
| `ActsOnAnswers` | what runs unasked rests on certain answers | thresholds, candidates, reply |
| `AskedIsRead` | the second round asks what the build reads | candidates, reply |
| `JudgedByAnswers` | `AnswersDecide`, by the two before | thresholds, candidates, reply |
| `ChordsPressed` | `ChordsArePressed` | sequence of words |
| `AdviceHolds` | `AdviceIsSound` | case and build, corpus, signal, grid |

Their hypotheses are types of the input, which the code's own types or checks give:
a timeout is positive (`config.rs:558`), likelihoods are natural numbers, a message
is cut from a non-empty utterance at a word of it (`Candidates`), and no answer is
to a question that is never asked; windows and apps
are any sets. `AdviceHolds` needs a grid of one point at least
(`CalibrationAssumption`; the code has a fixed grid).

1. Loops and recursive functions are not argued about by induction. A set of numbers
   that has, with every number, a lesser one is empty (`Descent`), so there is no
   first step at which a claim fails; and because there is no first length for which
   a recursive function does not exist, it does (`StrippedExists`, `ReadingExists`).
2. `IsTail` carries `MessagesAreHeard`: stripping a cue, politeness or an introducer
   leaves a tail of what was said, and a tail of a tail is a tail.
3. `Sound` says of a built intent that every field it goes by is an answer: it is
   shown for targets, arguments and messages apart, then `WhatActs` takes the
   policy's decision back to the certainty of each.
4. In `AdviceHolds` the best fraction exists because fractions of bounded terms
   descend only finitely often (`SomeAreBest`), and the middle of the tied ones is
   one of them by counting (`MiddleIsOne`).
5. In `ChordsPressed` the tables of the three crates are compared key by key
   (`KeysHaveCodes`, `SameCode`). `ReadKeys` says of the reader's recursion that
   from every word on it has parted modifiers from the rest, and that it has read
   just the keys of the words when none of them needs its neighbour.

`TypingProofs` proves about `Dictation`, for every set of windows and all `MaxUtt` and `MaxText`
that satisfy `DictationAssumption`:

| Theorem | Says |
|---|---|
| `DictationTyped` | `TypeOK` |
| `OncePerDictation` | `WaitsOnce` |
| `NotAfterRewrite`, `AtItsTime`, `OwnTextTakenBack` | `PassNotAfterRewrite`, `PassAtItsTime`, `TakesBackItsOwn` |

The invariant says why. `HandIsLast`: what a scratch or an edit cloned is still the
remembered dictation, because only the worker replaces it. `IsDisarmed` and
`WaitsForOwnText`: from the decision to delete until `last` is replaced no pass
waits, since only `Remembers` arms one. `Numbered`: the sequence numbers grow, so
the dictation being typed is not among those with a timer, a pass or a deletion.
These with `WaitsOnce` give the properties of passes. `FieldEnds` is the inductive
form of `TakesBackItsOwn`: whenever nobody has disturbed the field it ends with the
text of `last`, except between the keys and the bookkeeping that follows them.

`TypingProofs` proves about `Injection`, for every set of keymaps, all texts and
chords, every size of a text event and every number of attempts and commands that
satisfy `InjectionAssumption` (a character has at most four bytes and an event takes
four; a keycode is not 0; the names of modifiers are no characters):

| Theorem | Says |
|---|---|
| `InjectorTyped` | `InjectorTypeOK` |
| `KeysComeUp` | `KeysUp` |
| `LandsOnceInOrder` | `OnceInOrder` |

1. The types need `HasCommand`, that the worker has a command in hand when it sends
   or answers, or connects in order to. Most of the work is what a burst consists of:
   `Chunks` cuts a text into events that are texts of at least one character, which
   takes that the first character fits, and whatever `Fingering` and `Locate` find in
   a keymap are its keys. Where one would argue by induction over a text (`Bytes`,
   `Chunks`, `FlattenSeq`), the proof takes the least place at which the claim fails.
2. `KeysUp` speaks of an empty socket. Its inductive form `KeysRise` follows the keys
   to where they are: what is down has its release on the way, every press on the way
   has its release behind it (`Rises`), and a paused device, which drops what it is
   sent, has nothing down. A burst can only be appended whole; KWin takes it from the
   front; all other steps empty the socket together with the keys, or leave both.
3. `OnceInOrder` needs `InTurn`: commands are taken in the order they were given, and
   what is on its way or has landed is of commands that are no longer queued, and not
   of the one in hand until its burst is out. Since no step leads back from `reading`
   to one that bursts, a command bursts once; a worker that resends after a dead
   session breaks just this. `Streams` adds that what is on its way is in the order
   it was written and follows what has landed.

`LocalModelProofs` proves, for all tokens, prompts, options and budgets and every
`NCtx`, `Batch` and `PerRound` that satisfy `LocalModelAssumption` (prompts and
options are not empty):

| Theorem | Says |
|---|---|
| `LocalModelTyped` | `TypeOK` |
| `CacheStaysInSync`, `OwnTextRead` | `CacheInSync`, `ReadsOwnText` |
| `TokensCountOnce` | `EachTokenOnce` |
| `OptionsForked`, `RoomForPrompts` | `ForkedUnlessTorn`, `PromptHasRoom` |

1. What a sequence holds is first proved about two caches, before and after a
   change, without the thread: cut (`Cuts`), continued in free cells (`Continues`,
   `Grows`), or with the same cells as another (`Copies`). Three lemmas say that the
   calls of llama.cpp are such changes (`RemovedStep`, `SharedStep`, `DecodedStep`).
2. `Inv` adds to the types and `CacheInSync` that the request in work fits (`Task`),
   what list and logits are at each stage (`Progress`), and that the loops of
   `score` stay within the round (`InLoops`). The types need it: a position is below
   `NCtx` because the request fits. Every action keeps it (`WorkKept`).
3. `Tallied` is the inductive form of `EachTokenOnce`: while options are scored each
   tally is one more than the tokens decoded, however far loops and batch have got;
   between rounds it is complete up to `offset`.
4. For `OptionsForked`, `Queued` says that the batch holds the tokens between the
   decoded ones and the loops, each once, and `Untangled` that outside scoring only
   sequence 0 has cells, and in it also the round's, each with its own text. A
   decode that fails in between is the one step that breaks it, which `torn` marks.
5. `PromptHasRoom` counts: when only sequence 0 has cells, each has a position of
   its own (`CacheInSync`), so all but `Len(cached)` cells are free, and what fits
   needs no more.

`LearningProofs` proves, for all sets of spellings, any number of daemon tasks and
every bound that satisfies `LearningAssumption`:

| Theorem | Says |
|---|---|
| `LearningTyped` | `TypeOK` |
| `FilesStayWhole` | `WholeFiles` |
| `NothingUndeserved` | `SeenTwice` |
| `CallsTakeEffect` | `Effective` |
| `DaemonIsTold` | `NewsArrives` |

`Shapes` says which fields of a call go with its place; the types need it.
`Unclashed` is the inductive form of `WholeFiles`: of a file that never had two
calls in it at once, the one that has it open still holds the temporary inode, blank
until it has written and whole until it renames. Every action but the four of
`write_atomic` leaves it alone (`QuietKeeps`).

`Provenance` is the inductive form of `SeenTwice`. It says the same of every place a
dictionary is kept in (both files under both names, the copies of every call, the
page), and of every copy of the list that no pair is counted more often than it was
sighted; so a call may read, write over, or put back an old version of anything and
still hold nothing undeserved. A step changes the history only by letting it grow
(`Grows`), and what was deserved stays so (`GrowthKeeps`).

`Undisturbed` is the inductive form of `Effective`. It says of a call that nobody
overlapped where its save has got to (`Underway`: the temporary file is its own, at
first empty and then complete) and, of an accepted pair, what holds at each place
(`Accepting`): it is listed until the dictionary that has it is on the disk. Every
step is one of three kinds: a call that moves on a disk that stays, a rename by the
only call under way, or a step by which calls cease to be alone.

`Informed` is the inductive form of `NewsArrives`: as long as nothing excuses it,
either somebody will tell the daemon yet (`Awaited`), or the one task that is about
to install a dictionary has what is on the disk, or the store has it (`Current`).
It needs `Unclashed`, because a rename of another call's content would not be told
of, and `Role`, which says what calls a task can be in: that whoever replaces the
dictionary goes on to send `Reload` is in the order in which files are saved.

`MirrorProofs` proves, for any sets of texts and questions, any room in the control
channel and any number of changes, calls and lives of the daemon:

| Theorem | Says |
|---|---|
| `MirrorTyped` | `TypeOK` |
| `MirrorsTrue` | `Mirrors` |

`Mirrors` speaks of the moment when nothing is on its way. Its inductive form
follows each fact to where it has got to. Up to the daemon's end of the stream, the
last signal sent about a property has its value, or the publisher has yet to send
one (`SwitchSent`, `FactsSent`, `StateSent`). From there, the window shows the
value, or a signal or a command about it is still to come (`SwitchShown`,
`ResultShown`, `StateShown`), once the worker has read from this daemon
(`Settled`). A refresh reads the value as it is, so it may show it before the
signals that were sent earlier; that is harmless because the last of them has the
same value, which is why the invariant is about the last signal of each kind and
not about the order of signals and reads. `OwnerTrue` says the same of the name on
the bus, `Reset` and `Seen` that nothing of one life of the daemon is left in the
next, and `Linked` that a setter called by the UI and the call of the UI's worker
are the same.

`HearingProofs` proves, for every device, gate, set of transcripts and bound that
satisfies the assumptions of `Hearing`:

| Theorem | Says |
|---|---|
| `HearingTyped` | `TypeOK` |
| `ToldOnce` | `FailureToldOnce` |
| `SpeechWhole` | `SpeechArrivesWhole` |

The assumptions are that the shortest speech is no longer than the longest, which is
positive (`PolicyHolds`, as `config.rs:533` demands), and that samples are numbers.

`SpeechWhole` is for every ratio of the rates, every cutting of the stream into
callbacks, every capacity, and both gates. Its argument is that the resampler is at
any time where one pass over what it has heard would be. `Consumed` says it of its
state: of the frames heard it has used those of the windows that are complete, and
`carry` holds the rest, which is shorter than a window. Windows are counted by their
explicit quotient, so that those of the stream before and of the stream after a
callback can be compared (`CarryContinues`, `Joined`), up to the sample at which the
buffer is full (`PushedThrough`). `Recording` then says it of the buffer, and of what
the thread handed over. `Gating` keeps the recording as it is until the gate sees it,
and `EnergyGate`, `SileroGate` follow one utterance through trimming, padding and the
cap. Where one would argue by induction over a stream, the proof takes the least
number at which the claim fails (`Least`).

`WhoTells` says who is responsible: the loop while it has the handle, the worker from
the moment the key is up, nobody once the handle is dropped. `SaidOnce`, that the
thread sends one answer of `ready()`, is what keeps the loop from telling twice.

`HistoryProofs` proves, for every size of a batch (`PagesHold`: one record at least)
and any number of utterances, tears and wishes of the user:

| Theorem | Says |
|---|---|
| `HistoryTyped` | `TypeOK` |
| `TearsAreCheap` | `TearsCostOne` |
| `PageShowsNewest` | `PageIsTrue` |

Records are numbers that grow, so a sequence in order is determined by the set of
what is in it (`OneOrder`), and the newest of a list in falling order are its
beginning (`NewestFirst`). Both properties, which are about sequences, can therefore
be followed as facts about sets and order. What a filter keeps is argued by descent
on the length: a set of numbers without a least one is empty (`Descent`).

1. `Filed` is the inductive form of `TearsCostOne`: stored and readable records are
   in order, they differ by no more records than writes have torn (`Spent`), and
   without the line that is still open by fewer. It needs no condition on `garbled`:
   a cut inside a character hides the lines and destroys none of them. The theorem
   says no more than the property: what is read, when the file can be read.
2. `Awaited`: the page waits for a batch exactly while one query is under way, or
   after one that failed. `Announced`: the signals under way are in order.
3. `Showing`: as long as nothing has raced, the page with the signals under way is
   the newest part of the file (`Faithful`), or a first batch is awaited and some
   record is shown or announced (`Doomed`). The second case is why `Faithful` alone is
   not inductive: a signal is sent for every record that `append` returned, though a
   tear may have swallowed it or left an unreported one behind it, and a reload
   forgets the race but not the signal. When that batch is answered, the signal is
   still under way or has put its record on the list that the reload had emptied, and
   either counts as a race again.

Only model-checked:

* Liveness (`EveryReleaseEnds`, `EveryRecordingEnds`, `PromptEnds`, `EveryStopEnds`,
  `CallsReturn`), which needs fairness and ENABLED and is out of the prover's reach.
* The claim, which is a counterexample.
* `AnswersTrue`. It says what the keys of a burst mean to KWin, so for every keymap
  it needs what the run's keymaps just have: modifiers that mean the same in every
  layout, and keys whose other levels do not fall back on the first. Without such
  assumptions it does not hold; with all of them stated, the theorem would be about
  keymaps more than about the injector.
* `FindsWhatWasNamed`, `TextFoundAgain`, and of `WordsAsSaid` all but what
  `MessagesAreHeard` says (politeness around a request, the captures of the grammar,
  and prose). What is said there is the value of folds over whole texts and lists,
  by induction over data.

## 6. Known disagreements

What the documents, comments or tests say and the code does otherwise, as met while
modelling. The first is run as a claim; the properties leave the others out by name
(`calm`, `clashed`, `raced`, `disturbed`, `strayed`, `missed`, `torn`, `garbled`) or by
the inputs.

* **Prompts.** The timer of one prompt clears another (`main.rs:660`, run
  `claim_prompt`). A reply queued before a prompt was raised answers it
  (`router.rs:520`, against `:471-473`).
* **The lock** is looked at before a model runs and not again (`main.rs:640-642`;
  `docs/architecture.md:154-156`).
* **Status.** An utterance that ends publishes `idle` over `recording` and `paused`
  (`dbus.rs:118`; `docs/dbus.md:23-29`). `LastResult` is not cleared at the next
  capture, `Mode` is set outside a capture, and a state may pass without
  `StateChanged`, against `docs/dbus.md`. Signals still queued when the connection
  goes overwrite `offline`; a refused write of `Enabled` is not reverted in the UI;
  out-of-order signals wipe a question (`crates/ui`, `bus.rs:240`, `daemon.rs:41`).
* **Focus.** A reference should die when focus moves (`docs/configuration.md:294`);
  what is compared are the windows of two key-downs (`router.rs:297`). A focus event
  during the start-up walk of `a11y.rs` may be overwritten by what the walk found.
* **Local model.** After a failed decode `score` returns before it clears its
  sequences (`local.rs:505-527`), so the next options are not forked from the prompt
  alone (`docs/architecture.md:122`).
* **Files.** Two writers of one file share a temporary name (`paths.rs:46-48`). A
  promotion takes a pair off the list before it is in the dictionary
  (`flow.rs:320`), so a crash loses it. The dictionary page writes back a stale copy
  over a promotion. An accept whose second save fails asks for no reload.
* **History.** "A line that does not parse is skipped rather than failing the read, so
  one bad write cannot hide the rest" (`history.rs:109-110`): a write cut inside a
  character makes every read and delete fail until the file is cleared
  (`history.rs:119`; `garbled` and `HistoryFails` in the model), and any torn line
  swallows the record written after it. A query that fails leaves the page waiting:
  nothing resets `loading`, and neither Refresh nor a reconnect asks again
  (`HistoryPage.qml:34`). On the page an utterance that arrives between two batches
  may be shown twice, a refresh during a load shows an empty page, and a dropped batch
  still ends the list.
* **Speech.** The doc of the blocklist filter says that "I love you" survives an
  entry "you" (`asr.rs:126`); it does not.
* **Injector.** A symbol the layout does not have is looked up in the first layout
  though the key now means something else (`eis.rs:13`); a chord presses its keys
  whatever their level; a timed-out command still lands later; an event that cannot
  be handled leaves the session in use.
* **Prose.** A spoken break is found in a lower-cased copy by byte offsets: a letter
  whose lower case is longer moves or breaks them. A paragraph break directly before
  "new line" is trimmed away. A closing straight quote is spaced as an opening one.
* **Names and chords.** "page down", "f five", "press the escape key" are read by
  the judged path and fail on the grammar's; "f 5" is F5 on the one (`chord.rs:166`)
  and the keys F and 5 on the other. `launcher.rs:35` says that launching
  again after a hang would open the app twice, and a `gtk-launch` that hangs is
  followed by `systemd-run`. Stacking is said to settle windows of one app; the
  score comes first.
* **Calibration.** `accept` is admitted for refusals and never honoured there; the
  advice is printed in hundredths of thresholds stepped by `0.05` in floating point.

## 7. Not modelled

* The numeric code behind FFI (whisper, Silero, llama.cpp's arithmetic) and float
  rounding.
* The wording of prompts and questions, the HTTP request and response of `openai.rs`
  and `typesafe.rs` (the retries are), and how an answer is decoded.
* Parsing of the configuration, of hotkey chords and of user rules; sound cues,
  notifications, screenshots, probes, the single-instance check, the mock daemon.
* KRunner, tmux, shortcuts and the session of Claude: commands that are sent off and
  bring nothing back.
* The lock watcher's back-off between reconnects; `Daemon` lets the lock be seen at
  any time.
* The focus follower's events in `a11y.rs`, the level meter, and the UI's
  presentation. A second hotkey that fails to register ends start-up, and the first
  goes with the process.

`PROJECT.json` gives status and reason for each component.
