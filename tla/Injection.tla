------------------------------ MODULE Injection ------------------------------
(***************************************************************************)
(* Keys and text for the focused window (injector/eis.rs, "parla-eis").  A  *)
(* caller hands a command to the worker thread and waits a while for its    *)
(* answer.  The worker keeps an EIS session with KWin: it reads KWin's      *)
(* events only now and then, and writes a command as one burst of events    *)
(* that KWin handles later, by the keymap and the layout it then has.       *)
(* injector/mod.rs picks this injector or ydotool's when the daemon starts. *)
(***************************************************************************)
EXTENDS Naturals, SequencesExt, FiniteSetsExt

CONSTANTS Key,            \* keycodes, in the order of the keymap
          Char, Width,    \* characters, and their bytes in UTF-8
          Keymap,         \* by key, layout and level: what it produces
          Asked,          \* what callers may ask for
          Offer,          \* what KWin's seat may offer
          Prefer,         \* the injectors of the configuration, in order
          Chunk,          \* bytes of a text event (2048)
          Attempts,       \* RECONNECT_ATTEMPTS
          MaxCommands,    \* commands in a behaviour (bounds the model)
          MaxEvents       \* what KWin does on its own (bounds the model)

Modifier == {"shift", "altgr", "ctrl"}
Sym      == Char \cup Modifier
Command  == [is : {"type"}, text : Seq(Char), keys : {<<>>}]
            \cup [is : {"chord"}, text : {<<>>}, keys : Seq(Sym \cup {"nonsense"})]
            \cup [is : {"probe"}, text : {<<>>}, keys : {<<>>}]

ASSUME InjectionAssumption ==
  /\ Key \subseteq Nat \ {0} /\ IsFiniteSet(Key) /\ Char \cap (Modifier \cup {"nonsense"}) = {}
  /\ Width \in [Char -> 1 .. 4] /\ Chunk \in Nat /\ Chunk >= 4
  /\ Keymap \subseteq [Key -> Seq(Seq(Sym))] /\ Keymap # {}
  /\ Asked \subseteq Command /\ Offer \subseteq {"text", "keyboard", "pointer"}
  /\ Prefer \in Seq({"eis", "ydotool"}) /\ Attempts \in Nat \ {0}
  /\ MaxCommands \in Nat /\ MaxEvents \in Nat

VARIABLES picked,     \* what select has settled on: an injector, the candidate it tries, or none
          candidate,  \* the place of that candidate in the list
          asked,      \* the commands so far
          waiting,    \* the one whose caller waits, or 0
          queue,      \* the channel
          held        \* somebody has the handle of the worker

VARIABLES stage,      \* what the worker is about to do
          attempt,    \* of connecting
          purpose,    \* what it connects for
          job,        \* the command it works on, or 0
          result,     \* what a burst that is on its way will be answered
          session     \* Inner: the session as the worker knows it

\* KWin (external): the session, the compositor's keymap and layout, and the socket's two ends.
VARIABLES kwin, wire, pipe, events

\* History: what the window got, the answers, the commands whose burst met something
\* that KWin did meanwhile or a symbol the keymap makes doubtful, and whether the worker
\* could not use what KWin told it.
VARIABLES got, answer, disturbed, strayed, deaf

callVars   == <<picked, candidate, asked, waiting, queue, held>>
workVars   == <<stage, attempt, purpose, job, result>>
serverVars == <<kwin, wire, pipe, events>>
history    == <<got, answer, disturbed, strayed, deaf>>
injectorVars == <<callVars, workVars, session, serverVars, history>>
-----------------------------------------------------------------------------
(* Keymaps. *)

Nowhere == [key |-> 0, level |-> 0]

\* What a key without a symbol produces.
NoSymbol == "-"

Layouts(m) == UNION {DOMAIN m[k] : k \in Key}

\* Where a layout has a symbol.  The first key counts, and its lowest level.
Place == [key : Key, level : 1 .. 4]
Places(m, g, s) == {p \in Place :
  g \in DOMAIN m[p.key] /\ p.level \in DOMAIN m[p.key][g] /\ m[p.key][g][p.level] = s}
Foremost(ps) == IF ps = {} THEN Nowhere ELSE
  CHOOSE p \in ps : \A q \in ps : p.key < q.key \/ (p.key = q.key /\ p.level <= q.level)

Locate(m, g, s) ==
  IF Places(m, g, s) # {} THEN Foremost(Places(m, g, s)) ELSE Foremost(Places(m, 1, s))

FindModifier(m, s) == {p.key : p \in {Foremost({q \in Places(m, 1, s) : q.level = 1})} \ {Nowhere}}

\* How a character is pressed: the modifiers of its level that the keymap has, then its key.
Fingering(m, p) ==
  SetToSeq(IF p.level \in {2, 4} THEN FindModifier(m, "shift") ELSE {})
    \o SetToSeq(IF p.level \in {3, 4} THEN FindModifier(m, "altgr") ELSE {})
    \o <<p.key>>
-----------------------------------------------------------------------------
(* What a burst consists of. *)

\* A key, or the keysym itself where KWin takes text.
OnKey(k)   == [key |-> k, sym |-> NoSymbol]
Keysym(s)  == [key |-> 0, sym |-> s]
Stroke     == [key : Key \cup {0}, sym : Sym \cup {NoSymbol}]
Press(x)   == [is |-> "press", what |-> x]
Release(x) == [is |-> "release", what |-> x]
Utf8(t)    == [is |-> "utf8", what |-> t]
\* The event as it goes out: of which command, and the how manieth of its burst.
Sent(e, id, n) == [is |-> e.is, what |-> e.what, by |-> id, nth |-> n]

\* Every key down in turn, and up in reverse.
StrokesLeftHeld(ks) == [i \in DOMAIN ks |-> Press(ks[i])] \o <<Release(Last(ks))>>   \* mutant
Strokes(ks) == [i \in DOMAIN ks |-> Press(ks[i])]
                 \o [i \in DOMAIN ks |-> Release(Reverse(ks)[i])]
OnKeys(ks) == Strokes([n \in DOMAIN ks |-> OnKey(ks[n])])

Bytes(t) ==
  LET upto[n \in 0 .. Len(t)] == IF n = 0 THEN 0 ELSE upto[n - 1] + Width[t[n]]
  IN  upto[Len(t)]

\* The longest beginning of a text that fits an event and ends with a character.
FloorCharBoundary(t) == Max({n \in 0 .. Len(t) : Bytes(SubSeq(t, 1, n)) <= Chunk})

Chunks(t) ==
  LET from[n \in 0 .. Len(t)] ==
        IF n = Len(t) THEN <<>>
        ELSE LET rest == SubSeq(t, n + 1, Len(t))
                 cut  == FloorCharBoundary(rest)
             IN  <<Utf8(SubSeq(rest, 1, cut))>> \o from[n + cut]
  IN  from[0]

ByText(c) == IF c.is = "type" THEN [ok |-> TRUE, burst |-> Chunks(c.text)]
             ELSE IF "nonsense" \in Range(c.keys) THEN [ok |-> FALSE, burst |-> <<>>]
             ELSE [ok |-> TRUE, burst |-> Strokes([n \in DOMAIN c.keys |-> Keysym(c.keys[n])])]

\* By the keymap: characters that no key produces are left out and reported.
Unreachable(i, x) == i.cache[x] = Nowhere
ByKeys(i, c) ==
  IF c.is = "type"
  THEN [ok    |-> ~\E x \in Range(c.text) : Unreachable(i, x),
        burst |-> FlattenSeq([n \in DOMAIN c.text |->
                     IF Unreachable(i, c.text[n]) THEN <<>>
                     ELSE OnKeys(Fingering(i.map, i.cache[c.text[n]]))])]
  ELSE IF \E n \in DOMAIN c.keys : Locate(i.map, i.group, c.keys[n]) = Nowhere
  THEN [ok |-> FALSE, burst |-> <<>>]
  ELSE [ok |-> TRUE, burst |-> OnKeys([n \in DOMAIN c.keys |-> Locate(i.map, i.group, c.keys[n]).key])]

\* char_keys asks the cache first, and keeps what it finds.
Resolved(i, c) == [i EXCEPT !.cache = [x \in Char |->
  IF x \in Range(c.text) /\ i.cache[x] = Nowhere THEN Locate(i.map, i.group, x) ELSE i.cache[x]]]
-----------------------------------------------------------------------------
(* The session as the worker knows it. *)

NoMap   == <<>>
NoCache == [x \in Char |-> Nowhere]

Fresh == [caps |-> FALSE, bound |-> FALSE, text |-> FALSE, keyboard |-> FALSE, map |-> NoMap,
          group |-> 1, cache |-> NoCache, done |-> FALSE, resumed |-> FALSE, dead |-> FALSE]
NoSession == [Fresh EXCEPT !.dead = TRUE]

CanType(i) == i.text \/ (i.keyboard /\ i.map # NoMap)
IsReady(i) == CanType(i) /\ i.done /\ i.resumed /\ ~i.dead

FitGroup(m, g) == IF g \in Layouts(m) THEN g ELSE 1
SetGroupCached(i, g) == [i EXCEPT !.group = FitGroup(i.map, g)]          \* mutant
SetGroup(i, g) == IF FitGroup(i.map, g) = i.group THEN i
                  ELSE [i EXCEPT !.group = FitGroup(i.map, g), !.cache = NoCache]

Plain == {"capability", "seat", "text", "keyboard", "done", "resumed", "paused",
          "disconnected", "broken", "unreadable"}
Event == [is : Plain] \cup [is : {"keymap"}, map : Keymap] \cup [is : {"modifiers"}, group : Nat \ {0}]
Tells(x) == [is |-> x]

\* What an event changes, and which events end the operation that reads them.
Handle(i, e) ==
  CASE e.is = "capability" -> [i EXCEPT !.caps = TRUE]
    [] e.is = "seat"       -> [i EXCEPT !.bound = i.caps]
    [] e.is = "text"       -> [i EXCEPT !.text = TRUE]
    [] e.is = "keyboard"   -> [i EXCEPT !.keyboard = TRUE]
    [] e.is = "keymap"     -> [i EXCEPT !.map = e.map, !.group = FitGroup(e.map, @), !.cache = NoCache]
    [] e.is = "modifiers"  -> IF i.map = NoMap THEN i ELSE SetGroup(i, e.group)
    [] e.is = "done"       -> [i EXCEPT !.done = CanType(i)]
    [] e.is = "resumed"    -> [i EXCEPT !.resumed = TRUE]
    [] e.is = "paused"     -> [i EXCEPT !.resumed = FALSE]
    [] e.is \in {"disconnected", "broken"} -> [i EXCEPT !.dead = TRUE]
    [] OTHER -> i
Refused(i, e) == \/ e.is \in {"broken", "unreadable"}
                 \/ e.is = "seat" /\ ~i.caps
                 \/ e.is = "done" /\ ~CanType(i)
-----------------------------------------------------------------------------
(* KWin. *)

\* What a key (or a keysym) means while others are down.
FirstOf(s) == IF s = <<>> THEN NoSymbol ELSE s[1]
Base(x) == IF x.key = 0 THEN x.sym
           ELSE IF kwin.map[x.key] = <<>> THEN NoSymbol ELSE FirstOf(kwin.map[x.key][1])
HeldDown == {Base(x) : x \in kwin.down} \cap Modifier
Level    == 1 + (IF "shift" \in HeldDown THEN 1 ELSE 0) + (IF "altgr" \in HeldDown THEN 2 ELSE 0)
Produces(x) ==
  IF x.key = 0 THEN x.sym
  ELSE LET ls == kwin.map[x.key]
           g  == IF kwin.group \in DOMAIN ls THEN kwin.group ELSE ((kwin.group - 1) % Len(ls)) + 1
       IN  IF ls = <<>> THEN NoSymbol
           ELSE IF Level \in DOMAIN ls[g] THEN ls[g][Level] ELSE FirstOf(ls[g])

Landing(id, s, ms) == [by |-> id, sym |-> s, with |-> ms \cap {"ctrl"}]
\* The same with the place of the event in its burst, and of a character in its event.
Landed(m, n, s, ms) ==
  [by |-> m.by, nth |-> m.nth, char |-> n, sym |-> s, with |-> ms \cap {"ctrl"}]
InPipe == {pipe[n].by : n \in DOMAIN pipe}

\* A burst is read one event at a time; a paused device drops what it is sent.
Lands ==
  /\ pipe # <<>> /\ pipe' = Tail(pipe)
  /\ LET m == Head(pipe) IN
     IF kwin.paused THEN UNCHANGED <<kwin, got>>
     ELSE CASE m.is = "press" ->
                 /\ kwin' = [kwin EXCEPT !.down = @ \cup {m.what}]
                 /\ got' = IF Produces(m.what) \in Modifier THEN got
                           ELSE Append(got, Landed(m, 1, Produces(m.what), HeldDown))
            [] m.is = "release" -> /\ kwin' = [kwin EXCEPT !.down = @ \ {m.what}]
                                   /\ UNCHANGED got
            [] OTHER -> /\ got' = got \o [n \in DOMAIN m.what |-> Landed(m, n, m.what[n], {})]
                        /\ UNCHANGED kwin
  /\ UNCHANGED <<callVars, workVars, session, wire, events, answer, disturbed, strayed, deaf>>

\* Once the capabilities are bound there is a device, paused, with its keymap and layout.
Offers ==
  /\ kwin.open /\ ~kwin.offered /\ session.bound
  /\ kwin' = [kwin EXCEPT !.offered = TRUE]
  /\ wire' = wire \o (IF kwin.offers = "text" THEN <<Tells("text")>>
                      ELSE <<Tells("keyboard"), [is |-> "keymap", map |-> kwin.map]>>)
                  \o <<Tells("done"), [is |-> "modifiers", group |-> kwin.group]>>
  /\ UNCHANGED <<callVars, workVars, session, pipe, events, history>>

Resumes ==
  /\ kwin.open /\ kwin.offered /\ kwin.paused
  /\ kwin' = [kwin EXCEPT !.paused = FALSE] /\ wire' = Append(wire, Tells("resumed"))
  /\ UNCHANGED <<callVars, workVars, session, pipe, events, history>>

\* What it does on its own, and whom it catches with a burst on the way.
OnItsOwn == /\ kwin.open /\ kwin.offered /\ events < MaxEvents /\ events' = events + 1
            /\ disturbed' = disturbed \cup InPipe \cup (IF stage = "reading" THEN {job} ELSE {})
            /\ UNCHANGED <<callVars, workVars, session, got, answer, strayed, deaf>>

Pauses == /\ OnItsOwn /\ ~kwin.paused
          /\ kwin' = [kwin EXCEPT !.paused = TRUE, !.down = {}]
          /\ wire' = Append(wire, Tells("paused")) /\ UNCHANGED pipe
SwitchesLayout == /\ OnItsOwn
                  /\ \E g \in Layouts(kwin.map) \ {kwin.group} :
                       /\ kwin' = [kwin EXCEPT !.group = g]
                       /\ wire' = Append(wire, [is |-> "modifiers", group |-> g])
                  /\ UNCHANGED pipe
ChangesKeymap ==
  /\ OnItsOwn
  /\ \E m \in Keymap, usable \in BOOLEAN :
       /\ kwin' = [kwin EXCEPT !.map = m, !.group = 1]
       /\ wire' = wire \o <<IF usable THEN [is |-> "keymap", map |-> m] ELSE Tells("unreadable"),
                            [is |-> "modifiers", group |-> 1]>>
  /\ UNCHANGED pipe
Disconnects ==
  /\ OnItsOwn
  /\ kwin' = [kwin EXCEPT !.open = FALSE, !.down = {}] /\ pipe' = <<>>
  /\ \E last \in {"disconnected", "broken"} : wire' = Append(wire, Tells(last))
-----------------------------------------------------------------------------
(* The worker. *)

Closed == [kwin EXCEPT !.open = FALSE, !.offered = FALSE, !.paused = TRUE, !.down = {}, !.offers = "pointer"]

\* A caller that has given up hears nothing any more.
Answers(ok) ==
  /\ answer' = IF waiting = job THEN [answer EXCEPT ![job] = IF ok THEN "ok" ELSE "failed"] ELSE answer
  /\ waiting' = IF waiting = job THEN 0 ELSE waiting
  /\ stage' = "idle" /\ job' = 0 /\ result' = TRUE
  /\ UNCHANGED <<picked, candidate, asked, queue, held, attempt, purpose>>

Dials(n, why) == stage' = "dialling" /\ attempt' = n /\ purpose' = why

\* An attempt to connect has failed: the next, or no more.
AttemptFails ==
  /\ session' = NoSession /\ kwin' = Closed /\ wire' = <<>> /\ pipe' = <<>>
  /\ \/ /\ attempt < Attempts /\ Dials(attempt + 1, purpose)
        /\ UNCHANGED <<callVars, job, result, answer>>
     \/ /\ attempt >= Attempts /\ purpose = "start" /\ stage' = "gone"
        /\ UNCHANGED <<callVars, attempt, purpose, job, result, answer>>
     \/ attempt >= Attempts /\ purpose # "start" /\ Answers(FALSE)
  /\ UNCHANGED <<events, got, disturbed, strayed, deaf>>

\* connectToEIS: refused, or a new session whose seat says what it has.
Connects ==
  /\ stage = "dialling"
  /\ \/ AttemptFails
     \/ \E o \in Offer :
          /\ session' = Fresh /\ deaf' = FALSE /\ stage' = "connecting"
          /\ kwin' = [Closed EXCEPT !.open = TRUE, !.offers = o] /\ pipe' = <<>>
          /\ wire' = (IF o = "pointer" THEN <<>> ELSE <<Tells("capability")>>) \o <<Tells("seat")>>
          /\ UNCHANGED <<callVars, attempt, purpose, job, result, events, got, answer, disturbed, strayed>>

\* pump: one event, which may end what the worker is at.
Reads ==
  /\ stage \in {"connecting", "idle", "draining", "reading", "probing"}
  /\ ~session.dead /\ wire # <<>>
  /\ LET e == Head(wire) IN
     IF Refused(session, e) /\ stage = "connecting" THEN AttemptFails
     ELSE /\ session' = Handle(session, e) /\ wire' = Tail(wire)
          /\ deaf' = (deaf \/ e.is = "unreadable")
          /\ IF Refused(session, e) /\ stage # "idle" THEN Answers(FALSE)
             ELSE UNCHANGED <<callVars, workVars, answer>>
          /\ UNCHANGED <<kwin, pipe, events, got, disturbed, strayed>>

Drained == ~session.dead /\ wire = <<>>

\* Where a keymap leaves it open what a command will produce: a symbol the layout does
\* not have is taken from the first layout though the key means something else by now,
\* a chord presses its keys whatever their level, and a modifier may be missing.
Doubtful(i, c) ==
  /\ ~i.text
  /\ \E s \in Range(c.text) \cup Range(c.keys) :
       LET p == Locate(i.map, i.group, s) IN
       /\ p # Nowhere
       /\ \/ Places(i.map, i.group, s) = {} /\ i.group \in DOMAIN i.map[p.key]
          \/ c.is = "chord" /\ p.level # 1
          \/ p.level \in {2, 4} /\ FindModifier(i.map, "shift") = {}
          \/ p.level \in {3, 4} /\ FindModifier(i.map, "altgr") = {}

\* burst: everything is written at once, to whatever KWin is by now, or cannot be written.
Bursts ==
  LET c == asked[job]
      i == IF session.text THEN session ELSE Resolved(session, c)
      b == IF i.text THEN ByText(c) ELSE ByKeys(i, c)
  IN  /\ session' = i
      /\ strayed' = IF deaf \/ Doubtful(i, c) THEN strayed \cup {job} ELSE strayed
      /\ \/ /\ pipe' = IF kwin.open THEN pipe \o [n \in DOMAIN b.burst |-> Sent(b.burst[n], job, n)]
                       ELSE pipe
            /\ disturbed' = IF kwin.open /\ wire = <<>> THEN disturbed ELSE disturbed \cup {job}
            /\ stage' = "reading" /\ result' = b.ok
            /\ UNCHANGED <<callVars, attempt, purpose, job, answer>>
         \/ /\ ~kwin.open /\ disturbed' = disturbed \cup {job} /\ Answers(FALSE) /\ UNCHANGED pipe
      /\ UNCHANGED <<kwin, wire, events, got, deaf>>

\* connect succeeds.
Connected ==
  /\ stage = "connecting" /\ Drained /\ IsReady(session)
  /\ IF purpose = "send" THEN Bursts
     ELSE /\ stage' = IF purpose = "start" THEN "idle" ELSE "draining"
          /\ UNCHANGED <<callVars, attempt, purpose, job, result, session, serverVars, history>>

\* Its four seconds are over, or the session has died.
SetupEnds == stage = "connecting" /\ (session.dead \/ (Drained /\ ~IsReady(session))) /\ AttemptFails

Receives ==
  /\ stage = "idle" /\ queue # <<>>
  /\ job' = Head(queue) /\ queue' = Tail(queue)
  /\ IF asked[Head(queue)].is = "probe" THEN stage' = "probing" /\ UNCHANGED <<attempt, purpose>>
     ELSE IF session.dead THEN Dials(1, "drain")
     ELSE stage' = "draining" /\ UNCHANGED <<attempt, purpose>>
  /\ UNCHANGED <<picked, candidate, asked, waiting, held, result, session, serverVars, history>>

\* ensure_ready: reconnect if the session has died, or send, or wait no longer.
EnsuresReady ==
  /\ stage = "draining"
  /\ \/ /\ session.dead /\ Dials(1, "send")
        /\ UNCHANGED <<callVars, job, result, session, serverVars, history>>
     \/ Drained /\ IsReady(session) /\ Bursts
     \/ /\ Drained /\ ~IsReady(session) /\ Answers(FALSE)
        /\ UNCHANGED <<session, serverVars, got, disturbed, strayed, deaf>>

\* After a burst, or in a probe, nothing more has come for a while.
ReadsBackAndResends ==                                                \* mutant
  /\ stage \in {"reading", "probing"} /\ (session.dead \/ wire = <<>>)
  /\ IF session.dead /\ stage = "reading"
     THEN Dials(1, "send") /\ UNCHANGED <<callVars, job, result, answer>>
     ELSE Answers(~session.dead /\ result)
  /\ UNCHANGED <<session, serverVars, got, disturbed, strayed, deaf>>
ReadsBack ==
  /\ stage \in {"reading", "probing"} /\ (session.dead \/ wire = <<>>)
  /\ Answers(~session.dead /\ result)
  /\ UNCHANGED <<session, serverVars, got, disturbed, strayed, deaf>>

\* The handle is gone and the channel empty: the session is closed with what is in it.
ShutsDown ==
  /\ stage = "idle" /\ ~held /\ queue = <<>>
  /\ stage' = "gone" /\ session' = NoSession
  /\ kwin' = Closed /\ wire' = <<>> /\ pipe' = <<>> /\ disturbed' = disturbed \cup InPipe
  /\ UNCHANGED <<callVars, attempt, purpose, job, result, events, got, answer, strayed, deaf>>
-----------------------------------------------------------------------------
(* The callers, and the choice of an injector. *)

Sends(c) ==
  /\ asked' = Append(asked, c) /\ answer' = Append(answer, "none")
  /\ queue' = Append(queue, Len(asked) + 1) /\ waiting' = Len(asked) + 1

CallerGivesUp == /\ waiting # 0 /\ waiting' = 0
                 /\ answer' = [answer EXCEPT ![waiting] = "unresponsive"]
                 /\ UNCHANGED <<picked, candidate, asked, queue, held, workVars, session, serverVars,
                                got, disturbed, strayed, deaf>>

TriesNext == IF candidate < Len(Prefer) THEN candidate' = candidate + 1 /\ picked' = "trying"
             ELSE picked' = "none" /\ UNCHANGED candidate

\* EisInjector::new, its outcome or the end of the wait for it, and the probe.
StartsWorker == /\ picked = "trying" /\ Prefer[candidate] = "eis" /\ stage = "unstarted"
                /\ picked' = "starting" /\ held' = TRUE /\ Dials(1, "start")
                /\ UNCHANGED <<candidate, asked, waiting, queue, job, result, session, serverVars, history>>
WorkerReports ==
  /\ picked = "starting"
  /\ \/ stage = "idle" /\ picked' = "probing" /\ Sends([is |-> "probe", text |-> <<>>, keys |-> <<>>])
        /\ UNCHANGED <<candidate, held>>
     \/ TriesNext /\ held' = FALSE /\ UNCHANGED <<asked, waiting, queue, answer>>
  /\ UNCHANGED <<workVars, session, serverVars, got, disturbed, strayed, deaf>>
ProbeReturns ==
  /\ picked = "probing" /\ waiting = 0
  /\ IF answer[Len(asked)] = "ok" THEN picked' = "eis" /\ UNCHANGED <<candidate, held>>
     ELSE TriesNext /\ held' = FALSE
  /\ UNCHANGED <<asked, waiting, queue, workVars, session, serverVars, history>>
TriesYdotool == /\ picked = "trying" /\ Prefer[candidate] = "ydotool"
                /\ (picked' = "ydotool" /\ UNCHANGED candidate) \/ TriesNext
                /\ UNCHANGED <<asked, waiting, queue, held, workVars, session, serverVars, history>>

Asks(c) == /\ picked = "eis" /\ held /\ waiting = 0 /\ Len(asked) < MaxCommands
           /\ c.is = "type" => c.text # <<>>
           /\ c.is = "chord" => c.keys # <<>>
           /\ Sends(c)
           /\ UNCHANGED <<picked, candidate, held, workVars, session, serverVars,
                          got, disturbed, strayed, deaf>>

Drops == /\ picked = "eis" /\ held /\ waiting = 0 /\ held' = FALSE
         /\ UNCHANGED <<picked, candidate, asked, waiting, queue, workVars, session, serverVars, history>>
-----------------------------------------------------------------------------
InjectorInit == /\ picked = "trying" /\ candidate = 1 /\ held = FALSE
                /\ asked = <<>> /\ waiting = 0 /\ queue = <<>>
                /\ stage = "unstarted" /\ attempt = 1 /\ purpose = "start" /\ job = 0 /\ result = TRUE
                /\ session = NoSession
                /\ \E m \in Keymap : \E g \in Layouts(m) :
                     kwin = [open |-> FALSE, offered |-> FALSE, paused |-> TRUE, offers |-> "pointer",
                             map |-> m, group |-> g, down |-> {}]
                /\ wire = <<>> /\ pipe = <<>> /\ events = 0
                /\ got = <<>> /\ answer = <<>> /\ disturbed = {} /\ strayed = {} /\ deaf = FALSE

Server == Lands \/ Offers \/ Resumes \/ Pauses \/ SwitchesLayout \/ ChangesKeymap \/ Disconnects
Worker == Connects \/ Reads \/ Connected \/ SetupEnds \/ Receives \/ EnsuresReady \/ ReadsBack \/ ShutsDown
Caller == CallerGivesUp \/ StartsWorker \/ WorkerReports \/ ProbeReturns \/ TriesYdotool \/ Drops
          \/ \E c \in Asked : Asks(c)

InjectorNext == Server \/ Worker \/ Caller
InjectorSpec == InjectorInit /\ [][InjectorNext]_injectorVars
-----------------------------------------------------------------------------
Id == DOMAIN asked
Got(id) == LET mine == SelectSeq(got, LAMBDA x : x.by = id)
           IN  [n \in DOMAIN mine |-> Landing(id, mine[n].sym, mine[n].with)]

\* What a command means: its characters, or a key with the modifiers before it.
Meant(id) == LET c == asked[id] IN
  IF c.is = "type" THEN [n \in DOMAIN c.text |-> Landing(id, c.text[n], {})]
  ELSE IF c.is = "probe" THEN <<>>
  ELSE IF "nonsense" \in Range(c.keys) THEN <<Landing(id, "nonsense", {})>>
  ELSE <<Landing(id, Last(c.keys), Range(c.keys))>>

Session    == [caps : BOOLEAN, bound : BOOLEAN, text : BOOLEAN, keyboard : BOOLEAN,
               map : Keymap \cup {NoMap}, group : Nat \ {0}, cache : [Char -> Place \cup {Nowhere}],
               done : BOOLEAN, resumed : BOOLEAN, dead : BOOLEAN]
Compositor == [open : BOOLEAN, offered : BOOLEAN, paused : BOOLEAN, offers : {"text", "keyboard", "pointer"},
               map : Keymap, group : Nat \ {0}, down : SUBSET Stroke]
Carried    == [is : {"press", "release"}, what : Stroke, by : Id, nth : Nat \ {0}]
              \cup [is : {"utf8"}, what : Seq(Char), by : Id, nth : Nat \ {0}]
Heard      == [by : Id, nth : Nat \ {0}, char : Nat \ {0}, sym : Sym \cup {NoSymbol},
               with : SUBSET {"ctrl"}]

InjectorTypeOK ==
  /\ picked \in {"trying", "starting", "probing", "eis", "ydotool", "none"}
  /\ candidate \in Nat /\ asked \in Seq(Command) /\ held \in BOOLEAN
  /\ waiting \in Id \cup {0} /\ queue \in Seq(Id) /\ job \in Id \cup {0}
  /\ stage \in {"unstarted", "dialling", "connecting", "idle", "draining", "reading", "probing", "gone"}
  /\ attempt \in 1 .. Attempts /\ purpose \in {"start", "drain", "send"} /\ result \in BOOLEAN
  /\ session \in Session /\ kwin \in Compositor /\ wire \in Seq(Event) /\ events \in 0 .. MaxEvents
  /\ pipe \in Seq(Carried) /\ got \in Seq(Heard)
  /\ answer \in [Id -> {"none", "ok", "failed", "unresponsive"}]
  /\ disturbed \subseteq Id /\ strayed \subseteq Id /\ deaf \in BOOLEAN

\* No burst leaves a key down (eis.rs, key_chord and type_text: a chord is resolved whole
\* before its first key is pressed, and every press has its release).
KeysUp == pipe = <<>> => kwin.down = {}

\* A command is answered with success if and only if the window got all of it, and what it
\* got is in any case what was asked, less characters that cannot be typed (mod.rs:11,
\* undelivered keystrokes are an error; eis.rs:728, which reports them), where KWin did
\* nothing of its own from the burst until it was answered, and the keymap left no doubt.
AnswersTrue ==
  \A id \in Id : /\ answer[id] \in {"ok", "failed"} /\ asked[id].is # "probe"
                 /\ id \notin disturbed \cup strayed \cup InPipe
                 => /\ answer[id] = "ok" <=> Got(id) = Meant(id)
                    /\ Got(id) = SelectSeq(Meant(id), LAMBDA x : x \in Range(Got(id)))

\* x landed before y could have: a command before a later one, and of one command each
\* event, and of an event each character, in its turn.
Before(x, y) == \/ x.by < y.by
                \/ x.by = y.by /\ x.nth < y.nth
                \/ x.by = y.by /\ x.nth = y.nth /\ x.char < y.char

\* However often the session dies, no key or character of a command lands twice and none
\* overtakes an earlier one, of its command or of one before, even when the caller has
\* given up on it (eis.rs, burst and ensure_ready: only what has not been sent yet is sent
\* over a new session).
OnceInOrder ==
  \A m, n \in DOMAIN got : m < n => Before(got[m], got[n])
=============================================================================
