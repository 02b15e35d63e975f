------------------------------- MODULE Mirror -------------------------------
(***************************************************************************)
(* How the UI follows the daemon over the session bus: the daemon's status *)
(* behind a watch channel and the task that publishes it (crates/parlad/   *)
(* src/dbus.rs), the signals on their way, and the UI's worker with the    *)
(* properties QML binds to (crates/ui/src/daemon/bus.rs, daemon.rs).       *)
(*                                                                         *)
(* The watch keeps only the newest status, and the publisher reads it once *)
(* for StateChanged and again for every PropertiesChanged.  Each signal    *)
(* has a stream of its own in the UI, and select! takes from whichever of  *)
(* them has something: the signals of one stream stay in order, those of   *)
(* two do not.  The daemon may die and be started again.                   *)
(*                                                                         *)
(* A mode goes with its state and is left out, as are the properties that  *)
(* never change, the level meter and the events that are only passed on.   *)
(* What a worker of the UI emits is applied at once; Qt's queue keeps it   *)
(* in order.                                                               *)
(***************************************************************************)
EXTENDS Naturals, SequencesExt

CONSTANTS
  Results,      \* texts of last_result
  Questions,    \* questions of confirmation prompts
  ControlQueue, \* capacity of the control channel
  MaxChanges,   \* bound: changes of the status
  MaxToggles,   \* bound: writes of Enabled
  MaxCalls,     \* bound: requests of the UI to the main loop
  MaxLives      \* bound: times the daemon is started

ASSUME NoneIsNoText == "none" \notin Results \cup Questions
ASSUME ControlHolds == ControlQueue \in Nat \ {0}

VARIABLES
  up,         \* the daemon has its name on the bus
  status,     \* the watch channel: state, last_result
  changed,    \* the publisher has not seen the newest status
  missed,     \* a status was overwritten before the publisher saw it
  previous,   \* what the publisher published last
  publishing, \* what the publisher still has to emit
  notices,    \* the channel of notices: questions
  enabled,    \* the Enabled property
  setter,     \* who is in set_enabled, with the write lock of the interface
  control,    \* the channel to the main loop
  signals,    \* the UI's streams
  worker,     \* what the UI's worker is doing
  connected,  \* the worker's idea of the daemon
  commands,   \* what the user asked for
  ui,         \* the QML properties
  count       \* for the bounds

Published == <<status, changed, missed, previous, publishing, notices>>
Interface == <<enabled, setter, control>>
Client == <<worker, connected, commands, ui>>
vars == <<up, Published, Interface, signals, Client, count>>

States == {"idle", "recording", "waiting"}
Shown == States \cup {"unknown", "offline"}

Default == [state |-> "idle", result |-> "none"]
NoSignals == [state |-> <<>>, props |-> <<>>, confirm |-> <<>>, owner |-> <<>>]
Quick == [task |-> "select", value |-> "none"]

\* A signal on its stream; the bus keeps the order of each.
Sent(stream, s) == [signals EXCEPT ![stream] = Append(@, s)]
Taken(stream) == [signals EXCEPT ![stream] = Tail(@)]

\* A PropertiesChanged with one property.
Prop(name, v) == [name |-> name, value |-> v]

-----------------------------------------------------------------------------
(* The daemon: Bus, Daemon and publish.                                    *)

Count(what) == count' = [count EXCEPT ![what] = @ + 1]

\* The watch is overwritten, and the publisher woken unless it was already.
StatusSent(s) == /\ status' = s /\ changed' = TRUE
                 /\ missed' = (missed \/ changed)

\* Bus::set_state, Bus::finish, and report() when a prompt is raised.
StatusChanges ==
  /\ up /\ count.changes < MaxChanges /\ Count("changes")
  /\ \/ StatusSent([status EXCEPT !.state = "recording"])
        /\ UNCHANGED notices
     \/ \E r \in Results : StatusSent([state |-> "idle", result |-> r])
        /\ UNCHANGED notices
     \/ \E q \in Questions : /\ StatusSent([status EXCEPT !.state = "waiting"])
                             /\ notices' = Append(notices, q)
  /\ UNCHANGED <<up, previous, publishing, Interface, signals, Client>>

\* What is emitted for a status that differs from the previous one, once the
\* publisher has the interface: StateChanged, and then the properties, whose
\* getters are called one after the other.
ToEmit(now) ==
  <<"get">> \o (IF now.state # previous.state THEN <<"state">> ELSE <<>>)
            \o (IF now.result # previous.result THEN <<"result">> ELSE <<>>)

\* publish: changed() returns, and what is borrowed now is to be published.
PublisherWakes ==
  /\ up /\ changed /\ publishing = <<>>
  /\ changed' = FALSE /\ previous' = status /\ publishing' = ToEmit(status)
  /\ UNCHANGED <<up, status, missed, notices, Interface, signals, Client, count>>

\* iface.get() returns when nobody writes the interface.
PublisherGets ==
  /\ up /\ publishing # <<>> /\ Head(publishing) = "get" /\ setter = "nobody"
  /\ publishing' = Tail(publishing)
  /\ signals' = IF Contains(publishing, "state") THEN Sent("state", previous.state)
                ELSE signals
  /\ UNCHANGED <<up, status, changed, missed, previous, notices, Interface, Client, count>>

\* The publisher has the interface for reading.
Reading == publishing # <<>> /\ Head(publishing) # "get"

\* state_changed, last_result_changed: the getter reads the newest status.
PublisherEmits ==
  /\ up /\ Reading
  /\ publishing' = Tail(publishing)
  /\ signals' = Sent("props", Prop(Head(publishing), status[Head(publishing)]))
  /\ UNCHANGED <<up, status, changed, missed, previous, notices, Interface, Client, count>>

\* publish: a notice is sent on as a signal.
PublisherNotes ==
  /\ up /\ publishing = <<>> /\ notices # <<>> /\ notices' = Tail(notices)
  /\ signals' = Sent("confirm", Head(notices))
  /\ UNCHANGED <<up, status, changed, missed, previous, publishing, Interface, Client, count>>

\* set_enabled: the value is stored with the lock of the interface held.
Sets(who, on) ==
  /\ up /\ setter = "nobody" /\ ~Reading
  /\ setter' = who /\ enabled' = on /\ control' = control

\* The main loop is told, as soon as there is room, and the change published.
SetterDone ==
  /\ up /\ setter # "nobody" /\ Len(control) < ControlQueue
  /\ control' = Append(control, "enabled") /\ setter' = "nobody" /\ enabled' = enabled
  /\ signals' = Sent("props", Prop("enabled", enabled))
  /\ worker' = IF setter = "ui" THEN Quick ELSE worker
  /\ UNCHANGED <<up, Published, connected, commands, ui, count>>

\* Another client writes Enabled.
OtherSets ==
  /\ count.toggles < MaxToggles /\ Count("toggles") /\ Sets("other", ~enabled)
  /\ UNCHANGED <<up, Published, signals, Client>>

\* The main loop looks at the interface object before it acts.
LoopActsLocked ==
  /\ up /\ control # <<>> /\ setter = "nobody" /\ control' = Tail(control)
  /\ worker' = IF Head(control) = "ui" THEN Quick ELSE worker
  /\ UNCHANGED <<up, Published, enabled, setter, signals, connected, commands, ui, count>>

\* The main loop acts on a request and answers it.
LoopActs ==
  /\ up /\ control # <<>> /\ control' = Tail(control)
  /\ worker' = IF Head(control) = "ui" THEN Quick ELSE worker
  /\ UNCHANGED <<up, Published, enabled, setter, signals, connected, commands, ui, count>>

\* The daemon exits or is killed; a call that waits for it returns with an error.
Dies ==
  /\ up /\ up' = FALSE
  /\ signals' = Sent("owner", "gone")
  /\ status' = Default /\ changed' = FALSE /\ missed' = FALSE /\ previous' = Default
  /\ publishing' = <<>> /\ notices' = <<>>
  /\ enabled' = TRUE /\ setter' = "nobody" /\ control' = <<>>
  /\ worker' = IF worker.task \in {"calling", "setting"} THEN Quick ELSE worker
  /\ UNCHANGED <<connected, commands, ui, count>>

\* serve: the object is exported, then the name claimed.  The models are loaded
\* before, which takes longer than the UI needs to empty its streams.
Starts ==
  /\ ~up /\ up' = TRUE /\ count.lives < MaxLives /\ Count("lives")
  /\ signals.state = <<>> /\ signals.props = <<>> /\ signals.confirm = <<>>
  /\ signals' = Sent("owner", "here")
  /\ UNCHANGED <<Published, Interface, Client>>

-----------------------------------------------------------------------------
(* The UI's worker: run, worker, handle; and Daemon::apply.                *)

Selects == worker.task = "select"

\* Event::Connected.
ShowsConnection(on) ==
  connected' = on /\ ui' = IF on THEN ui
                          ELSE [ui EXCEPT !.state = "offline", !.question = "none"]

\* apply_props for a state: a question is only kept while it is `waiting`.
WithState(shown, s) ==
  [shown EXCEPT !.state = s, !.question = IF s = "waiting" THEN @ ELSE "none"]

\* refresh: every property is read and shown; false when nobody answers.
Refreshed ==
  IF up
  THEN connected' = TRUE
       /\ ui' = [WithState(ui, status.state) EXCEPT !.result = status.result,
                                                    !.enabled = enabled]
  ELSE ShowsConnection(FALSE)

\* The worker has subscribed to everything and reads what there is.
WorkerBegins ==
  /\ worker.task = "starting" /\ setter = "nobody" /\ Refreshed /\ worker' = Quick
  /\ UNCHANGED <<up, Published, Interface, signals, commands, count>>

\* A daemon that appears is believed to be as the last one was.
OwnerBelieved ==
  ShowsConnection(Head(signals.owner) = "here") /\ UNCHANGED worker

\* The name appeared and nothing was connected: the daemon gets a moment.
\* Otherwise the new owner is all there is to know.
OwnerHandled ==
  LET now == Head(signals.owner) = "here"
  IN IF now /\ ~connected
     THEN worker' = [task |-> "napping", value |-> "none"] /\ UNCHANGED <<connected, ui>>
     ELSE ShowsConnection(now) /\ UNCHANGED worker

\* NameOwnerChanged.
OwnerChanged ==
  /\ Selects /\ signals.owner # <<>> /\ signals' = Taken("owner") /\ OwnerHandled
  /\ UNCHANGED <<up, Published, Interface, commands, count>>

\* The 300 ms are over.
Naps ==
  /\ worker.task = "napping" /\ setter = "nobody" /\ Refreshed /\ worker' = Quick
  /\ UNCHANGED <<up, Published, Interface, signals, commands, count>>

\* StateChanged: shown, unless it is `idle`, which wants the result first.
StateChanged ==
  /\ Selects /\ signals.state # <<>> /\ signals' = Taken("state")
  /\ LET s == Head(signals.state)
     IN IF s = "idle"
        THEN worker' = [task |-> "fetching", value |-> s] /\ UNCHANGED ui
        ELSE ui' = WithState(ui, s) /\ UNCHANGED worker
  /\ UNCHANGED <<up, Published, Interface, connected, commands, count>>

\* get_all after `idle`; the state shown is the signal's.
Fetches ==
  /\ worker.task = "fetching" /\ setter = "nobody" /\ worker' = Quick
  /\ ui' = [WithState(ui, worker.value) EXCEPT !.result = IF up THEN status.result ELSE @]
  /\ UNCHANGED <<up, Published, Interface, signals, connected, commands, count>>

\* PropertiesChanged.
PropsChanged ==
  /\ Selects /\ signals.props # <<>> /\ signals' = Taken("props")
  /\ LET p == Head(signals.props)
     IN ui' = IF p.name = "state" THEN WithState(ui, p.value)
              ELSE [ui EXCEPT ![p.name] = p.value]
  /\ UNCHANGED <<up, Published, Interface, worker, connected, commands, count>>

\* Confirm.
Confirm ==
  /\ Selects /\ signals.confirm # <<>> /\ signals' = Taken("confirm")
  /\ ui' = [ui EXCEPT !.question = Head(signals.confirm)]
  /\ UNCHANGED <<up, Published, Interface, worker, connected, commands, count>>

\* request_enabled: the switch moves at once, and the worker is asked.
Toggles ==
  /\ count.toggles < MaxToggles /\ Count("toggles")
  /\ ui' = [ui EXCEPT !.enabled = ~@]
  /\ commands' = Append(commands, [kind |-> "enabled", on |-> ~ui.enabled])
  /\ UNCHANGED <<up, Published, Interface, signals, worker, connected>>

\* Start, Stop or Cancel from the tray.
Asks ==
  /\ count.calls < MaxCalls /\ Count("calls")
  /\ commands' = Append(commands, [kind |-> "call", on |-> FALSE])
  /\ UNCHANGED <<up, Published, Interface, signals, worker, connected, ui>>

\* A command without a connection: refused, whatever the switch shows.
CommandRefused ==
  /\ Selects /\ commands # <<>> /\ ~connected /\ commands' = Tail(commands)
  /\ UNCHANGED <<up, Published, Interface, signals, worker, connected, ui, count>>

\* A call to a daemon that has gone fails at once.
CallFails ==
  /\ Selects /\ commands # <<>> /\ connected /\ ~up /\ commands' = Tail(commands)
  /\ UNCHANGED <<up, Published, Interface, signals, worker, connected, ui, count>>

\* handle: the worker waits for the write of Enabled to return.
SetsEnabled ==
  /\ Selects /\ commands # <<>> /\ connected /\ Head(commands).kind = "enabled"
  /\ commands' = Tail(commands) /\ Sets("ui", Head(commands).on)
  /\ worker' = [task |-> "setting", value |-> "none"]
  /\ UNCHANGED <<up, Published, signals, connected, ui, count>>

\* handle: the worker waits until the main loop has acted on the request.
Calls ==
  /\ Selects /\ commands # <<>> /\ connected /\ Head(commands).kind = "call"
  /\ up /\ Len(control) < ControlQueue
  /\ commands' = Tail(commands) /\ control' = Append(control, "ui")
  /\ worker' = [task |-> "calling", value |-> "none"]
  /\ UNCHANGED <<up, Published, enabled, setter, signals, connected, ui, count>>

-----------------------------------------------------------------------------
Init ==
  /\ up \in BOOLEAN
  /\ status = Default /\ changed = FALSE /\ missed = FALSE /\ previous = Default
  /\ publishing = <<>> /\ notices = <<>>
  /\ enabled = TRUE /\ setter = "nobody" /\ control = <<>>
  /\ signals = NoSignals /\ worker = [task |-> "starting", value |-> "none"]
  /\ connected = FALSE /\ commands = <<>>
  /\ ui = [state |-> "unknown", result |-> "none", enabled |-> FALSE, question |-> "none"]
  /\ count = [changes |-> 0, toggles |-> 0, calls |-> 0, lives |-> 0]

Publisher == PublisherWakes \/ PublisherGets \/ PublisherEmits \/ PublisherNotes
Server == SetterDone \/ LoopActs
Handles == WorkerBegins \/ OwnerChanged \/ Naps \/ StateChanged \/ Fetches
             \/ PropsChanged \/ Confirm \/ CommandRefused \/ CallFails
             \/ SetsEnabled \/ Calls
Environment == StatusChanges \/ OtherSets \/ Dies \/ Starts
                 \/ Toggles \/ Asks

Next == Publisher \/ Server \/ Handles \/ Environment

\* The tasks of the daemon and the UI's worker run; nobody has to do anything.
Fairness == WF_vars(Publisher) /\ WF_vars(SetterDone) /\ WF_vars(LoopActs) /\ WF_vars(Handles)

Spec == Init /\ [][Next]_vars /\ Fairness

-----------------------------------------------------------------------------
\* Every variable is of its type.
TypeOK ==
  /\ up \in BOOLEAN /\ changed \in BOOLEAN /\ missed \in BOOLEAN /\ enabled \in BOOLEAN
  /\ {status, previous} \subseteq [state : States, result : Results \cup {"none"}]
  /\ setter \in {"nobody", "ui", "other"} /\ Len(control) <= ControlQueue
  /\ worker.task \in {"starting", "select", "napping", "fetching", "setting", "calling"}
  /\ connected \in BOOLEAN /\ ui.enabled \in BOOLEAN /\ ui.state \in Shown
  /\ ui.question \in Questions \cup {"none"}

\* Nothing is on its way, and nobody is doing anything.
Quiet ==
  /\ ~changed /\ publishing = <<>> /\ notices = <<>> /\ setter = "nobody" /\ control = <<>>
  /\ signals = NoSignals /\ worker = Quick /\ commands = <<>>

\* When nothing is on its way the UI knows whether there is a daemon, and shows
\* its state, its last result and its switch, whatever order the streams were
\* read in; unless the publisher never saw one of the states.
Mirrors ==
  Quiet => /\ connected = up
           /\ up /\ ~missed =>
                /\ ui.state = status.state /\ ui.result = status.result
                /\ ui.enabled = enabled

\* Every call of the UI's worker returns, and every write of Enabled: the lock
\* of the interface, the channel to the main loop and the publisher never
\* wait for one another in a circle (dbus.rs, set_enabled and publish).
CallsReturn == /\ worker.task # "select" ~> worker.task = "select"
               /\ setter # "nobody" ~> setter = "nobody"
=============================================================================
