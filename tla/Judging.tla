------------------------------ MODULE Judging ------------------------------
(***************************************************************************)
(* The judged path (crates/parlad/src/judge.rs, oracle.rs, policy.rs): two *)
(* rounds of questions to a model about one utterance, and the intent that *)
(* is built from the answers, with what the policy needs to decide whether *)
(* it may run.  typesafe.rs asks a model over HTTP, with retries.          *)
(*                                                                         *)
(* An option is a record, of a kind and a number where the kind is counted *)
(* ("a:3" is the fourth app); what a question says of its options is left  *)
(* out.  Probabilities are natural numbers.  A model may answer any of the *)
(* questions it is asked, with an option or anything else.                 *)
(***************************************************************************)
EXTENDS Integers, SequencesExt, Payload, Chords

CONSTANTS
  APP_CANDIDATES,      \* apps on offer
  WINDOW_CANDIDATES,   \* windows on offer
  PAYLOAD_SPANS,       \* words a payload may start at
  DESKTOP_CANDIDATES   \* desktops on offer

NoAnswer == -1
Option(kind) == [kind |-> kind, n |-> 0]
Counted(kind, ns) == [kind : {kind}, n : ns]
NO_TARGET == Option("none")
FOCUSED == Option("focused")
WHOLE == Option("whole")

-----------------------------------------------------------------------------
\* Candidates.  A context has apps and windows in the order they are known in,
\* the number of desktops, and whether something was dictated a moment ago.

FirstBy(items, field) ==
  LET first(i) == \A j \in 1 .. i - 1 : items[j][field] # items[i][field]
  IN FoldLeftDomain(LAMBDA kept, i : IF first(i) THEN Append(kept, items[i]) ELSE kept,
                    <<>>, items)

AtMost(n, items) == SubSeq(items, 1, IF n < Len(items) THEN n ELSE Len(items))

Candidates(utterance, ctx) ==
  [utterance |-> utterance,
   apps |-> FirstBy(AtMost(APP_CANDIDATES, ctx.apps), "name"),
   windows |-> AtMost(WINDOW_CANDIDATES, FirstBy(ctx.windows, "id")),
   spans |-> IF Len(utterance) < PAYLOAD_SPANS THEN Len(utterance) ELSE PAYLOAD_SPANS,
   desktop_count |-> ctx.desktop_count,
   last_dictation |-> ctx.last_dictation]

Actions ==
  {"claude_model", "claude_read", "claude_tell", "close_window", "edit_text", "key", "krunner",
   "maximize_window", "minimize_window", "notify", "open_terminal", "show_app",
   "start_claude", "virtual_desktop", "virtual_desktop_rel"}

\* intent_criteria
OfferedIntents(cand) ==
  {NO_TARGET} \cup {Option(a) : a \in {x \in Actions : x # "edit_text" \/ cand.last_dictation}}

\* assemble: the options of each question that may be asked.
Options(cand, id) ==
  CASE id = "intent" -> OfferedIntents(cand)
    [] id = "is_dictation" -> {Option(k) : k \in {"command", "text", "neither"}}
    [] id = "target" ->
         Counted("app", 0 .. Len(cand.apps) - 1) \cup {FOCUSED, NO_TARGET}
           \cup Counted("window", 0 .. Len(cand.windows) - 1)
    [] id = "desktop_number" ->
         Counted("desktop", {n \in 1 .. cand.desktop_count : n <= DESKTOP_CANDIDATES})
           \cup {NO_TARGET}
    [] id = "desktop_direction" -> {Option("next"), Option("previous"), NO_TARGET}
    [] id = "claude_model" -> {Option(m) : m \in {"opus", "sonnet", "haiku"}} \cup {NO_TARGET}
    [] id = "payload" -> Counted("span", 1 .. cand.spans - 1) \cup {WHOLE, NO_TARGET}
    [] OTHER -> {}

Span(cand, key) ==
  IF key = WHOLE THEN cand.utterance ELSE From(cand.utterance, key.n + 1)

-----------------------------------------------------------------------------
\* The two rounds.

\* risk_rule
Risk(name) ==
  CASE name \in {"show_app", "launch_app", "focus_window", "open_terminal", "start_claude",
                 "claude_model", "claude_read", "virtual_desktop", "virtual_desktop_rel",
                 "notify", "minimize_window", "maximize_window", "scratch_that", "confirm",
                 "deny"} -> "never"
    [] name \in {"close_window", "key", "claude_tell", "run_shortcut"} -> "always_confirmed"
    [] OTHER -> "judged"

FirstRound == {"intent", "is_dictation"}

\* A plausible slip: the message is never asked for.
WithoutMessage(cand, intent) ==
  LET risk == IF Risk(intent) = "judged" THEN {"is_destructive"} ELSE {}
  IN CASE intent = "none" -> {}
       [] intent \in {"show_app", "close_window", "minimize_window", "maximize_window"} ->
            {"target"} \cup risk
       [] intent = "virtual_desktop" -> {"desktop_number"}
       [] intent = "virtual_desktop_rel" -> {"desktop_direction"}
       [] intent \in {"start_claude", "claude_model"} -> {"claude_model"}
       [] OTHER -> risk

SecondRound(cand, intent) ==
  LET argument ==
        CASE intent \in {"show_app", "close_window", "minimize_window", "maximize_window"} ->
               {"target"}
          [] intent = "virtual_desktop" -> {"desktop_number"}
          [] intent = "virtual_desktop_rel" -> {"desktop_direction"}
          [] intent \in {"start_claude", "claude_model"} -> {"claude_model"}
          [] /\ intent \in {"krunner", "notify", "claude_tell", "key"}
             /\ StripCue(intent, cand.utterance) = NoMessage -> {"payload"}
          [] OTHER -> {}
      risk == IF Risk(intent) = "judged" THEN {"is_destructive"} ELSE {}
  IN IF intent = "none" THEN {} ELSE argument \cup risk

-----------------------------------------------------------------------------
\* Answers.  resp is a function from the questions that were answered; an
\* answer is a choice with its probability, a noul, or something unknown.

IsChoice(resp, id) == id \in DOMAIN resp /\ resp[id].type = "choice"
Noul(resp, id) ==
  IF id \in DOMAIN resp /\ resp[id].type = "noul" THEN resp[id].p ELSE NoAnswer

\* dictation_probability: what the question weighed its reading "text" with.
Dictation(resp) == IF IsChoice(resp, "is_dictation") THEN resp["is_dictation"].text ELSE NoAnswer

Invented(cand, resp, id) == IsChoice(resp, id) /\ resp[id].key \notin Options(cand, id)
Chosen(cand, resp, id) ==
  IsChoice(resp, id) /\ resp[id].key \in Options(cand, id) \ {NO_TARGET}

Lesser(p, q) == IF p <= q THEN p ELSE q

\* arg: a no-match folds its doubt in as well.
Folded(resp, id, confidence) ==
  IF IsChoice(resp, id) THEN Lesser(confidence, resp[id].p) ELSE confidence

-----------------------------------------------------------------------------
\* build: an intent with its argument and, in the end, what its answers weigh; or
\* that there is none.

Unclear == [verdict |-> "unclear"]
Intent(name) == [verdict |-> "act", name |-> name, query |-> "", n |-> 0, words |-> <<>>,
                 window_id |-> "", entry_id |-> "",
                 confidence |-> 0, destructive |-> NoAnswer, dictation |-> NoAnswer]

\* The intents that act on a window or an app, with what `target` denotes.
OnTarget(cand, name, key) ==
  LET w == cand.windows[key.n + 1]
      app == cand.apps[key.n + 1]
      shown == name = "show_app"
  IN CASE key.kind = "window" ->
            [Intent(IF shown THEN "focus_window" ELSE name) EXCEPT
               !.query = w.title, !.window_id = w.id]
       [] key.kind = "app" ->
            IF shown THEN [Intent("launch_app") EXCEPT !.query = app.name, !.entry_id = app.id]
            ELSE [Intent(name) EXCEPT !.query = app.name]
       [] key.kind = "focused" /\ ~shown -> Intent(name)
       [] OTHER -> Unclear

\* The message of an intent that passes one on, from the rule or the model.
Message(cand, resp, name) ==
  IfAny(StripCue(name, cand.utterance),
        IF Chosen(cand, resp, "payload") THEN Span(cand, resp["payload"].key) ELSE NoMessage)

Chord(message) == SpokenChord([i \in DOMAIN message |-> message[i].is])

WithWords(name, words) ==
  IF words # <<>> THEN [Intent(name) EXCEPT !.words = words] ELSE Unclear

Argued(cand, resp, name) ==
  LET has(id) == Chosen(cand, resp, id)
  IN CASE name \in {"show_app", "close_window", "minimize_window", "maximize_window"} ->
            IF has("target") THEN OnTarget(cand, name, resp["target"].key) ELSE Unclear
       [] name = "virtual_desktop" ->
            IF has("desktop_number") /\ resp["desktop_number"].key.n \in 1 .. cand.desktop_count
            THEN [Intent(name) EXCEPT !.n = resp["desktop_number"].key.n] ELSE Unclear
       [] name = "virtual_desktop_rel" ->
            IF has("desktop_direction")
            THEN [Intent(name) EXCEPT
                    !.n = IF resp["desktop_direction"].key = Option("next") THEN 1 ELSE -1]
            ELSE Unclear
       [] name \in {"start_claude", "claude_model"} ->
            IF has("claude_model")
            THEN [Intent(name) EXCEPT !.query = resp["claude_model"].key.kind]
            ELSE IF name = "start_claude" THEN Intent(name) ELSE Unclear
       [] name \in {"krunner", "claude_tell", "notify"} ->
            WithWords(name, Message(cand, resp, name))
       [] name = "key" -> WithWords(name, Chord(Message(cand, resp, name)))
       [] name = "edit_text" -> [Intent(name) EXCEPT !.words = cand.utterance]
       [] name \in {"open_terminal", "claude_read"} -> Intent(name)

\* The question whose answer an intent's argument is read off.
Reads(cand, name) ==
  CASE name \in {"show_app", "close_window", "minimize_window", "maximize_window"} -> "target"
    [] name = "virtual_desktop" -> "desktop_number"
    [] name = "virtual_desktop_rel" -> "desktop_direction"
    [] name \in {"start_claude", "claude_model"} -> "claude_model"
    [] /\ name \in {"krunner", "claude_tell", "notify", "key"}
       /\ StripCue(name, cand.utterance) = NoMessage -> "payload"
    [] OTHER -> "nothing"

\* An intent once its argument is there, with what its answers weigh.
Weighed(cand, resp, built, read) ==
  LET name == resp["intent"].key.kind
      destructive == CASE Risk(name) = "never" -> 0
                       [] Risk(name) = "always_confirmed" -> NoAnswer
                       [] OTHER -> Noul(resp, "is_destructive")
  IN IF built = Unclear \/ Invented(cand, resp, read) THEN Unclear
     ELSE [built EXCEPT !.confidence = Folded(resp, read, resp["intent"].p),
                        !.destructive = destructive, !.dictation = Dictation(resp)]

Compose(cand, resp) ==
  LET name == resp["intent"].key.kind
  IN IF Chosen(cand, resp, "intent")
     THEN Weighed(cand, resp, Argued(cand, resp, name), Reads(cand, name))
     ELSE Unclear

-----------------------------------------------------------------------------
\* The policy, with its thresholds.

AlwaysAsked(name) == name \in {"close_window", "run_shortcut", "key", "claude_tell"}

IsProse(policy, dictation) == dictation # NoAnswer /\ dictation >= policy.dictation

\* A plausible slip: a risk that was not judged passes for none.
Trusting(policy, it) ==
  CASE IsProse(policy, it.dictation) \/ it.confidence < policy.min -> "refuse"
    [] AlwaysAsked(it.name) -> "confirm"
    [] it.destructive >= policy.destructive -> "confirm"
    [] it.dictation = NoAnswer \/ it.confidence < policy.act -> "confirm"
    [] OTHER -> "act"

PolicyDecides(policy, it) ==
  CASE IsProse(policy, it.dictation) -> "refuse"
    [] it.confidence < policy.min -> "refuse"
    [] AlwaysAsked(it.name) -> "confirm"
    [] it.destructive = NoAnswer \/ it.destructive >= policy.destructive -> "confirm"
    [] it.dictation = NoAnswer -> "confirm"
    [] it.confidence < policy.act -> "confirm"
    [] OTHER -> "act"

\* judge_verdict and the router's gate behind it.
Decision(policy, resp, it) ==
  CASE IsProse(policy, Dictation(resp)) -> "dictation"
    [] it = Unclear -> "unclear"
    [] OTHER -> PolicyDecides(policy, it)

-----------------------------------------------------------------------------
\* The client: one evaluation with its retries, over what each attempt comes
\* to and how long that takes.

MAX_ATTEMPTS == 3
Backoff(attempt, initial) == initial * <<1, 3, 9>>[attempt]

\* How long after a transient failure the next attempt may begin.
Wait(s, attempt, initial) ==
  IF s.is = "busy" /\ s.retry_after # NoAnswer THEN s.retry_after ELSE Backoff(attempt, initial)

\* A plausible slip: the wait is slept through even where it outlasts the time.
Patient(script, timeout, initial) ==
  LET from[n \in 1 .. MAX_ATTEMPTS] ==
        [at \in 0 .. timeout |->
           LET s == script[n]
               done == at + s.took
               next == done + Wait(s, n, initial)
           IN IF done >= timeout THEN [answer |-> "late", at |-> timeout, sent |-> n]
              ELSE IF s.is \in {"ok", "refused"} THEN [answer |-> s.is, at |-> done, sent |-> n]
              ELSE IF n = MAX_ATTEMPTS THEN [answer |-> "failed", at |-> done, sent |-> n]
              ELSE IF next >= timeout THEN [answer |-> "late", at |-> timeout, sent |-> n]
              ELSE from[n + 1][next]]
  IN from[1][0]

Evaluate(script, timeout, initial) ==
  LET from[n \in 1 .. MAX_ATTEMPTS] ==
        [at \in 0 .. timeout |->
           LET s == script[n]
               done == at + s.took
               next == done + Wait(s, n, initial)
           IN CASE done >= timeout -> [answer |-> "late", at |-> timeout, sent |-> n]
                [] done < timeout /\ s.is \in {"ok", "refused"} ->
                     [answer |-> s.is, at |-> done, sent |-> n]
                [] OTHER -> IF n = MAX_ATTEMPTS \/ next >= timeout
                            THEN [answer |-> "failed", at |-> done, sent |-> n]
                            ELSE from[n + 1][next]]
  IN from[1][0]
-----------------------------------------------------------------------------
Asked(cand, resp) ==
  FirstRound \cup (IF IsChoice(resp, "intent") THEN SecondRound(cand, resp["intent"].key.kind)
                   ELSE {})

\* An answer as it was asked for: one of the options, or how likely.
Answered(cand, resp, id) ==
  IF id = "is_destructive" THEN Noul(resp, id) # NoAnswer
  ELSE IsChoice(resp, id) /\ resp[id].key \in Options(cand, id)

\* Answers to every question, as a model that says too much would give.
Babble ==
  [id \in {"target", "desktop_number", "desktop_direction", "claude_model", "payload",
           "is_destructive"} |-> [type |-> "choice", key |-> Option("invented"), p |-> 0,
                                  text |-> NoAnswer]]

AnsweredInFull(cand, resp, asked) ==
  /\ \A id \in asked : Answered(cand, resp, id)
  /\ \A id \in asked \ {"claude_model", "is_destructive"} : resp[id].key # NO_TARGET
  /\ resp["intent"].key = Option("claude_model") => resp["claude_model"].key # NO_TARGET

NothingToName(cand, resp, name) ==
  \/ name = "show_app" /\ resp["target"].key = FOCUSED
  \/ name = "key" /\ Chord(Message(cand, resp, name)) = NoChord

\* What is asked and what is read agree: answers to other questions change
\* nothing; and when each question has a proper answer the intent is built,
\* unless it has nothing to name, nothing to show or no chord to press.
AsksWhatItReads(cand, resp, asked, it) ==
  LET name == resp["intent"].key.kind
      unread == [id \in (DOMAIN Babble \ asked) \cup DOMAIN resp |->
                   IF id \in DOMAIN resp THEN resp[id] ELSE Babble[id]]
  IN /\ Compose(cand, unread) = it
     /\ AnsweredInFull(cand, resp, asked) => it # Unclear \/ NothingToName(cand, resp, name)

\* What runs unasked rests on an answer to every question that was asked, each
\* as certain as the policy wants (only the model of a new session may be left
\* open), names a window, an app or a desktop that is there, and passes on
\* words that were said.
RunsOnlyWhatWasAnswered(policy, cand, resp, asked, it) ==
  Decision(policy, resp, it) = "act" =>
       /\ \A id \in asked \ {"is_destructive", "is_dictation"} :
            \/ Answered(cand, resp, id) /\ resp[id].p >= policy.act
            \/ it.name = "start_claude" /\ id = "claude_model" /\ ~IsChoice(resp, id)
       /\ "is_destructive" \in asked =>
            Noul(resp, "is_destructive") \in 0 .. policy.destructive - 1
       /\ Dictation(resp) \in 0 .. policy.dictation - 1
       /\ it.window_id # "" => \E w \in Range(cand.windows) : w.id = it.window_id /\ w.title = it.query
       /\ it.entry_id # "" => \E a \in Range(cand.apps) : a.id = it.entry_id /\ a.name = it.query
       /\ it.name = "virtual_desktop" => it.n \in 1 .. cand.desktop_count
       /\ it.name = "edit_text" => cand.last_dictation
       /\ \A w \in Range(it.words) : w.is \in {u.is : u \in Range(cand.utterance)}

\* When the attempts follow each other as they must, this is when the nth ends.
EndOf(script, n, initial) ==
  LET ends[k \in 1 .. MAX_ATTEMPTS] ==
        script[k].took + IF k = 1 THEN 0 ELSE ends[k - 1] + Wait(script[k - 1], k - 1, initial)
  IN ends[n]

\* An evaluation is over by its deadline, and takes an answer that an attempt
\* in time would bring; it gives up as soon as nothing can come any more, so
\* that it is cut off only while an attempt is under way.
RetriesInTime(script, timeout, initial) ==
  LET end == Evaluate(script, timeout, initial)
      tried(n) == \A k \in 1 .. n - 1 : script[k].is \notin {"ok", "refused"}
      brings(n) == tried(n) /\ script[n].is = "ok" /\ EndOf(script, n, initial) < timeout
  IN /\ end.at <= timeout
     /\ end.answer = "ok" <=> \E n \in 1 .. MAX_ATTEMPTS : brings(n)
     /\ end.answer = "late" =>
          EndOf(script, end.sent, initial) - script[end.sent].took < timeout
            /\ EndOf(script, end.sent, initial) >= timeout
=============================================================================
