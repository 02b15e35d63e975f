---------------------------- MODULE Calibration ----------------------------
(***************************************************************************)
(* parlad --calibrate (crates/parlad/src/calibrate.rs): a corpus of cases  *)
(* is judged, each outcome is held against what its case expects, and the  *)
(* thresholds that would have served the corpus best are suggested.        *)
(*                                                                         *)
(* Probabilities and thresholds are in hundredths.  A case's target is the *)
(* text itself and the set of the texts it is a part of; the other         *)
(* arguments it names are sequences of words, or <<>> when it names none.  *)
(***************************************************************************)
EXTENDS Judging, FiniteSets

CONSTANT GRID_POINTS   \* thresholds that are tried, five hundredths apart

ASSUME CalibrationAssumption == GRID_POINTS \in Nat \ {0}

Refusals == {"dictation", "unclear"}

ExpectsAction(case) == case.expect \notin Refusals

\* check_case, over the expectations the judge has names for.
GoodCase(case) ==
  /\ case.say # <<>>
  /\ {case.expect} \cup case.accept \subseteq Actions \cup Refusals
  /\ case.direction \in {"", "next", "previous"}
  /\ case.expect = "edit_text" => case.last_dictation

-----------------------------------------------------------------------------
\* assess

JudgedName(name) == IF name \in {"launch_app", "focus_window"} THEN "show_app" ELSE name

PayloadMatches(got, want) ==
  \/ got = want
  \/ got # <<>> /\ Head(got) \in {"to", "that", "the"} /\ Tail(got) = want

\* A target's verdict: "" where the case names none.
CheckTarget(case, it) ==
  LET acts == it.name \in {"launch_app", "focus_window", "close_window", "minimize_window",
                           "maximize_window"}
      named == \/ it.query \in case.target.part_of
               \/ it.window_id = case.target.text
               \/ it.entry_id \in case.target.part_of
      found == IF it.query = "" THEN case.target.text = "focused"
               ELSE case.target.text # "focused" /\ named
  IN CASE case.target.text = "" -> ""
       [] case.target.text # "" /\ acts /\ found -> "ok"
       [] OTHER -> "bad"

CheckArgs(case, it) ==
  LET words == [i \in DOMAIN it.words |-> it.words[i].is]
  IN CASE it.name = "virtual_desktop" -> case.desktop \in {0, it.n}
       [] it.name = "virtual_desktop_rel" ->
            case.direction = "" \/ it.n = (IF case.direction = "next" THEN 1 ELSE -1)
       [] it.name \in {"claude_tell", "notify", "krunner"} ->
            case.payload = <<>> \/ PayloadMatches(words, case.payload)
       [] it.name = "key" -> case.payload = <<>> \/ SpokenChord(case.payload) = it.words
       [] it.name \in {"start_claude", "claude_model"} -> case.model \in {"", it.query}
       [] OTHER -> TRUE

\* A plausible slip: text that was not to be acted on counts as recognised
\* when nothing was built of it, or the model thought it prose at all.
Leniently(case, it, dictation, policy) ==
  LET name == IF it = Unclear THEN "unclear" ELSE JudgedName(it.name)
  IN [case |-> case, it |-> it, dictation |-> dictation,
      intent_ok |-> IF ExpectsAction(case) THEN name \in {case.expect} \cup case.accept
                    ELSE it = Unclear \/ dictation > 0,
      args_ok |-> TRUE, target_ok |-> ""]

\* The outcome of a case; of an unclear verdict the rest does not matter.
Assess(case, it, dictation, policy) ==
  LET intent_ok == CASE it = Unclear -> ~ExpectsAction(case)
                     [] it # Unclear /\ ~ExpectsAction(case) -> IsProse(policy, dictation)
                     [] OTHER -> JudgedName(it.name) \in {case.expect} \cup case.accept
  IN [case |-> case, it |-> it, dictation |-> dictation, intent_ok |-> intent_ok,
      args_ok |-> it = Unclear \/ (intent_ok /\ CheckArgs(case, it)),
      target_ok |-> CASE it = Unclear \/ case.target.text = "" -> ""
                      [] it # Unclear /\ intent_ok -> CheckTarget(case, it)
                      [] OTHER -> "bad"]

Right(outcome) == outcome.intent_ok /\ outcome.args_ok /\ outcome.target_ok # "bad"

\* Outcome::decide
Decided(outcome, policy) ==
  IF IsProse(policy, outcome.dictation) \/ outcome.it = Unclear THEN "refuse"
  ELSE PolicyDecides(policy, outcome.it)

-----------------------------------------------------------------------------
\* summarize: the sweep of the two thresholds of confidence.

Grid == [i \in 1 .. GRID_POINTS |-> 5 * i]

\* What the decisions on a corpus are worth, outcome by outcome.
Score(outcomes, policy) ==
  LET those(decided) == {i \in DOMAIN outcomes : Decided(outcomes[i], policy) = decided}
      right == {i \in DOMAIN outcomes : Right(outcomes[i])}
      wanted == {i \in DOMAIN outcomes : ExpectsAction(outcomes[i].case)}
  IN Cardinality(those("act") \cap right) - 5 * Cardinality(those("act") \ right)
       - Cardinality(those("confirm") \cap right)
       - 2 * Cardinality(those("refuse") \cap right \cap wanted)

\* The middle of a set of numbers, the upper one of two.
Middle(numbers) ==
  CHOOSE n \in numbers :
    Cardinality({m \in numbers : m < n}) = Cardinality(numbers) \div 2

At(policy, pair) == [policy EXCEPT !.min = pair[1], !.act = pair[2]]

Pairs == {pair \in Range(Grid) \X Range(Grid) : pair[1] <= pair[2]}

BestPair(outcomes, policy) ==
  LET score == [pair \in Pairs |-> Score(outcomes, At(policy, pair))]
      tied == {pair \in Pairs : \A other \in Pairs : score[other] <= score[pair]}
      min == Middle({pair[1] : pair \in tied})
  IN <<min, Middle({pair[2] : pair \in {p \in tied : p[1] = min}})>>

-----------------------------------------------------------------------------
\* The thresholds of the two signals: judged is a sequence of probabilities,
\* each with whether it is of a case that is what the signal looks for.

Hits(judged, t) == {i \in DOMAIN judged : judged[i].is /\ judged[i].p >= t}
Alarms(judged, t) == {i \in DOMAIN judged : ~judged[i].is /\ judged[i].p >= t}
Misses(judged, t) == {i \in DOMAIN judged : judged[i].is /\ judged[i].p < t}

\* The F1 of pr's precision and recall, each 1 when there is nothing to divide
\* by, as a numerator and a denominator.
F1(judged, t) ==
  LET tp == Cardinality(Hits(judged, t))
      wrong == Cardinality(Alarms(judged, t)) + Cardinality(Misses(judged, t))
  IN IF tp + wrong = 0 THEN <<1, 1>> ELSE <<2 * tp, 2 * tp + wrong>>

AtMostAs(f, g) == f[1] * g[2] <= g[1] * f[2]

\* A plausible slip: false alarms are not counted.
ByRecall(judged, tie) ==
  LET tied == {t \in Range(Grid) : \A s \in Range(Grid) :
                 Cardinality(Misses(judged, t)) <= Cardinality(Misses(judged, s))}
  IN IF tie = "middle" THEN Middle(tied) ELSE CHOOSE t \in tied : \A s \in tied : t <= s

BestThreshold(judged, tie) ==
  LET tied == {t \in Range(Grid) : \A s \in Range(Grid) : AtMostAs(F1(judged, s), F1(judged, t))}
  IN IF tie = "middle" THEN Middle(tied) ELSE CHOOSE t \in tied : \A s \in tied : t <= s

-----------------------------------------------------------------------------
\* What the daemon would do by itself with a case is counted right only where
\* the case asks for it: never for an utterance that should have been refused,
\* another intent, another window than the one that is named, or another message.
RightActsAreAskedFor(case, it, dictation, policy) ==
  LET outcome == Assess(case, it, dictation, policy)
  IN Decided(outcome, policy) = "act" /\ Right(outcome) =>
       /\ ExpectsAction(case) /\ JudgedName(it.name) \in {case.expect} \cup case.accept
       /\ case.target.text \notin {"", "focused"} =>
            {it.query, it.window_id, it.entry_id} \cap (case.target.part_of \cup {case.target.text})
              # {}
       /\ case.payload # <<>> /\ it.name \in {"claude_tell", "notify", "krunner"} =>
            \E n \in {0, 1} : Len(it.words) = Len(case.payload) + n

\* The pair that is suggested can be configured, and no pair would have served
\* the corpus better.
SuggestsTheBestPair(outcomes, policy) ==
  LET best == BestPair(outcomes, policy)
  IN /\ best[1] <= best[2]
     /\ \A pair \in Pairs : Score(outcomes, At(policy, pair)) <= Score(outcomes, At(policy, best))

\* Where some threshold tells the cases of a signal from all others, one that
\* does is suggested; and the one for a signal that must not be missed is never
\* the higher of the two.
SuggestsWhatSeparates(judged) ==
  LET separates(t) == Alarms(judged, t) = {} /\ Misses(judged, t) = {}
      low == BestThreshold(judged, "low")
      middle == BestThreshold(judged, "middle")
  IN /\ (\E t \in Range(Grid) : separates(t)) => separates(low) /\ separates(middle)
     /\ low <= middle
=============================================================================
