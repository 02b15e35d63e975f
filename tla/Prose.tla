-------------------------------- MODULE Prose --------------------------------
(***************************************************************************)
(* What is typed for a dictation (process in crates/parlad/src/flow.rs,    *)
(* with text.rs, snippets.rs, dictionary.rs and apps.rs of crates/flow): a *)
(* snippet, the text of the cleanup model, or the transcript itself, with  *)
(* the dictionary's replacements, fitted between the text on either side   *)
(* of the cursor.                                                          *)
(*                                                                         *)
(* A text is a sequence of characters, among them the phrases "new line"   *)
(* and "new paragraph" as one character each.  Case is left out, and of    *)
(* every class of characters a few stand for all.                          *)
(***************************************************************************)
EXTENDS Naturals, SequencesExt, FiniteSetsExt

CONSTANTS
  INSERT_VERBS,   \* what may be said before a snippet's trigger, as words
  ACCEPT_SLACK    \* characters an answer may have beyond twice the transcript

NewLine == "new line"
NewParagraph == "new paragraph"
Break == "\n"
White == {" ", Break}
Marks == {",", "."}
Openers == {"(", "\""}
Alphanumeric == {"a", "b", "c", NewLine, NewParagraph}
Symbol(c) == c \notin Alphanumeric \cup White

NoContext == [before |-> <<>>, after |-> <<>>]

-----------------------------------------------------------------------------
\* Trimming, and phrases that stand as whole words.

Trimmed(s, chars) ==
  LET kept == {i \in DOMAIN s : s[i] \notin chars}
  IN SubSeq(s, 1, IF kept = {} THEN 0 ELSE Max(kept))

Trim(s) == Reverse(Trimmed(Reverse(Trimmed(s, White)), White))

\* The first place from i on without one of the characters.
Past(s, i, chars) == Min({Len(s) + 1} \cup {k \in i .. Len(s) : s[k] \notin chars})

WholeAt(text, phrase, i) ==
  LET end == i + Len(phrase) - 1
  IN /\ end <= Len(text) /\ SubSeq(text, i, end) = phrase
     /\ i = 1 \/ text[i - 1] \notin Alphanumeric
     /\ end = Len(text) \/ text[end + 1] \notin Alphanumeric

\* A plausible slip: a word may go on after the phrase.
ReplacePrefix(text, from, to) ==
  LET rest[i \in 1 .. Len(text) + 1] ==
        IF i > Len(text) THEN <<>>
        ELSE IF /\ IsPrefix(from, SubSeq(text, i, Len(text)))
                /\ i = 1 \/ text[i - 1] \notin Alphanumeric
             THEN to \o rest[i + Len(from)]
             ELSE <<text[i]>> \o rest[i + 1]
  IN IF from = <<>> THEN text ELSE rest[1]

ReplaceWord(text, from, to) ==
  LET rest[i \in 1 .. Len(text) + 1] ==
        IF i > Len(text) THEN <<>>
        ELSE IF WholeAt(text, from, i) THEN to \o rest[i + Len(from)]
             ELSE <<text[i]>> \o rest[i + 1]
  IN IF from = <<>> THEN text ELSE rest[1]

ApplyReplacements(replacements, text) ==
  FoldLeft(LAMBDA t, r : ReplaceWord(t, r.spoken, r.written), text, replacements)

-----------------------------------------------------------------------------
\* spoken_breaks: a phrase that stands alone is a break, with the punctuation
\* and the spaces around it gone.  What is before a phrase is looked at only
\* back to the place that the search has come to.

Broken(text, phrase, break) ==
  LET rest[i \in 1 .. Len(text) + 1] ==
        LET said == {k \in i .. Len(text) : text[k] = phrase}
            k == Min(said)
            alone == /\ k = i \/ text[k - 1] \notin Alphanumeric
                     /\ k = Len(text) \/ text[k + 1] \notin Alphanumeric
        IN IF said = {} THEN SubSeq(text, i, Len(text))
           ELSE IF alone
                THEN Trimmed(Trimmed(SubSeq(text, i, k - 1), White), Marks) \o break
                       \o rest[Past(text, k + 1, Marks \cup {" "})]
                ELSE SubSeq(text, i, k) \o rest[k + 1]
  IN rest[1]

\* A plausible slip: lines before paragraphs.
LinesFirst(text) ==
  Broken(Broken(text, NewLine, <<Break>>), NewParagraph, <<Break, Break>>)

SpokenBreaks(text) ==
  Broken(Broken(text, NewParagraph, <<Break, Break>>), NewLine, <<Break>>)

-----------------------------------------------------------------------------
\* accept: the model's answer, tidied, or nothing.

Lines(text) ==
  LET split == FoldLeft(LAMBDA acc, c :
                 IF c = Break THEN [done |-> Append(acc.done, acc.line), line |-> <<>>]
                 ELSE [acc EXCEPT !.line = Append(@, c)],
               [done |-> <<>>, line |-> <<>>], text)
  IN IF split.line = <<>> THEN split.done ELSE Append(split.done, split.line)

TidyLines(text) ==
  LET lines == Lines(text)
  IN FoldLeftDomain(LAMBDA tidy, i :
         tidy \o (IF i = 1 THEN <<>> ELSE <<Break>>) \o Trimmed(lines[i], White), <<>>, lines)

\* One pair of quotes around it all goes, unless the transcript begins with one.
Unquote(out, raw) ==
  IF /\ raw = <<>> \/ Head(raw) # "\""
     /\ Len(out) >= 2 /\ Head(out) = "\"" /\ Last(out) = "\""
  THEN Trim(SubSeq(out, 2, Len(out) - 1)) ELSE out

Accept(raw, out) ==
  LET tidy == TidyLines(Unquote(Trim(out), raw))
  IN IF Len(tidy) > 2 * Len(raw) + ACCEPT_SLACK THEN <<>> ELSE tidy

-----------------------------------------------------------------------------
\* spaced: the spaces that a text needs at its ends.

NeedsSpace(before, text, code) ==
  /\ before # <<>> /\ text # <<>>
  /\ Last(before) \notin White \cup Openers
  /\ Head(text) \in Alphanumeric
  /\ ~(code /\ Symbol(Last(before)) /\ Last(before) \notin Marks \cup {")"})

\* A plausible slip: only the front is looked at.
SpacedInFront(text, ctx, code) ==
  (IF NeedsSpace(ctx.before, text, code) THEN <<" ">> ELSE <<>>) \o text

Spaced(text, ctx, code) ==
  LET front == IF NeedsSpace(ctx.before, text, code) THEN <<" ">> ELSE <<>>
      back == IF NeedsSpace(front \o text, ctx.after, code) THEN <<" ">> ELSE <<>>
  IN front \o text \o back

-----------------------------------------------------------------------------
\* process, over a store that is read twice: before the model and, where its
\* answer is taken, after it.

\* text.rs, normalize: the runs of letters.
SaidWords(text) ==
  LET split == FoldLeft(LAMBDA acc, c :
                 IF c \notin Alphanumeric THEN [acc EXCEPT !.open = FALSE]
                 ELSE [open |-> TRUE,
                       words |-> IF acc.open
                                 THEN Append(Front(acc.words), Append(Last(acc.words), c))
                                 ELSE Append(acc.words, <<c>>)],
               [words |-> <<>>, open |-> FALSE], text)
  IN split.words

\* The first snippet whose trigger was said, with or without a verb.
SnippetSaid(snippets, text) ==
  LET said == SaidWords(text)
      named(s) == said \in {v \o SaidWords(s.trigger) : v \in {<<>>} \cup INSERT_VERBS}
  IN IF said = <<>> THEN <<>> ELSE SelectSeq(snippets, named)

\* for_class: the first profile of which a part of the class is known.
ProfileFor(apps, class) ==
  LET within(c) == c # <<>> /\ \E i \in DOMAIN class : IsPrefix(c, SubSeq(class, i, Len(class)))
      fit == {i \in DOMAIN apps : \E c \in apps[i].class : within(c)}
  IN IF fit = {} THEN [class |-> {}, code |-> FALSE, cleanup |-> TRUE] ELSE apps[Min(fit)]

\* model is what the rewriter comes to: off, failed, or a text.
ProcessInner(store, later, transcript, class, model) ==
  LET snippet == SnippetSaid(store.snippets, transcript)
      replaced == ApplyReplacements(store.replacements, transcript)
      accepted == IF model.is = "text" /\ ProfileFor(store.apps, class).cleanup
                  THEN Accept(replaced, model.text) ELSE <<>>
  IN CASE snippet # <<>> -> [text |-> snippet[1].text, outcome |-> "snippet"]
       [] snippet = <<>> /\ accepted # <<>> ->
            [text |-> ApplyReplacements(later.replacements, accepted), outcome |-> "typed"]
       [] OTHER -> [text |-> SpokenBreaks(replaced), outcome |-> "raw"]

Process(store, later, transcript, class, model, ctx) ==
  LET inner == ProcessInner(store, later, transcript, class, model)
  IN [inner EXCEPT !.text = Spaced(@, ctx, ProfileFor(later.apps, class).code)]
-----------------------------------------------------------------------------
\* The words of a raw transcript are typed, all and in their order, and every
\* break that was said is there; but a line right after a paragraph swallows it.
Letter(c) == c \in Alphanumeric \ {NewLine, NewParagraph}
IsBreak(c) == c = Break
BreaksSaid(text) ==
  LET said(phrase) == {i \in DOMAIN text : WholeAt(text, <<phrase>>, i)}
  IN Cardinality(said(NewLine)) + 2 * Cardinality(said(NewParagraph))
Swallows(text) ==
  \E i, k \in DOMAIN text :
    /\ i < k /\ WholeAt(text, <<NewParagraph>>, i) /\ WholeAt(text, <<NewLine>>, k)
    /\ \A j \in i + 1 .. k - 1 : text[j] \in Marks \cup White
BreaksAsSaid(transcript, typed) ==
  /\ SelectSeq(typed, Letter) = SelectSeq(transcript, Letter)
  /\ ~Swallows(transcript) => Len(SelectSeq(typed, IsBreak)) = BreaksSaid(transcript)

\* A word is replaced wherever it stands whole and nowhere else, whatever is
\* put in its place (of a word that cannot overlap another of its kind).
ReplacesWholeWords(text, from, to) ==
  LET there(t) == {i \in DOMAIN t : WholeAt(t, from, i)}
      typed == ReplaceWord(text, from, to)
  IN /\ Len(typed) + Cardinality(there(text)) * Len(from)
          = Len(text) + Cardinality(there(text)) * Len(to)
     /\ there(text) = {} => typed = text
     /\ Range(from) \cap Range(to) = {} => there(typed) = {}

\* What is typed between two texts runs into neither, and is changed only by
\* a space at either end.
FitsBetween(ctx, inner, typed) ==
  /\ \E front, back \in {<<>>, <<" ">>} : typed = front \o inner \o back
  /\ typed # <<>> =>
       /\ ctx.before # <<>> => {Last(ctx.before), Head(typed)} \cap {" "} # {}
                                 \/ ~({Last(ctx.before), Head(typed)} \subseteq Alphanumeric)
       /\ ctx.after # <<>> => ~({Last(typed), Head(ctx.after)} \subseteq Alphanumeric)

\* An answer is taken only when it is no longer than it may be, and what is
\* typed of it has no blanks at the end of a line; whatever else the model
\* does, the transcript is typed.
AnswerIsBounded(raw, typed, outcome) ==
  IF outcome = "typed"
  THEN /\ typed # <<>> /\ Len(typed) <= 2 * Len(raw) + ACCEPT_SLACK
       /\ \A i \in DOMAIN typed : typed[i] = " " => i < Len(typed) /\ typed[i + 1] # Break
  ELSE typed = SpokenBreaks(raw)

\* Whatever the model answers and wherever the cursor is, the words that were
\* said are typed, with their breaks and with what replaces them.
TypedAsSaid(store, said) ==
  LET inner == ProcessInner(store, store, said.transcript, said.class, said.model)
      out == Process(store, store, said.transcript, said.class, said.model, said.ctx)
      raw == ApplyReplacements(store.replacements, said.transcript)
  IN /\ FitsBetween(said.ctx, inner.text, out.text)
     /\ inner.outcome = "raw" => BreaksAsSaid(raw, inner.text)
     /\ inner.outcome # "snippet" => AnswerIsBounded(raw, inner.text, inner.outcome)
     /\ \A r \in Range(store.replacements) :
          ReplacesWholeWords(said.transcript, r.spoken, r.written)
=============================================================================
