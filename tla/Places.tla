------------------------------- MODULE Places -------------------------------
(***************************************************************************)
(* What a spoken name stands for: an open window (crates/desktopd/src/     *)
(* windows.rs), an installed application (desktop.rs), and how an          *)
(* application is opened or brought forward (executor.rs, launcher.rs).    *)
(*                                                                         *)
(* A text is a sequence of parts of words and spaces; case is left out.    *)
(* What the fuzzy matcher makes of a window or an entry is a number that   *)
(* comes with it.                                                          *)
(***************************************************************************)
EXTENDS Naturals, SequencesExt, FiniteSetsExt

IsPart(part, text) == \E i \in DOMAIN text : IsPrefix(part, SubSeq(text, i, Len(text)))
Joined(words) ==
  FoldLeftDomain(LAMBDA text, i :
    text \o (IF i = 1 THEN <<>> ELSE <<" ">>) \o words[i], <<>>, words)

-----------------------------------------------------------------------------
\* windows.rs: the score of a window, and the choice among those that have one.

MIN_SCORE == 40
TIE_MARGIN == 10
SCORE_EXACT == 1000
SCORE_PREFIX == 500

Listed(windows) == SelectSeq(windows, LAMBDA w : w.normal /\ w.title # <<>>)

WindowScore(w, query) ==
  IF query \in {w.class, w.title, w.name} THEN SCORE_EXACT
  ELSE IF IsPrefix(query, w.class) \/ IsPrefix(query, w.name) THEN SCORE_PREFIX
  ELSE IF w.fuzzy >= MIN_SCORE THEN w.fuzzy ELSE 0

\* Better score, then nearer the top of the stack, then the smaller id.
Ahead(a, b) ==
  \/ a.score > b.score
  \/ a.score = b.score /\ a.stacking > b.stacking
  \/ a.score = b.score /\ a.stacking = b.stacking /\ a.id < b.id

\* A plausible slip: the first of the list stays ahead of its equals.
PickListed(scored) ==
  LET best == Max({w.score : w \in Range(scored)})
      top == SelectSeq(scored, LAMBDA w : w.score = best)[1]
      rivals == SelectSeq(scored, LAMBDA w :
                  top.score - w.score <= TIE_MARGIN /\ w.class # top.class)
  IN IF scored = <<>> THEN <<>> ELSE <<top>> \o rivals

\* The window, or all that it could be.
Pick(scored) ==
  LET order == SetToSortSeq(Range(scored), Ahead)
      rivals == SelectSeq(Tail(order), LAMBDA w :
                  order[1].score - w.score <= TIE_MARGIN /\ w.class # order[1].class)
  IN IF scored = <<>> THEN <<>> ELSE <<order[1]>> \o rivals

FindWindow(windows, query) ==
  LET listed == Listed(windows)
      scored == [i \in DOMAIN listed |-> listed[i] @@ [score |-> WindowScore(listed[i], query)]]
  IN Pick(SelectSeq(scored, LAMBDA w : w.score > 0))

-----------------------------------------------------------------------------
\* desktop.rs: the index of applications.

Parses(file) ==
  ~file.hidden /\ file.type = "Application" /\ file.runnable /\ file.named

\* A plausible slip: only a file that lists something counts as seen.
IndexListed(dirs) ==
  FoldLeft(LAMBDA index, file :
    IF file.id \in {e.id : e \in Range(index)} \/ ~Parses(file) THEN index
    ELSE Append(index, file), <<>>, FlattenSeq(dirs))

\* The first file of an id stands for it, in the directories' order, even one
\* that lists nothing: that is how a user hides an application.
IndexOf(dirs) ==
  FoldLeft(LAMBDA index, file :
    IF file.id \in index.seen THEN index
    ELSE [seen |-> index.seen \cup {file.id},
          entries |-> IF Parses(file) THEN Append(index.entries, file) ELSE index.entries],
    [seen |-> {}, entries |-> <<>>], FlattenSeq(dirs)).entries

ENTRY_EXACT == 10000
ENTRY_PREFIX == 5000
FILLERS == {<<"please">>, <<"the">>, <<"a">>, <<"an">>, <<"up">>}
SHORT == {<<"me">>, <<"to">>}

ContentWords(words) ==
  LET forMe(i) == i \in 1 .. Len(words) - 1 /\ words[i] = <<"for">> /\ words[i + 1] = <<"me">>
      kept == {i \in DOMAIN words : words[i] \notin FILLERS /\ ~forMe(i) /\ ~forMe(i - 1)}
  IN [k \in 1 .. Cardinality(kept) |-> words[SetToSortSeq(kept, <)[k]]]

\* Every word must be in one of the names; the best of the names counts.
EntryScore(entry, words) ==
  LET covered == \A w \in Range(words) : \E t \in entry.names : IsPart(w, t)
      said == {Joined(words), FlattenSeq(words)}
      of(t) == IF t \in said THEN ENTRY_EXACT
               ELSE IF \E s \in said : IsPrefix(s, t) THEN ENTRY_PREFIX
               ELSE Min({Max({entry.fuzzy, MIN_SCORE}), ENTRY_PREFIX - 1})
  IN IF words # <<>> /\ covered THEN Max({of(t) : t \in entry.names}) ELSE 0

\* The entries of an index by score, the earlier one first where they are equal.
Ranked(entries, score) ==
  LET found == {i \in DOMAIN entries : score[i] > 0}
      order == SetToSortSeq(found, LAMBDA i, k :
                 score[i] > score[k] \/ (score[i] = score[k] /\ i < k))
  IN [n \in DOMAIN order |-> entries[order[n]]]

Lookup(entries, words) ==
  LET score == [i \in DOMAIN entries |-> EntryScore(entries[i], ContentWords(words))]
      ranked == Ranked(entries, score)
  IN SubSeq(ranked, 1, Min({1, Len(ranked)}))

\* A plausible slip: only for all of them.
WholeProbe(words) == {ContentWords(words)}

\* shortlist: for each of the longer words alone, and for all of them.
Probes(words) ==
  LET long == SelectSeq(ContentWords(words), LAMBDA w : w \notin SHORT)
  IN IF long = <<>> THEN {} ELSE {<<w>> : w \in Range(long)} \cup {long}

Shortlist(entries, words, limit) ==
  LET best(e) == Max({0} \cup {EntryScore(e, p) : p \in Probes(words)})
      ranked == Ranked(entries, [i \in DOMAIN entries |-> best(entries[i])])
  IN SubSeq(ranked, 1, Min({limit, Len(ranked)}))

-----------------------------------------------------------------------------
\* launch_app: kioclient, gtk-launch, systemd-run.  A call works, fails, is not
\* installed, or hangs until it is given up; one that hangs may have opened
\* the application before.

\* A plausible slip: kioclient that hangs has failed.
Impatient(script) ==
  <<"kioclient">> \o (IF script.kioclient = "works" THEN <<>>
    ELSE (IF script.gtk_launch = "missing" THEN <<>> ELSE <<"gtk_launch">>)
         \o (IF script.gtk_launch = "works" \/ script.exec = <<>> THEN <<>>
             ELSE <<"systemd_run">>))

Attempts(script) ==
  <<"kioclient">> \o (IF script.kioclient \in {"works", "hangs"} THEN <<>>
    ELSE (IF script.gtk_launch = "missing" THEN <<>> ELSE <<"gtk_launch">>)
         \o (IF script.gtk_launch = "works" \/ script.exec = <<>> THEN <<>>
             ELSE <<"systemd_run">>))

LaunchApp(script) ==
  LET tried == Attempts(script)
      last == script[Last(tried)]
  IN [opened |-> {t \in Range(tried) : script[t] = "works"},
      doubtful |-> {t \in Range(tried) : script[t] = "hangs"},
      said |-> IF last = "works" \/ (Last(tried) = "kioclient" /\ last = "hangs")
               THEN "launched" ELSE "failed"]

\* launch_entry: a window of the application is brought forward instead, where
\* that is configured and there is no doubt which.
LaunchEntry(entry, windows, focus_if_running, script) ==
  LET of(w) == IsPart(entry.class, w.class)
      running == Pick([i \in DOMAIN SelectSeq(Listed(windows), of) |->
                         SelectSeq(Listed(windows), of)[i] @@ [score |-> 0]])
  IN IF focus_if_running /\ Len(running) = 1
     THEN [focused |-> running, opened |-> {}, doubtful |-> {},
           said |-> IF script.activates THEN "focused" ELSE "failed"]
     ELSE [focused |-> <<>>] @@ LaunchApp(script)
-----------------------------------------------------------------------------
\* The window that a name is taken for does not hang on the order in which KWin
\* lists them; another app's that fits as well makes it a question that names
\* both; and of an app's windows that fit equally it is the one used last.
WindowMeant(windows, query) ==
  LET found == FindWindow(windows, query)
      others == {w \in Range(Listed(windows)) : WindowScore(w, query) > 0}
  IN /\ \A n \in DOMAIN windows :
          FindWindow(SubSeq(windows, n, Len(windows)) \o SubSeq(windows, 1, n - 1), query) = found
     /\ found # <<>> =>
          \A w \in others :
            /\ WindowScore(w, query) <= found[1].score
            /\ \/ w.class = found[1].class
               \/ WindowScore(w, query) < found[1].score - TIE_MARGIN
               \/ w.id \in {f.id : f \in Range(found)}
            /\ WindowScore(w, query) = found[1].score => w.stacking <= found[1].stacking
     /\ found = <<>> <=> others = {}

\* An application that a user's own file hides or replaces is not listed again
\* from a later directory.
HiddenStaysHidden(dirs) ==
  \A e \in Range(IndexOf(dirs)) :
    \E d \in DOMAIN dirs :
      /\ e \in Range(dirs[d])
      /\ \A earlier \in 1 .. d - 1 : e.id \notin {f.id : f \in Range(dirs[earlier])}

\* What lookup finds for a name is on the shortlist of a sentence with it; one
\* that is named exactly is, unless as many others as there is room are too.
ListedWhenNamed(entries, words, limit) ==
  LET content == ContentWords(words)
      listed == Shortlist(entries, words, limit)
  IN /\ (\A w \in Range(content) : w \notin SHORT) =>
          Range(Lookup(entries, words)) \subseteq Range(Shortlist(entries, words, Len(entries)))
     /\ \A e \in Range(entries), w \in Range(content) \ SHORT :
          w \in e.names /\ e \notin Range(listed) =>
            /\ Len(listed) = limit
            /\ \A l \in Range(listed) : \E p \in Probes(words) : EntryScore(l, p) = ENTRY_EXACT

\* An application is opened at most once, and never when it was brought forward
\* or reported as failed; but gtk-launch may have opened it before it hung.
OpenedOnce(entry, windows, focus_if_running, script) ==
  LET done == LaunchEntry(entry, windows, focus_if_running, script)
      opened == done.opened \cup done.doubtful
  IN /\ done.focused # <<>> => opened = {}
     /\ "gtk_launch" \notin done.doubtful =>
          /\ Cardinality(opened) <= 1
          /\ done.said = "launched" => opened # {}
          /\ done.said = "failed" => done.opened = {}
=============================================================================
