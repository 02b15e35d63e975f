------------------------------ MODULE Matching ------------------------------
(***************************************************************************)
(* Text found again after it was typed.  A scratch looks for the dictation *)
(* at the end of the field and counts what to delete (match_suffix in      *)
(* crates/desktopd/src/a11y.rs); a correction pass reads the dictation     *)
(* with some context (learn_region in crates/parlad/src/router.rs) and     *)
(* compares words (corrections in crates/flow/src/learned.rs).             *)
(*                                                                         *)
(* A text is a sequence of characters.  Case, diacritics and punctuation   *)
(* are left out: characters are letters, or the one that separates words.  *)
(***************************************************************************)
EXTENDS Integers, SequencesExt

CONSTANTS
  LEARN_CONTEXT,      \* characters of context
  LEARN_CONTEXT_MAX,  \* and how far its edge may move out
  LEARN_SLACK         \* characters read past the region

Space == " "
Least(p, q) == IF p <= q THEN p ELSE q
Greatest(p, q) == IF p <= q THEN q ELSE p
Distance(p, q) == IF p <= q THEN q - p ELSE p - q

-----------------------------------------------------------------------------
\* Edit distances, a row of the table at a time: row[j + 1] is the distance to
\* the first j characters of t.

NextRow(row, c, t) ==
  FoldLeftDomain(LAMBDA next, j :
      Append(next, Least(Least(row[j + 1] + 1, next[j] + 1),
                         row[j] + (IF c = t[j] THEN 0 ELSE 1))),
    <<row[1] + 1>>, t)

\* The rows for every beginning of s, of which rows[i + 1] is for i characters.
Rows(s, t) ==
  FoldLeft(LAMBDA rows, c : Append(rows, NextRow(Last(rows), c, t)),
           <<[j \in 1 .. Len(t) + 1 |-> j - 1]>>, s)

Levenshtein(s, t) == Last(Last(Rows(s, t)))

-----------------------------------------------------------------------------
\* match_suffix: 0 for no match, or how many characters of `before` are it.

\* Similarities are compared as what they leave out, 1 - distance / longer.
Closer(d, len, e, other, n) ==
  LET mine == d * Greatest(other, n)
      theirs == e * Greatest(len, n)
  IN mine < theirs \/ (mine = theirs /\ Distance(len, n) < Distance(other, n))

\* A plausible slip: any length down to nothing is tried, and the first of those
\* that tie is kept.
GreedySuffix(before, expected) ==
  LET n == Len(expected)
      d(len) == Levenshtein(SubSeq(before, Len(before) - len + 1, Len(before)), expected)
      close == {len \in 1 .. Len(before) : 5 * d(len) <= Greatest(len, n)}
  IN IF close = {} THEN 0 ELSE CHOOSE len \in close : \A other \in close : len <= other

FuzzySuffix(before, expected) ==
  LET n == Len(expected)
      slack == (n * 3) \div 10
      min_len == Greatest(n - slack, 1)
      max_len == Least(n + slack, Len(before))
      rows == Rows(Reverse(SubSeq(before, Len(before) - max_len + 1, Len(before))),
                   Reverse(expected))
      d(len) == rows[len + 1][n + 1]
      lens == min_len .. max_len
      better(best, len) == IF best = 0 \/ Closer(d(len), len, d(best), best, n)
                           THEN len ELSE best
      best == FoldLeft(better, 0, [i \in 1 .. max_len - min_len + 1 |-> min_len + i - 1])
  IN IF lens = {} THEN 0
     ELSE IF 5 * d(best) <= Greatest(best, n) THEN best ELSE 0

MatchSuffix(before, expected) ==
  CASE expected = <<>> -> 0
    [] expected # <<>> /\ IsSuffix(expected, before) -> Len(expected)
    [] OTHER -> FuzzySuffix(before, expected)

-----------------------------------------------------------------------------
\* learn_region.

\* A plausible slip: the context is cut wherever its length falls.
CutAnywhere(chars) == Least(LEARN_CONTEXT, Len(chars))

ContextLen(chars) ==
  LET n == Len(chars)
      boundary(k) == k = 0 \/ k = n \/ chars[k] = Space \/ chars[k + 1] = Space
      k == Least(LEARN_CONTEXT, n)
      inner == CHOOSE i \in 0 .. k : boundary(i) /\ \A j \in i + 1 .. k : ~boundary(j)
      outers == {o \in k .. Least(LEARN_CONTEXT_MAX, n) : boundary(o)}
      outer == CHOOSE o \in outers : \A p \in outers : o <= p
  IN IF outers # {} /\ outer - k <= k - inner THEN outer ELSE inner

\* The field as it was before the typing, and the caret as it is read after.
LearnRegion(field, typed, caret_after) ==
  LET k == ContextLen(Reverse(field.before))
      m == ContextLen(field.after)
      computed == Len(field.before) + Len(typed)
  IN [expected |-> SubSeq(field.before, Len(field.before) - k + 1, Len(field.before))
                     \o typed \o SubSeq(field.after, 1, m),
      from |-> Len(field.before) - k,
      to |-> Greatest(caret_after, computed) + m]

\* TextHandle::read, with offsets clamped to the field.
ReadField(text, from, to) == SubSeq(text, from + 1, Least(to, Len(text)))

-----------------------------------------------------------------------------
\* corrections.

SplitWords(text) ==
  LET split == FoldLeft(LAMBDA acc, c :
                 IF c = Space THEN [done |-> acc.done \o acc.word, word |-> <<>>]
                 ELSE [acc EXCEPT !.word = <<IF acc.word = <<>> THEN <<c>>
                                             ELSE Append(acc.word[1], c)>>],
               [done |-> <<>>, word |-> <<>>], text)
  IN split.done \o split.word

\* lcs: the pairs of one longest common subsequence.
Lcs(a, b) ==
  LET len[i \in 1 .. Len(a) + 1, j \in 1 .. Len(b) + 1] ==
        CASE i > Len(a) \/ j > Len(b) -> 0
          [] i <= Len(a) /\ j <= Len(b) /\ a[i] = b[j] -> len[i + 1, j + 1] + 1
          [] OTHER -> Greatest(len[i + 1, j], len[i, j + 1])
      from[i \in 1 .. Len(a) + 1, j \in 1 .. Len(b) + 1] ==
        CASE i > Len(a) \/ j > Len(b) -> <<>>
          [] i <= Len(a) /\ j <= Len(b) /\ a[i] = b[j] -> <<<<i, j>>>> \o from[i + 1, j + 1]
          [] OTHER -> IF len[i + 1, j] >= len[i, j + 1] THEN from[i + 1, j] ELSE from[i, j + 1]
  IN from[1, 1]

\* A piece of a word, cut at the edge of what was read.
IsFragment(typed, now, first, last) ==
  Len(now) < Len(typed) /\ ((first /\ IsSuffix(now, typed)) \/ (last /\ IsPrefix(now, typed)))

SpellingPair(x, y) ==
  x # y /\ 100 * Levenshtein(x, y) <= 34 * Greatest(Len(x), Len(y))

Corrections(typed, now) ==
  LET a == SplitWords(typed)
      b == SplitWords(now)
      anchors == <<<<0, 0>>>> \o Append(Lcs(a, b), <<Len(a) + 1, Len(b) + 1>>)
      run(g) == anchors[g + 1][1] - anchors[g][1] - 1
      pair(g, k) == <<a[anchors[g][1] + k], b[anchors[g][2] + k]>>
      counts(g, k) ==
        /\ ~IsFragment(pair(g, k)[1], pair(g, k)[2], anchors[g][2] + k = 1,
                       anchors[g][2] + k = Len(b))
        /\ SpellingPair(pair(g, k)[1], pair(g, k)[2])
      gaps == {g \in 1 .. Len(anchors) - 1 : run(g) = anchors[g + 1][2] - anchors[g][2] - 1}
  IN UNION {{pair(g, k) : k \in {n \in 1 .. run(g) : counts(g, n)}} : g \in gaps}
-----------------------------------------------------------------------------
\* At most one character of s is replaced, missing or too many in t.
OneEdit(s, t) ==
  \/ s = t
  \/ Len(s) = Len(t) /\ \E i \in DOMAIN s : s = [t EXCEPT ![i] = s[i]]
  \/ \E i \in DOMAIN s : RemoveAt(s, i) = t
  \/ \E i \in DOMAIN t : RemoveAt(t, i) = s

\* What a scratch deletes (texts of fewer than ten characters, of which one
\* edit is as much as the limit allows): the text itself where the field ends
\* in it; otherwise an end of the field within a third of its length that is
\* one edit away from it, if there is one, and of several the likeliest.
SuffixIsClosest(before, expected) ==
  LET n == Len(expected)
      slack == (n * 3) \div 10
      ending(len) == SubSeq(before, Len(before) - len + 1, Len(before))
      close == {len \in Greatest(1, n - slack) .. Least(n + slack, Len(before)) :
                  Greatest(len, n) >= 5 /\ OneEdit(ending(len), expected)}
      found == MatchSuffix(before, expected)
  IN CASE n = 0 -> found = 0
       [] n > 0 /\ n <= Len(before) /\ ending(n) = expected -> found = n
       [] OTHER -> /\ found = 0 <=> close = {}
                   /\ found # 0 => found \in close
                   /\ \A len \in close : /\ Greatest(len, n) <= Greatest(found, n)
                                         /\ len >= n => found >= n

\* What a correction pass learns of a field that was edited at one place: of
\* an edit in front of what it reads nothing, wherever the shift makes the
\* reading begin and end; of one word replaced by another, that at most.
LearnsOnlyRespellings(field, typed, edit) ==
  LET text == field.before \o typed \o field.after
      edited == SubSeq(text, 1, edit.from) \o edit.by \o SubSeq(text, edit.to + 1, Len(text))
      old == SubSeq(text, edit.from + 1, edit.to)
      region == LearnRegion(field, typed, Len(field.before) + Len(typed))
      now == ReadField(edited, region.from, region.to + LEARN_SLACK)
      learned == Corrections(region.expected, now)
      wholeWord == /\ old # <<>> /\ edit.by # <<>>
                   /\ Space \notin Range(old) \cup Range(edit.by)
                   /\ edit.from = 0 \/ text[edit.from] = Space
                   /\ edit.to = Len(text) \/ text[edit.to + 1] = Space
  IN /\ edit.to <= region.from => learned = {}
     /\ wholeWord => learned \subseteq {<<old, edit.by>>}
=============================================================================
