--------------------------- MODULE LearningProofs ---------------------------
(***************************************************************************)
(* Proofs about Learning, for any number of tasks of the daemon, any        *)
(* spellings, and any number of passes, calls, crashes and failed writes.   *)
(***************************************************************************)
EXTENDS Learning, TLAPS

\* A call that saves has a file to save; an inode is open while it is written; a
\* call that ends had something to do; the UI's calls are about a pair.
Shaped(r) == /\ r.at \in {"open", "write", "rename"} => r.todo # <<>> /\ r.op # "reload"
             /\ r.at = "write" <=> r.fd # "none"
             /\ r.at = "done" => r.op \in {"accept", "dismiss", "learn", "page"} /\ r.todo = <<>>
             /\ r.op \in {"accept", "dismiss"} => r.pairs # <<>>
             /\ r.at = "note" => r.op = "learn"
             /\ r.at = "none" <=> r.op = "idle"

Shapes == \A t \in Task : Shaped(task[t])

\* A file that only one call at a time has opened: that call still has the temporary
\* file, which is empty until the call has written it and whole after.
Sole(f) == /\ disk[f].path \notin {Blank, Torn}
           /\ \A x, y \in HasOpen(f) : x = y
           /\ \A x \in HasOpen(f) :
                /\ task[x].at = "write" => task[x].fd = "tmp" /\ disk[f].tmp = Blank
                /\ task[x].at = "rename" => disk[f].tmp.is = "whole"

Unclashed == \A f \in File \ clashed : Sole(f)
-----------------------------------------------------------------------------
(* Operators. *)

\* The empty contents are contents.
LEMMA Defaults == /\ NoSuggestions \in Suggestions /\ NoDictionary \in Dictionary
                  /\ Idle \in Call /\ Shaped(Idle) /\ Idle.at = "none"
<1>1. NoSuggestions \in Suggestions /\ NoDictionary \in Dictionary
  BY DEF NoSuggestions, NoDictionary, Suggestions, Dictionary
<1>2. Idle \in Call
  BY <1>1 DEF Idle, Call, Op, Stage, Todo
<1>3. Shaped(Idle) /\ Idle.at = "none"
  BY DEF Shaped, Idle
<1> QED BY <1>1, <1>2, <1>3

\* A file that can be read gives content of its kind.
LEMMA ReadTyped ==
  ASSUME TypeOK
  PROVE  Read("learned") \in Suggestions /\ Read("dictionary") \in Dictionary
<1>1. ASSUME NEW f \in File PROVE Read(f) \in Content(f)
  <2>1. disk[f].path \in Version(f)
    BY <1>1 DEF TypeOK
  <2>2. CASE disk[f].path.is = "whole"
    <3>1. disk[f].path.was \in Content(f)
      BY <2>1, <2>2 DEF Version, Absent, Blank, Torn
    <3> QED BY <2>2, <3>1 DEF Read
  <2>3. CASE disk[f].path.is # "whole"
    BY <2>3, Defaults DEF Read, Default, Content
  <2> QED BY <2>2, <2>3
<1>2. "learned" \in File /\ "dictionary" \in File
  BY DEF File
<1>3. Content("learned") = Suggestions /\ Content("dictionary") = Dictionary
  BY DEF Content
<1> QED BY <1>1, <1>2, <1>3

\* A tidied list is a list.
LEMMA TidyTyped ==
  ASSUME NEW s \in Suggestions
  PROVE  /\ Tidy(s) \in Suggestions /\ Tidy(s).dismissed = s.dismissed
         /\ Tidy(s).count = [q \in Pair |-> IF q \in s.dismissed THEN 0 ELSE s.count[q]]
BY DEF Tidy, Suggestions

\* A pruned list is a list.
LEMMA PrunedTyped ==
  ASSUME NEW s \in Suggestions, NEW d \in Dictionary
  PROVE  /\ Pruned(s, d) \in Suggestions /\ Pruned(s, d).dismissed = s.dismissed
         /\ Pruned(s, d).count = [q \in Pair |-> IF Covered(d, q) THEN 0 ELSE s.count[q]]
BY DEF Pruned, Suggestions

\* What is done to a list of suggestions leaves a list of suggestions.
LEMMA ListTyped ==
  ASSUME NEW s \in Suggestions, NEW p \in Pair
  PROVE  /\ Forget(s, p) \in Suggestions /\ Forget(s, p).dismissed = s.dismissed
         /\ Forget(s, p).count = [s.count EXCEPT ![p] = 0]
         /\ Record(s, p) \in Suggestions /\ Record(s, p).dismissed = s.dismissed
         /\ Record(s, p).count = [s.count EXCEPT ![p] = @ + 1]
         /\ Dismiss(s, p) \in Suggestions /\ Dismiss(s, p).dismissed = s.dismissed \cup {p}
         /\ Dismiss(s, p).count = [s.count EXCEPT ![p] = 0]
<1>1. s = [count |-> s.count, dismissed |-> s.dismissed]
      /\ s.count \in [Pair -> Nat] /\ s.dismissed \in SUBSET Pair
  BY DEF Suggestions
<1>3. Forget(s, p) = [count |-> [s.count EXCEPT ![p] = 0], dismissed |-> s.dismissed]
  BY <1>1 DEF Forget
<1>4. Dismiss(s, p) = [count |-> [s.count EXCEPT ![p] = 0], dismissed |-> s.dismissed \cup {p}]
  <2>1. \A c, d0 : [[count |-> c, dismissed |-> d0] EXCEPT !.dismissed = @ \cup {p}]
                      = [count |-> c, dismissed |-> d0 \cup {p}]
    OBVIOUS
  <2> QED BY <1>3, <2>1 DEF Dismiss
<1>5. Record(s, p) = [count |-> [s.count EXCEPT ![p] = @ + 1], dismissed |-> s.dismissed]
  BY <1>1 DEF Record
<1>8. Forget(s, p) \in Suggestions
  BY <1>1, <1>3 DEF Suggestions
<1>9. Dismiss(s, p) \in Suggestions
  BY <1>1, <1>4 DEF Suggestions
<1>10. Record(s, p) \in Suggestions
  BY <1>1, <1>5 DEF Suggestions
<1> QED BY <1>3, <1>4, <1>5, <1>8, <1>9, <1>10

\* A pair added to a dictionary is covered by it.
LEMMA AddTyped ==
  ASSUME NEW d \in Dictionary, NEW p \in Pair
  PROVE  /\ AddToDictionary(d, p) \in Dictionary
         /\ Covered(AddToDictionary(d, p), p)
         /\ AddToDictionary(d, p).words = d.words \cup {p[2]}
         /\ AddToDictionary(d, p).repl \subseteq d.repl \cup {p}
<1>1. d.words \in SUBSET Written /\ d.repl \in SUBSET Pair /\ p[2] \in Written
  BY DEF Dictionary, Pair
<1>2. AddToDictionary(d, p).words = d.words \cup {p[2]}
  BY DEF AddToDictionary
<1>3. AddToDictionary(d, p).repl \in SUBSET Pair
      /\ AddToDictionary(d, p).repl \subseteq d.repl \cup {p}
  BY <1>1 DEF AddToDictionary
<1>4. AddToDictionary(d, p) \in Dictionary
  BY <1>1 DEF AddToDictionary, Dictionary
<1> QED BY <1>1, <1>2, <1>3, <1>4 DEF Covered
-----------------------------------------------------------------------------
(* Types. *)

\* A call in progress has the types of its parts.
LEMMA CallTyped ==
  ASSUME TypeOK, NEW t \in Task
  PROVE  /\ task[t] \in Call
         /\ task[t].learned \in Suggestions /\ task[t].dict \in Dictionary
         /\ task[t].pairs \in Seq(Pair) /\ task[t].todo \in Todo
         /\ task[t].pairs # <<>> => /\ Head(task[t].pairs) \in Pair
                                    /\ Tail(task[t].pairs) \in Seq(Pair)
         /\ task[t].todo # <<>> => Target(task[t]) \in File
<1>1. task[t] \in Call
  BY DEF TypeOK
<1>2. /\ task[t].learned \in Suggestions /\ task[t].dict \in Dictionary
      /\ task[t].pairs \in Seq(Pair) /\ task[t].todo \in Todo
  BY <1>1 DEF Call
<1>3. task[t].todo # <<>> => Target(task[t]) \in File
  BY <1>2 DEF Todo, Target, File
<1> QED BY <1>1, <1>2, <1>3

\* What the shape of a call depends on.
LEMMA ShapeKept ==
  ASSUME NEW r, NEW n, Shaped(r),
         n.op = r.op, n.pairs = r.pairs, n.fd = r.fd, r.fd = "none", r.at # "none",
         n.at \in {"list", "dict", "note", "open", "install"}, n.at = "open" => n.todo # <<>> /\ n.op # "reload",
         n.at = "note" => n.op = "learn"
  PROVE  Shaped(n)
BY DEF Shaped

\* A task that moves on in its call leaves the others where they are.
LEMMA SetKeeps ==
  ASSUME TypeOK, Shapes, NEW t \in Task, NEW r \in Call, Shaped(r), Set(t, r)
  PROVE  task' \in [Task -> Call] /\ Shapes' /\ task'[t] = r
<1>1. task' = [task EXCEPT ![t] = r] /\ task \in [Task -> Call]
  BY DEF Set, TypeOK
<1>2. task' \in [Task -> Call] /\ \A x \in Task : task'[x] = IF x = t THEN r ELSE task[x]
  BY <1>1
<1> QED BY <1>2 DEF Shapes

\* Nobody relies on another's reading.
LEMMA TouchTyped == \A t \in Task : TypeOK /\ Touches(t) => alone' \in [Task -> BOOLEAN]
BY DEF Touches, TypeOK

\* A call that reads the list keeps the types and the shape.
LEMMA ReadsListTyped ==
  ASSUME TypeOK, Shapes, NEW t \in Task, ReadsList(t)
  PROVE  TypeOK' /\ Shapes' /\ task'[t].at \notin {"write", "rename"}
<1> DEFINE r == task[t]
           s == Tidy(Read("learned"))
           p == Head(r.pairs)
<1>1. r \in Call /\ Shaped(r) /\ r.at = "list" /\ r.fd = "none" /\ r.at # "none"
  BY CallTyped DEF ReadsList, Shapes, Shaped
<1>a. /\ \/ r.op = "learn" /\ Set(t, [r EXCEPT !.learned = s, !.at = "dict"])
         \/ r.op = "accept" /\ Set(t, [r EXCEPT !.learned = Forget(s, p), !.at = "dict"])
         \/ r.op = "dismiss" /\ Set(t, [r EXCEPT !.learned = Dismiss(s, p), !.at = "open",
                                                 !.todo = <<"learned">>])
         \/ Set(t, Idle)
      /\ UNCHANGED <<disk, store, page, reloads, mode, passes, edits, faults,
                     seen, asked, clashed, alone, excused>>
  BY DEF ReadsList
<1>2. s \in Suggestions
  BY ReadTyped, TidyTyped
<1>3. r.op \in {"accept", "dismiss"} => p \in Pair
  <2>1. r.op \in {"accept", "dismiss"} => r.pairs # <<>>
    BY <1>1 DEF Shaped
  <2> QED BY <2>1, CallTyped
<1>4. task' \in [Task -> Call] /\ Shapes' /\ task'[t].at \notin {"write", "rename"}
  <2>1. CASE r.op = "learn" /\ Set(t, [r EXCEPT !.learned = s, !.at = "dict"])
    <3>1. [r EXCEPT !.learned = s, !.at = "dict"] \in Call
      BY <1>1, <1>2 DEF Stage, Call
    <3>n. [r EXCEPT !.learned = s, !.at = "dict"].op = r.op /\ [r EXCEPT !.learned = s, !.at = "dict"].pairs = r.pairs
          /\ [r EXCEPT !.learned = s, !.at = "dict"].fd = r.fd /\ [r EXCEPT !.learned = s, !.at = "dict"].at = "dict"
      BY <1>1 DEF Call
    <3>2. Shaped([r EXCEPT !.learned = s, !.at = "dict"])
      BY <1>1, <3>n, ShapeKept, Zenon
    <3> QED BY <2>1, <3>1, <3>2, <3>n, SetKeeps
  <2>2. CASE r.op = "accept" /\ Set(t, [r EXCEPT !.learned = Forget(s, p), !.at = "dict"])
    <3>0. Forget(s, p) \in Suggestions
      BY <1>2, <1>3, <2>2, ListTyped
    <3>1. [r EXCEPT !.learned = Forget(s, p), !.at = "dict"] \in Call
      BY <1>1, <3>0 DEF Stage, Call
    <3>n. [r EXCEPT !.learned = Forget(s, p), !.at = "dict"].op = r.op /\ [r EXCEPT !.learned = Forget(s, p), !.at = "dict"].pairs = r.pairs
          /\ [r EXCEPT !.learned = Forget(s, p), !.at = "dict"].fd = r.fd /\ [r EXCEPT !.learned = Forget(s, p), !.at = "dict"].at = "dict"
      BY <1>1 DEF Call
    <3>2. Shaped([r EXCEPT !.learned = Forget(s, p), !.at = "dict"])
      BY <1>1, <3>n, ShapeKept, Zenon
    <3> QED BY <2>2, <3>1, <3>2, <3>n, SetKeeps
  <2>3. CASE r.op = "dismiss" /\ Set(t, [r EXCEPT !.learned = Dismiss(s, p), !.at = "open",
                                                  !.todo = <<"learned">>])
    <3>0. Dismiss(s, p) \in Suggestions
      BY <1>2, <1>3, <2>3, ListTyped
    <3>1. [r EXCEPT !.learned = Dismiss(s, p), !.at = "open", !.todo = <<"learned">>] \in Call
      BY <1>1, <3>0 DEF Stage, Call, Todo
    <3>n. [r EXCEPT !.learned = Dismiss(s, p), !.at = "open", !.todo = <<"learned">>].op = r.op /\ [r EXCEPT !.learned = Dismiss(s, p), !.at = "open", !.todo = <<"learned">>].pairs = r.pairs
          /\ [r EXCEPT !.learned = Dismiss(s, p), !.at = "open", !.todo = <<"learned">>].fd = r.fd /\ [r EXCEPT !.learned = Dismiss(s, p), !.at = "open", !.todo = <<"learned">>].at = "open"
          /\ [r EXCEPT !.learned = Dismiss(s, p), !.at = "open", !.todo = <<"learned">>].todo # <<>>
      BY <1>1 DEF Call
    <3>2. Shaped([r EXCEPT !.learned = Dismiss(s, p), !.at = "open", !.todo = <<"learned">>])
      BY <1>1, <2>3, <3>n, ShapeKept, Zenon
    <3> QED BY <2>3, <3>1, <3>2, <3>n, SetKeeps
  <2>4. CASE Set(t, Idle)
    BY <2>4, Defaults, SetKeeps
  <2> QED BY <1>a, <2>1, <2>2, <2>3, <2>4
<1> QED BY <1>a, <1>4 DEF TypeOK, Version, AnyVersion

\* A call that reads the dictionary keeps the types and the shape.
LEMMA ReadsDictionaryTyped ==
  ASSUME TypeOK, Shapes, NEW t \in Task, ReadsDictionary(t)
  PROVE  TypeOK' /\ Shapes' /\ task'[t].at \notin {"write", "rename"}
<1> DEFINE r == task[t]
           d == Read("dictionary")
           p == Head(r.pairs)
           todo == IF Pruned(r.learned, d) = r.learned THEN <<>> ELSE <<"learned">>
           noting == [r EXCEPT !.learned = Pruned(@, d), !.dict = d, !.at = "note", !.todo = todo]
           taking == [r EXCEPT !.dict = AddToDictionary(d, p), !.at = "open", !.todo = AcceptOrder]
           fresh == [r EXCEPT !.dict = d, !.at = "install"]
<1>1. r \in Call /\ Shaped(r) /\ r.at = "dict" /\ r.fd = "none" /\ r.at # "none"
      /\ r.learned \in Suggestions
  BY CallTyped DEF ReadsDictionary, Shapes, Shaped
<1>a. /\ \/ r.op = "learn" /\ Set(t, noting)
         \/ r.op = "accept" /\ Set(t, taking)
         \/ r.op = "reload" /\ Set(t, fresh)
         \/ Set(t, Idle)
      /\ excused' \in BOOLEAN
      /\ UNCHANGED <<disk, store, page, reloads, mode, passes, edits, faults,
                     seen, asked, clashed, alone>>
  BY DEF ReadsDictionary, Fails, TypeOK
<1>2. d \in Dictionary
  BY ReadTyped
<1>3. task' \in [Task -> Call] /\ Shapes' /\ task'[t].at \notin {"write", "rename"}
  <2>1. CASE r.op = "learn" /\ Set(t, noting)
    <3>0. Pruned(r.learned, d) \in Suggestions /\ todo \in Todo
      BY <1>1, <1>2, PrunedTyped DEF Todo
    <3>1. noting \in Call
      BY <1>1, <1>2, <3>0 DEF Stage, Call
    <3>n. noting.op = r.op /\ noting.pairs = r.pairs
          /\ noting.fd = r.fd /\ noting.at = "note"
      BY <1>1 DEF Call
    <3>2. Shaped(noting)
      BY <1>1, <2>1, <3>n, ShapeKept, Zenon
    <3> QED BY <2>1, <3>1, <3>2, <3>n, SetKeeps
  <2>2. CASE r.op = "accept" /\ Set(t, taking)
    <3>0. AddToDictionary(d, p) \in Dictionary
      <4>1. r.pairs # <<>>
        BY <1>1, <2>2 DEF Shaped
      <4> QED BY <4>1, <1>2, CallTyped, AddTyped
    <3>1. taking \in Call
      BY <1>1, <3>0 DEF Stage, Call, Todo, AcceptOrder
    <3>n. taking.op = r.op /\ taking.pairs = r.pairs
          /\ taking.fd = r.fd /\ taking.at = "open"
          /\ taking.todo # <<>>
      BY <1>1 DEF Call, AcceptOrder
    <3>2. Shaped(taking)
      BY <1>1, <2>2, <3>n, ShapeKept, Zenon
    <3> QED BY <2>2, <3>1, <3>2, <3>n, SetKeeps
  <2>3. CASE r.op = "reload" /\ Set(t, fresh)
    <3>1. fresh \in Call
      BY <1>1, <1>2 DEF Stage, Call
    <3>n. fresh.op = r.op /\ fresh.pairs = r.pairs
          /\ fresh.fd = r.fd /\ fresh.at = "install"
      BY <1>1 DEF Call
    <3>2. Shaped(fresh)
      BY <1>1, <3>n, ShapeKept, Zenon
    <3> QED BY <2>3, <3>1, <3>2, <3>n, SetKeeps
  <2>4. CASE Set(t, Idle)
    BY <2>4, Defaults, SetKeeps
  <2> QED BY <1>a, <2>1, <2>2, <2>3, <2>4
<1> QED BY <1>a, <1>3 DEF TypeOK, Version, AnyVersion

\* Counting a pair, or passing over it, leaves a call in the same shape.
LEMMA CountsTyped ==
  ASSUME TypeOK, Shapes, NEW t \in Task, Counts(t)
  PROVE  TypeOK' /\ Shapes' /\ task'[t].at \notin {"write", "rename"}
<1> DEFINE r == task[t]
           p == Head(r.pairs)
           s == Record(r.learned, p)
           f == Forget(s, p)
           d == AddToDictionary(r.dict, p)
           todo == IF r.todo = <<>> THEN <<"learned">> ELSE r.todo
           rest == [r EXCEPT !.pairs = Tail(r.pairs)]
           moved == [rest EXCEPT !.learned = f, !.dict = d, !.todo = PromotionOrder]
           counted == [rest EXCEPT !.learned = s, !.todo = todo]
<1>1. r \in Call /\ Shaped(r) /\ r.at = "note" /\ r.fd = "none" /\ r.op = "learn"
      /\ r.learned \in Suggestions /\ r.dict \in Dictionary /\ r.todo \in Todo
      /\ p \in Pair /\ Tail(r.pairs) \in Seq(Pair)
  BY CallTyped DEF Counts, Shapes, Shaped
<1>2. s \in Suggestions /\ f \in Suggestions /\ d \in Dictionary
      /\ todo \in Todo /\ PromotionOrder \in Todo
  BY <1>1, ListTyped, AddTyped DEF Todo, PromotionOrder
<1>3. /\ Set(t, rest) \/ Set(t, moved) \/ Set(t, counted)
      /\ seen' = seen \/ seen' = [seen EXCEPT ![p] = @ + 1]
      /\ UNCHANGED <<disk, store, page, reloads, mode, passes, edits, faults, asked, clashed,
                     alone, excused>>
  <2>1. /\ rest.dict = r.dict /\ rest.todo = r.todo
    BY <1>1 DEF Call
  <2>2. [rest EXCEPT !.learned = f, !.dict = AddToDictionary(@, p), !.todo = PromotionOrder]
          = moved
    BY <2>1
  <2>3. [rest EXCEPT !.learned = s, !.todo = IF @ = <<>> THEN <<"learned">> ELSE @] = counted
    BY <2>1
  <2> QED BY <2>2, <2>3 DEF Counts
<1> HIDE DEF s, f, d, todo, p
<1>4. rest \in Call /\ moved \in Call /\ counted \in Call
  BY <1>1, <1>2 DEF Call
<1>5. \A n \in {rest, moved, counted} : n.at = "note" /\ n.op = "learn" /\ n.fd = "none"
  BY <1>1 DEF Call
<1>6. \A n \in {rest, moved, counted} : Shaped(n)
  BY <1>5 DEF Shaped
<1> HIDE DEF rest, moved, counted
<1>7. task' \in [Task -> Call] /\ Shapes' /\ task'[t].at \notin {"write", "rename"}
  BY <1>3, <1>4, <1>5, <1>6, SetKeeps
<1>8. seen' \in [Pair -> Nat]
  BY <1>1, <1>3 DEF TypeOK
<1> QED BY <1>3, <1>7, <1>8 DEF TypeOK, Version, AnyVersion

\* The loop of learn ends with something to save, or with nothing.
LEMMA CountedTyped ==
  ASSUME TypeOK, Shapes, NEW t \in Task, Counted(t)
  PROVE  TypeOK' /\ Shapes' /\ task'[t].at \notin {"write", "rename"}
<1> DEFINE r == task[t]
           n == [r EXCEPT !.at = "open"]
<1>1. r \in Call /\ Shaped(r) /\ r.at = "note" /\ r.fd = "none" /\ r.op = "learn"
      /\ (Set(t, Idle) \/ (r.todo # <<>> /\ Set(t, n)))
  BY CallTyped DEF Counted, Shapes, Shaped
<1>2. n \in Call /\ n.op = r.op /\ n.pairs = r.pairs /\ n.fd = r.fd /\ n.at = "open"
      /\ n.todo = r.todo
  BY <1>1 DEF Call, Stage
<1>3. r.todo # <<>> => Shaped(n)
  BY <1>1, <1>2, ShapeKept, Zenon
<1> HIDE DEF n
<1>4. task' \in [Task -> Call] /\ Shapes' /\ task'[t].at \notin {"write", "rename"}
  BY <1>1, <1>2, <1>3, SetKeeps, Defaults
<1> QED BY <1>4 DEF Counted, TypeOK, Version, AnyVersion

\* Installing a copy ends the call.
LEMMA InstallsTyped ==
  ASSUME TypeOK, Shapes, NEW t \in Task, Installs(t)
  PROVE  TypeOK' /\ Shapes' /\ task'[t].at \notin {"write", "rename"}
<1>1. task' \in [Task -> Call] /\ Shapes' /\ task'[t].at \notin {"write", "rename"}
  BY SetKeeps, Defaults DEF Installs
<1>2. store' \in Dictionary
  BY CallTyped DEF Installs
<1> QED BY <1>1, <1>2 DEF Installs, TypeOK, Version, AnyVersion
-----------------------------------------------------------------------------
(* Types, while a file is written. *)

\* What may stand in a file.
LEMMA Versions ==
  ASSUME NEW f \in File
  PROVE  /\ Blank \in Version(f) /\ Absent \in Version(f) /\ Torn \in Version(f)
         /\ Version(f) \subseteq AnyVersion
         /\ \A c \in Content(f) : Whole(c) \in Version(f)
BY DEF Version, AnyVersion, Blank, Absent, Torn, Whole, File

\* Replacing one of the two names of a file.
LEMMA DiskKept ==
  ASSUME TypeOK, NEW f \in File, NEW v \in Version(f), NEW n \in {"path", "tmp"},
         disk' = [disk EXCEPT ![f][n] = v]
  PROVE  /\ disk' \in [File -> [path : AnyVersion, tmp : AnyVersion]]
         /\ \A g \in File : disk'[g].path \in Version(g) /\ disk'[g].tmp \in Version(g)
         /\ disk'[f][n] = v
         /\ \A g \in File, k \in {"path", "tmp"} : g # f \/ k # n => disk'[g][k] = disk[g][k]
<1>1. /\ disk \in [File -> [path : AnyVersion, tmp : AnyVersion]]
      /\ \A g \in File : disk[g].path \in Version(g) /\ disk[g].tmp \in Version(g)
      /\ v \in AnyVersion
  BY Versions DEF TypeOK
<1>2. disk[f] \in [path : AnyVersion, tmp : AnyVersion]
  BY <1>1
<1>3. DOMAIN disk[f] = {"path", "tmp"} /\ disk[f] = [k \in {"path", "tmp"} |-> disk[f][k]]
  BY <1>2
<1>4. [disk[f] EXCEPT ![n] = v] \in [path : AnyVersion, tmp : AnyVersion]
      /\ [disk[f] EXCEPT ![n] = v][n] = v
      /\ \A k \in {"path", "tmp"} : k # n => [disk[f] EXCEPT ![n] = v][k] = disk[f][k]
  <2>1. CASE n = "path"
    BY <1>1, <1>2, <2>1
  <2>2. CASE n = "tmp"
    BY <1>1, <1>2, <2>2
  <2> QED BY <2>1, <2>2
<1>5. \A g \in File : disk'[g] = IF g = f THEN [disk[f] EXCEPT ![n] = v] ELSE disk[g]
  BY <1>1
<1>6. disk' \in [File -> [path : AnyVersion, tmp : AnyVersion]]
  BY <1>1, <1>4
<1>7. \A g \in File, k \in {"path", "tmp"} : g # f \/ k # n => disk'[g][k] = disk[g][k]
  BY <1>4, <1>5
<1>8. disk'[f][n] = v
  BY <1>4, <1>5
<1>9. \A g \in File : disk'[g].path \in Version(g) /\ disk'[g].tmp \in Version(g)
  <2> SUFFICES ASSUME NEW g \in File, NEW k \in {"path", "tmp"} PROVE disk'[g][k] \in Version(g)
    OBVIOUS
  <2>1. CASE g = f /\ k = n
    BY <1>8, <2>1
  <2>2. CASE g # f \/ k # n
    BY <1>1, <1>7, <2>2
  <2> QED BY <2>1, <2>2
<1> QED BY <1>6, <1>7, <1>8, <1>9

\* Opening keeps the types and the shape.
LEMMA OpensTyped ==
  ASSUME TypeOK, Shapes, NEW t \in Task, Opens(t)
  PROVE  TypeOK' /\ Shapes'
<1> DEFINE r == task[t]
           n == [r EXCEPT !.at = "write", !.fd = "tmp"]
<1>1. r \in Call /\ Shaped(r) /\ r.at = "open" /\ r.todo # <<>> /\ Target(r) \in File
  BY CallTyped DEF Opens, Shapes, Shaped
<1>2. n \in Call /\ n.op = r.op /\ n.pairs = r.pairs /\ n.fd = "tmp" /\ n.at = "write"
      /\ n.todo = r.todo
  BY <1>1 DEF Call, Stage
<1>3. Shaped(n)
  BY <1>1, <1>2 DEF Shaped
<1> HIDE DEF n
<1>4. task' \in [Task -> Call] /\ Shapes'
  BY <1>2, <1>3, SetKeeps DEF Opens, n
<1>5. /\ disk' \in [File -> [path : AnyVersion, tmp : AnyVersion]]
      /\ \A g \in File : disk'[g].path \in Version(g) /\ disk'[g].tmp \in Version(g)
  <2>1. disk' = [disk EXCEPT ![Target(r)]["tmp"] = Blank]
    BY DEF Opens
  <2> QED BY <1>1, <2>1, DiskKept, Versions
<1>6. alone' \in [Task -> BOOLEAN]
  BY TouchTyped DEF Opens
<1>7. clashed' \subseteq File
  BY <1>1 DEF Opens, TypeOK
<1> QED BY <1>4, <1>5, <1>6, <1>7 DEF Opens, TypeOK

\* Nothing in the files changes its type by a write through an open file.
LEMMA WritesAsTyped ==
  ASSUME TypeOK, Shapes, NEW t \in Task, task[t].at = "write",
         NEW result, result \in Version(Target(task[t])), WritesAs(t, result)
  PROVE  /\ disk' \in [File -> [path : AnyVersion, tmp : AnyVersion]]
         /\ \A g \in File : disk'[g].path \in Version(g) /\ disk'[g].tmp \in Version(g)
<1> DEFINE r == task[t]
           f == Target(r)
<1>1. r.fd \in {"path", "tmp", "gone"} /\ f \in File
  <2>1. r.fd \in {"none", "tmp", "path", "gone"} /\ r.todo # <<>> /\ r.fd # "none"
    BY CallTyped DEF Shapes, Shaped, Call
  <2> QED BY <2>1, CallTyped
<1>2. CASE r.fd = "gone"
  BY <1>2 DEF WritesAs, TypeOK
<1>3. CASE r.fd # "gone"
  <2>1. PICK u \in {result, Torn} : disk' = [disk EXCEPT ![f][r.fd] = u]
    BY <1>3 DEF WritesAs
  <2>2. u \in Version(f) /\ r.fd \in {"path", "tmp"}
    BY <1>1, <1>3, Versions
  <2> HIDE DEF f
  <2> QED BY <1>1, <2>1, <2>2, DiskKept
<1> QED BY <1>2, <1>3

\* What a call writes is of the kind of the file it writes.
LEMMA CopyTyped ==
  ASSUME TypeOK, NEW t \in Task, task[t].todo # <<>>
  PROVE  Copy(task[t]) \in Content(Target(task[t]))
BY CallTyped, TidyTyped DEF Copy, Content, Todo, Target

\* Writing keeps the types and the shape.
LEMMA WritesTyped ==
  ASSUME TypeOK, Shapes, NEW t \in Task, Writes(t)
  PROVE  TypeOK' /\ Shapes'
<1> DEFINE r == task[t]
           n == [r EXCEPT !.at = "rename", !.fd = "none"]
<1>1. r \in Call /\ Shaped(r) /\ r.at = "write" /\ r.todo # <<>> /\ Target(r) \in File
  BY CallTyped DEF Writes, Shapes, Shaped
<1>2. n \in Call /\ n.op = r.op /\ n.pairs = r.pairs /\ n.fd = "none" /\ n.at = "rename"
      /\ n.todo = r.todo
  BY <1>1 DEF Call, Stage
<1>3. Shaped(n)
  BY <1>1, <1>2 DEF Shaped
<1>4. task' \in [Task -> Call] /\ Shapes'
  <2>1. Set(t, n)
    BY DEF Writes
  <2> HIDE DEF n
  <2> QED BY <1>2, <1>3, <2>1, SetKeeps
<1>5. /\ disk' \in [File -> [path : AnyVersion, tmp : AnyVersion]]
      /\ \A g \in File : disk'[g].path \in Version(g) /\ disk'[g].tmp \in Version(g)
  <2>1. Whole(Copy(r)) \in Version(Target(r))
    BY <1>1, CopyTyped, Versions
  <2> QED BY <1>1, <2>1, WritesAsTyped DEF Writes
<1>6. alone' \in [Task -> BOOLEAN]
  BY TouchTyped DEF Writes
<1> QED BY <1>4, <1>5, <1>6 DEF Writes, TypeOK

\* A write that fails keeps the types and the shape.
LEMMA WriteFailsTyped ==
  ASSUME TypeOK, Shapes, NEW t \in Task, WriteFails(t)
  PROVE  TypeOK' /\ Shapes'
<1>1. task[t].at = "write" /\ task[t].todo # <<>> /\ Target(task[t]) \in File
  BY CallTyped DEF WriteFails, Shapes, Shaped
<1>2. task' \in [Task -> Call] /\ Shapes'
  BY SetKeeps, Defaults DEF WriteFails, Fails
<1>3. /\ disk' \in [File -> [path : AnyVersion, tmp : AnyVersion]]
      /\ \A g \in File : disk'[g].path \in Version(g) /\ disk'[g].tmp \in Version(g)
  <2>1. Torn \in Version(Target(task[t]))
    BY <1>1, Versions
  <2> QED BY <1>1, <2>1, WritesAsTyped DEF WriteFails
<1>4. alone' \in [Task -> BOOLEAN]
  BY TouchTyped DEF WriteFails
<1>5. excused' \in BOOLEAN /\ faults' \in Nat
  BY DEF WriteFails, Fails, TypeOK
<1> QED BY <1>2, <1>3, <1>4, <1>5 DEF WriteFails, TypeOK

\* What follows a file is a call, in shape.
LEMMA AfterTyped ==
  ASSUME NEW r \in Call, Shaped(r), r.at = "rename"
  PROVE  AfterFile(r) \in Call /\ Shaped(AfterFile(r))
<1> DEFINE again == [r EXCEPT !.todo = Tail(r.todo), !.at = "open"]
           fresh == [Idle EXCEPT !.op = "reload", !.at = "dict"]
           over == [r EXCEPT !.todo = <<>>, !.at = "done"]
<1>1. r.todo \in Todo /\ r.todo # <<>> /\ r.fd = "none" /\ r.op \notin {"idle", "reload"}
      /\ r.op \in Op
  <2>1. r.todo \in Todo /\ r.op \in Op
    BY DEF Call
  <2>2. r.todo # <<>> /\ r.fd = "none"
    BY DEF Shaped
  <2>3. r.op \notin {"idle", "reload"}
    BY DEF Shaped
  <2> QED BY <2>1, <2>2, <2>3
<1>2. Len(r.todo) > 1 => Tail(r.todo) \in Todo /\ Tail(r.todo) # <<>>
  <2>1. Len(r.todo) > 1 => \/ r.todo = <<"learned", "dictionary">>
                           \/ r.todo = <<"dictionary", "learned">>
    <3>1. Len(<<"learned">>) = 1 /\ Len(<<"dictionary">>) = 1
      OBVIOUS
    <3>2. ASSUME r.todo \in {<<"learned">>, <<"dictionary">>} PROVE Len(r.todo) = 1
      BY <3>1, <3>2
    <3> QED BY <1>1, <3>2 DEF Todo
  <2>2. /\ Tail(<<"learned", "dictionary">>) = <<"dictionary">>
        /\ Tail(<<"dictionary", "learned">>) = <<"learned">>
    OBVIOUS
  <2>3. <<"dictionary">> # <<>> /\ <<"learned">> # <<>>
    OBVIOUS
  <2> QED BY <2>1, <2>2, <2>3 DEF Todo
<1>3. CASE Len(r.todo) > 1
  <2>1. again \in Call /\ again.op = r.op /\ again.pairs = r.pairs /\ again.fd = r.fd
        /\ again.at = "open" /\ again.todo # <<>>
    BY <1>2, <1>3 DEF Call, Stage
  <2>2. Shaped(again)
    BY <1>1, <2>1, ShapeKept
  <2> QED BY <1>3, <2>1, <2>2 DEF AfterFile
<1>4. CASE ~(Len(r.todo) > 1) /\ r.op = "learn" /\ Target(r) = "dictionary"
  <2>1. fresh \in Call /\ Shaped(fresh)
    BY Defaults DEF Idle, Call, Op, Stage, Shaped
  <2> QED BY <1>4, <2>1 DEF AfterFile
<1>5. CASE ~(Len(r.todo) > 1) /\ ~(r.op = "learn" /\ Target(r) = "dictionary")
  <2>1. over \in Call /\ over.op = r.op /\ over.pairs = r.pairs /\ over.fd = r.fd
        /\ over.at = "done" /\ over.todo = <<>>
    BY DEF Call, Stage, Todo
  <2>2. Shaped(over)
    BY <1>1, <2>1 DEF Shaped, Op
  <2> QED BY <1>5, <2>1, <2>2 DEF AfterFile
<1> QED BY <1>3, <1>4, <1>5

\* Renaming keeps the types and the shape.
LEMMA RenamesTyped ==
  ASSUME TypeOK, Shapes, NEW t \in Task, Renames(t)
  PROVE  TypeOK' /\ Shapes'
<1> DEFINE r == task[t]
           f == Target(r)
<1>1. r \in Call /\ Shaped(r) /\ r.at = "rename" /\ f \in File
  BY CallTyped DEF Renames, Shapes, Shaped
<1>2. CASE /\ disk' = [disk EXCEPT ![f] = [path |-> disk[f].tmp, tmp |-> Absent]]
           /\ task' = Moved(f, t, AfterFile(r))
           /\ Touches(t)
           /\ UNCHANGED excused
  <2>1. AfterFile(r) \in Call /\ Shaped(AfterFile(r))
    BY <1>1, AfterTyped
  <2>2. ASSUME NEW x \in Task PROVE task'[x] \in Call /\ Shaped(task'[x])
    <3> DEFINE o == task[x]
               w == CASE o.fd = "tmp" -> "path" [] o.fd = "path" -> "gone" [] OTHER -> o.fd
    <3>1. o \in Call /\ Shaped(o)
      BY DEF TypeOK, Shapes
    <3>2. CASE x = t
      BY <1>2, <2>1, <3>2 DEF Moved
    <3>3. CASE x # t /\ o.at = "write" /\ Target(o) = f
      <4>1. task'[x] = [o EXCEPT !.fd = w]
        BY <1>2, <3>3 DEF Moved
      <4>2. o.fd # "none" /\ w # "none" /\ w \in {"none", "tmp", "path", "gone"}
        BY <3>1, <3>3 DEF Shaped, Call
      <4> HIDE DEF w
      <4>3. /\ task'[x] \in Call /\ task'[x].op = o.op /\ task'[x].at = o.at
            /\ task'[x].todo = o.todo /\ task'[x].pairs = o.pairs /\ task'[x].fd = w
        BY <3>1, <4>1, <4>2 DEF Call
      <4> QED BY <3>1, <3>3, <4>2, <4>3 DEF Shaped
    <3>4. CASE x # t /\ ~(o.at = "write" /\ Target(o) = f)
      BY <1>2, <3>1, <3>4 DEF Moved
    <3> QED BY <3>2, <3>3, <3>4
  <2>3. task' \in [Task -> Call]
    <3>1. task' = [x \in Task |-> task'[x]]
      BY <1>2 DEF Moved
    <3> QED BY <2>2, <3>1
  <2>4. Shapes'
    BY <2>2 DEF Shapes
  <2>5. \A g \in File : disk'[g].path \in Version(g) /\ disk'[g].tmp \in Version(g)
    <3>1. ASSUME NEW g \in File PROVE disk'[g].path \in Version(g) /\ disk'[g].tmp \in Version(g)
      BY <1>1, <1>2, Versions DEF TypeOK
    <3> QED BY <3>1
  <2>6. disk' \in [File -> [path : AnyVersion, tmp : AnyVersion]]
    <3>1. disk[f].tmp \in AnyVersion /\ Absent \in AnyVersion
      BY <1>1, Versions DEF TypeOK
    <3> QED BY <1>1, <1>2, <3>1 DEF TypeOK
  <2>7. alone' \in [Task -> BOOLEAN]
    BY <1>2, TouchTyped
  <2> QED BY <1>2, <2>3, <2>4, <2>5, <2>6, <2>7 DEF Renames, TypeOK
<1>3. CASE Fails(t) /\ UNCHANGED <<disk, alone>>
  <2>1. task' \in [Task -> Call] /\ Shapes'
    BY <1>3, SetKeeps, Defaults DEF Fails
  <2>2. excused' \in BOOLEAN
    BY <1>3 DEF Fails, TypeOK
  <2> QED BY <1>3, <2>1, <2>2 DEF Renames, TypeOK, Version, AnyVersion
<1> QED BY <1>2, <1>3 DEF Renames
-----------------------------------------------------------------------------
(* Types, where calls begin and end. *)

\* A call begins in shape.
LEMMA BeginsTyped ==
  ASSUME TypeOK, Shapes, NEW t \in Task, NEW op \in Op, NEW at \in {"list", "dict"},
         NEW pairs \in Seq(Pair), op # "idle", op \in {"accept", "dismiss"} => pairs # <<>>,
         Begins(t, op, at, pairs)
  PROVE  task' \in [Task -> Call] /\ Shapes' /\ alone' \in [Task -> BOOLEAN]
<1> DEFINE n == [Idle EXCEPT !.op = op, !.at = at, !.pairs = pairs]
<1>1. n \in Call /\ n.op = op /\ n.at = at /\ n.pairs = pairs /\ n.fd = "none"
  BY Defaults DEF Idle, Call, Stage
<1>2. Shaped(n)
  BY <1>1 DEF Shaped
<1>3. Set(t, n) /\ alone' = [alone EXCEPT ![t] = TRUE]
  BY DEF Begins
<1> HIDE DEF n
<1>4. task' \in [Task -> Call] /\ Shapes'
  BY <1>1, <1>2, <1>3, SetKeeps
<1> QED BY <1>3, <1>4 DEF TypeOK

\* Calls of the daemon begin in shape.
LEMMA DaemonBeginsTyped ==
  ASSUME TypeOK, Shapes, NEW t \in Daemon, LearnBegins(t) \/ ReloadBegins(t)
  PROVE  TypeOK' /\ Shapes'
<1>0. t \in Task
  BY DEF Task
<1>1. CASE LearnBegins(t)
  <2>1. PICK p, q \in Pair : Begins(t, "learn", "list", IF p = q THEN <<p>> ELSE <<p, q>>)
    BY <1>1 DEF LearnBegins
  <2>0. (IF p = q THEN <<p>> ELSE <<p, q>>) \in Seq(Pair)
    OBVIOUS
  <2>2. task' \in [Task -> Call] /\ Shapes' /\ alone' \in [Task -> BOOLEAN]
    BY <1>0, <2>0, <2>1, BeginsTyped DEF Op
  <2>3. passes' \in Nat
    BY <1>1 DEF LearnBegins, TypeOK
  <2> QED BY <1>1, <2>2, <2>3 DEF LearnBegins, TypeOK, Version, AnyVersion
<1>2. CASE ReloadBegins(t)
  <2>1. task' \in [Task -> Call] /\ Shapes' /\ alone' \in [Task -> BOOLEAN]
    <3>1. Begins(t, "reload", "dict", <<>>) /\ <<>> \in Seq(Pair)
      BY <1>2 DEF ReloadBegins
    <3> QED BY <1>0, <3>1, BeginsTyped DEF Op
  <2>2. reloads' \in Nat
    BY <1>2 DEF ReloadBegins, TypeOK
  <2> QED BY <1>2, <2>1, <2>2 DEF ReloadBegins, TypeOK, Version, AnyVersion
<1> QED BY <1>1, <1>2

\* A click on a suggestion begins a call about it.
LEMMA ClickedTyped ==
  ASSUME TypeOK, Shapes, NEW p \in Pair, SuggestionClicked(p)
  PROVE  TypeOK' /\ Shapes'
<1>0. UI \in Task /\ <<p>> \in Seq(Pair) /\ <<p>> # <<>>
  BY DEF Task
<1>1. Begins(UI, "accept", "list", <<p>>) \/ Begins(UI, "dismiss", "list", <<p>>)
  BY DEF SuggestionClicked
<1>2. task' \in [Task -> Call] /\ Shapes' /\ alone' \in [Task -> BOOLEAN]
  BY <1>0, <1>1, BeginsTyped DEF Op
<1>3. asked' \in Dictionary
  <2>1. p[2] \in Written /\ asked.words \in SUBSET Written /\ asked.repl \in SUBSET Pair
    BY DEF TypeOK, Dictionary, Pair
  <2>2. CASE asked' = [words |-> asked.words \cup {p[2]}, repl |-> asked.repl \cup {p}]
    BY <2>1, <2>2 DEF Dictionary
  <2>3. CASE asked' = asked
    BY <2>3 DEF TypeOK
  <2> QED BY <2>2, <2>3 DEF SuggestionClicked
<1>4. edits' \in Nat
  BY DEF SuggestionClicked, TypeOK
<1> QED BY <1>2, <1>3, <1>4 DEF SuggestionClicked, TypeOK, Version, AnyVersion

\* What a change to the page may lead to.
PageChanges == {[page EXCEPT !.words = @ \cup {w}] : w \in Written \ page.words}
               \cup {[page EXCEPT !.words = @ \ {w}] : w \in page.words}
               \cup {[page EXCEPT !.repl = @ \ {r}] : r \in page.repl}

\* A change to the page is a dictionary, and adds no replacement.
LEMMA PageChanged ==
  ASSUME TypeOK, NEW d \in PageChanges
  PROVE  d \in Dictionary /\ d.repl \subseteq page.repl
<1>1. page = [words |-> page.words, repl |-> page.repl]
      /\ page.words \in SUBSET Written /\ page.repl \in SUBSET Pair
  BY DEF TypeOK, Dictionary
<1>2. CASE d \in {[page EXCEPT !.words = @ \cup {w}] : w \in Written \ page.words}
  BY <1>1, <1>2 DEF Dictionary
<1>3. CASE d \in {[page EXCEPT !.words = @ \ {w}] : w \in page.words}
  BY <1>1, <1>3 DEF Dictionary
<1>4. CASE d \in {[page EXCEPT !.repl = @ \ {r}] : r \in page.repl}
  BY <1>1, <1>4 DEF Dictionary
<1> QED BY <1>2, <1>3, <1>4 DEF PageChanges

\* An edit of the page begins a call that saves it.
LEMMA PageEditedTyped ==
  ASSUME TypeOK, Shapes, PageEdited
  PROVE  TypeOK' /\ Shapes'
<1>1. PICK d \in PageChanges :
        /\ page' = d
        /\ Set(UI, [Idle EXCEPT !.op = "page", !.at = "open", !.todo = <<"dictionary">>,
                                !.dict = d])
        /\ asked' = [asked EXCEPT !.words = @ \cup (d.words \ page.words)]
  BY DEF PageEdited, PageChanges
<1> DEFINE n == [Idle EXCEPT !.op = "page", !.at = "open", !.todo = <<"dictionary">>, !.dict = d]
<1>2. d \in Dictionary
  BY PageChanged
<1>3. n \in Call /\ n.op = "page" /\ n.at = "open" /\ n.fd = "none" /\ n.todo # <<>>
  BY <1>2, Defaults DEF Idle, Call, Stage, Op, Todo
<1>4. Shaped(n)
  BY <1>3 DEF Shaped
<1>5. Set(UI, n)
  BY <1>1
<1> HIDE DEF n
<1>6. task' \in [Task -> Call] /\ Shapes'
  BY <1>3, <1>4, <1>5, SetKeeps DEF Task
<1>7. asked' \in Dictionary
  BY <1>1, <1>2 DEF TypeOK, Dictionary
<1>8. alone' \in [Task -> BOOLEAN]
  <2>1. alone' = [alone EXCEPT ![UI] = TRUE]
    BY DEF PageEdited
  <2> QED BY <2>1 DEF TypeOK
<1>9. edits' \in Nat
  BY DEF PageEdited, TypeOK
<1>10. page' \in Dictionary
  BY <1>1, <1>2
<1> QED BY <1>6, <1>7, <1>8, <1>9, <1>10 DEF PageEdited, TypeOK, Version, AnyVersion

\* Calls that return, and programs that are started again, leave types and shape.
LEMMA EndsTyped ==
  ASSUME TypeOK, Shapes, (\E t \in Task : Returns(t)) \/ DaemonRestarts \/ UIRestarts
  PROVE  TypeOK' /\ Shapes'
<1>0. UI \in Task /\ Read("dictionary") \in Dictionary
  BY ReadTyped DEF Task
<1>1. ASSUME NEW t \in Task, Returns(t) PROVE TypeOK' /\ Shapes'
  <2>1. task' \in [Task -> Call] /\ Shapes'
    BY <1>1, SetKeeps, Defaults DEF Returns
  <2>2. reloads' \in Nat
    BY <1>1 DEF Returns, TypeOK
  <2>3. page' \in Dictionary
    BY <1>0, <1>1 DEF Returns, PageLoaded, TypeOK
  <2> QED BY <1>1, <2>1, <2>2, <2>3 DEF Returns, TypeOK, Version, AnyVersion
<1>2. CASE DaemonRestarts
  <2>1. task' \in [Task -> Call] /\ Shapes'
    BY <1>2, Defaults DEF DaemonRestarts, TypeOK, Shapes
  <2>2. store' \in Dictionary
    BY <1>0, <1>2 DEF DaemonRestarts
  <2>3. faults' \in Nat
    BY <1>2 DEF DaemonRestarts, TypeOK
  <2>4. reloads' \in Nat /\ excused' \in BOOLEAN
    BY <1>2 DEF DaemonRestarts
  <2> QED BY <1>2, <2>1, <2>2, <2>3, <2>4 DEF DaemonRestarts, TypeOK, Version, AnyVersion
<1>3. CASE UIRestarts
  <2>1. task' \in [Task -> Call] /\ Shapes'
    BY <1>0, <1>3, SetKeeps, Defaults DEF UIRestarts
  <2>2. page' \in Dictionary /\ faults' \in Nat /\ excused' \in BOOLEAN
    BY <1>0, <1>3 DEF UIRestarts, PageLoaded, TypeOK
  <2> QED BY <1>3, <2>1, <2>2 DEF UIRestarts, TypeOK, Version, AnyVersion
<1> QED BY <1>1, <1>2, <1>3

\* Every step keeps the types and the shape of the calls.
LEMMA NextTyped == TypeOK /\ Shapes /\ [Next]_vars => TypeOK' /\ Shapes'
<1> SUFFICES ASSUME TypeOK, Shapes, [Next]_vars PROVE TypeOK' /\ Shapes'
  OBVIOUS
<1>1. ASSUME NEW t \in Task, Step(t) PROVE TypeOK' /\ Shapes'
  BY <1>1, ReadsListTyped, ReadsDictionaryTyped, CountsTyped, CountedTyped, InstallsTyped,
     OpensTyped, WritesTyped, WriteFailsTyped, RenamesTyped, EndsTyped DEF Step
<1>2. CASE UNCHANGED vars
  BY <1>2 DEF vars, TypeOK, Version, AnyVersion, Shapes
<1> QED BY <1>1, <1>2, DaemonBeginsTyped, ClickedTyped, PageEditedTyped, EndsTyped DEF Next

\* The initial states are typed and in shape.
LEMMA InitTyped == Init => TypeOK /\ Shapes
<1> SUFFICES ASSUME Init PROVE TypeOK /\ Shapes
  OBVIOUS
<1>1. disk \in [File -> [path : AnyVersion, tmp : AnyVersion]]
      /\ \A f \in File : disk[f].path \in Version(f) /\ disk[f].tmp \in Version(f)
  BY Versions DEF Init, File, Version, AnyVersion
<1>2. task \in [Task -> Call] /\ Shapes
  BY Defaults DEF Init, Shapes
<1> QED BY <1>1, <1>2, Defaults DEF Init, TypeOK, Mode

\* The types hold, for every number of tasks, calls and faults.
THEOREM LearningTyped == Spec => []TypeOK
<1>1. Init => TypeOK /\ Shapes
  BY InitTyped
<1>2. TypeOK /\ Shapes /\ [Next]_vars => (TypeOK /\ Shapes)'
  BY NextTyped
<1> QED BY <1>1, <1>2, PTL DEF Spec
-----------------------------------------------------------------------------
(* Whole files. *)

\* Who has a file open.
LEMMA Openers ==
  \A f, x : x \in HasOpen(f) <=> /\ x \in Task /\ task[x].at \in {"write", "rename"}
                                 /\ Target(task[x]) = f
BY DEF HasOpen

\* A step that leaves the files, and those who have one open, alone.
LEMMA QuietKeeps ==
  ASSUME Unclashed, disk' = disk, clashed' = clashed,
         \A x \in Task : task'[x].at \in {"write", "rename"} => task'[x] = task[x]
  PROVE  Unclashed'
<1> SUFFICES ASSUME NEW f \in File \ clashed PROVE Sole(f)'
  BY DEF Unclashed
<1>1. Sole(f)
  BY DEF Unclashed
<1>2. ASSUME NEW x \in HasOpen(f)' PROVE x \in HasOpen(f) /\ task'[x] = task[x]
  BY <1>2 DEF HasOpen, Target
<1> QED BY <1>1, <1>2 DEF Sole

\* Only the task that moves on can have a file open that it had not.
LEMMA SetQuiet ==
  ASSUME TypeOK, Unclashed, NEW t \in Task, NEW r, Set(t, r), r.at \notin {"write", "rename"},
         disk' = disk, clashed' = clashed
  PROVE  Unclashed'
<1>1. \A x \in Task : task'[x] = IF x = t THEN r ELSE task[x]
  BY DEF Set, TypeOK
<1> QED BY <1>1, QuietKeeps

\* Calls that read, count, install or return write nothing.
LEMMA ReadersUnclashed ==
  ASSUME TypeOK, Shapes, Unclashed, NEW t \in Task,
         ReadsList(t) \/ ReadsDictionary(t) \/ Counts(t) \/ Counted(t) \/ Installs(t) \/ Returns(t)
  PROVE  Unclashed'
<1>1. PICK r \in Call : Set(t, r) /\ r.at \notin {"write", "rename"}
  <2>1. task' \in [Task -> Call]
    BY ReadsListTyped, ReadsDictionaryTyped, CountsTyped, CountedTyped, InstallsTyped,
       EndsTyped DEF TypeOK
  <2>2. task'[t].at \notin {"write", "rename"}
    <3>1. CASE Returns(t)
      BY <3>1 DEF Returns, Set, Idle, TypeOK
    <3> QED BY <3>1, ReadsListTyped, ReadsDictionaryTyped, CountsTyped, CountedTyped, InstallsTyped
  <2>3. PICK n : Set(t, n)
    BY DEF ReadsList, ReadsDictionary, Counts, Counted, Installs, Returns, Fails
  <2>4. task'[t] = n
    BY <2>3 DEF Set, TypeOK
  <2> QED BY <2>1, <2>2, <2>3, <2>4
<1>2. disk' = disk /\ clashed' = clashed
  BY DEF ReadsList, ReadsDictionary, Counts, Counted, Installs, Returns
<1> QED BY <1>1, <1>2, SetQuiet

\* Calls begin without a file, and programs that stop have none.
LEMMA BeginsUnclashed ==
  ASSUME TypeOK, Shapes, Unclashed,
         \/ \E t \in Daemon : LearnBegins(t) \/ ReloadBegins(t)
         \/ \E p \in Pair : SuggestionClicked(p)
         \/ PageEdited \/ DaemonRestarts \/ UIRestarts
  PROVE  Unclashed'
<1>0. Daemon \subseteq Task /\ UI \in Task
  BY DEF Task
<1>1. disk' = disk /\ clashed' = clashed
  BY DEF LearnBegins, ReloadBegins, SuggestionClicked, PageEdited, DaemonRestarts, UIRestarts
<1>2. \A t \in Task : \A r : Set(t, r) /\ r.at \notin {"write", "rename"} => Unclashed'
  BY <1>1, SetQuiet
<1>3. \A t \in Task : \A op, at, pairs :
         Begins(t, op, at, pairs) /\ at \in {"list", "dict"} => Unclashed'
  <2>1. \A op, at, pairs : [Idle EXCEPT !.op = op, !.at = at, !.pairs = pairs].at = at
    BY DEF Idle
  <2> QED BY <1>2, <2>1 DEF Begins
<1>4. ASSUME NEW t \in Daemon, LearnBegins(t) \/ ReloadBegins(t) PROVE Unclashed'
  BY <1>0, <1>3, <1>4 DEF LearnBegins, ReloadBegins
<1>5. ASSUME NEW p \in Pair, SuggestionClicked(p) PROVE Unclashed'
  BY <1>0, <1>3, <1>5 DEF SuggestionClicked
<1>6. CASE PageEdited
  <2>1. \E d : Set(UI, [Idle EXCEPT !.op = "page", !.at = "open", !.todo = <<"dictionary">>,
                                   !.dict = d])
    BY <1>6 DEF PageEdited
  <2>2. \A d : [Idle EXCEPT !.op = "page", !.at = "open", !.todo = <<"dictionary">>,
                          !.dict = d].at = "open"
    BY DEF Idle
  <2> QED BY <1>0, <1>2, <2>1, <2>2
<1>7. CASE DaemonRestarts
  <2>1. \A x \in Task : task'[x] = IF x = UI THEN task[x] ELSE Idle
    BY <1>7 DEF DaemonRestarts
  <2>2. Idle.at = "none"
    BY DEF Idle
  <2> QED BY <1>1, <2>1, <2>2, QuietKeeps
<1>8. CASE UIRestarts
  BY <1>0, <1>2, <1>8 DEF UIRestarts, Idle
<1> QED BY <1>4, <1>5, <1>6, <1>7, <1>8

\* Opening: either someone else has the file open, or this call alone.
LEMMA OpensUnclashed ==
  ASSUME TypeOK, Shapes, Unclashed, NEW t \in Task, Opens(t)
  PROVE  Unclashed'
<1> DEFINE r == task[t]
           n == [r EXCEPT !.at = "write", !.fd = "tmp"]
<1> SUFFICES ASSUME NEW f \in File, f \notin clashed' PROVE Sole(f)'
  BY DEF Unclashed
<1>1. r \in Call /\ r.at = "open" /\ Target(r) \in File
  BY CallTyped DEF Opens, Shapes, Shaped
<1>2. n.at = "write" /\ n.fd = "tmp" /\ n.todo = r.todo
  BY <1>1 DEF Call
<1>3. \A x \in Task : task'[x] = IF x = t THEN n ELSE task[x]
  BY DEF Opens, Set, TypeOK
<1> HIDE DEF n
<1>4. f \notin clashed /\ (f = Target(r) => HasOpen(f) = {})
  BY DEF Opens
<1>5. Sole(f)
  BY <1>4 DEF Unclashed
<1>6. disk'[f].path = disk[f].path /\ (f # Target(r) => disk'[f].tmp = disk[f].tmp)
      /\ (f = Target(r) => disk'[f].tmp = Blank)
  BY <1>1 DEF Opens, TypeOK
<1>7. \A x : x \in HasOpen(f)' <=> IF x = t THEN f = Target(r) ELSE x \in HasOpen(f)
  BY <1>1, <1>2, <1>3 DEF HasOpen, Target
<1>8. CASE f = Target(r)
  <2>1. \A x : x \in HasOpen(f)' <=> x = t
    BY <1>4, <1>7, <1>8
  <2> QED BY <1>2, <1>3, <1>5, <1>6, <1>8, <2>1 DEF Sole
<1>9. CASE f # Target(r)
  <2>1. \A x : x \in HasOpen(f)' <=> x \in HasOpen(f)
    BY <1>1, <1>7, <1>9 DEF HasOpen
  <2>2. \A x \in HasOpen(f) : task'[x] = task[x]
    BY <1>1, <1>3 DEF HasOpen
  <2> QED BY <1>5, <1>6, <1>9, <2>1, <2>2 DEF Sole
<1> QED BY <1>8, <1>9

\* The one who writes is the only one who has the file open.
LEMMA WritesUnclashed ==
  ASSUME TypeOK, Shapes, Unclashed, NEW t \in Task, Writes(t) \/ WriteFails(t)
  PROVE  Unclashed'
<1> DEFINE r == task[t]
           n == [r EXCEPT !.at = "rename", !.fd = "none"]
<1> SUFFICES ASSUME NEW f \in File, f \notin clashed PROVE Sole(f)'
  BY DEF Unclashed, Writes, WriteFails
<1>1. r \in Call /\ r.at = "write" /\ Target(r) \in File /\ r.fd \in {"tmp", "path", "gone"}
  BY CallTyped DEF Writes, WriteFails, Shapes, Shaped, Call
<1>2. Sole(f)
  BY DEF Unclashed
<1>3. n.at = "rename" /\ n.todo = r.todo
  BY <1>1 DEF Call
<1>4. \A x \in Task \ {t} : task'[x] = task[x]
  BY DEF Writes, WriteFails, Fails, Set, TypeOK
<1>5. task'[t] = IF Writes(t) THEN n ELSE Idle
  BY DEF Writes, WriteFails, Fails, Set, TypeOK
<1> HIDE DEF n
<1>6. PICK result : WritesAs(t, result) /\ (Writes(t) => result = Whole(Copy(r)))
  BY DEF Writes, WriteFails
<1>7. \A x : x \in HasOpen(f)' => x \in HasOpen(f) /\ (x = t => Writes(t))
  BY <1>1, <1>3, <1>4, <1>5 DEF HasOpen, Target, Idle
<1>8. CASE f = Target(r)
  <2>1. t \in HasOpen(f) /\ r.fd = "tmp" /\ disk[f].tmp = Blank
    BY <1>1, <1>2, <1>8 DEF Sole, HasOpen
  <2>2. disk' = [disk EXCEPT ![f]["tmp"] = result]
    BY <1>6, <1>8, <2>1 DEF WritesAs
  <2>3. disk'[f].path = disk[f].path /\ disk'[f].tmp = result
    BY <2>2 DEF TypeOK
  <2>4. \A x : x \in HasOpen(f)' => x = t /\ Writes(t)
    BY <1>2, <1>7, <2>1 DEF Sole
  <2>5. Whole(Copy(r)).is = "whole"
    BY DEF Whole
  <2> QED BY <1>2, <1>3, <1>5, <1>6, <2>3, <2>4, <2>5 DEF Sole
<1>9. CASE f # Target(r)
  <2>1. disk'[f] = disk[f]
    BY <1>6, <1>9 DEF WritesAs, TypeOK
  <2>2. \A x : x \in HasOpen(f)' => x \in HasOpen(f) /\ task'[x] = task[x]
    BY <1>4, <1>7, <1>9 DEF HasOpen
  <2> QED BY <1>2, <2>1, <2>2 DEF Sole
<1> QED BY <1>8, <1>9

\* What is renamed over a file is whole.
LEMMA RenamesUnclashed ==
  ASSUME TypeOK, Shapes, Unclashed, NEW t \in Task, Renames(t)
  PROVE  Unclashed'
<1> DEFINE r == task[t]
           g == Target(r)
<1>1. r \in Call /\ Shaped(r) /\ r.at = "rename" /\ g \in File
  BY CallTyped DEF Renames, Shapes, Shaped
<1>2. CASE Fails(t) /\ UNCHANGED disk
  BY <1>2, SetQuiet DEF Fails, Idle, Renames
<1>3. CASE /\ disk' = [disk EXCEPT ![g] = [path |-> disk[g].tmp, tmp |-> Absent]]
           /\ task' = Moved(g, t, AfterFile(r))
  <2> SUFFICES ASSUME NEW f \in File, f \notin clashed PROVE Sole(f)'
    BY DEF Unclashed, Renames
  <2>1. Sole(f)
    BY DEF Unclashed
  <2>2. AfterFile(r).at \in {"open", "dict", "done"}
    BY <1>1 DEF AfterFile, Idle, Call
  <2>3. CASE f = g
    <3>1. t \in HasOpen(f) /\ disk[f].tmp.is = "whole"
      BY <1>1, <2>1, <2>3 DEF Sole, HasOpen
    <3>2. \A x : x \notin HasOpen(f)'
      <4> SUFFICES ASSUME NEW x \in HasOpen(f)' PROVE FALSE
        OBVIOUS
      <4>1. x \in Task /\ task'[x].at \in {"write", "rename"} /\ Target(task'[x]) = f
        BY DEF HasOpen, Target
      <4>2. x # t
        BY <1>3, <2>2, <4>1 DEF Moved
      <4>3. task'[x].at = task[x].at /\ task'[x].todo = task[x].todo
        <5>1. task[x] \in Call
          BY <4>1 DEF TypeOK
        <5> QED BY <1>3, <4>1, <4>2, <5>1 DEF Moved, Call
      <4>4. x \in HasOpen(f)
        BY <4>1, <4>3 DEF HasOpen, Target
      <4> QED BY <2>1, <3>1, <4>2, <4>4 DEF Sole
    <3>3. disk'[f].path = disk[f].tmp
      BY <1>3, <2>3 DEF TypeOK
    <3>4. disk'[f].path \notin {Blank, Torn}
      BY <3>1, <3>3 DEF Blank, Torn
    <3> QED BY <3>2, <3>4 DEF Sole
  <2>4. CASE f # g
    <3>1. disk'[f] = disk[f]
      BY <1>3, <2>4 DEF TypeOK
    <3>2. ASSUME NEW x \in HasOpen(f)' PROVE x \in HasOpen(f) /\ task'[x] = task[x]
      <4>1. x \in Task /\ task'[x].at \in {"write", "rename"} /\ Target(task'[x]) = f
        BY <3>2 DEF HasOpen, Target
      <4>2. x # t
        BY <1>3, <2>2, <4>1 DEF Moved
      <4>3. task'[x].todo = task[x].todo
        <5>1. task[x] \in Call
          BY <4>1 DEF TypeOK
        <5> QED BY <1>3, <4>1, <4>2, <5>1 DEF Moved, Call
      <4>4. task'[x] = task[x]
        BY <1>3, <2>4, <4>1, <4>2, <4>3 DEF Moved, Target
      <4> QED BY <4>1, <4>4 DEF HasOpen, Target
    <3> QED BY <2>1, <3>1, <3>2 DEF Sole
  <2> QED BY <2>3, <2>4
<1> QED BY <1>2, <1>3 DEF Renames

\* Every step keeps the files that are not written by two calls at once whole.
LEMMA NextUnclashed == TypeOK /\ Shapes /\ Unclashed /\ [Next]_vars => Unclashed'
<1> SUFFICES ASSUME TypeOK, Shapes, Unclashed, [Next]_vars PROVE Unclashed'
  OBVIOUS
<1>1. ASSUME NEW t \in Task, Step(t) PROVE Unclashed'
  BY <1>1, ReadersUnclashed, OpensUnclashed, WritesUnclashed, RenamesUnclashed DEF Step
<1>2. CASE UNCHANGED vars
  BY <1>2, QuietKeeps DEF vars
<1> QED BY <1>1, <1>2, BeginsUnclashed DEF Next

\* write_atomic: a file is torn or empty only after two calls had it open at once,
\* whatever crashes and writes that failed.
THEOREM FilesStayWhole == Spec => []WholeFiles
<1>1. Init => TypeOK /\ Shapes /\ Unclashed
  <2>1. Init => Unclashed
    BY DEF Init, Unclashed, Sole, HasOpen, Idle, Absent, Blank, Torn, File
  <2> QED BY <2>1, InitTyped
<1>2. TypeOK /\ Shapes /\ Unclashed /\ [Next]_vars => (TypeOK /\ Shapes /\ Unclashed)'
  BY NextTyped, NextUnclashed
<1>3. Unclashed => WholeFiles
  BY DEF Unclashed, Sole, WholeFiles
<1> QED BY <1>1, <1>2, <1>3, PTL DEF Spec
-----------------------------------------------------------------------------
(* What gets into the dictionary. *)

\* Deserved, with the history it is judged by.
Earned(r, a, n, m) == r \in a.repl \/ (m = "auto" /\ n[r] >= 2)
Merited(d, a, n, m) ==
  /\ \A r \in d.repl : Earned(r, a, n, m)
  /\ \A w \in d.words : w \in a.words \/ \E h \in Heard : Earned(<<h, w>>, a, n, m)

\* A list counts no pair more often than it was sighted.
Backed(s, n) == \A p \in Pair : s.count[p] <= n[p]

\* An accept is about a pair that the user clicked.
AskedFor(r, a) == r.op = "accept" => /\ Head(r.pairs) \in a.repl
                                     /\ Head(r.pairs)[2] \in a.words

Honest(r, a, n, m) == Merited(r.dict, a, n, m) /\ Backed(r.learned, n) /\ AskedFor(r, a)

\* Wherever a dictionary or a list is kept, it is merited or backed.
OnDisk(dk, a, n, m) ==
  \A at \in {"path", "tmp"} :
    /\ dk["dictionary"][at].is = "whole" => Merited(dk["dictionary"][at].was, a, n, m)
    /\ dk["learned"][at].is = "whole" => Backed(dk["learned"][at].was, n)
InHand(tk, a, n, m) == \A t \in Task : Honest(tk[t], a, n, m)

Provenance == /\ Merited(store, asked, seen, mode) /\ Merited(page, asked, seen, mode)
              /\ OnDisk(disk, asked, seen, mode) /\ InHand(task, asked, seen, mode)

\* History only grows.
Grows == /\ asked.words \subseteq asked'.words /\ asked.repl \subseteq asked'.repl
         /\ \A p \in Pair : seen'[p] >= seen[p]
         /\ mode' = mode

\* What was deserved stays deserved.
LEMMA GrowthKeeps ==
  ASSUME TypeOK, TypeOK', Grows
  PROVE  /\ \A d \in Dictionary : Merited(d, asked, seen, mode) => Merited(d, asked', seen', mode')
         /\ \A s \in Suggestions : Backed(s, seen) => Backed(s, seen')
<1>1. seen \in [Pair -> Nat] /\ seen' \in [Pair -> Nat]
  BY DEF TypeOK
<1>2. ASSUME NEW r \in Pair, Earned(r, asked, seen, mode) PROVE Earned(r, asked', seen', mode')
  BY <1>1, <1>2 DEF Earned, Grows
<1>3. ASSUME NEW d \in Dictionary, Merited(d, asked, seen, mode)
      PROVE  Merited(d, asked', seen', mode')
  <2>1. d.repl \subseteq Pair /\ d.words \subseteq Written
    BY DEF Dictionary
  <2>2. \A h \in Heard, w \in Written : <<h, w>> \in Pair
    BY DEF Pair
  <2> QED BY <1>2, <1>3, <2>1, <2>2 DEF Merited, Grows
<1>4. ASSUME NEW s \in Suggestions, Backed(s, seen) PROVE Backed(s, seen')
  <2>1. s.count \in [Pair -> Nat]
    BY DEF Suggestions
  <2> QED BY <1>1, <1>4, <2>1 DEF Backed, Grows
<1> QED BY <1>3, <1>4

\* Nothing is merited by default.
LEMMA NothingMerited ==
  ASSUME TypeOK
  PROVE  /\ Merited(NoDictionary, asked, seen, mode) /\ Backed(NoSuggestions, seen)
         /\ Honest(Idle, asked, seen, mode)
<1>1. Merited(NoDictionary, asked, seen, mode)
  BY DEF Merited, NoDictionary
<1>2. Backed(NoSuggestions, seen)
  BY DEF Backed, NoSuggestions, TypeOK
<1> QED BY <1>1, <1>2 DEF Honest, Idle, AskedFor

\* What a call reads is merited.
LEMMA ReadMerited ==
  ASSUME TypeOK, Provenance
  PROVE  Merited(Read("dictionary"), asked, seen, mode) /\ Backed(Read("learned"), seen)
BY NothingMerited DEF Read, Default, Provenance, OnDisk

\* What is done to a list leaves it backed.
LEMMA ListBacked ==
  ASSUME NEW n \in [Pair -> Nat], NEW s \in Suggestions, Backed(s, n)
  PROVE  /\ Backed(Tidy(s), n)
         /\ \A p \in Pair : Backed(Forget(s, p), n) /\ Backed(Dismiss(s, p), n)
         /\ \A d \in Dictionary : Backed(Pruned(s, d), n)
<1>1. s.count \in [Pair -> Nat]
  BY DEF Suggestions
<1>2. Backed(Tidy(s), n)
  <2>1. Tidy(s).count = [q \in Pair |-> IF q \in s.dismissed THEN 0 ELSE s.count[q]]
    BY TidyTyped
  <2> QED BY <1>1, <2>1 DEF Backed
<1>3. ASSUME NEW p \in Pair PROVE Backed(Forget(s, p), n) /\ Backed(Dismiss(s, p), n)
  <2>1. /\ Forget(s, p).count = [s.count EXCEPT ![p] = 0]
        /\ Dismiss(s, p).count = [s.count EXCEPT ![p] = 0]
    BY ListTyped
  <2> QED BY <1>1, <2>1 DEF Backed
<1>4. ASSUME NEW d \in Dictionary PROVE Backed(Pruned(s, d), n)
  <2>1. Pruned(s, d).count = [q \in Pair |-> IF Covered(d, q) THEN 0 ELSE s.count[q]]
    BY PrunedTyped
  <2> QED BY <1>1, <2>1 DEF Backed
<1> QED BY <1>2, <1>3, <1>4

\* A pair that is earned may be added.
LEMMA AddMerited ==
  ASSUME NEW d \in Dictionary, NEW p \in Pair, NEW a, NEW n, NEW m,
         Merited(d, a, n, m), Earned(p, a, n, m)
  PROVE  Merited(AddToDictionary(d, p), a, n, m)
<1>1. PICK h \in Heard, w \in Written : p = <<h, w>>
  BY DEF Pair
<1>2. AddToDictionary(d, p).words = d.words \cup {w} /\ AddToDictionary(d, p).repl \subseteq d.repl \cup {p}
  BY <1>1, AddTyped
<1> QED BY <1>1, <1>2 DEF Merited

\* A call that moves on by itself.
LEMMA MovesOn ==
  ASSUME TypeOK, TypeOK', Provenance, NEW t \in Task, NEW r, Set(t, r),
         Honest(r, asked, seen, mode), UNCHANGED <<asked, seen, mode>>
  PROVE  InHand(task', asked', seen', mode')
<1>1. \A x \in Task : task'[x] = IF x = t THEN r ELSE task[x]
  BY DEF Set, TypeOK
<1> QED BY <1>1 DEF InHand, Provenance

\* Calls that read.
LEMMA ReadersHonest ==
  ASSUME TypeOK, TypeOK', Shapes, Provenance, NEW t \in Task,
         ReadsList(t) \/ ReadsDictionary(t) \/ Counted(t) \/ Installs(t) \/ Returns(t)
  PROVE  Provenance'
<1> DEFINE r == task[t]
           s == Tidy(Read("learned"))
           d == Read("dictionary")
           p == Head(r.pairs)
           OK(x) == Honest(x, asked, seen, mode)
<1>0. UNCHANGED <<asked, seen, mode, disk>>
  BY DEF ReadsList, ReadsDictionary, Counted, Installs, Returns
<1>1. /\ r \in Call /\ Shaped(r) /\ OK(r) /\ seen \in [Pair -> Nat]
      /\ s \in Suggestions /\ Backed(s, seen) /\ d \in Dictionary /\ Merited(d, asked, seen, mode)
      /\ r.learned \in Suggestions /\ r.dict \in Dictionary /\ (r.pairs # <<>> => p \in Pair)
  BY CallTyped, ReadTyped, TidyTyped, ReadMerited, ListBacked DEF Provenance, InHand, Shapes, TypeOK
<1>2. OK(Idle)
  BY NothingMerited
<1>3. ASSUME NEW x, Set(t, x), OK(x) PROVE InHand(task', asked', seen', mode')
  BY <1>0, <1>3, MovesOn
<1>4. CASE ReadsList(t)
  <2>1. r.op = "learn" => OK([r EXCEPT !.learned = s, !.at = "dict"])
    BY <1>1 DEF Honest, Call, AskedFor
  <2>2. r.op = "accept" => OK([r EXCEPT !.learned = Forget(s, p), !.at = "dict"])
    <3>1. r.op = "accept" => p \in Pair
      BY <1>1 DEF Shaped
    <3> QED BY <1>1, <3>1, ListBacked DEF Honest, Call, AskedFor
  <2>3. r.op = "dismiss" => OK([r EXCEPT !.learned = Dismiss(s, p), !.at = "open", !.todo = <<"learned">>])
    <3>1. r.op = "dismiss" => p \in Pair
      BY <1>1 DEF Shaped
    <3> QED BY <1>1, <3>1, ListBacked DEF Honest, Call, AskedFor
  <2>4. InHand(task', asked', seen', mode') /\ UNCHANGED <<store, page>>
    BY <1>2, <1>3, <1>4, <2>1, <2>2, <2>3 DEF ReadsList
  <2> QED BY <1>0, <2>4 DEF Provenance
<1>5. CASE ReadsDictionary(t)
  <2>1. r.op = "learn" =>
          OK([r EXCEPT !.learned = Pruned(@, d), !.dict = d, !.at = "note",
                       !.todo = IF Pruned(r.learned, d) = r.learned THEN <<>> ELSE <<"learned">>])
    BY <1>1, ListBacked DEF Honest, Call, AskedFor
  <2>2. r.op = "accept" => OK([r EXCEPT !.dict = AddToDictionary(d, p), !.at = "open", !.todo = AcceptOrder])
    <3>1. r.op = "accept" => p \in Pair /\ Earned(p, asked, seen, mode)
      BY <1>1 DEF Shaped, Honest, AskedFor, Earned
    <3>2. r.op = "accept" => Merited(AddToDictionary(d, p), asked, seen, mode)
      BY <1>1, <3>1, AddMerited
    <3> QED BY <1>1, <3>2 DEF Honest, Call, AskedFor
  <2>3. r.op = "reload" => OK([r EXCEPT !.dict = d, !.at = "install"])
    BY <1>1 DEF Honest, Call, AskedFor
  <2>4. InHand(task', asked', seen', mode') /\ UNCHANGED <<store, page>>
    BY <1>2, <1>3, <1>5, <2>1, <2>2, <2>3 DEF ReadsDictionary, Fails
  <2> QED BY <1>0, <2>4 DEF Provenance
<1>6. CASE Counted(t)
  <2>1. OK([r EXCEPT !.at = "open"])
    BY <1>1 DEF Honest, Call, AskedFor
  <2>2. InHand(task', asked', seen', mode') /\ UNCHANGED <<store, page>>
    BY <1>2, <1>3, <1>6, <2>1 DEF Counted
  <2> QED BY <1>0, <2>2 DEF Provenance
<1>7. CASE Installs(t)
  <2>1. InHand(task', asked', seen', mode') /\ store' = r.dict /\ page' = page
    BY <1>2, <1>3, <1>7 DEF Installs
  <2> QED BY <1>0, <1>1, <2>1 DEF Provenance, Honest
<1>8. CASE Returns(t)
  <2>1. InHand(task', asked', seen', mode') /\ store' = store /\ page' \in {page, d}
    BY <1>2, <1>3, <1>8 DEF Returns, PageLoaded
  <2> QED BY <1>0, <1>1, <2>1 DEF Provenance
<1> QED BY <1>4, <1>5, <1>6, <1>7, <1>8

\* What a file holds whole, under either name, is content of its kind.
LEMMA HeldTyped ==
  ASSUME TypeOK, NEW at \in {"path", "tmp"}
  PROVE  /\ disk["dictionary"][at].is = "whole" => disk["dictionary"][at].was \in Dictionary
         /\ disk["learned"][at].is = "whole" => disk["learned"][at].was \in Suggestions
<1>1. ASSUME NEW f \in File, disk[f][at].is = "whole" PROVE disk[f][at].was \in Content(f)
  BY <1>1 DEF TypeOK, Version, Absent, Blank, Torn
<1> QED BY <1>1 DEF File, Content

\* A sighting: what is promoted was counted twice, so it was seen twice.
LEMMA CountsHonest ==
  ASSUME TypeOK, TypeOK', Shapes, Provenance, NEW t \in Task, Counts(t)
  PROVE  Provenance'
<1> DEFINE r == task[t]
           p == Head(r.pairs)
           s == Record(r.learned, p)
           rest == [r EXCEPT !.pairs = Tail(@)]
<1>1. /\ r \in Call /\ r.at = "note" /\ r.op = "learn" /\ Honest(r, asked, seen, mode)
      /\ r.learned \in Suggestions /\ r.dict \in Dictionary /\ p \in Pair
      /\ r.learned.count \in [Pair -> Nat]
  BY CallTyped DEF Provenance, InHand, Shapes, Shaped, Counts, Suggestions
<1>2. seen \in [Pair -> Nat] /\ seen' \in [Pair -> Nat]
  BY DEF TypeOK
<1>3. UNCHANGED <<disk, store, page, asked, mode>>
  BY DEF Counts
<1>4. seen' = seen \/ seen' = [seen EXCEPT ![p] = @ + 1]
  BY DEF Counts
<1>5. Grows
  BY <1>1, <1>2, <1>3, <1>4 DEF Grows
<1>6. /\ \A d \in Dictionary : Merited(d, asked, seen, mode) => Merited(d, asked', seen', mode')
      /\ \A l \in Suggestions : Backed(l, seen) => Backed(l, seen')
  BY <1>5, GrowthKeeps
<1>7. \E n : Set(t, n) /\ Honest(n, asked', seen', mode')
  <2>1. CASE Set(t, rest)
    <3>1. Honest(rest, asked', seen', mode')
      BY <1>1, <1>6 DEF Honest, AskedFor, Call
    <3> QED BY <2>1, <3>1
  <2>2. CASE seen' = [seen EXCEPT ![p] = @ + 1]
    <3>1. s \in Suggestions /\ s.count = [r.learned.count EXCEPT ![p] = @ + 1]
      BY <1>1, ListTyped
    <3>2. Backed(s, seen')
      BY <1>1, <1>2, <2>2, <3>1 DEF Honest, Backed
    <3>3. CASE /\ Promotes(s, p)
               /\ Set(t, [rest EXCEPT !.learned = Forget(s, p), !.dict = AddToDictionary(@, p),
                                      !.todo = PromotionOrder])
      <4>1. Earned(p, asked', seen', mode')
        BY <1>1, <1>2, <1>3, <3>1, <3>2, <3>3 DEF Promotes, Earned, Backed
      <4>2. Merited(AddToDictionary(r.dict, p), asked', seen', mode')
        BY <1>1, <1>6, <4>1, AddMerited DEF Honest
      <4>3. Backed(Forget(s, p), seen')
        BY <1>1, <1>2, <3>1, <3>2, ListBacked
      <4> DEFINE n == [rest EXCEPT !.learned = Forget(s, p), !.dict = AddToDictionary(@, p),
                                   !.todo = PromotionOrder]
      <4>4. n.learned = Forget(s, p) /\ n.dict = AddToDictionary(r.dict, p) /\ n.op = "learn"
        BY <1>1 DEF Call
      <4>5. Honest(n, asked', seen', mode')
        BY <4>2, <4>3, <4>4 DEF Honest, AskedFor
      <4> QED BY <3>3, <4>5
    <3>4. CASE Set(t, [rest EXCEPT !.learned = s, !.todo = IF @ = <<>> THEN <<"learned">> ELSE @])
      <4> DEFINE n == [rest EXCEPT !.learned = s, !.todo = IF @ = <<>> THEN <<"learned">> ELSE @]
      <4>1. n.learned = s /\ n.dict = r.dict /\ n.op = "learn"
        BY <1>1 DEF Call
      <4>2. Honest(n, asked', seen', mode')
        BY <1>1, <1>6, <3>2, <4>1 DEF Honest, AskedFor
      <4> QED BY <3>4, <4>2
    <3> QED BY <2>1, <3>3, <3>4 DEF Counts
  <2> QED BY <2>1, <2>2 DEF Counts
<1>8. PICK n : Set(t, n) /\ Honest(n, asked', seen', mode')
  BY <1>7
<1>9. InHand(task', asked', seen', mode')
  <2> SUFFICES ASSUME NEW x \in Task PROVE Honest(task'[x], asked', seen', mode')
    BY DEF InHand
  <2>1. task'[x] = IF x = t THEN n ELSE task[x]
    BY <1>8 DEF Set, TypeOK
  <2>2. Honest(task[x], asked', seen', mode')
    BY <1>3, <1>6, CallTyped DEF Provenance, InHand, Honest, AskedFor
  <2> QED BY <1>8, <2>1, <2>2
<1>10. OnDisk(disk', asked', seen', mode')
  <2> SUFFICES ASSUME NEW at \in {"path", "tmp"}
               PROVE  /\ disk["dictionary"][at].is = "whole" =>
                           Merited(disk["dictionary"][at].was, asked', seen', mode')
                      /\ disk["learned"][at].is = "whole" => Backed(disk["learned"][at].was, seen')
    BY <1>3 DEF OnDisk
  <2> QED BY <1>6, HeldTyped DEF Provenance, OnDisk
<1> QED BY <1>3, <1>6, <1>9, <1>10 DEF Provenance, TypeOK

\* One file gets new bytes, under one of its names.
LEMMA DiskHonest ==
  ASSUME TypeOK, Provenance, NEW f \in File, NEW at \in {"path", "tmp"}, NEW u,
         disk' = [disk EXCEPT ![f][at] = u],
         u.is = "whole" => /\ f = "dictionary" => Merited(u.was, asked, seen, mode)
                           /\ f = "learned" => Backed(u.was, seen)
  PROVE  OnDisk(disk', asked, seen, mode)
<1> SUFFICES ASSUME NEW x \in {"path", "tmp"}
             PROVE  /\ disk'["dictionary"][x].is = "whole" =>
                         Merited(disk'["dictionary"][x].was, asked, seen, mode)
                    /\ disk'["learned"][x].is = "whole" => Backed(disk'["learned"][x].was, seen)
  BY DEF OnDisk
<1>1. \A g \in File : disk'[g][x] = IF g = f /\ x = at THEN u ELSE disk[g][x]
  BY DEF TypeOK
<1>2. "dictionary" \in File /\ "learned" \in File /\ "learned" # "dictionary"
  BY DEF File
<1>3. /\ disk["dictionary"][x].is = "whole" => Merited(disk["dictionary"][x].was, asked, seen, mode)
      /\ disk["learned"][x].is = "whole" => Backed(disk["learned"][x].was, seen)
  BY DEF Provenance, OnDisk
<1> QED BY <1>1, <1>2, <1>3

\* What a call saves is what it holds.
LEMMA CopyHonest ==
  ASSUME TypeOK, Provenance, NEW t \in Task, Target(task[t]) \in File
  PROVE  /\ Target(task[t]) = "dictionary" => Merited(Copy(task[t]), asked, seen, mode)
         /\ Target(task[t]) = "learned" => Backed(Copy(task[t]), seen)
<1>1. Honest(task[t], asked, seen, mode) /\ task[t].learned \in Suggestions /\ seen \in [Pair -> Nat]
  BY CallTyped DEF Provenance, InHand, TypeOK
<1>2. Backed(Tidy(task[t].learned), seen)
  BY <1>1, ListBacked DEF Honest
<1> QED BY <1>1, <1>2 DEF Copy, Honest

\* Calls that write.
LEMMA WritersHonest ==
  ASSUME TypeOK, TypeOK', Shapes, Provenance, NEW t \in Task, Opens(t) \/ Writes(t) \/ WriteFails(t)
  PROVE  Provenance'
<1> DEFINE r == task[t]
           f == Target(r)
<1>1. /\ r \in Call /\ f \in File /\ Honest(r, asked, seen, mode)
      /\ r.at = "write" => r.fd \in {"tmp", "path", "gone"}
  BY CallTyped DEF Provenance, InHand, Opens, Writes, WriteFails, Shapes, Shaped, Call
<1>2. UNCHANGED <<asked, seen, mode, store, page>>
  BY DEF Opens, Writes, WriteFails
<1>3. InHand(task', asked', seen', mode')
  <2>1. Honest([r EXCEPT !.at = "write", !.fd = "tmp"], asked, seen, mode)
    BY <1>1 DEF Honest, AskedFor, Call
  <2>2. Honest([r EXCEPT !.at = "rename", !.fd = "none"], asked, seen, mode)
    BY <1>1 DEF Honest, AskedFor, Call
  <2> QED BY <1>2, <2>1, <2>2, MovesOn, NothingMerited DEF Opens, Writes, WriteFails, Fails
<1>4. OnDisk(disk', asked, seen, mode)
  <2>1. CASE Opens(t)
    <3>1. disk' = [disk EXCEPT ![f]["tmp"] = Blank] /\ Blank.is # "whole"
      BY <2>1 DEF Opens, Blank
    <3> QED BY <1>1, <3>1, DiskHonest
  <2>2. ASSUME NEW result, WritesAs(t, result), r.at = "write", result \in {Whole(Copy(r)), Torn}
        PROVE  OnDisk(disk', asked, seen, mode)
    <3>1. CASE r.fd = "gone"
      BY <2>2, <3>1 DEF WritesAs, Provenance
    <3>2. CASE r.fd # "gone"
      <4>1. PICK u \in {result, Torn} : disk' = [disk EXCEPT ![f][r.fd] = u]
        BY <2>2, <3>2 DEF WritesAs
      <4>2. u.is = "whole" => u = Whole(Copy(r))
        BY <2>2 DEF Torn
      <4>3. Whole(Copy(r)).was = Copy(r)
        BY DEF Whole
      <4> QED BY <1>1, <2>2, <3>2, <4>1, <4>2, <4>3, DiskHonest, CopyHonest
    <3> QED BY <3>1, <3>2
  <2> QED BY <2>1, <2>2 DEF Writes, WriteFails
<1> QED BY <1>2, <1>3, <1>4 DEF Provenance

\* A renamed file holds under its name what it held under the temporary one.
LEMMA RenamesHonest ==
  ASSUME TypeOK, TypeOK', Shapes, Provenance, NEW t \in Task, Renames(t)
  PROVE  Provenance'
<1> DEFINE r == task[t]
           f == Target(r)
<1>1. r \in Call /\ f \in File /\ Honest(r, asked, seen, mode)
  BY CallTyped DEF Provenance, InHand, Renames, Shapes, Shaped
<1>2. UNCHANGED <<asked, seen, mode, store, page>>
  BY DEF Renames
<1>3. CASE Fails(t) /\ disk' = disk
  <2>1. InHand(task', asked', seen', mode')
    BY <1>2, <1>3, MovesOn, NothingMerited DEF Fails
  <2> QED BY <1>2, <1>3, <2>1 DEF Provenance
<1>4. CASE /\ disk' = [disk EXCEPT ![f] = [path |-> disk[f].tmp, tmp |-> Absent]]
           /\ task' = Moved(f, t, AfterFile(r))
  <2>1. Honest(AfterFile(r), asked, seen, mode)
    <3>1. Honest([Idle EXCEPT !.op = "reload", !.at = "dict"], asked, seen, mode)
      BY NothingMerited DEF Honest, AskedFor, Idle
    <3>2. Honest([r EXCEPT !.todo = Tail(@), !.at = "open"], asked, seen, mode)
      BY <1>1 DEF Honest, AskedFor, Call
    <3>3. Honest([r EXCEPT !.todo = <<>>, !.at = "done"], asked, seen, mode)
      BY <1>1 DEF Honest, AskedFor, Call
    <3> QED BY <3>1, <3>2, <3>3 DEF AfterFile
  <2>2. ASSUME NEW x \in Task PROVE Honest(task'[x], asked, seen, mode)
    <3>1. CASE x = t
      BY <1>4, <2>1, <3>1 DEF Moved
    <3>2. CASE x # t
      <4>1. task[x] \in Call /\ Honest(task[x], asked, seen, mode)
        BY DEF TypeOK, Provenance, InHand
      <4>2. /\ task'[x].op = task[x].op /\ task'[x].pairs = task[x].pairs
            /\ task'[x].learned = task[x].learned /\ task'[x].dict = task[x].dict
        BY <1>4, <3>2, <4>1 DEF Moved, Call
      <4> QED BY <4>1, <4>2 DEF Honest, AskedFor
    <3> QED BY <3>1, <3>2
  <2>3. OnDisk(disk', asked, seen, mode)
    <3> SUFFICES ASSUME NEW x \in {"path", "tmp"}
                 PROVE  /\ disk'["dictionary"][x].is = "whole" =>
                             Merited(disk'["dictionary"][x].was, asked, seen, mode)
                        /\ disk'["learned"][x].is = "whole" => Backed(disk'["learned"][x].was, seen)
      BY DEF OnDisk
    <3>1. \A g \in File : \/ disk'[g][x] = disk[g][x] \/ disk'[g][x] = disk[g].tmp
                          \/ disk'[g][x] = Absent
      BY <1>1, <1>4 DEF TypeOK
    <3>2. "dictionary" \in File /\ "learned" \in File /\ Absent.is # "whole"
      BY DEF File, Absent
    <3>3. \A y \in {"path", "tmp"} :
            /\ disk["dictionary"][y].is = "whole" => Merited(disk["dictionary"][y].was, asked, seen, mode)
            /\ disk["learned"][y].is = "whole" => Backed(disk["learned"][y].was, seen)
      BY DEF Provenance, OnDisk
    <3> QED BY <3>1, <3>2, <3>3
  <2> QED BY <1>2, <2>2, <2>3 DEF Provenance, InHand
<1> QED BY <1>3, <1>4 DEF Renames

\* History grows, and so does what is deserved.
LEMMA BeginsHonest ==
  ASSUME TypeOK, TypeOK', Shapes, Provenance, NEW t \in Task, NEW r, Set(t, r), Grows,
         Honest(r, asked', seen', mode'), UNCHANGED <<disk, store>>,
         Merited(page', asked', seen', mode')
  PROVE  Provenance'
<1>1. /\ \A d \in Dictionary : Merited(d, asked, seen, mode) => Merited(d, asked', seen', mode')
      /\ \A l \in Suggestions : Backed(l, seen) => Backed(l, seen')
  BY GrowthKeeps
<1>2. InHand(task', asked', seen', mode')
  <2> SUFFICES ASSUME NEW x \in Task PROVE Honest(task'[x], asked', seen', mode')
    BY DEF InHand
  <2>1. task'[x] = IF x = t THEN r ELSE task[x]
    BY DEF Set, TypeOK
  <2>2. Honest(task[x], asked', seen', mode')
    BY <1>1, CallTyped DEF Provenance, InHand, Honest, AskedFor, Grows
  <2> QED BY <2>1, <2>2
<1>3. OnDisk(disk', asked', seen', mode')
  <2> SUFFICES ASSUME NEW at \in {"path", "tmp"}
               PROVE  /\ disk["dictionary"][at].is = "whole" =>
                           Merited(disk["dictionary"][at].was, asked', seen', mode')
                      /\ disk["learned"][at].is = "whole" => Backed(disk["learned"][at].was, seen')
    BY DEF OnDisk
  <2> QED BY <1>1, HeldTyped DEF Provenance, OnDisk
<1>4. Merited(store', asked', seen', mode')
  BY <1>1 DEF Provenance, TypeOK
<1> QED BY <1>2, <1>3, <1>4 DEF Provenance

\* Calls begin with what the user asked for.
LEMMA NewCallsHonest ==
  ASSUME TypeOK, TypeOK', Shapes, Provenance,
         \/ \E t \in Daemon : LearnBegins(t) \/ ReloadBegins(t)
         \/ \E p \in Pair : SuggestionClicked(p)
         \/ PageEdited
  PROVE  Provenance'
<1>0. Daemon \subseteq Task /\ UI \in Task /\ \A p \in Pair : seen[p] \in Nat
  BY DEF Task, TypeOK
<1>1. ASSUME NEW t \in Daemon, LearnBegins(t) \/ ReloadBegins(t) PROVE Provenance'
  <2>1. \E op \in {"learn", "reload"} : \E at, pairs : Begins(t, op, at, pairs)
    BY <1>1 DEF LearnBegins, ReloadBegins
  <2>2. UNCHANGED <<disk, store, page, asked, seen, mode>>
    BY <1>1 DEF LearnBegins, ReloadBegins
  <2>3. Grows
    BY <1>0, <2>2 DEF Grows
  <2>4. ASSUME NEW op \in {"learn", "reload"}, NEW at, NEW pairs, Begins(t, op, at, pairs)
        PROVE  Provenance'
    <3> DEFINE n == [Idle EXCEPT !.op = op, !.at = at, !.pairs = pairs]
    <3>1. Honest(n, asked, seen, mode)
      BY NothingMerited DEF Honest, AskedFor, Idle
    <3>2. Set(t, n)
      BY <2>4 DEF Begins
    <3> HIDE DEF n
    <3> QED BY <1>0, <2>2, <2>3, <3>1, <3>2, BeginsHonest DEF Provenance
  <2> QED BY <2>1, <2>4
<1>2. ASSUME NEW p \in Pair, SuggestionClicked(p) PROVE Provenance'
  <2>1. UNCHANGED <<disk, store, page, seen, mode>>
    BY <1>2 DEF SuggestionClicked
  <2>2. /\ asked.words \subseteq asked'.words /\ asked.repl \subseteq asked'.repl
        /\ Begins(UI, "accept", "list", <<p>>) => p \in asked'.repl /\ p[2] \in asked'.words
    <3>1. CASE asked' = [words |-> asked.words \cup {p[2]}, repl |-> asked.repl \cup {p}]
      BY <3>1
    <3>2. CASE Begins(UI, "dismiss", "list", <<p>>) /\ asked' = asked
      <4>1. [Idle EXCEPT !.op = "accept", !.at = "list", !.pairs = <<p>>].op
              # [Idle EXCEPT !.op = "dismiss", !.at = "list", !.pairs = <<p>>].op
        BY DEF Idle
      <4>2. ~ Begins(UI, "accept", "list", <<p>>)
        BY <1>0, <3>2, <4>1 DEF Begins, Set, TypeOK
      <4> QED BY <3>2, <4>2
    <3> QED BY <1>2, <3>1, <3>2 DEF SuggestionClicked
  <2>3. Grows
    BY <1>0, <2>1, <2>2 DEF Grows
  <2>4. PICK op \in {"accept", "dismiss"} : Begins(UI, op, "list", <<p>>)
    BY <1>2 DEF SuggestionClicked
  <2> DEFINE n == [Idle EXCEPT !.op = op, !.at = "list", !.pairs = <<p>>]
  <2>5. n.op = op /\ n.pairs = <<p>> /\ n.dict = NoDictionary /\ n.learned = NoSuggestions
    BY DEF Idle
  <2>6. Merited(NoDictionary, asked', seen', mode') /\ Backed(NoSuggestions, seen')
    BY <2>3, NothingMerited, GrowthKeeps, Defaults
  <2>7. Honest(n, asked', seen', mode')
    BY <2>2, <2>4, <2>5, <2>6 DEF Honest, AskedFor
  <2>8. Merited(page', asked', seen', mode')
    BY <2>1, <2>3, GrowthKeeps DEF Provenance, TypeOK
  <2> QED BY <1>0, <2>1, <2>3, <2>4, <2>7, <2>8, BeginsHonest DEF Begins
<1>3. CASE PageEdited
  <2>1. PICK d \in PageChanges :
          /\ page' = d
          /\ Set(UI, [Idle EXCEPT !.op = "page", !.at = "open", !.todo = <<"dictionary">>,
                                  !.dict = d])
          /\ asked' = [asked EXCEPT !.words = @ \cup (d.words \ page.words)]
    BY <1>3 DEF PageEdited, PageChanges
  <2>2. UNCHANGED <<disk, store, seen, mode>>
    BY <1>3 DEF PageEdited
  <2>3. asked'.words = asked.words \cup (d.words \ page.words) /\ asked'.repl = asked.repl
    BY <2>1 DEF TypeOK, Dictionary
  <2>4. Grows
    BY <1>0, <2>2, <2>3 DEF Grows
  <2>5. Merited(page, asked', seen', mode')
    BY <2>4, GrowthKeeps DEF Provenance, TypeOK
  <2>6. Merited(d, asked', seen', mode')
    BY <2>3, <2>5, PageChanged DEF Merited
  <2> DEFINE n == [Idle EXCEPT !.op = "page", !.at = "open", !.todo = <<"dictionary">>, !.dict = d]
  <2>7. n.op = "page" /\ n.dict = d /\ n.learned = NoSuggestions
    BY DEF Idle
  <2>8. Backed(NoSuggestions, seen')
    BY <2>4, NothingMerited, GrowthKeeps, Defaults
  <2>9. Honest(n, asked', seen', mode')
    BY <2>6, <2>7, <2>8 DEF Honest, AskedFor
  <2> QED BY <1>0, <2>1, <2>2, <2>4, <2>6, <2>9, BeginsHonest
<1> QED BY <1>1, <1>2, <1>3

\* A program that starts again has what it reads.
LEMMA RestartsHonest ==
  ASSUME TypeOK, TypeOK', Provenance, DaemonRestarts \/ UIRestarts
  PROVE  Provenance'
<1>1. UNCHANGED <<disk, asked, seen, mode>>
  BY DEF DaemonRestarts, UIRestarts
<1>2. Merited(Read("dictionary"), asked, seen, mode) /\ Honest(Idle, asked, seen, mode)
  BY ReadMerited, NothingMerited
<1>3. CASE DaemonRestarts
  <2>1. \A x \in Task : task'[x] = IF x = UI THEN task[x] ELSE Idle
    BY <1>3 DEF DaemonRestarts
  <2>2. InHand(task', asked', seen', mode')
    BY <1>1, <1>2, <2>1 DEF InHand, Provenance
  <2>3. store' = Read("dictionary") /\ page' = page
    BY <1>3 DEF DaemonRestarts
  <2> QED BY <1>1, <1>2, <2>2, <2>3 DEF Provenance
<1>4. CASE UIRestarts
  <2>1. Set(UI, Idle) /\ UI \in Task
    BY <1>4 DEF UIRestarts, Task
  <2>2. InHand(task', asked', seen', mode')
    BY <1>1, <1>2, <2>1, MovesOn
  <2>3. store' = store /\ page' \in {page, Read("dictionary")}
    BY <1>4 DEF UIRestarts, PageLoaded
  <2> QED BY <1>1, <1>2, <2>2, <2>3 DEF Provenance
<1> QED BY <1>3, <1>4

\* Every step keeps where things come from.
LEMMA NextHonest == TypeOK /\ Shapes /\ Provenance /\ [Next]_vars => Provenance'
<1> SUFFICES ASSUME TypeOK, Shapes, Provenance, [Next]_vars PROVE Provenance'
  OBVIOUS
<1>0. TypeOK'
  BY NextTyped
<1>1. ASSUME NEW t \in Task, Step(t) PROVE Provenance'
  BY <1>0, <1>1, ReadersHonest, CountsHonest, WritersHonest, RenamesHonest DEF Step
<1>2. CASE UNCHANGED vars
  BY <1>2 DEF vars, Provenance
<1> QED BY <1>0, <1>1, <1>2, NewCallsHonest, RestartsHonest DEF Next

\* learn, accept_suggestion: whatever calls overlap, and whoever crashes, nothing gets
\* into the dictionary that the user did not put there, except in the auto mode a pair
\* that was seen twice.
THEOREM NothingUndeserved == Spec => []SeenTwice
<1>1. Init => TypeOK /\ Shapes /\ Provenance
  <2> SUFFICES ASSUME Init PROVE Provenance
    BY InitTyped
  <2>1. Merited(NoDictionary, asked, seen, mode) /\ Honest(Idle, asked, seen, mode)
    BY InitTyped, NothingMerited
  <2>2. OnDisk(disk, asked, seen, mode)
    BY DEF Init, OnDisk, File, Absent
  <2> QED BY <2>1, <2>2 DEF Init, Provenance, InHand
<1>2. TypeOK /\ Shapes /\ Provenance /\ [Next]_vars => (TypeOK /\ Shapes /\ Provenance)'
  BY NextTyped, NextHonest
<1>3. TypeOK /\ Provenance => SeenTwice
  <2> SUFFICES ASSUME TypeOK, Provenance PROVE SeenTwice
    OBVIOUS
  <2>1. /\ Merited(Read("dictionary"), asked, seen, mode) /\ Merited(store, asked, seen, mode)
    BY ReadMerited DEF Provenance
  <2>2. \A r : Earned(r, asked, seen, mode) <=> Deserved(r)
    BY DEF Earned, Deserved
  <2> QED BY <2>1, <2>2 DEF SeenTwice, Merited
<1> QED BY <1>1, <1>2, <1>3, PTL DEF Spec
-----------------------------------------------------------------------------
(* What a call that nobody disturbs has done so far. *)

Stored(d, f) == IF d[f].path.is = "whole" THEN d[f].path.was ELSE Default(f)

\* The temporary file is the call's: empty, then its own content.
Underway(r, d) == /\ r.at = "write" => r.fd = "tmp" /\ d[Target(r)].tmp = Blank
                  /\ r.at = "rename" => d[Target(r)].tmp = Whole(Copy(r))

\* An accepted pair is on the list until the dictionary that has it is on the disk.
Accepting(r, d) ==
  LET p == Head(r.pairs)
      listed == Stored(d, "learned").count[p] > 0
      kept == Covered(r.dict, p) /\ Stored(d, "dictionary") = r.dict
  IN  /\ r.at \notin {"note", "install"}
      /\ r.at = "list" => r.todo = <<>>
      /\ r.at = "dict" => r.todo = <<>> /\ listed
      /\ r.at \in {"open", "write", "rename"} =>
           \/ r.todo = AcceptOrder /\ listed /\ Covered(r.dict, p)
           \/ r.todo = <<"learned">> /\ kept
      /\ r.at = "done" => kept

Placed(r, d) ==
  /\ Underway(r, d)
  /\ r.op = "accept" => Accepting(r, d)
  /\ r.op = "dismiss" /\ r.at \in {"open", "write", "rename"} => r.todo = <<"learned">>
  /\ r.op = "page" => /\ r.at \in {"open", "write", "rename"} => r.todo = <<"dictionary">>
                      /\ r.at = "done" => Stored(d, "dictionary") = r.dict
  /\ r.op \in {"accept", "dismiss", "learn"} /\ r.at = "done" =>
       Stored(d, "learned") = Tidy(r.learned)

Undisturbed == \A t \in Task : alone[t] => Placed(task[t], disk)

\* Reading is reading what is stored.
LEMMA ReadsStored == \A f : Read(f) = Stored(disk, f)
BY DEF Read, Stored

\* One call moves on, on a disk that stays as it is.
LEMMA MovesUndisturbed ==
  ASSUME TypeOK, Undisturbed, NEW t \in Task, NEW r, Set(t, r), disk' = disk,
         \A x \in Task \ {t} : alone'[x] => alone[x],
         alone'[t] => Placed(r, disk)
  PROVE  Undisturbed'
<1> SUFFICES ASSUME NEW x \in Task, alone'[x] PROVE Placed(task'[x], disk')
  BY DEF Undisturbed
<1>1. task'[x] = IF x = t THEN r ELSE task[x]
  BY DEF Set, TypeOK
<1> QED BY <1>1 DEF Undisturbed

\* One call writes: whoever else was alone no longer is.
LEMMA TouchUndisturbed ==
  ASSUME TypeOK, NEW t \in Task, Touches(t), alone[t] => Placed(task'[t], disk')
  PROVE  Undisturbed'
BY DEF Touches, Undisturbed

\* A call that is idle, or about to read, owes nothing.
LEMMA IdleUndisturbed == \A d : Placed(Idle, d)
BY DEF Placed, Underway, Idle

\* Reading the list: what is offered for acceptance is on it.
LEMMA ReadsListUndisturbed ==
  ASSUME TypeOK, Shapes, Undisturbed, NEW t \in Task, ReadsList(t)
  PROVE  Undisturbed'
<1> DEFINE r == task[t]
           s == Tidy(Read("learned"))
           p == Head(r.pairs)
           told == [r EXCEPT !.learned = s, !.at = "dict"]
           taken == [r EXCEPT !.learned = Forget(s, p), !.at = "dict"]
           gone == [r EXCEPT !.learned = Dismiss(s, p), !.at = "open", !.todo = <<"learned">>]
<1>1. r \in Call /\ r.at = "list" /\ (r.op = "accept" => p \in Pair)
  BY CallTyped DEF ReadsList, Shapes, Shaped
<1>2. /\ \/ r.op = "learn" /\ Set(t, told)
         \/ r.op = "accept" /\ s.count[p] > 0 /\ Set(t, taken)
         \/ r.op = "dismiss" /\ Set(t, gone)
         \/ Set(t, Idle)
      /\ disk' = disk /\ alone' = alone
  BY DEF ReadsList
<1>3. CASE r.op = "learn" /\ Set(t, told)
  <2>1. told.op = "learn" /\ told.at = "dict"
    BY <1>1, <1>3 DEF Call
  <2>2. Placed(told, disk)
    BY <2>1 DEF Placed, Underway
  <2> QED BY <1>2, <1>3, <2>2, MovesUndisturbed
<1>4. CASE r.op = "accept" /\ s.count[p] > 0 /\ Set(t, taken)
  <2>1. taken.op = "accept" /\ taken.at = "dict" /\ taken.todo = r.todo /\ taken.pairs = r.pairs
    BY <1>1, <1>4 DEF Call
  <2>2. Stored(disk, "learned").count[p] > 0
    <3>1. Read("learned") \in Suggestions /\ Read("learned") = Stored(disk, "learned")
      BY ReadTyped, ReadsStored
    <3>2. s.count = [q \in Pair |-> IF q \in Read("learned").dismissed THEN 0
                                                         ELSE Read("learned").count[q]]
      BY <3>1, TidyTyped
    <3> QED BY <1>1, <1>4, <3>1, <3>2
  <2>3. ASSUME alone[t] PROVE Placed(taken, disk)
    <3>1. r.todo = <<>>
      BY <1>1, <1>4, <2>3 DEF Undisturbed, Placed, Accepting
    <3> QED BY <2>1, <2>2, <3>1 DEF Placed, Underway, Accepting
  <2> QED BY <1>2, <1>4, <2>3, MovesUndisturbed
<1>5. CASE r.op = "dismiss" /\ Set(t, gone)
  <2>1. gone.op = "dismiss" /\ gone.at = "open" /\ gone.todo = <<"learned">>
    BY <1>1, <1>5 DEF Call
  <2>2. Placed(gone, disk)
    BY <2>1 DEF Placed, Underway
  <2> QED BY <1>2, <1>5, <2>2, MovesUndisturbed
<1>6. CASE Set(t, Idle)
  BY <1>2, <1>6, IdleUndisturbed, MovesUndisturbed
<1> QED BY <1>2, <1>3, <1>4, <1>5, <1>6

\* Reading the dictionary: the copy of a call that accepts has the pair.
LEMMA ReadsDictionaryUndisturbed ==
  ASSUME TypeOK, Shapes, Undisturbed, NEW t \in Task, ReadsDictionary(t)
  PROVE  Undisturbed'
<1> DEFINE r == task[t]
           d == Read("dictionary")
           p == Head(r.pairs)
           todo == IF Pruned(r.learned, d) = r.learned THEN <<>> ELSE <<"learned">>
           noting == [r EXCEPT !.learned = Pruned(@, d), !.dict = d, !.at = "note", !.todo = todo]
           taking == [r EXCEPT !.dict = AddToDictionary(d, p), !.at = "open", !.todo = AcceptOrder]
           fresh == [r EXCEPT !.dict = d, !.at = "install"]
<1>1. r \in Call /\ r.at = "dict" /\ (r.op = "accept" => p \in Pair)
  BY CallTyped DEF ReadsDictionary, Shapes, Shaped
<1>2. /\ \/ r.op = "learn" /\ Set(t, noting)
         \/ r.op = "accept" /\ Set(t, taking)
         \/ r.op = "reload" /\ Set(t, fresh)
         \/ Set(t, Idle)
      /\ disk' = disk /\ alone' = alone
  BY DEF ReadsDictionary, Fails
<1>3. CASE r.op = "learn" /\ Set(t, noting)
  <2>1. noting.op = "learn" /\ noting.at = "note"
    BY <1>1, <1>3 DEF Call
  <2>2. Placed(noting, disk)
    BY <2>1 DEF Placed, Underway
  <2> QED BY <1>2, <1>3, <2>2, MovesUndisturbed
<1>4. CASE r.op = "accept" /\ Set(t, taking)
  <2>1. /\ taking.op = "accept" /\ taking.at = "open" /\ taking.todo = AcceptOrder
        /\ taking.pairs = r.pairs /\ taking.dict = AddToDictionary(d, p)
    BY <1>1, <1>4 DEF Call
  <2>2. Covered(AddToDictionary(d, p), p)
    BY <1>1, <1>4, ReadTyped, AddTyped
  <2>3. ASSUME alone[t] PROVE Placed(taking, disk)
    <3>1. Stored(disk, "learned").count[p] > 0
      BY <1>1, <1>4, <2>3 DEF Undisturbed, Placed, Accepting
    <3> QED BY <2>1, <2>2, <3>1 DEF Placed, Underway, Accepting
  <2> QED BY <1>2, <1>4, <2>3, MovesUndisturbed
<1>5. CASE r.op = "reload" /\ Set(t, fresh)
  <2>1. fresh.op = "reload" /\ fresh.at = "install"
    BY <1>1, <1>5 DEF Call
  <2>2. Placed(fresh, disk)
    BY <2>1 DEF Placed, Underway
  <2> QED BY <1>2, <1>5, <2>2, MovesUndisturbed
<1>6. CASE Set(t, Idle)
  BY <1>2, <1>6, IdleUndisturbed, MovesUndisturbed
<1> QED BY <1>2, <1>3, <1>4, <1>5, <1>6

\* Counting, installing and returning.
LEMMA QuietUndisturbed ==
  ASSUME TypeOK, Shapes, Undisturbed, NEW t \in Task,
         Counts(t) \/ Counted(t) \/ Installs(t) \/ Returns(t)
  PROVE  Undisturbed'
<1> DEFINE r == task[t]
<1>1. r \in Call /\ (r.at = "note" => r.op = "learn")
  BY CallTyped DEF Shapes, Shaped
<1>2. disk' = disk /\ alone' = alone
  BY DEF Counts, Counted, Installs, Returns
<1>3. PICK n : /\ Set(t, n)
               /\ \/ n = Idle
                  \/ n.op = "learn" /\ n.at \in {"note", "open"}
  <2>1. CASE Counts(t)
    <3> DEFINE q == Head(r.pairs)
               s == Record(r.learned, q)
               rest == [r EXCEPT !.pairs = Tail(@)]
               promoted == [rest EXCEPT !.learned = Forget(s, q),
                                        !.dict = AddToDictionary(@, q), !.todo = PromotionOrder]
               noted == [rest EXCEPT !.learned = s,
                                     !.todo = IF @ = <<>> THEN <<"learned">> ELSE @]
    <3>1. /\ rest.op = "learn" /\ rest.at = "note"
          /\ promoted.op = "learn" /\ promoted.at = "note"
          /\ noted.op = "learn" /\ noted.at = "note"
      BY <1>1, <2>1 DEF Counts, Call
    <3>2. Set(t, rest) \/ Set(t, promoted) \/ Set(t, noted)
      BY <2>1 DEF Counts
    <3> HIDE DEF rest, promoted, noted
    <3> QED BY <3>1, <3>2
  <2>2. CASE Counted(t)
    <3>1. [r EXCEPT !.at = "open"].op = "learn" /\ [r EXCEPT !.at = "open"].at = "open"
      BY <1>1, <2>2 DEF Counted, Call
    <3>2. Set(t, Idle) \/ Set(t, [r EXCEPT !.at = "open"])
      BY <2>2 DEF Counted
    <3> QED BY <3>1, <3>2
  <2>3. CASE Installs(t) \/ Returns(t)
    BY <2>3 DEF Installs, Returns
  <2> QED BY <2>1, <2>2, <2>3
<1>4. Placed(n, disk)
  <2>1. CASE n = Idle
    BY <2>1, IdleUndisturbed
  <2>2. CASE n.op = "learn" /\ n.at \in {"note", "open"}
    BY <2>2 DEF Placed, Underway
  <2> QED BY <1>3, <2>1, <2>2
<1> QED BY <1>2, <1>3, <1>4, MovesUndisturbed

\* Opening the temporary file changes nothing under a file's own name.
LEMMA OpensUndisturbed ==
  ASSUME TypeOK, Shapes, Undisturbed, NEW t \in Task, Opens(t)
  PROVE  Undisturbed'
<1> DEFINE r == task[t]
           f == Target(r)
           n == [r EXCEPT !.at = "write", !.fd = "tmp"]
<1>1. r \in Call /\ r.at = "open" /\ f \in File
  BY CallTyped DEF Opens, Shapes, Shaped
<1>2. /\ n.op = r.op /\ n.at = "write" /\ n.fd = "tmp" /\ n.todo = r.todo
      /\ n.pairs = r.pairs /\ n.learned = r.learned /\ n.dict = r.dict
  BY <1>1 DEF Call
<1>3. task'[t] = n /\ Target(n) = f
  BY <1>2 DEF Opens, Set, TypeOK, Target
<1>4. disk'[f].tmp = Blank /\ \A g \in File : disk'[g].path = disk[g].path
  BY <1>1 DEF Opens, TypeOK
<1>5. "learned" \in File /\ "dictionary" \in File
  BY DEF File
<1>6. \A g \in File : Stored(disk', g) = Stored(disk, g)
  BY <1>4 DEF Stored
<1> HIDE DEF n
<1>7. ASSUME alone[t] PROVE Placed(n, disk')
  <2>1. Placed(r, disk)
    BY <1>7 DEF Undisturbed
  <2>2. Underway(n, disk')
    BY <1>2, <1>3, <1>4 DEF Underway
  <2>3. n.op = "accept" => Accepting(n, disk')
    BY <1>1, <1>2, <1>5, <1>6, <2>1 DEF Placed, Accepting
  <2> QED BY <1>1, <1>2, <2>1, <2>2, <2>3 DEF Placed
<1> QED BY <1>3, <1>7, TouchUndisturbed DEF Opens

\* Writing it neither: it gets the call's own content, or the call is over.
LEMMA WritesUndisturbed ==
  ASSUME TypeOK, Shapes, Undisturbed, NEW t \in Task, Writes(t) \/ WriteFails(t)
  PROVE  Undisturbed'
<1> DEFINE r == task[t]
           f == Target(r)
           n == [r EXCEPT !.at = "rename", !.fd = "none"]
<1>0. CASE WriteFails(t)
  <2>1. task'[t] = Idle /\ Touches(t)
    BY <1>0 DEF WriteFails, Fails, Set, TypeOK
  <2> QED BY <2>1, IdleUndisturbed, TouchUndisturbed
<1>1. CASE Writes(t)
  <2>1. r \in Call /\ r.at = "write" /\ f \in File
    BY <1>1, CallTyped DEF Writes, Shapes, Shaped
  <2>2. /\ n.op = r.op /\ n.at = "rename" /\ n.todo = r.todo
        /\ n.pairs = r.pairs /\ n.learned = r.learned /\ n.dict = r.dict
    BY <2>1 DEF Call
  <2>3. task'[t] = n /\ Target(n) = f /\ Copy(n) = Copy(r)
    BY <1>1, <2>2 DEF Writes, Set, TypeOK, Target, Copy
  <2> HIDE DEF n
  <2>4. ASSUME alone[t] PROVE Placed(n, disk')
    <3>1. Placed(r, disk) /\ r.fd = "tmp" /\ disk[f].tmp = Blank
      BY <2>1, <2>4 DEF Undisturbed, Placed, Underway
    <3>2. disk' = [disk EXCEPT ![f]["tmp"] = Whole(Copy(r))]
      BY <1>1, <3>1 DEF Writes, WritesAs
    <3>3. disk'[f].tmp = Whole(Copy(r)) /\ \A g \in File : disk'[g].path = disk[g].path
      BY <2>1, <3>2 DEF TypeOK
    <3>4. "learned" \in File /\ "dictionary" \in File
      BY DEF File
    <3>5. \A g \in File : Stored(disk', g) = Stored(disk, g)
      BY <3>3 DEF Stored
    <3>6. Underway(n, disk')
      BY <2>2, <2>3, <3>3 DEF Underway
    <3>7. n.op = "accept" => Accepting(n, disk')
      BY <2>1, <2>2, <3>1, <3>4, <3>5 DEF Placed, Accepting
    <3> QED BY <2>1, <2>2, <3>1, <3>6, <3>7 DEF Placed
  <2> QED BY <1>1, <2>3, <2>4, TouchUndisturbed DEF Writes
<1> QED BY <1>0, <1>1

\* What a call has renamed is on the disk.
LEMMA RenamesUndisturbed ==
  ASSUME TypeOK, Shapes, Undisturbed, NEW t \in Task, Renames(t)
  PROVE  Undisturbed'
<1> DEFINE r == task[t]
           f == Target(r)
           again == [r EXCEPT !.todo = Tail(@), !.at = "open"]
           fresh == [Idle EXCEPT !.op = "reload", !.at = "dict"]
           over  == [r EXCEPT !.todo = <<>>, !.at = "done"]
<1>1. r \in Call /\ Shaped(r) /\ r.at = "rename" /\ f \in File /\ r.todo \in Todo /\ r.todo # <<>>
  BY CallTyped DEF Renames, Shapes, Shaped
<1>2. CASE Fails(t) /\ UNCHANGED <<disk, alone>>
  BY <1>2, IdleUndisturbed, MovesUndisturbed DEF Fails
<1>3. CASE /\ disk' = [disk EXCEPT ![f] = [path |-> disk[f].tmp, tmp |-> Absent]]
           /\ task' = Moved(f, t, AfterFile(r))
           /\ Touches(t)
  <2>1. task'[t] = AfterFile(r)
    BY <1>3 DEF Moved
  <2>2. /\ again.op = r.op /\ again.at = "open" /\ again.todo = Tail(r.todo)
        /\ again.pairs = r.pairs /\ again.learned = r.learned /\ again.dict = r.dict
        /\ over.op = r.op /\ over.at = "done" /\ over.todo = <<>>
        /\ over.pairs = r.pairs /\ over.learned = r.learned /\ over.dict = r.dict
        /\ fresh.op = "reload" /\ fresh.at = "dict"
    BY <1>1 DEF Call, Idle
  <2>3. \/ Len(r.todo) > 1 /\ AfterFile(r) = again
        \/ Len(r.todo) <= 1 /\ r.op = "learn" /\ f = "dictionary" /\ AfterFile(r) = fresh
        \/ /\ Len(r.todo) <= 1 /\ ~(r.op = "learn" /\ f = "dictionary")
           /\ AfterFile(r) = over
    BY <1>1 DEF AfterFile, Todo
  <2> HIDE DEF again, fresh, over
  <2>4. ASSUME alone[t] PROVE Placed(AfterFile(r), disk')
    <3>1. Placed(r, disk) /\ disk[f].tmp = Whole(Copy(r))
      BY <1>1, <2>4 DEF Undisturbed, Placed, Underway
    <3>2. /\ disk'[f].path = Whole(Copy(r))
          /\ \A g \in File \ {f} : disk'[g].path = disk[g].path
      BY <1>1, <1>3, <3>1 DEF TypeOK
    <3>3. Stored(disk', f) = Copy(r) /\ \A g \in File \ {f} : Stored(disk', g) = Stored(disk, g)
      BY <3>2 DEF Stored, Whole
    <3>4. "learned" \in File /\ "dictionary" \in File /\ "learned" # "dictionary"
      BY DEF File
    <3>5. CASE Len(r.todo) > 1 /\ AfterFile(r) = again
      <4>1. r.todo \notin {<<"learned">>, <<"dictionary">>}
        <5>1. Len(<<"learned">>) = 1 /\ Len(<<"dictionary">>) = 1
          OBVIOUS
        <5>2. Len(r.todo) # 1
          BY <1>1, <3>5 DEF Todo
        <5> QED BY <5>1, <5>2
      <4>2. r.op \notin {"page", "dismiss"}
        <5>1. /\ r.op = "page" => r.todo = <<"dictionary">>
              /\ r.op = "dismiss" => r.todo = <<"learned">>
          BY <1>1, <3>1 DEF Placed
        <5> QED BY <4>1, <5>1
      <4>3. ASSUME r.op = "accept" PROVE Accepting(again, disk')
        <5>1. r.todo = AcceptOrder /\ Covered(r.dict, Head(r.pairs))
          BY <1>1, <3>1, <4>1, <4>3 DEF Placed, Accepting
        <5>2. f = "dictionary" /\ Tail(r.todo) = <<"learned">>
          BY <5>1 DEF AcceptOrder, Target
        <5>3. Stored(disk', "dictionary") = r.dict
          BY <3>3, <5>2 DEF Copy
        <5> QED BY <2>2, <5>1, <5>2, <5>3 DEF Accepting
      <4> QED BY <2>2, <3>5, <4>2, <4>3 DEF Placed, Underway
    <3>6. CASE AfterFile(r) = fresh
      BY <2>2, <3>6 DEF Placed, Underway
    <3>7. CASE /\ Len(r.todo) <= 1 /\ ~(r.op = "learn" /\ f = "dictionary")
               /\ AfterFile(r) = over
      <4>1. r.todo = <<f>>
        BY <1>1, <3>7 DEF Todo, Target
      <4>2. ASSUME r.op = "accept" PROVE f = "learned" /\ Accepting(over, disk')
        <5>1. r.todo = <<"learned">> /\ Covered(r.dict, Head(r.pairs))
              /\ Stored(disk, "dictionary") = r.dict
          BY <1>1, <3>1, <4>1, <4>2 DEF Placed, Accepting, AcceptOrder
        <5>2. f = "learned"
          BY <5>1 DEF Target
        <5> QED BY <2>2, <3>3, <3>4, <5>1, <5>2 DEF Accepting
      <4>3. r.op = "page" => f = "dictionary"
        <5>1. r.op = "page" => r.todo = <<"dictionary">>
          BY <1>1, <3>1 DEF Placed
        <5> QED BY <5>1 DEF Target
      <4>4. r.op \in {"dismiss", "learn"} => f = "learned"
        <5>1. r.op = "dismiss" => r.todo = <<"learned">>
          BY <1>1, <3>1 DEF Placed
        <5>2. r.op = "dismiss" => f = "learned"
          BY <5>1 DEF Target
        <5> QED BY <1>1, <3>7, <5>2 DEF File
      <4>5. f = "dictionary" => Stored(disk', "dictionary") = r.dict
        BY <3>3 DEF Copy
      <4>6. f = "learned" => Stored(disk', "learned") = Tidy(r.learned)
        BY <3>3 DEF Copy
      <4> QED BY <2>2, <3>7, <4>2, <4>3, <4>4, <4>5, <4>6 DEF Placed, Underway
    <3> QED BY <2>3, <3>5, <3>6, <3>7
  <2> QED BY <1>3, <2>1, <2>4, TouchUndisturbed
<1> QED BY <1>2, <1>3 DEF Renames

\* A call that begins has nothing to save yet, or the page.
LEMMA BeginsUndisturbed ==
  ASSUME TypeOK, Undisturbed, NEW t \in Task,
         NEW op \in {"learn", "reload", "accept", "dismiss"}, NEW at \in {"list", "dict"},
         NEW pairs, op = "accept" => at = "list", Begins(t, op, at, pairs), disk' = disk
  PROVE  Undisturbed'
<1> DEFINE n == [Idle EXCEPT !.op = op, !.at = at, !.pairs = pairs]
<1>1. n.op = op /\ n.at = at /\ n.todo = <<>>
  BY DEF Idle
<1>2. Set(t, n) /\ alone' = [alone EXCEPT ![t] = TRUE]
  BY DEF Begins
<1> HIDE DEF n
<1>3. Placed(n, disk)
  BY <1>1 DEF Placed, Underway, Accepting
<1>4. \A x \in Task \ {t} : alone'[x] => alone[x]
  BY <1>2 DEF TypeOK
<1> QED BY <1>2, <1>3, <1>4, MovesUndisturbed

\* Nobody is disturbed by a call that begins, or by a restart.
LEMMA OthersUndisturbed ==
  ASSUME TypeOK, Undisturbed,
         \/ \E t \in Daemon : LearnBegins(t) \/ ReloadBegins(t)
         \/ \E p \in Pair : SuggestionClicked(p)
         \/ PageEdited \/ DaemonRestarts \/ UIRestarts
  PROVE  Undisturbed'
<1>0. Daemon \subseteq Task /\ UI \in Task
  BY DEF Task
<1>1. ASSUME NEW t \in Daemon, LearnBegins(t) PROVE Undisturbed'
  <2>1. PICK p, q \in Pair : Begins(t, "learn", "list", IF p = q THEN <<p>> ELSE <<p, q>>)
    BY <1>1 DEF LearnBegins
  <2>2. disk' = disk
    BY <1>1 DEF LearnBegins
  <2> QED BY <1>0, <2>1, <2>2, BeginsUndisturbed
<1>2. ASSUME NEW t \in Daemon, ReloadBegins(t) PROVE Undisturbed'
  <2>1. Begins(t, "reload", "dict", <<>>) /\ disk' = disk
    BY <1>2 DEF ReloadBegins
  <2> QED BY <1>0, <2>1, BeginsUndisturbed
<1>3. ASSUME NEW p \in Pair, SuggestionClicked(p) PROVE Undisturbed'
  <2>1. Begins(UI, "accept", "list", <<p>>) \/ Begins(UI, "dismiss", "list", <<p>>)
    BY <1>3 DEF SuggestionClicked
  <2>2. disk' = disk
    BY <1>3 DEF SuggestionClicked
  <2> QED BY <1>0, <2>1, <2>2, BeginsUndisturbed
<1>4. CASE PageEdited
  <2>1. PICK d \in PageChanges :
          Set(UI, [Idle EXCEPT !.op = "page", !.at = "open", !.todo = <<"dictionary">>,
                               !.dict = d])
    BY <1>4 DEF PageEdited, PageChanges
  <2> DEFINE n == [Idle EXCEPT !.op = "page", !.at = "open", !.todo = <<"dictionary">>, !.dict = d]
  <2>2. n.op = "page" /\ n.at = "open" /\ n.todo = <<"dictionary">>
    BY DEF Idle
  <2>3. Set(UI, n)
    BY <2>1
  <2> HIDE DEF n
  <2>4. Placed(n, disk)
    BY <2>2 DEF Placed, Underway
  <2>5. disk' = disk /\ alone' = [alone EXCEPT ![UI] = TRUE]
    BY <1>4 DEF PageEdited
  <2>6. \A x \in Task \ {UI} : alone'[x] => alone[x]
    BY <2>5 DEF TypeOK
  <2> QED BY <1>0, <2>3, <2>4, <2>5, <2>6, MovesUndisturbed
<1>5. CASE DaemonRestarts
  <2>1. disk' = disk /\ alone' = alone /\ \A x \in Task : task'[x] \in {task[x], Idle}
    BY <1>5 DEF DaemonRestarts
  <2> QED BY <2>1, IdleUndisturbed DEF Undisturbed
<1>6. CASE UIRestarts
  <2>1. disk' = disk /\ alone' = alone /\ Set(UI, Idle)
    BY <1>6 DEF UIRestarts
  <2> QED BY <1>0, <2>1, IdleUndisturbed, MovesUndisturbed
<1> QED BY <1>1, <1>2, <1>3, <1>4, <1>5, <1>6

\* Every step keeps what undisturbed calls have done.
LEMMA NextUndisturbed == TypeOK /\ Shapes /\ Undisturbed /\ [Next]_vars => Undisturbed'
<1> SUFFICES ASSUME TypeOK, Shapes, Undisturbed, [Next]_vars PROVE Undisturbed'
  OBVIOUS
<1>1. ASSUME NEW t \in Task, Step(t) PROVE Undisturbed'
  BY <1>1, ReadsListUndisturbed, ReadsDictionaryUndisturbed, QuietUndisturbed, OpensUndisturbed,
     WritesUndisturbed, RenamesUndisturbed DEF Step
<1>2. CASE UNCHANGED vars
  BY <1>2 DEF vars, Undisturbed
<1> QED BY <1>1, <1>2, OthersUndisturbed DEF Next

\* accept_suggestion saves the dictionary first: as long as nobody else writes, the
\* pair is in one of the files at every moment, so that a crash cannot lose it; and
\* what a call has saved is on the disk when it ends.
THEOREM CallsTakeEffect == Spec => []Effective
<1>1. Init => TypeOK /\ Shapes /\ Undisturbed
  <2>1. Init => Undisturbed
    BY IdleUndisturbed DEF Init, Undisturbed
  <2> QED BY <2>1, InitTyped
<1>2. TypeOK /\ Shapes /\ Undisturbed /\ [Next]_vars => (TypeOK /\ Shapes /\ Undisturbed)'
  BY NextTyped, NextUndisturbed
<1>3. TypeOK /\ Shapes /\ Undisturbed => Effective
  <2> SUFFICES ASSUME TypeOK, Shapes, Undisturbed, NEW t \in Task, alone[t]
               PROVE  LET r == task[t] IN
                      /\ r.op = "accept" /\ r.at \notin {"none", "list"} =>
                           LET p == Head(r.pairs) IN Listed(p) \/ Covered(Read("dictionary"), p)
                      /\ r.at = "done" =>
                           /\ "learned" \in Saves[r.op] => Read("learned") = Tidy(r.learned)
                           /\ "dictionary" \in Saves[r.op] => Read("dictionary") = r.dict
    BY DEF Effective
  <2> DEFINE r == task[t]
  <2>1. /\ Placed(r, disk) /\ r \in Call
        /\ r.at = "done" => r.op \in {"accept", "dismiss", "learn", "page"}
        /\ Read("learned") = Stored(disk, "learned")
        /\ Read("dictionary") = Stored(disk, "dictionary")
    BY CallTyped, ReadsStored DEF Undisturbed, Shapes, Shaped
  <2> HIDE DEF r
  <2>2. r.op = "accept" /\ r.at \notin {"none", "list"} =>
          Listed(Head(r.pairs)) \/ Covered(Read("dictionary"), Head(r.pairs))
    <3>1. r.at \in {"none", "list", "dict", "note", "open", "write", "rename", "install", "done"}
      BY <2>1 DEF Call, Stage
    <3> QED BY <2>1, <3>1 DEF Placed, Accepting, Listed
  <2>3. r.at = "done" => /\ "learned" \in Saves[r.op] => Read("learned") = Tidy(r.learned)
                         /\ "dictionary" \in Saves[r.op] => Read("dictionary") = r.dict
    BY <2>1 DEF Placed, Accepting, Saves
  <2> QED BY <2>2, <2>3 DEF r
<1> QED BY <1>1, <1>2, <1>3, PTL DEF Spec
-----------------------------------------------------------------------------
(* How the daemon comes to know the dictionary on the disk. *)

Saving == {"open", "write", "rename"}

\* Which calls a task makes, and what they are to save.
Role(t, r) ==
  /\ IF t = UI THEN r.op \in {"idle", "accept", "dismiss", "page"}
               ELSE r.op \in {"idle", "learn", "reload"}
  /\ r.op = "reload" => r.at \in {"dict", "install"}
  /\ r.at = "install" => r.op = "reload"
  /\ r.op = "learn" => r.todo # AcceptOrder
  /\ r.op = "accept" => /\ r.at # "note"
                        /\ r.at \in {"list", "dict"} => r.todo = <<>>
                        /\ r.at \in Saving => r.todo \in {AcceptOrder, <<"learned">>}
  /\ r.op = "dismiss" /\ r.at \in Saving => r.todo = <<"learned">>
  /\ r.op = "page" /\ r.at \in Saving => r.todo = <<"dictionary">>

Roles == \A t \in Task : Role(t, task[t])

\* A call after which the daemon reads the dictionary, if the call succeeds.
Telling(r) == \/ r.op = "reload" /\ r.at = "dict"
              \/ r.op = "page" /\ r.at = "done"
              \/ r.op = "accept" /\ (r.at = "done" \/ r.todo = <<"learned">>)

Awaited == reloads > 0 \/ \E t \in Task : Telling(task[t])

\* What the daemon has, or one task is about to install, is what is on the disk.
Current == /\ \A t \in Task : task[t].at = "install" => task[t].dict = Read("dictionary")
           /\ (\A t \in Task : task[t].at # "install") => store = Read("dictionary")

Informed == \/ excused \/ "dictionary" \in clashed
            \/ /\ \A t, u \in Task : task[t].at = "install" /\ task[u].at = "install" => t = u
               /\ Awaited \/ Current

\* The orders in which files are saved are different lists.
LEMMA Orders ==
  /\ AcceptOrder # <<>> /\ AcceptOrder # <<"learned">> /\ AcceptOrder # <<"dictionary">>
  /\ AcceptOrder # PromotionOrder
  /\ Len(AcceptOrder) = 2 /\ Head(AcceptOrder) = "dictionary" /\ Tail(AcceptOrder) = <<"learned">>
  /\ Head(PromotionOrder) = "learned" /\ Tail(PromotionOrder) = <<"dictionary">>
  /\ Head(<<"learned">>) = "learned" /\ ~(Len(<<"learned">>) > 1) /\ ~(Len(<<"dictionary">>) > 1)
  /\ \A q \in Todo : Len(q) > 1 => q = AcceptOrder \/ q = PromotionOrder
<1>1. Len(AcceptOrder) = 2 /\ Head(AcceptOrder) = "dictionary" /\ Tail(AcceptOrder) = <<"learned">>
  BY DEF AcceptOrder
<1>2. Head(PromotionOrder) = "learned" /\ Tail(PromotionOrder) = <<"dictionary">>
  BY DEF PromotionOrder
<1>3. Len(<<>>) = 0 /\ Len(<<"learned">>) = 1 /\ Len(<<"dictionary">>) = 1
  OBVIOUS
<1>4. Head(<<"learned">>) = "learned"
  OBVIOUS
<1>5. \A q \in Todo : Len(q) > 1 => q = AcceptOrder \/ q = PromotionOrder
  <2>1. ~(Len(<<>>) > 1) /\ ~(Len(<<"learned">>) > 1) /\ ~(Len(<<"dictionary">>) > 1)
    BY <1>3
  <2> QED BY <2>1, Zenon DEF Todo, AcceptOrder, PromotionOrder
<1>6. AcceptOrder # <<>> /\ AcceptOrder # <<"learned">> /\ AcceptOrder # <<"dictionary">>
  <2>1. Len(AcceptOrder) # Len(<<>>) /\ Len(AcceptOrder) # Len(<<"learned">>)
        /\ Len(AcceptOrder) # Len(<<"dictionary">>)
    BY <1>1, <1>3
  <2> QED BY <2>1, Zenon
<1>7. AcceptOrder # PromotionOrder
  BY <1>1, <1>2, Zenon
<1>8. ~(Len(<<"learned">>) > 1) /\ ~(Len(<<"dictionary">>) > 1)
  BY <1>3
<1> QED BY <1>8, <1>1, <1>2, <1>3, <1>4, <1>5, <1>6, <1>7

Alike(a, b) == a.op = b.op /\ a.at = b.at /\ a.todo = b.todo /\ a.dict = b.dict

\* Nothing else about a call matters for who tells whom.
LEMMA AlikeSame ==
  ASSUME NEW a, NEW b, Alike(a, b)
  PROVE  /\ Telling(a) <=> Telling(b)
         /\ \A t : Role(t, a) <=> Role(t, b)
BY DEF Alike, Telling, Role

\* One call moves on and the others stay what they are.
LEMMA SetAlike ==
  ASSUME TypeOK, NEW t \in Task, NEW n, Set(t, n)
  PROVE  task'[t] = n /\ \A x \in Task \ {t} : Alike(task'[x], task[x])
BY DEF Set, TypeOK, Alike

\* ... so that each has its role.
LEMMA RolesKept ==
  ASSUME Roles, NEW t \in Task, NEW n, task'[t] = n, Role(t, n),
         \A x \in Task \ {t} : Alike(task'[x], task[x])
  PROVE  Roles'
<1> SUFFICES ASSUME NEW x \in Task PROVE Role(x, task'[x])
  BY DEF Roles
<1>1. CASE x = t
  BY <1>1
<1>2. CASE x # t
  BY <1>2, AlikeSame DEF Roles
<1> QED BY <1>1, <1>2

\* A call that was to tell the daemon still is, or has, or has failed; the dictionary
\* and the daemon's copy stay as they are.
LEMMA MovesInformed ==
  ASSUME Informed, NEW t \in Task, NEW n, task'[t] = n,
         \A x \in Task \ {t} : Alike(task'[x], task[x]),
         Read("dictionary")' = Read("dictionary"), store' = store,
         excused => excused', clashed \subseteq clashed', reloads > 0 => reloads' > 0,
         n.at # "install", task[t].at # "install",
         Telling(task[t]) => Telling(n) \/ reloads' > 0 \/ excused'
  PROVE  Informed'
<1>1. CASE excused \/ "dictionary" \in clashed
  BY <1>1 DEF Informed
<1>2. CASE /\ \A x, y \in Task : task[x].at = "install" /\ task[y].at = "install" => x = y
           /\ Awaited \/ Current
  <2>1. \A x \in Task : task'[x].at = "install" =>
                          x # t /\ task[x].at = "install" /\ task'[x].dict = task[x].dict
    BY DEF Alike
  <2>2. \A x, y \in Task : task'[x].at = "install" /\ task'[y].at = "install" => x = y
    BY <1>2, <2>1
  <2>3. CASE Awaited
    <3>1. CASE reloads > 0
      BY <2>2, <3>1 DEF Informed, Awaited
    <3>2. ASSUME NEW x \in Task, Telling(task[x]) PROVE Informed'
      <4>1. CASE x = t
        BY <2>2, <3>2, <4>1 DEF Informed, Awaited
      <4>2. CASE x # t
        <5>1. Telling(task'[x])
          BY <3>2, <4>2, AlikeSame
        <5> QED BY <2>2, <5>1 DEF Informed, Awaited
      <4> QED BY <4>1, <4>2
    <3> QED BY <2>3, <3>1, <3>2 DEF Awaited
  <2>4. CASE Current
    <3>1. \A x \in Task : task[x].at = "install" => task'[x].at = "install"
      BY DEF Alike
    <3>2. Current'
      BY <2>1, <2>4, <3>1 DEF Current
    <3> QED BY <2>2, <3>2 DEF Informed
  <2> QED BY <1>2, <2>3, <2>4
<1> QED BY <1>1, <1>2 DEF Informed

\* The same for one call that goes from n to n, on a disk that stays as it is.
LEMMA QuietInformed ==
  ASSUME TypeOK, Roles, Informed, NEW t \in Task, NEW n, Set(t, n), Role(t, n), disk' = disk,
         store' = store, excused => excused', clashed' = clashed, reloads > 0 => reloads' > 0,
         n.at # "install", task[t].at # "install",
         Telling(task[t]) => Telling(n) \/ reloads' > 0 \/ excused'
  PROVE  Roles' /\ Informed'
<1>1. task'[t] = n /\ \A x \in Task \ {t} : Alike(task'[x], task[x])
  BY SetAlike
<1>2. Read("dictionary")' = Read("dictionary")
  BY DEF Read
<1>3. clashed \subseteq clashed'
  OBVIOUS
<1> QED BY <1>1, <1>2, <1>3, RolesKept, MovesInformed

\* An idle task has its role and tells nobody.
LEMMA IdleRole == /\ \A t : Role(t, Idle)
                  /\ ~Telling(Idle) /\ Idle.at = "none" /\ Idle.op = "idle"
BY DEF Role, Telling, Idle, Saving

\* Reading the list.
LEMMA ReadsListInformed ==
  ASSUME TypeOK, Shapes, Roles, Informed, NEW t \in Task, ReadsList(t)
  PROVE  Roles' /\ Informed'
<1> DEFINE r == task[t]
           s == Tidy(Read("learned"))
           p == Head(r.pairs)
           told == [r EXCEPT !.learned = s, !.at = "dict"]
           taken == [r EXCEPT !.learned = Forget(s, p), !.at = "dict"]
           gone == [r EXCEPT !.learned = Dismiss(s, p), !.at = "open", !.todo = <<"learned">>]
<1>1. r \in Call /\ r.at = "list" /\ Role(t, r)
  BY CallTyped DEF ReadsList, Roles
<1>2. /\ \/ r.op = "learn" /\ Set(t, told)
         \/ r.op = "accept" /\ Set(t, taken)
         \/ r.op = "dismiss" /\ Set(t, gone)
         \/ Set(t, Idle)
      /\ UNCHANGED <<disk, store, excused, clashed, reloads>>
  BY DEF ReadsList
<1>3. ~Telling(r)
  <2>1. r.op = "accept" => r.todo = <<>>
    BY <1>1 DEF Role
  <2>2. <<>> # <<"learned">>
    OBVIOUS
  <2> QED BY <1>1, <2>1, <2>2 DEF Telling
<1>4. PICK n : Set(t, n) /\ Role(t, n) /\ n.at # "install"
  <2>1. /\ told.op = r.op /\ told.at = "dict" /\ told.todo = r.todo
        /\ taken.op = r.op /\ taken.at = "dict" /\ taken.todo = r.todo
        /\ gone.op = r.op /\ gone.at = "open" /\ gone.todo = <<"learned">>
    BY <1>1 DEF Call
  <2> HIDE DEF told, taken, gone
  <2>2. CASE r.op = "learn" /\ Set(t, told)
    BY <1>1, <2>1, <2>2 DEF Role, Saving
  <2>3. CASE r.op = "accept" /\ Set(t, taken)
    BY <1>1, <2>1, <2>3 DEF Role, Saving
  <2>4. CASE r.op = "dismiss" /\ Set(t, gone)
    BY <1>1, <2>1, <2>4 DEF Role, Saving
  <2>5. CASE Set(t, Idle)
    BY <2>5, IdleRole
  <2> QED BY <1>2, <2>2, <2>3, <2>4, <2>5
<1> QED BY <1>1, <1>2, <1>3, <1>4, QuietInformed

\* Reading the dictionary: what a reload is to install is what it has just read.
LEMMA ReadsDictionaryInformed ==
  ASSUME TypeOK, Shapes, Roles, Informed, NEW t \in Task, ReadsDictionary(t)
  PROVE  Roles' /\ Informed'
<1> DEFINE r == task[t]
           d == Read("dictionary")
           p == Head(r.pairs)
           todo == IF Pruned(r.learned, d) = r.learned THEN <<>> ELSE <<"learned">>
           noting == [r EXCEPT !.learned = Pruned(@, d), !.dict = d, !.at = "note", !.todo = todo]
           taking == [r EXCEPT !.dict = AddToDictionary(d, p), !.at = "open", !.todo = AcceptOrder]
           fresh == [r EXCEPT !.dict = d, !.at = "install"]
<1>1. r \in Call /\ r.at = "dict" /\ Role(t, r)
  BY CallTyped DEF ReadsDictionary, Roles
<1>2. /\ \/ r.op = "learn" /\ Set(t, noting) /\ excused' = excused
         \/ r.op = "accept" /\ Set(t, taking) /\ excused' = excused
         \/ /\ r.op = "reload" /\ Set(t, fresh)
            /\ excused' = (excused \/ \E x \in Task \ {t} : task[x].at = "install")
         \/ Fails(t)
      /\ UNCHANGED <<disk, store, clashed, reloads>>
  BY DEF ReadsDictionary
<1>3. r.op # "reload" => ~Telling(r)
  <2>1. r.op = "accept" => r.todo = <<>>
    BY <1>1 DEF Role
  <2> QED BY <1>1, <2>1 DEF Telling
<1>4. /\ noting.op = r.op /\ noting.at = "note" /\ noting.todo = todo
      /\ taking.op = r.op /\ taking.at = "open" /\ taking.todo = AcceptOrder
      /\ fresh.op = r.op /\ fresh.at = "install" /\ fresh.dict = d
  BY <1>1 DEF Call
<1> HIDE DEF noting, taking, fresh
<1>5. CASE r.op = "learn" /\ Set(t, noting) /\ excused' = excused
  <2>1. todo # AcceptOrder
    BY Orders, Zenon
  <2>2. Role(t, noting)
    BY <1>1, <1>4, <1>5, <2>1 DEF Role, Saving
  <2> QED BY <1>1, <1>2, <1>3, <1>4, <1>5, <2>2, QuietInformed
<1>6. CASE r.op = "accept" /\ Set(t, taking) /\ excused' = excused
  <2>1. Role(t, taking)
    BY <1>1, <1>4, <1>6 DEF Role, Saving
  <2> QED BY <1>1, <1>2, <1>3, <1>4, <1>6, <2>1, QuietInformed
<1>7. CASE Fails(t)
  <2>1. Set(t, Idle) /\ excused' = (excused \/ r.op \in {"accept", "reload"})
    BY <1>7 DEF Fails
  <2> QED BY <1>1, <1>2, <1>3, <2>1, IdleRole, QuietInformed
<1>8. CASE /\ r.op = "reload" /\ Set(t, fresh)
           /\ excused' = (excused \/ \E x \in Task \ {t} : task[x].at = "install")
  <2>1. Role(t, fresh)
    BY <1>1, <1>4, <1>8 DEF Role
  <2>2. task'[t] = fresh /\ \A x \in Task \ {t} : Alike(task'[x], task[x])
    BY <1>8, SetAlike
  <2>3. Roles'
    BY <2>1, <2>2, RolesKept
  <2> SUFFICES Informed'
    BY <2>3
  <2>4. CASE excused \/ "dictionary" \in clashed
    BY <1>2, <1>8, <2>4 DEF Informed
  <2>5. CASE \E x \in Task \ {t} : task[x].at = "install"
    BY <1>8, <2>5 DEF Informed
  <2>6. CASE \A x \in Task \ {t} : task[x].at # "install"
    <3>1. \A x \in Task : task'[x].at = "install" <=> x = t
      BY <1>4, <2>2, <2>6 DEF Alike
    <3>2. Read("dictionary")' = d
      BY <1>2 DEF Read
    <3>3. Current'
      BY <1>4, <2>2, <3>1, <3>2 DEF Current
    <3> QED BY <3>1, <3>3 DEF Informed
  <2> QED BY <2>4, <2>5, <2>6
<1> QED BY <1>2, <1>5, <1>6, <1>7, <1>8

\* Counting is no news; a call that returns asks for the reload.
LEMMA CountsInformed ==
  ASSUME TypeOK, Shapes, Roles, Informed, NEW t \in Task,
         Counts(t) \/ Counted(t) \/ Returns(t)
  PROVE  Roles' /\ Informed'
<1> DEFINE r == task[t]
<1>1. r \in Call /\ Role(t, r) /\ (r.at = "note" => r.op = "learn") /\ (r.at = "done" => r.todo = <<>>)
  BY CallTyped DEF Shapes, Shaped, Roles
<1>2. CASE Returns(t)
  <2>1. /\ Set(t, Idle) /\ UNCHANGED <<disk, store, excused, clashed>> /\ r.at = "done"
        /\ IF r.op \in {"accept", "page"} THEN reloads' = reloads + 1 ELSE UNCHANGED reloads
    BY <1>2 DEF Returns
  <2>2. reloads \in Nat
    BY DEF TypeOK
  <2>3. Telling(r) => r.op \in {"accept", "page"}
    BY <2>1 DEF Telling
  <2>4. (reloads > 0 => reloads' > 0) /\ (Telling(r) => reloads' > 0)
    BY <2>1, <2>2, <2>3
  <2> QED BY <2>1, <2>4, IdleRole, QuietInformed
<1>3. CASE Counts(t) \/ Counted(t)
  <2>1. r.at = "note" /\ r.op = "learn" /\ UNCHANGED <<disk, store, excused, clashed, reloads>>
    BY <1>1, <1>3 DEF Counts, Counted
  <2>2. PICK n : /\ Set(t, n)
                 /\ \/ n = Idle
                    \/ n.op = "learn" /\ n.at \in {"note", "open"} /\ n.todo # AcceptOrder
    <3>0. r.todo # AcceptOrder /\ PromotionOrder # AcceptOrder /\ <<"learned">> # AcceptOrder
      <4>1. r.todo # AcceptOrder
        BY <1>1, <2>1 DEF Role
      <4> QED BY <4>1, Orders
    <3>1. CASE Counts(t)
      <4> DEFINE q == Head(r.pairs)
                 s == Record(r.learned, q)
                 rest == [r EXCEPT !.pairs = Tail(@)]
                 promoted == [rest EXCEPT !.learned = Forget(s, q),
                                          !.dict = AddToDictionary(@, q), !.todo = PromotionOrder]
                 noted == [rest EXCEPT !.learned = s,
                                       !.todo = IF @ = <<>> THEN <<"learned">> ELSE @]
      <4>1. /\ rest.op = "learn" /\ rest.at = "note" /\ rest.todo = r.todo
            /\ promoted.op = "learn" /\ promoted.at = "note" /\ promoted.todo = PromotionOrder
            /\ noted.op = "learn" /\ noted.at = "note"
            /\ noted.todo \in {<<"learned">>, r.todo}
        BY <1>1, <2>1 DEF Call
      <4>2. Set(t, rest) \/ Set(t, promoted) \/ Set(t, noted)
        BY <3>1 DEF Counts
      <4> HIDE DEF rest, promoted, noted
      <4> QED BY <3>0, <4>1, <4>2
    <3>2. CASE Counted(t)
      <4>1. [r EXCEPT !.at = "open"].op = "learn" /\ [r EXCEPT !.at = "open"].at = "open"
            /\ [r EXCEPT !.at = "open"].todo = r.todo
        BY <1>1, <2>1 DEF Call
      <4>2. Set(t, Idle) \/ Set(t, [r EXCEPT !.at = "open"])
        BY <3>2 DEF Counted
      <4> QED BY <3>0, <4>1, <4>2
    <3> QED BY <1>3, <3>1, <3>2
  <2>3. Role(t, n) /\ n.at # "install"
    <3>1. CASE n = Idle
      BY <3>1, IdleRole
    <3>2. CASE n.op = "learn" /\ n.at \in {"note", "open"} /\ n.todo # AcceptOrder
      BY <1>1, <2>1, <3>2 DEF Role
    <3> QED BY <2>2, <3>1, <3>2
  <2>4. ~Telling(r)
    BY <2>1 DEF Telling
  <2> QED BY <2>1, <2>2, <2>3, <2>4, QuietInformed
<1> QED BY <1>2, <1>3

\* What is installed is on the disk, unless more news is on its way.
LEMMA InstallsInformed ==
  ASSUME TypeOK, Roles, Informed, NEW t \in Task, Installs(t)
  PROVE  Roles' /\ Informed'
<1>1. /\ task[t].at = "install" /\ store' = task[t].dict /\ Set(t, Idle)
      /\ UNCHANGED <<disk, excused, clashed, reloads>>
  BY DEF Installs
<1>2. task'[t] = Idle /\ \A x \in Task \ {t} : Alike(task'[x], task[x])
  BY <1>1, SetAlike
<1>3. Roles'
  BY <1>2, IdleRole, RolesKept
<1> SUFFICES Informed'
  BY <1>3
<1>4. CASE excused \/ "dictionary" \in clashed
  BY <1>1, <1>4 DEF Informed
<1>5. CASE /\ \A x, y \in Task : task[x].at = "install" /\ task[y].at = "install" => x = y
           /\ Awaited \/ Current
  <2>1. \A x \in Task : task'[x].at # "install"
    BY <1>1, <1>2, <1>5, IdleRole DEF Alike
  <2>2. CASE Awaited
    <3>1. ~Telling(task[t])
      BY <1>1 DEF Telling, Roles, Role
    <3>2. Awaited'
      BY <1>1, <1>2, <2>2, <3>1, AlikeSame DEF Awaited
    <3> QED BY <2>1, <3>2 DEF Informed
  <2>3. CASE Current
    <3>1. Read("dictionary")' = Read("dictionary")
      BY <1>1 DEF Read
    <3>2. Current'
      BY <1>1, <2>1, <2>3, <3>1 DEF Current
    <3> QED BY <2>1, <3>2 DEF Informed
  <2> QED BY <1>5, <2>2, <2>3
<1> QED BY <1>4, <1>5 DEF Informed

\* The dictionary changes under its name only when it is renamed, unless two calls
\* had it open at once.
LEMMA WritersKeepNames ==
  ASSUME TypeOK, Shapes, Unclashed, NEW t \in Task, Opens(t) \/ Writes(t) \/ WriteFails(t),
         "dictionary" \notin clashed
  PROVE  Read("dictionary")' = Read("dictionary")
<1> DEFINE r == task[t]
           f == Target(r)
<1>0. "dictionary" \in File
  BY DEF File
<1>1. r \in Call /\ f \in File /\ (r.at = "write" => r.fd \in {"tmp", "path", "gone"})
  BY CallTyped DEF Opens, Writes, WriteFails, Shapes, Shaped, Call
<1>2. CASE Opens(t)
  <2>1. disk' = [disk EXCEPT ![f]["tmp"] = Blank]
    BY <1>2 DEF Opens
  <2>2. disk'["dictionary"].path = disk["dictionary"].path
    BY <1>0, <1>1, <2>1 DEF TypeOK
  <2> QED BY <2>2 DEF Read
<1>3. ASSUME NEW result, WritesAs(t, result), r.at = "write"
      PROVE  Read("dictionary")' = Read("dictionary")
  <2>1. f = "dictionary" => r.fd = "tmp"
    BY <1>0, <1>3 DEF Unclashed, Sole, HasOpen
  <2>2. CASE disk' = disk
    BY <2>2 DEF Read
  <2>3. ASSUME NEW u, disk' = [disk EXCEPT ![f][r.fd] = u], r.fd # "gone"
        PROVE  Read("dictionary")' = Read("dictionary")
    <3>1. disk'["dictionary"].path = disk["dictionary"].path
      BY <1>0, <1>1, <1>3, <2>1, <2>3 DEF TypeOK
    <3> QED BY <3>1 DEF Read
  <2> QED BY <1>3, <2>2, <2>3 DEF WritesAs
<1> QED BY <1>2, <1>3 DEF Writes, WriteFails

\* Calls that write.
LEMMA WritersInformed ==
  ASSUME TypeOK, Shapes, Unclashed, Roles, Informed, NEW t \in Task,
         Opens(t) \/ Writes(t) \/ WriteFails(t)
  PROVE  Roles' /\ Informed'
<1> DEFINE r == task[t]
           opened == [r EXCEPT !.at = "write", !.fd = "tmp"]
           written == [r EXCEPT !.at = "rename", !.fd = "none"]
<1>1. r \in Call /\ Role(t, r) /\ r.at \in {"open", "write"}
  BY CallTyped DEF Opens, Writes, WriteFails, Roles
<1>2. UNCHANGED <<store, reloads>> /\ clashed \subseteq clashed'
  BY DEF Opens, Writes, WriteFails
<1>3. /\ opened.op = r.op /\ opened.at = "write" /\ opened.todo = r.todo
      /\ written.op = r.op /\ written.at = "rename" /\ written.todo = r.todo
  BY <1>1 DEF Call
<1>4. PICK n : /\ Set(t, n) /\ Role(t, n) /\ n.at # "install" /\ (excused => excused')
               /\ Telling(r) => Telling(n) \/ excused'
  <2>1. CASE Opens(t)
    <3>1. Set(t, opened) /\ excused' = excused
      BY <2>1 DEF Opens
    <3> HIDE DEF opened, written
    <3>2. Role(t, opened) /\ (Telling(r) => Telling(opened))
      BY <1>1, <1>3 DEF Role, Saving, Telling
    <3> QED BY <1>3, <3>1, <3>2
  <2>2. CASE Writes(t)
    <3>1. Set(t, written) /\ excused' = excused
      BY <2>2 DEF Writes
    <3> HIDE DEF opened, written
    <3>2. Role(t, written) /\ (Telling(r) => Telling(written))
      BY <1>1, <1>3 DEF Role, Saving, Telling
    <3> QED BY <1>3, <3>1, <3>2
  <2>3. CASE WriteFails(t)
    <3>1. Set(t, Idle) /\ excused' = (excused \/ r.op \in {"accept", "reload"})
      BY <2>3 DEF WriteFails, Fails
    <3>2. Telling(r) => r.op = "accept"
      BY <1>1 DEF Telling
    <3> QED BY <3>1, <3>2, IdleRole
  <2> QED BY <2>1, <2>2, <2>3
<1>5. task'[t] = n /\ \A x \in Task \ {t} : Alike(task'[x], task[x])
  BY <1>4, SetAlike
<1>6. Roles'
  BY <1>4, <1>5, RolesKept
<1> SUFFICES Informed'
  BY <1>6
<1>7. CASE "dictionary" \in clashed
  BY <1>2, <1>7 DEF Informed
<1>8. CASE "dictionary" \notin clashed
  <2>1. Read("dictionary")' = Read("dictionary")
    BY <1>8, WritersKeepNames
  <2> QED BY <1>1, <1>2, <1>4, <1>5, <2>1, MovesInformed
<1> QED BY <1>7, <1>8

\* A new dictionary on the disk is one that the daemon is about to be told of.
LEMMA RenamesInformed ==
  ASSUME TypeOK, Shapes, Roles, Informed, NEW t \in Task, Renames(t)
  PROVE  Roles' /\ Informed'
<1> DEFINE r == task[t]
           f == Target(r)
           again == [r EXCEPT !.todo = Tail(@), !.at = "open"]
           fresh == [Idle EXCEPT !.op = "reload", !.at = "dict"]
           over  == [r EXCEPT !.todo = <<>>, !.at = "done"]
           n == AfterFile(r)
<1>1. r \in Call /\ Role(t, r) /\ r.at = "rename" /\ f \in File /\ r.todo \in Todo /\ r.todo # <<>>
      /\ r.op \notin {"idle", "reload"}
  BY CallTyped DEF Renames, Roles, Shapes, Shaped
<1>2. UNCHANGED <<store, clashed, reloads>>
  BY DEF Renames
<1>3. CASE Fails(t) /\ UNCHANGED <<disk, alone>>
  <2>1. Set(t, Idle) /\ excused' = (excused \/ r.op \in {"accept", "reload"})
    BY <1>3 DEF Fails
  <2>2. Telling(r) => r.op = "accept"
    BY <1>1 DEF Telling
  <2> QED BY <1>1, <1>2, <1>3, <2>1, <2>2, IdleRole, QuietInformed
<1>4. CASE /\ disk' = [disk EXCEPT ![f] = [path |-> disk[f].tmp, tmp |-> Absent]]
           /\ task' = Moved(f, t, AfterFile(r)) /\ UNCHANGED excused
  <2>1. task'[t] = n
    BY <1>4 DEF Moved
  <2>2. ASSUME NEW x \in Task \ {t} PROVE Alike(task'[x], task[x])
    <3>1. task[x] \in Call
      BY DEF TypeOK
    <3> QED BY <1>4, <2>2, <3>1 DEF Moved, Alike, Call
  <2>3. /\ again.op = r.op /\ again.at = "open" /\ again.todo = Tail(r.todo)
        /\ over.op = r.op /\ over.at = "done" /\ over.todo = <<>>
        /\ fresh.op = "reload" /\ fresh.at = "dict"
    BY <1>1 DEF Call, Idle
  <2>4. \/ Len(r.todo) > 1 /\ n = again
        \/ Len(r.todo) <= 1 /\ r.op = "learn" /\ f = "dictionary" /\ n = fresh
        \/ Len(r.todo) <= 1 /\ ~(r.op = "learn" /\ f = "dictionary") /\ n = over
    BY <1>1 DEF AfterFile, Todo
  <2>5. /\ r.op = "accept" => r.todo \in {AcceptOrder, <<"learned">>}
        /\ r.op = "dismiss" => r.todo = <<"learned">>
        /\ r.op = "page" => r.todo = <<"dictionary">>
        /\ t = UI => r.op \in {"accept", "dismiss", "page"}
        /\ t # UI => r.op = "learn"
    BY <1>1 DEF Role, Saving
  <2>6. Len(r.todo) > 1 => \/ r.todo = AcceptOrder /\ Tail(r.todo) = <<"learned">>
                           \/ /\ r.todo = PromotionOrder /\ f = "learned"
                              /\ Tail(r.todo) = <<"dictionary">>
    BY <1>1, Orders, Zenon DEF Target
  <2> HIDE DEF again, fresh, over, n
  <2>7. /\ Role(t, n) /\ n.at # "install"
        /\ f = "dictionary" => Telling(n)
        /\ Telling(r) => Telling(n)
    <3>1. CASE Len(r.todo) > 1 /\ n = again
      <4>0. r.todo # <<"learned">> /\ r.todo # <<"dictionary">>
        BY <3>1, Orders, Zenon
      <4>1. r.op \in {"accept", "learn"}
        BY <2>5, <4>0
      <4>2. r.op = "accept" => r.todo = AcceptOrder /\ again.todo = <<"learned">>
        BY <2>3, <2>5, <2>6, <3>1, <4>0, Orders, Zenon
      <4>3. CASE r.op = "accept"
        BY <1>1, <2>3, <2>5, <3>1, <4>2, <4>3 DEF Role, Telling, Saving
      <4>4. CASE r.op = "learn"
        <5>1. ~Telling(r) /\ t # UI
          BY <2>5, <4>4 DEF Telling
        <5>2. r.todo # AcceptOrder
          BY <1>1, <4>4 DEF Role
        <5>3. f = "learned" /\ again.todo = <<"dictionary">>
          BY <2>3, <2>6, <3>1, <5>2
        <5>4. f # "dictionary" /\ again.todo # AcceptOrder
          BY <5>3, Orders
        <5> QED BY <1>1, <2>3, <2>5, <3>1, <4>4, <5>1, <5>4 DEF Role, Telling, Saving
      <4> QED BY <4>1, <4>3, <4>4
    <3>2. CASE Len(r.todo) <= 1 /\ r.op = "learn" /\ f = "dictionary" /\ n = fresh
      BY <2>3, <2>5, <3>2 DEF Role, Telling, Saving
    <3>3. CASE Len(r.todo) <= 1 /\ ~(r.op = "learn" /\ f = "dictionary") /\ n = over
      <4>1. r.op = "dismiss" => f = "learned"
        BY <2>5, Orders DEF Target
      <4>2. Telling(r) => r.op = "accept"
        BY <1>1 DEF Telling
      <4>3. over.todo # AcceptOrder
        BY <2>3, Orders
      <4> QED BY <1>1, <2>3, <2>5, <3>3, <4>1, <4>2, <4>3 DEF Role, Telling, Saving
    <3> QED BY <2>4, <3>1, <3>2, <3>3
  <2>8. Roles'
    BY <2>1, <2>2, <2>7, RolesKept
  <2> SUFFICES Informed'
    BY <2>8
  <2>9. CASE f = "dictionary"
    <3>1. Awaited'
      BY <2>1, <2>7, <2>9 DEF Awaited
    <3>2. \A x \in Task : task'[x].at = "install" => task[x].at = "install" /\ x # t
      BY <2>1, <2>2, <2>7 DEF Alike
    <3> QED BY <1>2, <1>4, <3>1, <3>2 DEF Informed
  <2>10. CASE f # "dictionary"
    <3>1. "dictionary" \in File
      BY DEF File
    <3>2. disk'["dictionary"].path = disk["dictionary"].path
      BY <1>1, <1>4, <2>10, <3>1 DEF TypeOK
    <3>3. Read("dictionary")' = Read("dictionary")
      BY <3>2 DEF Read
    <3>4. clashed \subseteq clashed'
      BY <1>2
    <3> QED BY <1>1, <1>2, <1>4, <2>1, <2>2, <2>7, <3>3, <3>4, MovesInformed
  <2> QED BY <2>9, <2>10
<1> QED BY <1>3, <1>4 DEF Renames

\* A call that begins.
LEMMA BeginsInformed ==
  ASSUME TypeOK, Roles, Informed, NEW t \in Task,
         NEW op \in Op, NEW at \in {"list", "dict"}, NEW pairs, Begins(t, op, at, pairs),
         op = "reload" => at = "dict",
         IF t = UI THEN op \in {"accept", "dismiss"} ELSE op \in {"learn", "reload"},
         op = "reload" \/ reloads' = reloads, UNCHANGED <<disk, store, clashed, excused>>
  PROVE  Roles' /\ Informed'
<1> DEFINE n == [Idle EXCEPT !.op = op, !.at = at, !.pairs = pairs]
<1>1. n.op = op /\ n.at = at /\ n.todo = <<>>
  BY DEF Idle
<1>2. Set(t, n) /\ task[t] = Idle
  BY DEF Begins
<1> HIDE DEF n
<1>3. Role(t, n)
  BY <1>1, Orders DEF Role, Saving
<1>4. ~Telling(task[t]) /\ task[t].at # "install"
  BY <1>2, IdleRole
<1>5. CASE op # "reload"
  BY <1>1, <1>2, <1>3, <1>4, <1>5, QuietInformed
<1>6. CASE op = "reload"
  <2>1. task'[t] = n /\ \A x \in Task \ {t} : Alike(task'[x], task[x])
    BY <1>2, SetAlike
  <2>2. Roles'
    BY <1>3, <2>1, RolesKept
  <2>3. Awaited'
    BY <1>1, <1>6, <2>1 DEF Awaited, Telling
  <2>4. \A x \in Task : task'[x].at = "install" => task[x].at = "install"
    BY <1>1, <2>1 DEF Alike
  <2> QED BY <2>2, <2>3, <2>4 DEF Informed
<1> QED BY <1>5, <1>6

\* Calls begin; programs start again.
LEMMA OthersInformed ==
  ASSUME TypeOK, Roles, Informed,
         \/ \E t \in Daemon : LearnBegins(t) \/ ReloadBegins(t)
         \/ \E p \in Pair : SuggestionClicked(p)
         \/ PageEdited \/ DaemonRestarts \/ UIRestarts
  PROVE  Roles' /\ Informed'
<1>0. Daemon \subseteq Task /\ UI \in Task /\ \A t \in Daemon : t # UI
  BY LearningAssumption DEF Task
<1>1. ASSUME NEW t \in Daemon, LearnBegins(t) PROVE Roles' /\ Informed'
  <2>1. PICK p, q \in Pair : Begins(t, "learn", "list", IF p = q THEN <<p>> ELSE <<p, q>>)
    BY <1>1 DEF LearnBegins
  <2>2. UNCHANGED <<disk, store, clashed, excused, reloads>>
    BY <1>1 DEF LearnBegins
  <2> QED BY <1>0, <2>1, <2>2, BeginsInformed DEF Op
<1>2. ASSUME NEW t \in Daemon, ReloadBegins(t) PROVE Roles' /\ Informed'
  <2>1. Begins(t, "reload", "dict", <<>>) /\ UNCHANGED <<disk, store, clashed, excused>>
    BY <1>2 DEF ReloadBegins
  <2> QED BY <1>0, <2>1, BeginsInformed DEF Op
<1>3. ASSUME NEW p \in Pair, SuggestionClicked(p) PROVE Roles' /\ Informed'
  <2>1. Begins(UI, "accept", "list", <<p>>) \/ Begins(UI, "dismiss", "list", <<p>>)
    BY <1>3 DEF SuggestionClicked
  <2>2. UNCHANGED <<disk, store, clashed, excused, reloads>>
    BY <1>3 DEF SuggestionClicked
  <2> QED BY <1>0, <2>1, <2>2, BeginsInformed DEF Op
<1>4. CASE PageEdited
  <2>1. PICK d \in PageChanges :
          Set(UI, [Idle EXCEPT !.op = "page", !.at = "open", !.todo = <<"dictionary">>,
                               !.dict = d])
    BY <1>4 DEF PageEdited, PageChanges
  <2> DEFINE n == [Idle EXCEPT !.op = "page", !.at = "open", !.todo = <<"dictionary">>, !.dict = d]
  <2>2. n.op = "page" /\ n.at = "open" /\ n.todo = <<"dictionary">>
    BY DEF Idle
  <2>3. Set(UI, n)
    BY <2>1
  <2> HIDE DEF n
  <2>4. Role(UI, n)
    BY <2>2 DEF Role
  <2>5. UNCHANGED <<disk, store, clashed, excused, reloads>> /\ task[UI] = Idle
    BY <1>4 DEF PageEdited
  <2> QED BY <1>0, <2>2, <2>3, <2>4, <2>5, IdleRole, QuietInformed
<1>5. CASE DaemonRestarts
  <2>1. /\ disk' = disk /\ store' = Read("dictionary")
        /\ \A x \in Task : task'[x] = IF x = UI THEN task[x] ELSE Idle
    BY <1>5 DEF DaemonRestarts
  <2>2. Roles'
    BY <2>1, IdleRole DEF Roles
  <2>3. task[UI].at # "install"
    BY <1>0 DEF Roles, Role
  <2>4. \A x \in Task : task'[x].at # "install"
    BY <2>1, <2>3, IdleRole
  <2>5. Read("dictionary")' = Read("dictionary")
    BY <2>1 DEF Read
  <2>6. Current'
    BY <2>1, <2>4, <2>5 DEF Current
  <2> QED BY <2>2, <2>4, <2>6 DEF Informed
<1>6. CASE UIRestarts
  <2>1. /\ UNCHANGED <<disk, store, clashed, reloads>> /\ Set(UI, Idle)
        /\ excused' = (excused \/ task[UI].op \in {"accept", "page"})
    BY <1>6 DEF UIRestarts
  <2>2. Role(UI, task[UI])
    BY <1>0 DEF Roles
  <2>3. task[UI].at # "install" /\ (Telling(task[UI]) => task[UI].op \in {"accept", "page"})
    BY <2>2 DEF Role, Telling
  <2> QED BY <1>0, <2>1, <2>3, IdleRole, QuietInformed
<1> QED BY <1>1, <1>2, <1>3, <1>4, <1>5, <1>6

\* Every step keeps the daemon informed.
LEMMA NextInformed ==
  TypeOK /\ Shapes /\ Unclashed /\ Roles /\ Informed /\ [Next]_vars => Roles' /\ Informed'
<1> SUFFICES ASSUME TypeOK, Shapes, Unclashed, Roles, Informed, [Next]_vars
             PROVE  Roles' /\ Informed'
  OBVIOUS
<1>1. ASSUME NEW t \in Task, Step(t) PROVE Roles' /\ Informed'
  BY <1>1, ReadsListInformed, ReadsDictionaryInformed, CountsInformed, InstallsInformed,
     WritersInformed, RenamesInformed DEF Step
<1>2. CASE UNCHANGED vars
  <2>1. Roles'
    BY <1>2 DEF vars, Roles
  <2>2. Read("dictionary")' = Read("dictionary")
    BY <1>2 DEF vars, Read
  <2>3. Informed'
    BY <1>2, <2>2 DEF vars, Informed, Awaited, Current
  <2> QED BY <2>1, <2>3
<1> QED BY <1>1, <1>2, OthersInformed DEF Next

\* Reload: whatever the user accepts or edits and whatever is learned, the daemon
\* works with the dictionary on the disk or is about to be told of it, unless two
\* reloads overlapped or a call failed.
THEOREM DaemonIsTold == Spec => []NewsArrives
<1>1. Init => TypeOK /\ Shapes /\ Unclashed /\ Roles /\ Informed
  <2> SUFFICES ASSUME Init PROVE Unclashed /\ Roles /\ Informed
    BY InitTyped
  <2>1. Unclashed
    BY DEF Init, Unclashed, Sole, HasOpen, Idle, Absent, Blank, Torn, File
  <2>2. Roles
    BY IdleRole DEF Init, Roles
  <2>3. Read("dictionary") = NoDictionary
    BY DEF Init, Read, File, Absent, Default
  <2>4. Informed
    BY <2>3, IdleRole DEF Init, Informed, Current
  <2> QED BY <2>1, <2>2, <2>4
<1>2. TypeOK /\ Shapes /\ Unclashed /\ Roles /\ Informed /\ [Next]_vars
        => (TypeOK /\ Shapes /\ Unclashed /\ Roles /\ Informed)'
  BY NextTyped, NextUnclashed, NextInformed
<1>3. Roles /\ Informed => NewsArrives
  <2> SUFFICES ASSUME Roles, Informed, ~excused, "dictionary" \notin clashed PROVE NewsArrives
    BY DEF NewsArrives
  <2>1. CASE Awaited
    <3>1. \A t \in Task : Telling(task[t]) => Tells(task[t])
      BY DEF Telling, Tells
    <3> QED BY <2>1, <3>1 DEF Awaited, NewsArrives
  <2>2. CASE Current
    <3>1. CASE \E t \in Task : task[t].at = "install"
      <4>1. PICK t \in Task : task[t].at = "install"
        BY <3>1
      <4>2. Tells(task[t])
        BY <2>2, <4>1 DEF Current, Roles, Role, Tells
      <4> QED BY <4>2 DEF NewsArrives
    <3> QED BY <2>2, <3>1 DEF Current, NewsArrives
  <2> QED BY <2>1, <2>2 DEF Informed
<1> QED BY <1>1, <1>2, <1>3, PTL DEF Spec
=============================================================================
