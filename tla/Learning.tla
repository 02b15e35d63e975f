------------------------------ MODULE Learning ------------------------------
(***************************************************************************)
(* The corrections parla learns (flow.rs, learn and reload; learned.rs;     *)
(* dictionary.rs; the UI's store.rs and DictionaryPage.qml).  Two programs  *)
(* keep two files, learned.toml and dictionary.toml, and neither locks      *)
(* them: a call loads what it needs, works on its own copy, and writes each *)
(* file back whole through a temporary file (paths.rs, write_atomic).       *)
(* Calls of the daemon run on tasks of their own and may overlap; the UI    *)
(* makes one call at a time.                                                *)
(*                                                                         *)
(* Both programs use the same name for the temporary file, so what matters  *)
(* of an open file is where its inode is: still under that name, already    *)
(* renamed over the file by someone else, or replaced and out of reach.     *)
(***************************************************************************)
EXTENDS Naturals, Sequences, FiniteSets

CONSTANTS Heard, Written,   \* the spellings that corrections are made of
          Daemon,           \* tasks of the daemon
          UI,               \* the UI's one thread
          MaxPasses,        \* correction passes that found something (bounds the model)
          MaxEdits,         \* calls of the user in the UI (bounds the model)
          MaxFaults         \* crashes and failed writes (bounds the model)

ASSUME LearningAssumption == /\ MaxPasses \in Nat /\ MaxEdits \in Nat /\ MaxFaults \in Nat
                             /\ UI \notin Daemon

Pair == Heard \X Written
File == {"learned", "dictionary"}
Task == Daemon \cup {UI}
Mode == {"suggest", "auto"}

\* learned.toml: how often each pair was seen (0: it is not listed), and the pairs
\* that are not to be offered again.  dictionary.toml: words and replacements.
Suggestions == [count : [Pair -> Nat], dismissed : SUBSET Pair]
Dictionary  == [words : SUBSET Written, repl : SUBSET Pair]

NoSuggestions == [count |-> [p \in Pair |-> 0], dismissed |-> {}]
NoDictionary  == [words |-> {}, repl |-> {}]

Content(f) == IF f = "learned" THEN Suggestions ELSE Dictionary
Default(f) == IF f = "learned" THEN NoSuggestions ELSE NoDictionary

\* What a file may hold that is nobody's content: it is not there, it was just
\* created or truncated, or the bytes of two writers lie over each other.
Absent == [is |-> "absent"]
Blank  == [is |-> "blank"]
Torn   == [is |-> "torn"]
Whole(c)   == [is |-> "whole", was |-> c]
Version(f) == {Absent, Blank, Torn} \cup [is : {"whole"}, was : Content(f)]
AnyVersion == Version("learned") \cup Version("dictionary")
-----------------------------------------------------------------------------
VARIABLES disk,       \* by file: what is under its name and under the temporary name
          task,       \* the call each task is in
          store,      \* the dictionary the daemon works with
          page,       \* the dictionary as the UI's page shows it
          reloads,    \* Reload calls on their way to the daemon
          mode,       \* flow.learn
          passes, edits, faults   \* counters of the bounds

\* History: sightings noted so far, what the user put in the dictionary, files that
\* two calls wrote at once, calls during which nobody else wrote, and whether the
\* daemon was left with an old dictionary by a race or a failure.
VARIABLES seen, asked, clashed, alone, excused

vars == <<disk, task, store, page, reloads, mode, passes, edits, faults,
          seen, asked, clashed, alone, excused>>

Op    == {"idle", "learn", "reload", "accept", "dismiss", "page"}
Stage == {"none", "list", "dict", "note", "open", "write", "rename", "install", "done"}

Todo == {<<>>, <<"learned">>, <<"dictionary">>,
         <<"learned", "dictionary">>, <<"dictionary", "learned">>}

Call == [op : Op, at : Stage,
         todo : Todo,                           \* files still to be saved
         pairs : Seq(Pair),                     \* pairs still to be worked on
         learned : Suggestions, dict : Dictionary,   \* its own copies
         fd : {"none", "tmp", "path", "gone"}]  \* where the inode it has open is

Idle == [op |-> "idle", at |-> "none", todo |-> <<>>, pairs |-> <<>>,
         learned |-> NoSuggestions, dict |-> NoDictionary, fd |-> "none"]

TypeOK == /\ disk \in [File -> [path : AnyVersion, tmp : AnyVersion]]
          /\ \A f \in File : disk[f].path \in Version(f) /\ disk[f].tmp \in Version(f)
          /\ task \in [Task -> Call]
          /\ store \in Dictionary /\ page \in Dictionary
          /\ reloads \in Nat /\ passes \in Nat /\ edits \in Nat /\ faults \in Nat
          /\ mode \in Mode
          /\ seen \in [Pair -> Nat] /\ asked \in Dictionary
          /\ clashed \subseteq File /\ alone \in [Task -> BOOLEAN] /\ excused \in BOOLEAN
-----------------------------------------------------------------------------
(* The contents. *)

Covered(d, p) == p[2] \in d.words \/ \E r \in d.repl : r[1] = p[1]

AddToDictionary(d, p) ==
  [words |-> d.words \cup {p[2]},
   repl  |-> IF \E r \in d.repl : r[1] = p[1] THEN d.repl ELSE d.repl \cup {p}]

\* What is read and what is written has nothing in it that was dismissed.
Tidy(s) == [s EXCEPT !.count = [p \in Pair |-> IF p \in s.dismissed THEN 0 ELSE s.count[p]]]

Decremented(s, p) == [s EXCEPT !.count[p] = @ - 1]                   \* mutant
Forget(s, p)  == [s EXCEPT !.count[p] = 0]
Dismiss(s, p) == [Forget(s, p) EXCEPT !.dismissed = @ \cup {p}]
RecordTwice(s, p) == [s EXCEPT !.count[p] = @ + 2]                   \* mutant
Record(s, p)  == [s EXCEPT !.count[p] = @ + 1]

\* A pair the dictionary produces by now has no business on the list.
Pruned(s, d) == [s EXCEPT !.count = [p \in Pair |-> IF Covered(d, p) THEN 0 ELSE s.count[p]]]

\* A file that is not there or empty reads as an empty list.
Readable(f) == disk[f].path # Torn
Read(f) == IF disk[f].path.is = "whole" THEN disk[f].path.was ELSE Default(f)
-----------------------------------------------------------------------------
(* Calls, and how they end. *)

Set(t, r) == task' = [task EXCEPT ![t] = r]

Begins(t, op, at, pairs) ==
  /\ task[t] = Idle
  /\ Set(t, [Idle EXCEPT !.op = op, !.at = at, !.pairs = pairs])
  /\ alone' = [alone EXCEPT ![t] = TRUE]

\* A call that fails leaves behind what it has done.  Then a UI that accepted a pair
\* asks for no reload, and a daemon that could not reload goes on with what it has.
Fails(t) == /\ Set(t, Idle)
            /\ excused' = (excused \/ task[t].op \in {"accept", "reload"})

\* Whoever else is in a call can no longer rely on what it has read.
Touches(t) == alone' = [x \in Task |-> x = t /\ alone[t]]

Target(r) == Head(r.todo)
HasOpen(f) == {x \in Task : task[x].at \in {"write", "rename"} /\ Target(task[x]) = f}

\* An accepted pair is in the dictionary before it leaves the list; one that the
\* daemon promotes leaves the list first.
AcceptSwapped  == <<"learned", "dictionary">>                        \* mutant
AcceptOrder    == <<"dictionary", "learned">>
PromotionOrder == <<"learned", "dictionary">>

Copy(r) == IF Target(r) = "learned" THEN Tidy(r.learned) ELSE r.dict
-----------------------------------------------------------------------------
(* A call reads. *)

\* Suggestions::load.  The UI's calls change the list at once.
ReadsList(t) ==
  LET r == task[t]
      s == Tidy(Read("learned"))
      p == Head(r.pairs)
  IN  /\ r.at = "list"
      /\ \/ /\ Readable("learned")
            /\ \/ r.op = "learn" /\ Set(t, [r EXCEPT !.learned = s, !.at = "dict"])
               \/ /\ r.op = "accept" /\ s.count[p] > 0
                  /\ Set(t, [r EXCEPT !.learned = Forget(s, p), !.at = "dict"])
               \/ /\ r.op = "dismiss"
                  /\ Set(t, [r EXCEPT !.learned = Dismiss(s, p), !.at = "open",
                                      !.todo = <<"learned">>])
            /\ UNCHANGED excused
         \/ /\ ~Readable("learned") \/ (r.op = "accept" /\ s.count[p] = 0)
            /\ Set(t, Idle) /\ UNCHANGED excused
      /\ UNCHANGED <<disk, store, page, reloads, mode, passes, edits, faults, seen, asked, clashed, alone>>

\* Dictionary::load.
ReadsDictionary(t) ==
  LET r == task[t]
      d == Read("dictionary")
  IN  /\ r.at = "dict"
      /\ \/ /\ Readable("dictionary")
            /\ \/ /\ r.op = "learn"
                  /\ Set(t, [r EXCEPT !.learned = Pruned(@, d), !.dict = d, !.at = "note",
                               !.todo = IF Pruned(r.learned, d) = r.learned
                                          THEN <<>> ELSE <<"learned">>])
                  /\ UNCHANGED excused
               \/ /\ r.op = "accept"
                  /\ Set(t, [r EXCEPT !.dict = AddToDictionary(d, Head(r.pairs)), !.at = "open",
                                      !.todo = AcceptOrder])
                  /\ UNCHANGED excused
               \* Two reloads may hold a copy each, and install them in either order.
               \/ /\ r.op = "reload"
                  /\ Set(t, [r EXCEPT !.dict = d, !.at = "install"])
                  /\ excused' = (excused \/ \E x \in Task \ {t} : task[x].at = "install")
         \/ ~Readable("dictionary") /\ Fails(t)
      /\ UNCHANGED <<disk, store, page, reloads, mode, passes, edits, faults, seen, asked, clashed, alone>>

Promotes(s, p) == mode = "auto" /\ s.count[p] >= 2

\* One round of learn's loop: a pair is counted, and in the auto mode the second
\* sighting moves it into the dictionary.
Counts(t) ==
  LET r == task[t]
      p == Head(r.pairs)
      s == Record(r.learned, p)
      rest == [r EXCEPT !.pairs = Tail(@)]
  IN  /\ r.at = "note" /\ r.pairs # <<>>
      /\ IF Covered(r.dict, p) \/ p \in r.learned.dismissed
           THEN Set(t, rest) /\ UNCHANGED seen
           ELSE /\ seen' = [seen EXCEPT ![p] = @ + 1]
                /\ IF Promotes(s, p)
                     THEN Set(t, [rest EXCEPT !.learned = Forget(s, p),
                                              !.dict = AddToDictionary(@, p),
                                              !.todo = PromotionOrder])
                     ELSE Set(t, [rest EXCEPT !.learned = s,
                                              !.todo = IF @ = <<>> THEN <<"learned">> ELSE @])
      /\ UNCHANGED <<disk, store, page, reloads, mode, passes, edits, faults, asked, clashed, alone, excused>>

\* ... until there is none left; with nothing counted or pruned it saves nothing.
Counted(t) ==
  LET r == task[t]
  IN  /\ r.at = "note" /\ r.pairs = <<>>
      /\ Set(t, IF r.todo = <<>> THEN Idle ELSE [r EXCEPT !.at = "open"])
      /\ UNCHANGED <<disk, store, page, reloads, mode, passes, edits, faults,
                     seen, asked, clashed, alone, excused>>

\* *store = fresh.
Installs(t) ==
  /\ task[t].at = "install"
  /\ store' = task[t].dict
  /\ Set(t, Idle)
  /\ UNCHANGED <<disk, page, reloads, mode, passes, edits, faults, seen, asked, clashed, alone, excused>>
-----------------------------------------------------------------------------
(* A call writes a file: write_atomic. *)

OpensInPlace(t) ==                                                   \* mutant
  LET f == Target(task[t])
  IN  /\ task[t].at = "open" /\ disk' = [disk EXCEPT ![f].path = Blank]
      /\ Set(t, [task[t] EXCEPT !.at = "write", !.fd = "path"])
      /\ UNCHANGED <<store, page, reloads, mode, passes, edits, faults, seen, asked,
                     clashed, alone, excused>>

\* fs::write opens the temporary file, which empties it if someone left it there or
\* has it open ...
Opens(t) ==
  LET r == task[t]
      f == Target(r)
  IN  /\ r.at = "open"
      /\ disk' = [disk EXCEPT ![f].tmp = Blank]
      /\ Set(t, [r EXCEPT !.at = "write", !.fd = "tmp"])
      /\ Touches(t)
      /\ clashed' = IF HasOpen(f) = {} THEN clashed ELSE clashed \cup {f}
      /\ UNCHANGED <<store, page, reloads, mode, passes, edits, faults, seen, asked, excused>>

\* ... and writes to wherever that inode is by then, over what another has written.
WritesAs(t, result) ==
  LET r == task[t]
      f == Target(r)
      put(v) == \E u \in (IF v = Blank THEN {result} ELSE {result, Torn}) :
                   disk' = [disk EXCEPT ![f][r.fd] = u]
  IN  IF r.fd = "gone" THEN UNCHANGED disk ELSE put(disk[f][r.fd])

Writes(t) ==
  /\ task[t].at = "write"
  /\ WritesAs(t, Whole(Copy(task[t])))
  /\ Set(t, [task[t] EXCEPT !.at = "rename", !.fd = "none"])
  /\ Touches(t)
  /\ UNCHANGED <<store, page, reloads, mode, passes, edits, faults, seen, asked, clashed, excused>>

\* The disk is full.
WriteFails(t) ==
  /\ task[t].at = "write"
  /\ faults < MaxFaults /\ faults' = faults + 1
  /\ WritesAs(t, Torn)
  /\ Fails(t)
  /\ Touches(t)
  /\ UNCHANGED <<store, page, reloads, mode, passes, edits, seen, asked, clashed>>

\* Whoever else has the file open keeps the inode under its new name.
Moved(f, t, next) ==
  [x \in Task |->
     IF x = t THEN next
     ELSE IF task[x].at = "write" /\ Target(task[x]) = f
       THEN [task[x] EXCEPT !.fd = CASE @ = "tmp"  -> "path"
                                     [] @ = "path" -> "gone"
                                     [] OTHER      -> @]
       ELSE task[x]]

AfterFileUntold(r) == [r EXCEPT !.todo = Tail(@),                     \* mutant
                                !.at = IF Len(r.todo) > 1 THEN "open" ELSE "done"]
\* After the last file, a daemon that promoted a pair reloads.
AfterFile(r) == IF Len(r.todo) > 1 THEN [r EXCEPT !.todo = Tail(@), !.at = "open"]
            ELSE IF r.op = "learn" /\ Target(r) = "dictionary"
              THEN [Idle EXCEPT !.op = "reload", !.at = "dict"]
              ELSE [r EXCEPT !.todo = <<>>, !.at = "done"]

Renames(t) ==
  LET r == task[t]
      f == Target(r)
  IN  /\ r.at = "rename"
      /\ \/ /\ disk[f].tmp # Absent
            /\ disk' = [disk EXCEPT ![f] = [path |-> disk[f].tmp, tmp |-> Absent]]
            /\ task' = Moved(f, t, AfterFile(r))
            /\ Touches(t)
            /\ UNCHANGED excused
         \* Someone else has renamed it.
         \/ /\ disk[f].tmp = Absent
            /\ Fails(t)
            /\ UNCHANGED <<disk, alone>>
      /\ UNCHANGED <<store, page, reloads, mode, passes, edits, faults, seen, asked, clashed>>
-----------------------------------------------------------------------------
(* Where calls come from, and where they return to. *)

\* A correction pass found some pairs.
LearnBegins(t) ==
  /\ passes < MaxPasses /\ passes' = passes + 1
  /\ \E p, q \in Pair : Begins(t, "learn", "list", IF p = q THEN <<p>> ELSE <<p, q>>)
  /\ UNCHANGED <<disk, store, page, reloads, mode, edits, faults, seen, asked, clashed, excused>>

\* The Reload method.
ReloadBegins(t) ==
  /\ reloads > 0 /\ reloads' = reloads - 1
  /\ Begins(t, "reload", "dict", <<>>)
  /\ UNCHANGED <<disk, store, page, mode, passes, edits, faults, seen, asked, clashed, excused>>

\* The user accepts or dismisses a pair.
SuggestionClicked(p) ==
  /\ edits < MaxEdits /\ edits' = edits + 1
  /\ \/ /\ Begins(UI, "accept", "list", <<p>>)
        /\ asked' = [words |-> asked.words \cup {p[2]}, repl |-> asked.repl \cup {p}]
     \/ Begins(UI, "dismiss", "list", <<p>>) /\ UNCHANGED asked
  /\ UNCHANGED <<disk, store, page, reloads, mode, passes, faults, seen, clashed, excused>>

\* The user changes the dictionary as the page shows it; all of the page is saved.
PageEdited ==
  /\ edits < MaxEdits /\ edits' = edits + 1
  /\ task[UI] = Idle
  /\ \E d \in {[page EXCEPT !.words = @ \cup {w}] : w \in Written \ page.words}
              \cup {[page EXCEPT !.words = @ \ {w}] : w \in page.words}
              \cup {[page EXCEPT !.repl = @ \ {r}] : r \in page.repl} :
        /\ page' = d
        /\ Set(UI, [Idle EXCEPT !.op = "page", !.at = "open", !.todo = <<"dictionary">>,
                                !.dict = d])
        /\ asked' = [asked EXCEPT !.words = @ \cup (d.words \ page.words)]
  /\ alone' = [alone EXCEPT ![UI] = TRUE]
  /\ UNCHANGED <<disk, store, reloads, mode, passes, faults, seen, clashed, excused>>

PageLoaded == page' = IF Readable("dictionary") THEN Read("dictionary") ELSE page

\* After a change the UI asks for a reload; after an accept the page is loaded too.
Returns(t) ==
  /\ task[t].at = "done"
  /\ Set(t, Idle)
  /\ IF task[t].op \in {"accept", "page"} THEN reloads' = reloads + 1 ELSE UNCHANGED reloads
  /\ IF task[t].op = "accept" THEN PageLoaded ELSE UNCHANGED page
  /\ UNCHANGED <<disk, store, mode, passes, edits, faults, seen, asked, clashed, alone, excused>>

\* The daemon dies and is started again, if it can read its files.
DaemonRestarts ==
  /\ faults < MaxFaults /\ faults' = faults + 1
  /\ Readable("dictionary")
  /\ task' = [t \in Task |-> IF t = UI THEN task[t] ELSE Idle]
  /\ store' = Read("dictionary")
  /\ reloads' = 0 /\ excused' = FALSE
  /\ UNCHANGED <<disk, page, mode, passes, edits, seen, asked, clashed, alone>>

\* The UI dies, perhaps before it has asked for the reload, and is opened again.
UIRestarts ==
  /\ faults < MaxFaults /\ faults' = faults + 1
  /\ Set(UI, Idle)
  /\ PageLoaded
  /\ excused' = (excused \/ task[UI].op \in {"accept", "page"})
  /\ UNCHANGED <<disk, store, reloads, mode, passes, edits, seen, asked, clashed, alone>>
-----------------------------------------------------------------------------
Init == /\ disk = [f \in File |-> [path |-> Absent, tmp |-> Absent]]
        /\ task = [t \in Task |-> Idle]
        /\ store = NoDictionary /\ page = NoDictionary
        /\ reloads = 0 /\ mode \in Mode /\ passes = 0 /\ edits = 0 /\ faults = 0
        /\ seen = [p \in Pair |-> 0] /\ asked = NoDictionary
        /\ clashed = {} /\ alone = [t \in Task |-> TRUE] /\ excused = FALSE

Step(t) == \/ ReadsList(t) \/ ReadsDictionary(t) \/ Counts(t) \/ Counted(t) \/ Installs(t)
           \/ Opens(t) \/ Writes(t) \/ WriteFails(t) \/ Renames(t) \/ Returns(t)

Next == \/ \E t \in Task : Step(t)
        \/ \E t \in Daemon : LearnBegins(t) \/ ReloadBegins(t)
        \/ \E p \in Pair : SuggestionClicked(p)
        \/ PageEdited \/ DaemonRestarts \/ UIRestarts

Spec == Init /\ [][Next]_vars
-----------------------------------------------------------------------------
(* What two programs that do not know of each other keep.  *)

\* paths.rs: a file under its own name is somebody's whole content, also after a
\* crash or a full disk, unless two calls had its temporary file open at once.
WholeFiles == \A f \in File : disk[f].path \in {Blank, Torn} => f \in clashed

\* learn, accept_suggestion: whatever calls overlap, and whichever of them write over
\* each other, no pair gets into the dictionary that the user did not put there,
\* except in the auto mode one that was seen twice.
Deserved(r) == r \in asked.repl \/ (mode = "auto" /\ seen[r] >= 2)
SeenTwice == /\ \A r \in Read("dictionary").repl \cup store.repl : Deserved(r)
             /\ \A w \in Read("dictionary").words \cup store.words :
                   w \in asked.words \/ \E h \in Heard : Deserved(<<h, w>>)

\* accept_suggestion saves the dictionary first: as long as nobody else writes, the
\* pair is in one of the files at every moment, so that a crash cannot lose it; and
\* what a call has saved is on the disk when it ends.
Listed(p) == Read("learned").count[p] > 0
Saves == [accept |-> File, dismiss |-> {"learned"}, learn |-> {"learned"}, page |-> {"dictionary"}]
Effective ==
  \A t \in Task : LET r == task[t] IN alone[t] =>
    /\ r.op = "accept" /\ r.at \notin {"none", "list"} =>
         LET p == Head(r.pairs) IN Listed(p) \/ Covered(Read("dictionary"), p)
    /\ r.at = "done" =>
         /\ "learned" \in Saves[r.op] => Read("learned") = Tidy(r.learned)
         /\ "dictionary" \in Saves[r.op] => Read("dictionary") = r.dict

\* Reload: the daemon works with the dictionary on the disk, or is about to be told,
\* unless two reloads overlapped or a call failed.
Tells(r) == \/ r.op = "reload" /\ (r.at = "dict" \/ r.dict = Read("dictionary"))
            \/ r.op = "page" /\ r.at = "done"
            \/ r.op = "accept" /\ (r.at = "done" \/ r.todo = <<"learned">>)
NewsArrives == \/ store = Read("dictionary")
               \/ reloads > 0 \/ \E t \in Task : Tells(task[t])
               \/ excused \/ "dictionary" \in clashed
=============================================================================
