------------------------------- MODULE History -------------------------------
(***************************************************************************)
(* The history of utterances: the file the daemon appends to, with what a  *)
(* torn write leaves in it (crates/flow/src/history.rs), the queries of    *)
(* the bus, and the page of the UI that shows it batch by batch while new  *)
(* utterances arrive (crates/ui/qml/HistoryPage.qml).                      *)
(*                                                                         *)
(* A record is its number; numbers grow as ids do.  The daemon's calls on  *)
(* the file hold a mutex and are steps.  A command of the page and an      *)
(* utterance's signal reach the UI's worker on channels of their own.      *)
(***************************************************************************)
EXTENDS Naturals, SequencesExt, FiniteSetsExt

CONSTANTS
  PageSize,     \* records of one batch
  MaxRecords,   \* bound: utterances
  MaxTears,     \* bound: writes that tear
  MaxRequests   \* bound: what the user does on the page

ASSUME PagesHold == PageSize \in Nat \ {0}

VARIABLES
  file,      \* lines: a record, or Broken for one that does not parse
  torn,      \* the last line has no newline
  garbled,   \* some line is not UTF-8
  stored,    \* the records append returned, in order, that nobody deleted
  born,      \* records so far
  tears,     \* writes that tore, for the property
  signals,   \* Utterance signals on their way
  commands,  \* what the page asked for
  page,      \* the records shown, whether all have been, whether some are awaited
  raced,     \* something happened that the page does not expect
  asked      \* for the bound

vars == <<file, torn, garbled, stored, born, tears, signals, commands, page, raced, asked>>
OnDisk == <<file, torn, garbled, stored, born, tears>>
Page == <<page, raced, asked>>

Broken == 0   \* a line that is no record

-----------------------------------------------------------------------------
(* The file.                                                               *)

\* A filter: what is left of a sequence without the elements of a set.
Without(s, out) ==
  LET kept[n \in 0..Len(s)] ==
        IF n = 0 THEN <<>>
        ELSE IF s[n] \in out THEN kept[n - 1] ELSE Append(kept[n - 1], s[n])
  IN kept[Len(s)]

\* fn read_all: the lines that are records, oldest first.  A line that does not
\* parse is skipped; one that is not UTF-8 ends the read with an error, so this
\* and Recent are answers only of a file that is not garbled.
Records(lines) == Without(lines, {Broken})

\* fn recent.
Recent(lines, limit, offset) ==
  LET newest == Reverse(Records(lines))
  IN SubSeq(newest, offset + 1, Min({offset + limit, Len(newest)}))

\* A line written after one without a newline makes one line with it.
Written(line) ==
  file' = IF torn THEN Append(Front(file), Broken) ELSE Append(file, line)

\* Utterance: append returns the record, and the signal goes out.
Appends ==
  /\ born < MaxRecords /\ born' = born + 1
  /\ Written(born') /\ torn' = FALSE
  /\ stored' = Append(stored, born') /\ signals' = Append(signals, born')
  /\ raced' = (raced \/ torn)
  /\ UNCHANGED <<garbled, tears, commands, page, asked>>

\* The write fails half-way, or the daemon is killed in it: append returns no
\* record and there is no signal, but the beginning of a line.  That is the whole
\* record if only the newline is missing; it may end inside a character.
WriteTears ==
  /\ born < MaxRecords /\ tears < MaxTears /\ born' = born + 1 /\ tears' = tears + 1
  /\ \/ Written(born') /\ UNCHANGED garbled
     \/ Written(Broken) /\ UNCHANGED garbled
     \/ Written(Broken) /\ garbled' = TRUE
  /\ torn' = TRUE
  /\ raced' = (raced \/ Records(file') # Records(file))
  /\ UNCHANGED <<stored, signals, commands, page, asked>>

\* The lines are rewritten without the newline of the last.
DeletedTorn(id) ==
  /\ file' = Without(Records(file), {id}) /\ torn' = TRUE
  /\ stored' = Without(stored, {id})

\* fn delete, when the file can be read and the record is there: the file is
\* rewritten with the records that are not the one.
Deleted(id) ==
  /\ file' = Without(Records(file), {id}) /\ torn' = FALSE
  /\ stored' = Without(stored, {id})

\* fn clear: nothing is read.
Cleared == file' = <<>> /\ torn' = FALSE /\ garbled' = FALSE /\ stored' = <<>>

-----------------------------------------------------------------------------
(* The page and the worker.                                                *)

Ask(c) == commands' = Append(commands, c)
Query(offset) == [kind |-> "history", arg |-> offset]
MayAsk == asked < MaxRequests /\ asked' = asked + 1

\* loadMore, when the list is scrolled to its end.
LoadMore ==
  /\ MayAsk /\ ~page.loading /\ ~page.exhausted
  /\ page' = [page EXCEPT !.loading = TRUE] /\ Ask(Query(Len(page.records)))
  /\ UNCHANGED <<OnDisk, signals, raced>>

\* reload: the list is emptied, and asked for anew unless a batch is awaited.
Reload ==
  /\ MayAsk
  /\ page' = [records |-> <<>>, exhausted |-> FALSE, loading |-> TRUE]
  /\ IF page.loading THEN raced' = TRUE /\ UNCHANGED commands
     ELSE raced' = FALSE /\ Ask(Query(0))
  /\ UNCHANGED <<OnDisk, signals>>

\* The button of a record, and "Clear all".
AsksDelete ==
  /\ MayAsk /\ \E id \in ToSet(page.records) : Ask([kind |-> "delete", arg |-> id])
  /\ UNCHANGED <<OnDisk, signals, page, raced>>

AsksClear ==
  /\ MayAsk /\ page.records # <<>> /\ Ask([kind |-> "clear", arg |-> 0])
  /\ UNCHANGED <<OnDisk, signals, page, raced>>

\* A later batch replaces the list as the first does.
WithBatchAlone(batch, offset) ==
  [records |-> batch, exhausted |-> Len(batch) < PageSize, loading |-> FALSE]

\* onHistoryLoaded: the first batch replaces the list; a later one is added if
\* it begins where the list still ends, without what is there already.
WithBatch(batch, offset) ==
  [records   |-> IF offset = 0 THEN batch
                 ELSE IF offset = Len(page.records)
                 THEN page.records \o Without(batch, ToSet(page.records))
                 ELSE page.records,
   exhausted |-> Len(batch) < PageSize,
   loading   |-> FALSE]

\* History is answered from the file as it is; what the page did not expect is
\* an utterance it has not been told of, or a list that has changed meanwhile.
HistoryAnswered ==
  /\ ~garbled
  /\ commands # <<>> /\ Head(commands).kind = "history" /\ commands' = Tail(commands)
  /\ LET offset == Head(commands).arg
     IN /\ page' = WithBatch(Recent(file, PageSize, offset), offset)
        /\ raced' = (raced \/ signals # <<>> \/ offset # Len(page.records))
  /\ UNCHANGED <<OnDisk, signals, asked>>

\* The read fails: the worker shows the error, and the page waits for a batch
\* that does not come; Reload asks for none as long as it waits.
HistoryFails ==
  /\ garbled
  /\ commands # <<>> /\ Head(commands).kind = "history" /\ commands' = Tail(commands)
  /\ raced' = TRUE
  /\ UNCHANGED <<OnDisk, signals, page, asked>>

\* onHistoryDeleted, when the record existed and the file could be read.
DeleteAnswered ==
  /\ commands # <<>> /\ Head(commands).kind = "delete" /\ commands' = Tail(commands)
  /\ LET id == Head(commands).arg
     IN IF ~garbled /\ Contains(file, id)
        THEN /\ Deleted(id)
             /\ page' = [page EXCEPT !.records = Without(@, {id})]
             /\ raced' = (raced \/ Contains(signals, id))
        ELSE UNCHANGED <<file, torn, stored, page, raced>>
  /\ UNCHANGED <<garbled, born, tears, signals, asked>>

\* onHistoryCleared.
ClearAnswered ==
  /\ commands # <<>> /\ Head(commands).kind = "clear" /\ commands' = Tail(commands)
  /\ Cleared /\ page' = [page EXCEPT !.records = <<>>, !.exhausted = TRUE]
  /\ raced' = (raced \/ signals # <<>> \/ page.loading)
  /\ UNCHANGED <<born, tears, signals, asked>>

\* onUtterance.
UtteranceHeard ==
  /\ signals # <<>> /\ signals' = Tail(signals)
  /\ page' = [page EXCEPT !.records = <<Head(signals)>> \o @]
  /\ UNCHANGED <<OnDisk, commands, raced, asked>>

-----------------------------------------------------------------------------
Init ==
  /\ file = <<>> /\ torn = FALSE /\ garbled = FALSE /\ stored = <<>> /\ born = 0 /\ tears = 0
  /\ signals = <<>> /\ commands = <<Query(0)>> /\ asked = 0 /\ raced = FALSE
  /\ page = [records |-> <<>>, exhausted |-> FALSE, loading |-> TRUE]

Next == Appends \/ WriteTears \/ LoadMore \/ Reload \/ AsksDelete \/ AsksClear
          \/ HistoryAnswered \/ HistoryFails \/ DeleteAnswered \/ ClearAnswered \/ UtteranceHeard

Spec == Init /\ [][Next]_vars

-----------------------------------------------------------------------------
Commands == [kind : {"history", "delete", "clear"}, arg : Nat]

\* Every variable is of its type.
TypeOK ==
  /\ file \in Seq(Nat) /\ stored \in Seq(Nat) /\ signals \in Seq(Nat)
  /\ torn \in BOOLEAN /\ garbled \in BOOLEAN /\ raced \in BOOLEAN /\ {born, tears, asked} \subseteq Nat
  /\ commands \in Seq(Commands)
  /\ page \in [records : Seq(Nat), exhausted : BOOLEAN, loading : BOOLEAN]

\* As long as no write was cut inside a character, or the file was cleared since,
\* a torn write costs at most one record besides its own, or leaves its own where
\* append said it did not: all others that were stored and not deleted are read,
\* in the order they were said.
Lost == ToSet(stored) \ ToSet(Records(file))
Unreported == ToSet(Records(file)) \ ToSet(stored)

TearsCostOne ==
  ~garbled =>
    /\ Cardinality(Lost \cup Unreported) <= tears
    /\ torn => Cardinality(Lost) < tears
    /\ Without(stored, Lost) = Without(Records(file), Unreported)

\* The page shows the newest records, each once, with nothing left out between
\* them, and says that there are no more only when there are none; unless a
\* batch met an utterance on its way or a list that had changed, a batch could not
\* be read, or a torn write changed what can be read without a signal for it.
Quiet == signals = <<>> /\ commands = <<>>

PageIsTrue ==
  Quiet /\ ~raced =>
    /\ page.records = Recent(file, Len(page.records), 0)
    /\ page.exhausted => Len(page.records) = Len(Records(file))
=============================================================================
