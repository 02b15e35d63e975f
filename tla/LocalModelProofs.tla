-------------------------- MODULE LocalModelProofs --------------------------
(***************************************************************************)
(* Proofs about LocalModel, for any tokens, prompts, options and sizes: the *)
(* cache holds what the thread believes, an answer is read off its own      *)
(* prompt, a score takes each token once and after the right ones, and what *)
(* is let in finds room.                                                    *)
(*                                                                          *)
(* What the cache holds is proved about two caches, c and d, before and     *)
(* after: cut (Cuts), continued (Grows), or changed elsewhere (Copies).      *)
(***************************************************************************)
EXTENDS LocalModel, FiniteSetTheorems, TLAPS

\* Holds, of a given cache.
HoldsIn(c, s, text) ==
  LET own == {i \in Slot : s \in c[i].seqs}
  IN /\ \A i \in own : c[i].pos + 1 \in DOMAIN text /\ text[c[i].pos + 1] = c[i].tok
     /\ \A p \in DOMAIN text : \E i \in own : c[i].pos + 1 = p
     /\ \A i, j \in own : c[i].pos = c[j].pos => i = j

\* d is c after a removal.
Cleaned(c, d, ss, from) == \A i \in Slot :
  IF c[i].pos < from \/ c[i].seqs \cap ss = {} THEN d[i] = c[i]
  ELSE IF c[i].seqs \subseteq ss THEN d[i] = Free ELSE d[i] = [c[i] EXCEPT !.seqs = @ \ ss]

\* d is c with some items in free cells, one in each.
Placed(c, d, items) ==
  \E at \in [DOMAIN items -> {i \in Slot : c[i] = Free}] :
    /\ \A i, j \in DOMAIN items : at[i] = at[j] => i = j
    /\ \A i \in DOMAIN items : d[at[i]] = items[i]
    /\ \A k \in Slot : (\E i \in DOMAIN items : at[i] = k) \/ d[k] = c[k]

\* A cache, without the bounds on what its cells hold.
Cells == [Slot -> [tok : Token \cup {NoToken}, pos : Nat, seqs : SUBSET Nat]]

\* Cutting sequence 0 at n leaves the first n tokens of its text.
LEMMA Cuts ==
  ASSUME NEW c \in Cells, NEW d \in Cells, NEW text \in Seq(Token), NEW n \in 0 .. Len(text),
         HoldsIn(c, 0, text), Cleaned(c, d, {0}, n)
  PROVE  HoldsIn(d, 0, SubSeq(text, 1, n))
<1> DEFINE own == {i \in Slot : 0 \in c[i].seqs}
           left == {i \in Slot : 0 \in d[i].seqs}
           t == SubSeq(text, 1, n)
<1>1. left = {i \in own : c[i].pos < n} /\ \A i \in left : d[i] = c[i]
  <2>1. \A i \in Slot : 0 \in d[i].seqs <=> 0 \in c[i].seqs /\ c[i].pos < n
    <3> TAKE i \in Slot
    <3>1. c[i] = [tok |-> c[i].tok, pos |-> c[i].pos, seqs |-> c[i].seqs] /\ c[i].pos \in Nat
      BY DEF Cells
    <3>2. CASE c[i].pos < n \/ c[i].seqs \cap {0} = {}
      BY <3>2 DEF Cleaned
    <3>3. CASE ~(c[i].pos < n \/ c[i].seqs \cap {0} = {}) /\ c[i].seqs \subseteq {0}
      <4>1. d[i] = Free
        BY <3>3 DEF Cleaned
      <4> QED
        BY <4>1, <3>3 DEF Free
    <3>4. CASE ~(c[i].pos < n \/ c[i].seqs \cap {0} = {}) /\ ~(c[i].seqs \subseteq {0})
      <4>1. d[i] = [c[i] EXCEPT !.seqs = @ \ {0}]
        BY <3>4 DEF Cleaned
      <4>2. d[i].seqs = c[i].seqs \ {0}
        BY <4>1, <3>1
      <4> QED
        BY <4>2, <3>4
    <3> QED
      BY <3>2, <3>3, <3>4
  <2>2. \A i \in Slot : c[i].pos < n => d[i] = c[i]
    BY DEF Cleaned
  <2> QED
    BY <2>1, <2>2
<1>2. /\ DOMAIN t = 1 .. n /\ 1 .. n \subseteq DOMAIN text
      /\ \A p \in 1 .. n : t[p] = text[p]
  OBVIOUS
<1>3. \A i \in left : d[i].pos + 1 \in DOMAIN t /\ t[d[i].pos + 1] = d[i].tok
  BY <1>1, <1>2 DEF HoldsIn, Cells
<1>4. \A p \in DOMAIN t : \E i \in left : d[i].pos + 1 = p
  <2> TAKE p \in DOMAIN t
  <2>1. PICK i \in own : c[i].pos + 1 = p
    BY <1>2 DEF HoldsIn
  <2>2. c[i].pos \in Nat /\ p \in 1 .. n
    BY <1>2 DEF Cells
  <2> QED
    BY <2>1, <2>2, <1>1
<1>5. \A i, j \in left : d[i].pos = d[j].pos => i = j
  BY <1>1 DEF HoldsIn
<1> QED
  BY <1>3, <1>4, <1>5 DEF HoldsIn

\* A sequence whose text goes on, each new position in a cell that was free.
LEMMA Continues ==
  ASSUME NEW c \in Cells, NEW d \in Cells, NEW s, NEW items, Placed(c, d, items),
         NEW text \in Seq(Token), NEW longer \in Seq(Token),
         HoldsIn(c, s, text),
         Len(text) <= Len(longer), \A p \in 1 .. Len(text) : longer[p] = text[p],
         \A i \in DOMAIN items : s \in items[i].seqs =>
           /\ items[i].pos + 1 \in Len(text) + 1 .. Len(longer)
           /\ longer[items[i].pos + 1] = items[i].tok,
         \A p \in Len(text) + 1 .. Len(longer) :
           \E i \in DOMAIN items : s \in items[i].seqs /\ items[i].pos + 1 = p,
         \A i, j \in DOMAIN items :
           s \in items[i].seqs /\ s \in items[j].seqs /\ items[i].pos = items[j].pos => i = j
  PROVE  HoldsIn(d, s, longer)
<1> DEFINE own == {i \in Slot : s \in c[i].seqs}
           all == {i \in Slot : s \in d[i].seqs}
           more == {k \in DOMAIN items : s \in items[k].seqs}
<1>1. PICK at \in [DOMAIN items -> {i \in Slot : c[i] = Free}] :
        /\ \A i, j \in DOMAIN items : at[i] = at[j] => i = j
        /\ \A i \in DOMAIN items : d[at[i]] = items[i]
        /\ \A k \in Slot : (\E i \in DOMAIN items : at[i] = k) \/ d[k] = c[k]
  BY DEF Placed
<1>2. \A k \in more : at[k] \in all \ own /\ d[at[k]] = items[k]
  <2> TAKE k \in more
  <2>1. at[k] \in Slot /\ c[at[k]] = Free /\ d[at[k]] = items[k]
    BY <1>1
  <2> QED
    BY <2>1 DEF Free
<1>3. \A i \in own : i \in all /\ d[i] = c[i]
  BY <1>1 DEF Free
<1>4. \A i \in all : i \in own \/ \E k \in more : i = at[k]
  BY <1>1
<1>5. \A i \in own : c[i].pos \in Nat /\ c[i].pos + 1 \in 1 .. Len(text)
  BY DEF HoldsIn, Cells
<1>6. \A k \in more : items[k].pos \in Nat /\ items[k].pos + 1 > Len(text)
  BY <1>2 DEF Cells
<1>7. \A i \in all : d[i].pos + 1 \in DOMAIN longer /\ longer[d[i].pos + 1] = d[i].tok
  <2> TAKE i \in all
  <2>1. CASE i \in own
    BY <2>1, <1>3, <1>5 DEF HoldsIn
  <2>2. CASE i \notin own
    <3>1. PICK k \in more : i = at[k]
      BY <2>2, <1>4
    <3>2. d[i] = items[k]
      BY <3>1, <1>2
    <3> QED
      BY <3>2, <1>6
  <2> QED
    BY <2>1, <2>2
<1>8. \A p \in DOMAIN longer : \E i \in all : d[i].pos + 1 = p
  <2> TAKE p \in DOMAIN longer
  <2>1. CASE p \in DOMAIN text
    BY <2>1, <1>3 DEF HoldsIn
  <2>2. CASE p \notin DOMAIN text
    <3>1. p \in Len(text) + 1 .. Len(longer)
      BY <2>2
    <3>2. PICK k \in more : items[k].pos + 1 = p
      BY <3>1
    <3> QED
      BY <3>2, <1>2
  <2> QED
    BY <2>1, <2>2
<1>9. \A i, j \in all : d[i].pos = d[j].pos => i = j
  <2> TAKE i, j \in all
  <2> HAVE d[i].pos = d[j].pos
  <2>1. CASE i \in own /\ j \in own
    BY <2>1, <1>3 DEF HoldsIn
  <2>2. CASE i \notin own /\ j \notin own
    <3>1. PICK k \in more : i = at[k]
      BY <2>2, <1>4
    <3>2. PICK l \in more : j = at[l]
      BY <2>2, <1>4
    <3>3. k = l
      BY <3>1, <3>2, <1>2
    <3> QED
      BY <3>1, <3>2, <3>3
  <2>3. ASSUME NEW x \in own, NEW y \in all, y \notin own
        PROVE  d[x].pos # d[y].pos
    <3>1. PICK k \in more : y = at[k]
      BY <2>3, <1>4
    <3>2. d[x].pos = c[x].pos /\ d[y].pos = items[k].pos
      BY <3>1, <1>2, <1>3
    <3> QED
      BY <3>2, <1>5, <1>6
  <2> QED
    BY <2>1, <2>2, <2>3
<1> QED
  BY <1>7, <1>8, <1>9 DEF HoldsIn

\* Decoding tokens at the end of sequence 0 appends them to its text.
LEMMA Grows ==
  ASSUME NEW c \in Cells, NEW d \in Cells, NEW text \in Seq(Token), NEW more \in Seq(Token),
         HoldsIn(c, 0, text),
         Placed(c, d, [i \in DOMAIN more |->
                         [tok |-> more[i], pos |-> Len(text) + i - 1, seqs |-> {0}]])
  PROVE  HoldsIn(d, 0, text \o more)
<1> DEFINE items == [i \in DOMAIN more |->
                       [tok |-> more[i], pos |-> Len(text) + i - 1, seqs |-> {0}]]
           longer == text \o more
<1>1. /\ longer \in Seq(Token) /\ Len(longer) = Len(text) + Len(more)
      /\ \A p \in 1 .. Len(text) : longer[p] = text[p]
      /\ \A p \in 1 .. Len(more) : longer[Len(text) + p] = more[p]
      /\ DOMAIN items = 1 .. Len(more) /\ Len(text) \in Nat /\ Len(more) \in Nat
  OBVIOUS
<1>2. \A i \in DOMAIN items : /\ items[i].tok = more[i] /\ items[i].pos = Len(text) + i - 1
                             /\ items[i].seqs = {0}
  OBVIOUS
<1> HIDE DEF items, longer
<1>3. \A i \in DOMAIN items : /\ items[i].pos + 1 \in Len(text) + 1 .. Len(longer)
                             /\ longer[items[i].pos + 1] = items[i].tok
  <2> TAKE i \in DOMAIN items
  <2>1. items[i].pos + 1 = Len(text) + i /\ i \in 1 .. Len(more)
    BY <1>1, <1>2
  <2> QED
    BY <2>1, <1>1, <1>2
<1>4. \A p \in Len(text) + 1 .. Len(longer) :
        \E i \in DOMAIN items : 0 \in items[i].seqs /\ items[i].pos + 1 = p
  <2> TAKE p \in Len(text) + 1 .. Len(longer)
  <2>1. PICK q \in DOMAIN items : p = Len(text) + q
    <3>1. p - Len(text) \in DOMAIN items /\ p = Len(text) + (p - Len(text))
      BY <1>1
    <3> QED
      BY <3>1
  <2>2. items[q].pos + 1 = p /\ 0 \in items[q].seqs
    BY <2>1, <1>1, <1>2
  <2> QED
    BY <2>2
<1>5. \A i, j \in DOMAIN items : items[i].pos = items[j].pos => i = j
  BY <1>1, <1>2
<1>6. Placed(c, d, items) /\ Len(text) <= Len(longer)
  BY <1>1 DEF items
<1>7. HoldsIn(d, 0, longer)
  BY <1>1, <1>3, <1>4, <1>5, <1>6, Continues
<1> QED
  BY <1>7 DEF longer

\* A sequence holds what another held when it has got the same cells.
LEMMA Copies ==
  ASSUME NEW c \in Cells, NEW d \in Cells, NEW text \in Seq(Token), NEW r, NEW s, HoldsIn(c, r, text),
         \A i \in Slot : /\ s \in d[i].seqs <=> r \in c[i].seqs
                         /\ r \in c[i].seqs => d[i].pos = c[i].pos /\ d[i].tok = c[i].tok
  PROVE  HoldsIn(d, s, text)
<1>1. {i \in Slot : s \in d[i].seqs} = {i \in Slot : r \in c[i].seqs}
  OBVIOUS
<1> QED
  BY <1>1 DEF HoldsIn

-----------------------------------------------------------------------------
\* The type of the cache, without its bounds.
LEMMA CellsAre ==
  ASSUME cells \in [Slot -> Cell]
  PROVE  cells \in Cells
BY LocalModelAssumption DEF Cells, Cell, Free

\* What a removal leaves, cell by cell.
LEMMA RemovedStep ==
  ASSUME cells \in [Slot -> Cell], NEW ss, NEW from, Removed(ss, from)
  PROVE  cells' \in [Slot -> Cell] /\ Cleaned(cells, cells', ss, from)
<1>1. Cleaned(cells, cells', ss, from)
  BY DEF Removed, Cleaned
<1>2. ASSUME NEW i \in Slot
      PROVE  cells'[i] \in Cell
  <2>1. cells[i] \in Cell
    OBVIOUS
  <2>2. CASE ~(cells[i].pos < from \/ cells[i].seqs \cap ss = {}) /\ ~(cells[i].seqs \subseteq ss)
    <3>1. cells'[i] = [cells[i] EXCEPT !.seqs = @ \ ss]
      BY <2>2 DEF Removed
    <3>2. cells[i] # Free
      BY <2>2 DEF Free
    <3>3. cells[i] \in [tok : Token, pos : 0 .. NCtx - 1, seqs : (SUBSET (0 .. PerRound)) \ {{}}]
      BY <2>1, <3>2 DEF Cell
    <3>4. cells[i].seqs \ ss \in (SUBSET (0 .. PerRound)) \ {{}}
      BY <3>3, <2>2
    <3> QED
      BY <3>1, <3>3, <3>4 DEF Cell
  <2>3. CASE cells[i].pos < from \/ cells[i].seqs \cap ss = {}
    BY <2>3, <2>1 DEF Removed
  <2>4. CASE ~(cells[i].pos < from \/ cells[i].seqs \cap ss = {}) /\ cells[i].seqs \subseteq ss
    <3>1. cells'[i] = Free
      BY <2>4 DEF Removed
    <3> QED
      BY <3>1 DEF Cell
  <2> QED
    BY <2>2, <2>3, <2>4
<1>3. cells' = [i \in Slot |-> cells'[i]]
  BY DEF Removed
<1> QED
  BY <1>1, <1>2, <1>3

\* Forking adds sequences to the prompt's cells and changes nothing else.
LEMMA SharedStep ==
  ASSUME cells \in [Slot -> Cell], NEW ss \in SUBSET (0 .. PerRound), Shared(ss)
  PROVE  /\ cells' \in [Slot -> Cell]
         /\ \A i \in Slot : /\ 0 \in cells'[i].seqs <=> 0 \in cells[i].seqs
                           /\ cells'[i].pos = cells[i].pos /\ cells'[i].tok = cells[i].tok
                           /\ cells'[i].seqs = cells[i].seqs
                                \cup IF 0 \in cells[i].seqs THEN ss ELSE {}
<1>1. ASSUME NEW i \in Slot
      PROVE  /\ cells'[i] \in Cell
             /\ 0 \in cells'[i].seqs <=> 0 \in cells[i].seqs
             /\ cells'[i].pos = cells[i].pos /\ cells'[i].tok = cells[i].tok
             /\ cells'[i].seqs = cells[i].seqs \cup IF 0 \in cells[i].seqs THEN ss ELSE {}
  <2>1. cells[i] \in Cell
    OBVIOUS
  <2>2. CASE 0 \in cells[i].seqs
    <3>1. cells'[i] = [cells[i] EXCEPT !.seqs = @ \cup ss]
      BY <2>2 DEF Shared
    <3>2. cells[i] \in [tok : Token, pos : 0 .. NCtx - 1, seqs : (SUBSET (0 .. PerRound)) \ {{}}]
      BY <2>1, <2>2 DEF Cell, Free
    <3>3. cells[i].seqs \cup ss \in (SUBSET (0 .. PerRound)) \ {{}}
      <4>1. cells[i].seqs \in SUBSET (0 .. PerRound) /\ cells[i].seqs # {}
        BY <3>2
      <4> QED
        BY <4>1
    <3>4. /\ cells'[i] \in [tok : Token, pos : 0 .. NCtx - 1, seqs : (SUBSET (0 .. PerRound)) \ {{}}]
          /\ cells'[i].seqs = cells[i].seqs \cup ss
          /\ cells'[i].pos = cells[i].pos /\ cells'[i].tok = cells[i].tok
      BY <3>1, <3>2, <3>3
    <3> QED
      BY <3>4, <2>2 DEF Cell
  <2>3. CASE 0 \notin cells[i].seqs
    BY <2>3, <2>1 DEF Shared
  <2> QED
    BY <2>2, <2>3
<1>2. cells' = [i \in Slot |-> cells'[i]]
  BY DEF Shared
<1> QED
  BY <1>1, <1>2

\* A decode puts each token into a cell of its own, which was free.
LEMMA DecodedStep ==
  ASSUME cells \in [Slot -> Cell], NEW n \in Nat, NEW items \in [1 .. n -> Cell \ {Free}],
         Decoded(items)
  PROVE  cells' \in [Slot -> Cell] /\ Placed(cells, cells', items)
<1>1. PICK at \in [DOMAIN items -> FreeSlots] :
        /\ \A i, j \in DOMAIN items : i < j => at[i] < at[j]
        /\ cells' = [k \in Slot |-> IF \E i \in DOMAIN items : at[i] = k
                                    THEN items[CHOOSE i \in DOMAIN items : at[i] = k] ELSE cells[k]]
  BY DEF Decoded
<1>2. \A i \in DOMAIN items : i \in Int /\ at[i] \in Slot /\ at[i] \in Int
  BY DEF FreeSlots, Slot
<1>3. \A i, j \in DOMAIN items : at[i] = at[j] => i = j
  BY <1>1, <1>2
<1>4. \A i \in DOMAIN items : cells'[at[i]] = items[i]
  <2> TAKE i \in DOMAIN items
  <2> DEFINE first == CHOOSE j \in DOMAIN items : at[j] = at[i]
  <2>1. first \in DOMAIN items /\ at[first] = at[i]
    OBVIOUS
  <2>2. first = i
    BY <2>1, <1>3
  <2>3. cells'[at[i]] = items[first]
    BY <1>1, <1>2
  <2> QED
    BY <2>2, <2>3
<1>5. \A k \in Slot : (\E i \in DOMAIN items : at[i] = k) \/ cells'[k] = cells[k]
  BY <1>1
<1>6. \A k \in Slot : cells'[k] \in Cell
  BY <1>4, <1>5
<1>7. cells' = [k \in Slot |-> cells'[k]]
  BY <1>1
<1> QED
  BY <1>1, <1>3, <1>4, <1>5, <1>6, <1>7 DEF Placed, FreeSlots
-----------------------------------------------------------------------------
\* What is in work was let in.
Task == stage \notin {"idle", "gone"} => prompt \in Prompt /\ Fits(prompt, options, goal)

\* The loops of score stand within the round.
InLoops ==
  /\ next[1] > offset /\ (next[1] \in Round => next[2] \in DOMAIN options[next[1]])
  /\ \A i \in DOMAIN batch :
       batch[i][1] \in Round /\ batch[i][2] \in DOMAIN options[batch[i][1]]

\* What the list and the logits are at each stage.
Progress ==
  /\ stage = "prefilling" => /\ IsPrefix(cached, prompt) /\ made = 0
                             /\ (logits = <<>> /\ cached # prompt) \/ logits = cached
  /\ stage \in {"forking", "scoring", "scored"} => cached = prompt
  /\ stage = "generating" => /\ logits = cached /\ IsPrefix(prompt, cached)
                             /\ Len(cached) = Len(prompt) + made
  /\ stage = "scoring" => InLoops

\* The inductive invariant.
Inv == TypeOK /\ Task /\ Progress /\ CacheInSync

\* The constants and the lengths.
LEMMA Constants ==
  /\ NCtx \in Nat \ {0} /\ Batch \in Nat \ {0} /\ PerRound \in Nat \ {0}
  /\ Prompt \subseteq Seq(Token) /\ Menu \subseteq Seq(Seq(Token)) /\ Budget \subseteq Nat
  /\ <<>> \notin Prompt /\ \A o \in Menu : \A k \in DOMAIN o : o[k] # <<>>
BY LocalModelAssumption

\* What is in work, in sequences and numbers.
LEMMA Types ==
  ASSUME TypeOK
  PROVE  /\ prompt \in Seq(Token) /\ options \in Seq(Seq(Token)) /\ goal \in Nat
         /\ offset \in Nat /\ made \in Nat /\ asked \in Nat
         /\ \A k \in DOMAIN options : options[k] \in Seq(Token) /\ options[k] # <<>>
<1>1. options \in Seq(Seq(Token)) /\ (options = <<>> \/ options \in Menu)
  BY Constants DEF TypeOK
<1>2. prompt \in Seq(Token) /\ goal \in Nat
  <2>1. goal \in Nat
    BY Constants DEF TypeOK
  <2>2. prompt \in Prompt \/ prompt = <<>>
    BY DEF TypeOK
  <2>3. <<>> \in Seq(Token)
    OBVIOUS
  <2> QED
    BY <2>1, <2>2, <2>3, Constants
<1>3. offset \in Nat /\ made \in Nat /\ asked \in Nat
  BY <1>1, <1>2, LocalModelAssumption DEF TypeOK
<1>4. \A k \in DOMAIN options : options[k] \in Seq(Token) /\ options[k] # <<>>
  BY <1>1, Constants
<1> QED
  BY <1>1, <1>2, <1>3, <1>4

\* The options of a round exist, and each has a sequence of its own.
LEMMA Rounds ==
  ASSUME TypeOK
  PROVE  /\ Round \subseteq 1 .. Len(options)
         /\ \A k \in Round : k - offset \in 1 .. PerRound
         /\ offset + Cardinality(Round) \in 0 .. Len(options)
         /\ Cardinality(Round) \in Nat /\ Round = offset + 1 .. offset + Cardinality(Round)
<1> DEFINE last == IF offset + PerRound < Len(options) THEN offset + PerRound ELSE Len(options)
<1>1. /\ offset \in Nat /\ Len(options) \in Nat /\ PerRound \in Nat /\ offset <= Len(options)
  BY Types, Constants DEF TypeOK
<1>2. last \in Nat /\ offset <= last /\ last <= Len(options) /\ last <= offset + PerRound
  BY <1>1
<1>3. Cardinality(offset + 1 .. last) = last - offset
  <2> HIDE DEF last
  <2>1. offset + 1 \in Int /\ last \in Int
    BY <1>1, <1>2
  <2>2. Cardinality(offset + 1 .. last) = IF offset + 1 > last THEN 0 ELSE last - (offset + 1) + 1
    BY <2>1, FS_Interval
  <2> QED
    BY <1>1, <1>2, <2>2
<1> QED
  BY <1>1, <1>2, <1>3 DEF Round

\* Those are options from offset on.
LEMMA InRound ==
  ASSUME TypeOK, NEW k \in Round
  PROVE  k \in DOMAIN options /\ k \in Nat /\ offset \in Nat /\ k > offset
<1>1. offset \in Nat /\ DOMAIN options = 1 .. Len(options)
  BY Types
<1>2. k \in 1 .. Len(options) /\ k - offset \in 1 .. PerRound /\ PerRound \in Nat
  BY Rounds, Constants
<1> QED
  BY <1>1, <1>2

\* An option has a number of tokens in the batch.
LEMMA Counts ==
  ASSUME TypeOK, NEW k
  PROVE  InBatch(k) \in Nat
<1>1. IsFiniteSet(1 .. Len(batch))
  BY FS_Interval DEF TypeOK
<1>2. {i \in DOMAIN batch : batch[i][1] = k} \subseteq 1 .. Len(batch)
  BY DEF TypeOK
<1> QED
  BY <1>1, <1>2, FS_Subset, FS_CardinalityType DEF InBatch
-----------------------------------------------------------------------------
\* The part of TypeOK about requests.
Requests ==
  /\ held \in BOOLEAN /\ asked \in 0 .. MaxAsked
  /\ waiting \in 0 .. asked /\ jobs \in Seq(1 .. asked) /\ job \in 0 .. asked

\* The rest of it.
Work ==
  /\ stage \in Stages
  /\ prompt \in Prompt \cup {<<>>} /\ options \in Menu \cup {<<>>} /\ goal \in Budget \cup {0}
  /\ logits \in Seq(Token) /\ cached \in Seq(Token)
  /\ offset \in 0 .. Len(options) /\ made \in 0 .. goal
  /\ next \in Nat \X Nat /\ batch \in Seq(Nat \X Nat)
  /\ tally \in [DOMAIN options -> Nat]
  /\ cells \in [Slot -> Cell] /\ torn \in BOOLEAN

\* The part of Inv that the thread's work may disturb.
Kept == Work /\ Task /\ Progress /\ CacheInSync

workVars == <<stage, prompt, options, goal, logits, scoreVars, made, cacheVars, torn>>

\* The invariant in two parts: the requests, and the work of the thread.
LEMMA Parts == Inv <=> Requests /\ Kept
BY DEF Inv, Kept, TypeOK, Requests, Work

\* The cache holds the list, before and after a step.
LEMMA SyncIs == /\ CacheInSync <=> HoldsIn(cells, 0, cached)
                /\ CacheInSync' <=> HoldsIn(cells', 0, cached')
BY DEF CacheInSync, Holds, Own, HoldsIn

\* Steps that leave the work alone.
LEMMA Rests ==
  ASSUME Kept, UNCHANGED workVars
  PROVE  Kept'
BY DEF Kept, Work, Task, Progress, InLoops, Round, Fits, CacheInSync, Holds, Own, IsPrefix,
       workVars, scoreVars, cacheVars

\* Steps that end it.
LEMMA Leaves ==
  ASSUME Kept, stage' \in {"idle", "gone"}, torn' \in BOOLEAN,
         UNCHANGED <<prompt, options, goal, logits, scoreVars, made, cacheVars>>
  PROVE  Kept'
<1>1. Work'
  BY DEF Kept, Work, Stages, scoreVars, cacheVars
<1>2. Task' /\ Progress'
  BY DEF Task, Progress
<1>3. CacheInSync'
  BY DEF Kept, CacheInSync, Holds, Own, cacheVars
<1> QED
  BY <1>1, <1>2, <1>3 DEF Kept

\* A request is begun: what the cache shares with its prompt is kept.
LEMMA BeginsKept ==
  ASSUME Inv, NEW p \in Prompt, NEW o \in Menu \cup {<<>>}, NEW g \in Budget \cup {0},
         Begins(p, o, g), UNCHANGED torn
  PROVE  Kept'
<1>1. PICK n \in 0 .. Len(p) : Keeps(p, n) /\ Trims(n)
  BY DEF Begins
<1>2. /\ cells \in [Slot -> Cell] /\ cells \in Cells /\ cached \in Seq(Token)
      /\ HoldsIn(cells, 0, cached)
  BY CellsAre, SyncIs DEF Inv, TypeOK
<1>3. p \in Seq(Token) /\ o \in Seq(Seq(Token)) /\ g \in Nat
  <2>1. <<>> \in Seq(Seq(Token))
    OBVIOUS
  <2>2. o \in Seq(Seq(Token))
    BY <2>1, Constants
  <2>3. p \in Seq(Token) /\ g \in Nat
    BY Constants
  <2> QED
    BY <2>2, <2>3
<1>4. /\ n < Len(p) /\ n <= Len(cached) /\ n \in Nat
      /\ SubSeq(cached, 1, n) = SubSeq(p, 1, n) /\ cached' = SubSeq(cached, 1, n)
  BY <1>1, <1>2, <1>3 DEF Keeps, Agree, Trims
<1>5. /\ cached' \in Seq(Token) /\ Len(cached') = n /\ cached' = SubSeq(p, 1, n)
      /\ SubSeq(cached', 1, n) = SubSeq(p, 1, n)
  BY <1>2, <1>3, <1>4
<1>6. cells' \in [Slot -> Cell] /\ Cleaned(cells, cells', {0}, n)
  BY <1>1, <1>2, RemovedStep DEF Trims
<1>7. cells' \in Cells
  BY <1>6, CellsAre, LocalModelAssumption DEF Cells, Cell, Free
<1>8. CacheInSync'
  BY <1>2, <1>4, <1>6, <1>7, Cuts, SyncIs
<1>9. Work'
  <2>1. /\ stage' \in Stages /\ prompt' \in Prompt /\ options' \in Menu \cup {<<>>}
        /\ goal' \in Budget \cup {0} /\ logits' \in Seq(Token)
    <3>1. stage' = "prefilling" /\ prompt' = p /\ options' = o /\ goal' = g /\ logits' = <<>>
      BY DEF Begins
    <3> QED
      BY <3>1 DEF Stages
  <2>2. offset' \in 0 .. Len(options') /\ made' \in 0 .. goal'
    <3>1. offset' = 0 /\ made' = 0 /\ options' = o /\ goal' = g
      BY DEF Begins
    <3> QED
      BY <3>1, <1>3
  <2>3. next' \in Nat \X Nat /\ batch' \in Seq(Nat \X Nat) /\ tally' \in [DOMAIN options' -> Nat]
    BY DEF Begins
  <2>4. torn' \in BOOLEAN
    BY DEF Inv, TypeOK
  <2> QED
    BY <2>1, <2>2, <2>3, <2>4, <1>5, <1>6 DEF Work
<1>10. Task'
  BY DEF Begins, Task, Fits
<1>11. Progress'
  <2>1. stage' = "prefilling" /\ prompt' = p /\ logits' = <<>> /\ made' = 0
    BY DEF Begins
  <2>2. cached' # p
    BY <1>4, <1>5
  <2>3. IsPrefix(cached', p)
    BY <1>3, <1>4, <1>5 DEF IsPrefix
  <2> QED
    BY <2>1, <2>2, <2>3 DEF Progress, IsPrefix
<1> QED
  BY <1>8, <1>9, <1>10, <1>11 DEF Kept

\* Sequence 0 goes on with some tokens (a prompt's, or a generated one).
LEMMA Extends ==
  ASSUME Inv, NEW more \in Seq(Token), Len(cached) + Len(more) <= NCtx, Reads(more)
  PROVE  cells' \in [Slot -> Cell] /\ cached' \in Seq(Token) /\ CacheInSync'
<1> DEFINE items == [i \in DOMAIN more |->
                       [tok |-> more[i], pos |-> Len(cached) + i - 1, seqs |-> {0}]]
<1>1. /\ cells \in [Slot -> Cell] /\ cells \in Cells /\ cached \in Seq(Token)
      /\ HoldsIn(cells, 0, cached)
  BY CellsAre, SyncIs DEF Inv, TypeOK
<1>2. items \in [1 .. Len(more) -> Cell \ {Free}]
  <2>0. DOMAIN more = 1 .. Len(more) /\ Len(more) \in Nat
    OBVIOUS
  <2> SUFFICES ASSUME NEW i \in 1 .. Len(more)
               PROVE  items[i] \in Cell \ {Free}
    BY <2>0
  <2>1. /\ items[i] = [tok |-> more[i], pos |-> Len(cached) + i - 1, seqs |-> {0}]
        /\ more[i] \in Token
    BY <2>0
  <2>2. Len(cached) + i - 1 \in 0 .. NCtx - 1
    BY <1>1, Constants
  <2>3. {0} \in (SUBSET (0 .. PerRound)) \ {{}}
    BY Constants
  <2>4. items[i] # Free
    BY <2>1, LocalModelAssumption DEF Free
  <2> QED
    BY <2>1, <2>2, <2>3, <2>4 DEF Cell
<1>3. cells' \in [Slot -> Cell] /\ Placed(cells, cells', items)
  <2>1. Len(more) \in Nat /\ Decoded(items)
    BY DEF Reads
  <2> HIDE DEF items
  <2> QED
    BY <2>1, <1>1, <1>2, DecodedStep
<1>4. cells' \in Cells
  BY <1>3, CellsAre, LocalModelAssumption DEF Cells, Cell, Free
<1>5. HoldsIn(cells', 0, cached')
  BY <1>1, <1>3, <1>4, Grows DEF Reads
<1>6. cached' \in Seq(Token)
  BY <1>1 DEF Reads
<1> QED
  BY <1>3, <1>5, <1>6, SyncIs

\* A chunk of the prompt is decoded.
LEMMA PrefillsKept ==
  ASSUME Inv, Prefills
  PROVE  Kept'
<1>1. /\ stage = "prefilling" /\ cached # prompt /\ IsPrefix(cached, prompt) /\ made = 0
      /\ cached \in Seq(Token) /\ prompt \in Seq(Token) /\ Fits(prompt, options, goal)
      /\ goal \in Nat /\ Batch \in Nat \ {0} /\ NCtx \in Nat
  BY Types, Constants DEF Prefills, Inv, Task, Progress, TypeOK
<1>2. Len(prompt) < NCtx
  BY <1>1 DEF Fits
<1> DEFINE last == IF Len(cached) + Batch < Len(prompt) THEN Len(cached) + Batch ELSE Len(prompt)
<1>3. Len(cached) < Len(prompt)
  BY <1>1 DEF IsPrefix
<1>4. last \in Nat /\ Len(cached) < last /\ last <= Len(prompt)
  BY <1>1, <1>3
<1>5. Chunk = SubSeq(prompt, Len(cached) + 1, last)
  BY DEF Chunk
<1>6. Chunk \in Seq(Token) /\ Len(Chunk) = last - Len(cached)
  BY <1>1, <1>4, <1>5
<1>7. cached \o Chunk = SubSeq(prompt, 1, last)
  <2>1. \A p \in 1 .. Len(cached) : cached[p] = prompt[p]
    <3>1. cached = SubSeq(cached, 1, Len(cached)) /\ SubSeq(cached, 1, Len(cached)) = SubSeq(prompt, 1, Len(cached))
      BY <1>1 DEF IsPrefix
    <3> QED
      BY <3>1, <1>1, <1>3
  <2>2. \A p \in 1 .. last - Len(cached) : Chunk[p] = prompt[Len(cached) + p]
    BY <1>1, <1>4, <1>5
  <2> HIDE DEF last
  <2> QED
    BY <2>1, <2>2, <1>1, <1>4, <1>6
<1>8. cells' \in [Slot -> Cell] /\ cached' \in Seq(Token) /\ CacheInSync'
  <2>1. Len(cached) + Len(Chunk) <= NCtx
    BY <1>1, <1>2, <1>4, <1>6
  <2> QED
    BY <2>1, <1>6, Extends DEF Prefills
<1>9. Work'
  BY <1>8 DEF Inv, TypeOK, Prefills, Reads, queryVars, scoreVars, Work
<1>10. Task'
  BY DEF Inv, Task, Prefills, queryVars, Fits
<1>11. Progress'
  <2>1. /\ stage' = "prefilling" /\ prompt' = prompt /\ made' = 0
        /\ logits' = cached' /\ cached' = SubSeq(prompt, 1, last)
    BY <1>1, <1>7 DEF Prefills, Reads, queryVars
  <2>2. IsPrefix(cached', prompt)
    BY <2>1, <1>1, <1>4 DEF IsPrefix
  <2> QED
    BY <2>1, <2>2 DEF Progress, IsPrefix
<1> QED
  BY <1>8, <1>9, <1>10, <1>11 DEF Kept

\* The prompt is there.
LEMMA PrefilledKept ==
  ASSUME Inv, Prefilled
  PROVE  Kept'
<1>1. /\ stage = "prefilling" /\ cached = prompt /\ logits = cached
      /\ stage' \in {"generating", "forking"}
  BY DEF Prefilled, Inv, Progress
<1>2. Work'
  BY <1>1 DEF Inv, TypeOK, Prefilled, queryVars, scoreVars, cacheVars, Work, Stages
<1>3. Task'
  BY <1>1 DEF Inv, Task, Prefilled, queryVars, Fits
<1>4. CacheInSync'
  BY SyncIs DEF Inv, Prefilled, cacheVars
<1>5. made = 0
  BY <1>1 DEF Inv, Progress
<1>6. Progress'
  <2>1. cached \in Seq(Token)
    BY DEF Inv, TypeOK
  <2> QED
    BY <2>1, <1>1, <1>5 DEF Prefilled, queryVars, cacheVars, Progress, IsPrefix
<1> QED
  BY <1>2, <1>3, <1>4, <1>6 DEF Kept

\* A token is generated.
LEMMA GeneratesKept ==
  ASSUME Inv, NEW t \in Token, Generates(t)
  PROVE  Kept'
<1>1. /\ stage = "generating" /\ IsPrefix(prompt, cached) /\ Len(cached) = Len(prompt) + made
      /\ cached \in Seq(Token) /\ prompt \in Seq(Token) /\ Fits(prompt, options, goal)
      /\ made < goal /\ made \in Nat /\ goal \in Nat /\ NCtx \in Nat
  BY Types, Constants DEF Generates, Inv, Task, Progress, TypeOK
<1>2. Len(prompt) + goal < NCtx
  BY <1>1 DEF Fits
<1> DEFINE more == <<t>>
<1>3. more \in Seq(Token) /\ Len(more) = 1 /\ DOMAIN more = {1} /\ more[1] = t
  OBVIOUS
<1>4. Reads(more)
  BY DEF Generates
<1>5. cached' = Append(cached, t)
  BY <1>1, <1>4 DEF Reads
<1>6. cells' \in [Slot -> Cell] /\ cached' \in Seq(Token) /\ CacheInSync'
  <2>1. Len(cached) + Len(more) <= NCtx
    BY <1>1, <1>2, <1>3
  <2> HIDE DEF more
  <2> QED
    BY <2>1, <1>3, <1>4, Extends
<1>7. Work'
  BY <1>1, <1>4, <1>6 DEF Inv, TypeOK, Generates, Reads, queryVars, scoreVars, Work
<1>8. Task'
  BY DEF Inv, Task, Generates, queryVars, Fits
<1>9. Progress'
  <2>1. stage' = "generating" /\ prompt' = prompt /\ logits' = cached' /\ made' = made + 1
    BY <1>1, <1>4 DEF Generates, Reads, queryVars
  <2>2. IsPrefix(prompt, cached') /\ Len(cached') = Len(prompt) + made + 1
    <3>2. Len(cached') = Len(cached) + 1 /\ \A p \in 1 .. Len(cached) : cached'[p] = cached[p]
      BY <1>1, <1>5
    <3>3. SubSeq(cached', 1, Len(prompt)) = SubSeq(cached, 1, Len(prompt))
      BY <3>2, <1>1, <1>6
    <3> QED
      BY <3>2, <3>3, <1>1, <1>6 DEF IsPrefix
  <2> QED
    BY <2>1, <2>2, <1>1 DEF Progress, IsPrefix
<1> QED
  BY <1>6, <1>7, <1>8, <1>9 DEF Kept

\* A round begins: its first option exists and has a first token.
LEMMA ForksKept ==
  ASSUME Inv, Forks
  PROVE  Kept'
<1>1. /\ stage = "forking" /\ stage' = "scoring" /\ cached = prompt
      /\ next' = <<offset + 1, 1>> /\ batch' = <<>> /\ offset \in Nat
  BY Types DEF Forks, Inv, Progress
<1>2. {k - offset : k \in Round} \in SUBSET (0 .. PerRound)
  BY Rounds, Constants DEF Inv
<1>3. /\ cells \in [Slot -> Cell] /\ cells \in Cells /\ cached \in Seq(Token)
      /\ HoldsIn(cells, 0, cached)
  BY CellsAre, SyncIs DEF Inv, TypeOK
<1>4. /\ cells' \in [Slot -> Cell]
      /\ \A i \in Slot : /\ 0 \in cells'[i].seqs <=> 0 \in cells[i].seqs
                        /\ cells'[i].pos = cells[i].pos /\ cells'[i].tok = cells[i].tok
  BY <1>2, <1>3, SharedStep DEF Forks
<1>5. cells' \in Cells
  BY <1>4, CellsAre, LocalModelAssumption DEF Cells, Cell, Free
<1>6. CacheInSync'
  BY <1>3, <1>4, <1>5, Copies, SyncIs DEF Forks
<1>7. Work'
  <2>1. next' \in Nat \X Nat /\ batch' \in Seq(Nat \X Nat) /\ stage' \in Stages
    BY <1>1 DEF Stages
  <2> QED
    BY <2>1, <1>4 DEF Inv, TypeOK, Forks, queryVars, Work
<1>8. Task'
  BY <1>1 DEF Inv, Task, Forks, queryVars, Fits
<1>9. Progress'
  <2>1. UNCHANGED <<offset, options, prompt, cached>>
    BY DEF Forks, queryVars
  <2>2. Round' = Round /\ Round \subseteq 1 .. Len(options)
    BY <2>1, Rounds DEF Round, Inv
  <2>3. offset + 1 \in Round => 1 \in DOMAIN options[offset + 1]
    <3> SUFFICES ASSUME offset + 1 \in Round
                 PROVE  1 \in DOMAIN options[offset + 1]
      OBVIOUS
    <3>1. offset + 1 \in DOMAIN options
      BY <2>2, Types DEF Inv
    <3>2. options[offset + 1] \in Seq(Token) /\ options[offset + 1] # <<>>
      BY <3>1, Types DEF Inv
    <3> QED
      BY <3>2
  <2>4. InLoops'
    BY <1>1, <2>1, <2>2, <2>3 DEF InLoops
  <2> QED
    BY <1>1, <2>1, <2>4 DEF Progress
<1> QED
  BY <1>6, <1>7, <1>8, <1>9 DEF Kept

\* A token of an option joins the batch.
LEMMA BatchesKept ==
  ASSUME Inv, Batches
  PROVE  Kept'
<1>1. /\ stage = "scoring" /\ cached = prompt /\ InLoops /\ next[1] \in Round
      /\ batch' = Append(batch, next) /\ batch \in Seq(Nat \X Nat) /\ next \in Nat \X Nat
      /\ next' = IF next[2] < Len(options[next[1]]) THEN <<next[1], next[2] + 1>> ELSE <<next[1] + 1, 1>>
      /\ UNCHANGED <<stage, prompt, options, goal, logits, offset, tally, made, cells, cached, torn>>
  BY DEF Batches, Inv, Progress, TypeOK, queryVars, cacheVars
<1>2. options[next[1]] \in Seq(Token) /\ next[2] \in 1 .. Len(options[next[1]])
  <2>1. next[1] \in DOMAIN options
    BY <1>1, Types, Rounds DEF Inv
  <2>2. options[next[1]] \in Seq(Token)
    BY <2>1, Types DEF Inv
  <2> QED
    BY <2>2, <1>1 DEF InLoops
<1>3. next' \in Nat \X Nat /\ batch' \in Seq(Nat \X Nat)
  BY <1>1
<1>4. Work'
  BY <1>1, <1>3 DEF Inv, TypeOK, Work
<1>5. Task'
  BY <1>1 DEF Inv, Task, Fits
<1>6. CacheInSync'
  BY <1>1, SyncIs DEF Inv
<1>7. InLoops'
  <2>1. Round' = Round /\ offset' = offset /\ options' = options
    BY <1>1 DEF Round
  <2>2. next'[1] > offset
    BY <1>1, Types DEF InLoops, Inv
  <2>3. next'[1] \in Round => next'[2] \in DOMAIN options[next'[1]]
    <3> SUFFICES ASSUME next'[1] \in Round
                 PROVE  next'[2] \in DOMAIN options[next'[1]]
      OBVIOUS
    <3>1. CASE next[2] < Len(options[next[1]])
      <4>1. next' = <<next[1], next[2] + 1>>
        BY <1>1, <3>1
      <4>2. next'[1] = next[1] /\ next'[2] = next[2] + 1
        BY <4>1
      <4>3. next[2] + 1 \in 1 .. Len(options[next[1]])
        BY <1>2, <3>1
      <4> QED
        BY <4>2, <4>3, <1>2
    <3>2. CASE ~(next[2] < Len(options[next[1]]))
      <4>1. next' = <<next[1] + 1, 1>>
        BY <1>1, <3>2
      <4>2. next'[1] \in DOMAIN options /\ next'[2] = 1
        BY <4>1, Types, Rounds DEF Inv
      <4>3. options[next'[1]] \in Seq(Token) /\ options[next'[1]] # <<>>
        BY <4>2, Types DEF Inv
      <4> QED
        BY <4>2, <4>3
    <3> QED
      BY <3>1, <3>2
  <2>4. ASSUME NEW i \in DOMAIN batch'
        PROVE  batch'[i][1] \in Round /\ batch'[i][2] \in DOMAIN options[batch'[i][1]]
    <3>1. DOMAIN batch = 1 .. Len(batch) /\ DOMAIN batch' = 1 .. Len(batch) + 1
      BY <1>1
    <3>2. CASE i \in DOMAIN batch
      <4>1. batch'[i] = batch[i]
        BY <1>1, <3>1, <3>2
      <4> QED
        BY <4>1, <3>2, <1>1 DEF InLoops
    <3>3. CASE i \notin DOMAIN batch
      <4>1. batch'[i] = next
        BY <1>1, <3>1, <3>3
      <4> QED
        BY <4>1, <1>1 DEF InLoops
    <3> QED
      BY <3>2, <3>3
  <2> QED
    BY <2>1, <2>2, <2>3, <2>4 DEF InLoops
<1>8. Progress'
  BY <1>1, <1>7 DEF Progress
<1> QED
  BY <1>4, <1>5, <1>6, <1>8 DEF Kept

\* What a full batch puts into the cache.
Items == [i \in DOMAIN batch |-> [tok  |-> options[batch[i][1]][batch[i][2]],
                                 pos  |-> Len(prompt) + batch[i][2] - 1,
                                 seqs |-> {batch[i][1] - offset}]]

\* Its tokens take cells that were free, and none of sequence 0.
LEMMA FlushesStep ==
  ASSUME Inv, Flushes
  PROVE  /\ DOMAIN Items = DOMAIN batch /\ \A i \in DOMAIN batch : 0 \notin Items[i].seqs
         /\ cells' \in [Slot -> Cell] /\ Placed(cells, cells', Items)
<1>1. /\ stage = "scoring" /\ cached = prompt /\ InLoops /\ Fits(prompt, options, goal)
      /\ batch \in Seq(Nat \X Nat) /\ prompt \in Seq(Token)
      /\ Decoded(Items) /\ batch' = <<>> /\ tally' = [k \in DOMAIN tally |-> Folded(k)]
      /\ UNCHANGED <<stage, prompt, options, goal, logits, offset, next, made, cached, torn>>
  BY DEF Flushes, Flushing, Items, Inv, Task, Progress, TypeOK, queryVars
<1>2. /\ cells \in [Slot -> Cell] /\ cells \in Cells /\ cached \in Seq(Token)
      /\ HoldsIn(cells, 0, cached)
  BY CellsAre, SyncIs DEF Inv, TypeOK
<1>3. \A i \in DOMAIN batch : Items[i] \in Cell \ {Free} /\ 0 \notin Items[i].seqs
  <2> TAKE i \in DOMAIN batch
  <2> DEFINE k == batch[i][1]
             j == batch[i][2]
  <2>1. k \in DOMAIN options /\ k - offset \in 1 .. PerRound /\ j \in DOMAIN options[k]
    <3>1. k \in Round /\ j \in DOMAIN options[k]
      BY <1>1 DEF InLoops
    <3>2. DOMAIN options = 1 .. Len(options)
      BY Types DEF Inv
    <3> HIDE DEF k, j
    <3> QED
      BY <3>1, <3>2, Rounds DEF Inv
  <2>2. options[k] \in Seq(Token)
    BY <2>1, Types DEF Inv
  <2>3. options[k][j] \in Token /\ j \in 1 .. Len(options[k]) /\ Len(options[k]) \in Nat
    BY <2>1, <2>2
  <2>4. Len(prompt) + Len(options[k]) < NCtx
    BY <1>1, <2>1 DEF Fits
  <2>5. Len(prompt) + j - 1 \in 0 .. NCtx - 1
    BY <1>1, <2>3, <2>4, Constants
  <2>6. /\ {k - offset} \in (SUBSET (0 .. PerRound)) \ {{}} /\ 0 \notin {k - offset}
    BY <2>1, Constants
  <2>7. Items[i] = [tok |-> options[k][j], pos |-> Len(prompt) + j - 1, seqs |-> {k - offset}]
    BY DEF Items
  <2> HIDE DEF k, j
  <2> QED
    BY <2>3, <2>5, <2>6, <2>7, LocalModelAssumption DEF Cell, Free
<1>4. cells' \in [Slot -> Cell] /\ Placed(cells, cells', Items)
  <2>1. Len(batch) \in Nat /\ DOMAIN batch = 1 .. Len(batch)
    BY <1>1
  <2>2. Items \in [1 .. Len(batch) -> Cell \ {Free}]
    BY <2>1, <1>3 DEF Items
  <2> QED
    BY <2>1, <2>2, <1>1, <1>2, DecodedStep
<1> QED
  BY <1>3, <1>4 DEF Items

\* The batch is decoded: the prompt's cells stay as they are.
LEMMA FlushesKept ==
  ASSUME Inv, Flushes
  PROVE  Kept'
<1>1. /\ stage = "scoring" /\ cached = prompt /\ InLoops
      /\ batch' = <<>> /\ tally' = [k \in DOMAIN tally |-> Folded(k)]
      /\ UNCHANGED <<stage, prompt, options, goal, logits, offset, next, made, cached, torn>>
  BY DEF Flushes, Flushing, Inv, Progress, queryVars
<1>2. /\ cells \in [Slot -> Cell] /\ cells \in Cells /\ cached \in Seq(Token)
      /\ HoldsIn(cells, 0, cached)
  BY CellsAre, SyncIs DEF Inv, TypeOK
<1>4. /\ cells' \in [Slot -> Cell] /\ Placed(cells, cells', Items)
      /\ DOMAIN Items = DOMAIN batch /\ \A i \in DOMAIN batch : 0 \notin Items[i].seqs
  BY FlushesStep
<1>5. cells' \in Cells
  BY <1>4, CellsAre, LocalModelAssumption DEF Cells, Cell, Free
<1>6. ASSUME NEW s \in Slot
      PROVE  /\ 0 \in cells'[s].seqs <=> 0 \in cells[s].seqs
             /\ 0 \in cells[s].seqs => cells'[s].pos = cells[s].pos /\ cells'[s].tok = cells[s].tok
  <2>2. PICK at \in [DOMAIN Items -> {i \in Slot : cells[i] = Free}] :
          /\ \A i \in DOMAIN Items : cells'[at[i]] = Items[i]
          /\ (\E i \in DOMAIN Items : at[i] = s) \/ cells'[s] = cells[s]
    BY <1>4 DEF Placed
  <2>3. CASE \E i \in DOMAIN Items : at[i] = s
    <3>1. PICK i \in DOMAIN Items : at[i] = s
      BY <2>3
    <3>2. cells[s] = Free /\ cells'[s] = Items[i]
      BY <3>1, <2>2
    <3> QED
      BY <3>1, <3>2, <1>4 DEF Free
  <2> QED
    BY <2>2, <2>3
<1>7. CacheInSync'
  BY <1>1, <1>2, <1>5, <1>6, Copies, SyncIs
<1>8. Work'
  <2>1. batch' \in Seq(Nat \X Nat)
    BY <1>1
  <2>2. tally' \in [DOMAIN options' -> Nat]
    BY <1>1, Counts DEF Inv, TypeOK, Folded
  <2> QED
    BY <1>1, <1>4, <2>1, <2>2 DEF Inv, TypeOK, Work
<1>9. Task'
  BY <1>1 DEF Inv, Task, Fits
<1>10. Progress'
  <2>1. Round' = Round
    BY <1>1 DEF Round
  <2>2. InLoops'
    BY <1>1, <2>1 DEF InLoops
  <2> QED
    BY <1>1, <2>2 DEF Progress
<1> QED
  BY <1>7, <1>8, <1>9, <1>10 DEF Kept

\* The round's sequences go, sequence 0 stays.
LEMMA ClearsRoundKept ==
  ASSUME Inv, ClearsRound
  PROVE  Kept'
<1> DEFINE ss == {k - offset : k \in Round}
<1>1. /\ stage = "scoring" /\ cached = prompt /\ stage' \in {"forking", "scored"}
      /\ Removed(ss, 0) /\ offset' = offset + Cardinality(Round)
      /\ UNCHANGED <<prompt, options, goal, logits, next, batch, tally, made, cached, torn>>
  BY DEF ClearsRound, Cleared, Inv, Progress, queryVars
<1>2. /\ cells \in [Slot -> Cell] /\ cells \in Cells /\ cached \in Seq(Token)
      /\ HoldsIn(cells, 0, cached)
  BY CellsAre, SyncIs DEF Inv, TypeOK
<1>3. 0 \notin ss
  BY Rounds DEF Inv
<1>4. cells' \in [Slot -> Cell] /\ Cleaned(cells, cells', ss, 0)
  BY <1>1, <1>2, RemovedStep
<1>5. cells' \in Cells
  BY <1>4, CellsAre, LocalModelAssumption DEF Cells, Cell, Free
<1>6. ASSUME NEW i \in Slot
      PROVE  /\ 0 \in cells'[i].seqs <=> 0 \in cells[i].seqs
             /\ 0 \in cells[i].seqs => cells'[i].pos = cells[i].pos /\ cells'[i].tok = cells[i].tok
  <2> HIDE DEF ss
  <2>1. CASE cells[i].pos < 0 \/ cells[i].seqs \cap ss = {}
    BY <2>1, <1>4 DEF Cleaned
  <2>2. CASE ~(cells[i].pos < 0 \/ cells[i].seqs \cap ss = {}) /\ cells[i].seqs \subseteq ss
    <3>1. cells'[i] = Free
      BY <2>2, <1>4 DEF Cleaned
    <3> QED
      BY <3>1, <2>2, <1>3 DEF Free
  <2>3. CASE ~(cells[i].pos < 0 \/ cells[i].seqs \cap ss = {}) /\ ~(cells[i].seqs \subseteq ss)
    <3>1. cells'[i] = [cells[i] EXCEPT !.seqs = @ \ ss]
      BY <2>3, <1>4 DEF Cleaned
    <3>2. cells[i] \in [tok : Token \cup {NoToken}, pos : Nat, seqs : SUBSET Nat]
      BY <1>2 DEF Cells
    <3>3. /\ cells'[i].seqs = cells[i].seqs \ ss
          /\ cells'[i].pos = cells[i].pos /\ cells'[i].tok = cells[i].tok
      BY <3>1, <3>2
    <3> QED
      BY <3>3, <1>3
  <2> QED
    BY <2>1, <2>2, <2>3
<1>7. CacheInSync'
  BY <1>1, <1>2, <1>5, <1>6, Copies, SyncIs
<1>8. Work'
  <2>1. offset' \in 0 .. Len(options')
    BY <1>1, Rounds DEF Inv
  <2> QED
    BY <2>1, <1>1, <1>4 DEF Inv, TypeOK, Work, Stages
<1>9. Task'
  BY <1>1 DEF Inv, Task, Fits
<1>10. Progress'
  BY <1>1 DEF Progress
<1> QED
  BY <1>7, <1>8, <1>9, <1>10 DEF Kept
-----------------------------------------------------------------------------
\* The requests keep their types.
LEMMA RequestsKept ==
  ASSUME Inv, [Next]_vars
  PROVE  Requests'
<1>1. /\ held \in BOOLEAN /\ asked \in 0 .. MaxAsked /\ asked \in Nat /\ MaxAsked \in Nat
      /\ waiting \in 0 .. asked /\ jobs \in Seq(1 .. asked) /\ job \in 0 .. asked
  BY LocalModelAssumption DEF Inv, TypeOK
<1>2. CASE Submits
  <2>1. jobs \in Seq(1 .. asked + 1)
    BY <1>1
  <2>2. Append(jobs, asked + 1) \in Seq(1 .. asked + 1)
    BY <2>1, <1>1
  <2> QED
    BY <2>2, <1>1, <1>2 DEF Submits, queryVars, Requests
<1>3. CASE TimesOut \/ Drops
  <2>1. /\ held' \in {held, FALSE} /\ waiting' = 0
        /\ asked' = asked /\ jobs' = jobs /\ job' = job
    BY <1>3 DEF TimesOut, Drops, askVars, queryVars
  <2>2. held' \in BOOLEAN
    BY <1>1, <2>1
  <2>3. waiting' \in 0 .. asked
    BY <1>1, <2>1
  <2> QED
    BY <1>1, <2>1, <2>2, <2>3 DEF Requests
<1>4. ASSUME NEW p, NEW o, NEW g, TakesJob(p, o, g)
      PROVE  Requests'
  <2>1. jobs # <<>> /\ jobs' = Tail(jobs) /\ held' = held /\ asked' = asked
    BY <1>4 DEF TakesJob
  <2>2. Tail(jobs) \in Seq(1 .. asked) /\ Head(jobs) \in 1 .. asked
    BY <2>1, <1>1
  <2>3. waiting' \in {0, waiting} /\ job' \in {job, Head(jobs)}
    BY <1>4 DEF TakesJob, queryVars
  <2> QED
    BY <2>1, <2>2, <2>3, <1>1 DEF Requests
<1>5. ASSUME UNCHANGED askVars, waiting' \in {0, waiting}, job' \in {0, job}
      PROVE  Requests'
  BY <1>1, <1>5 DEF Requests, askVars
<1>6. CASE \E p \in Prompt, o \in Menu : NextQuestion(p, o)
  BY <1>5, <1>6 DEF NextQuestion, Replied
<1>7. CASE Answers \/ Fails
  BY <1>5, <1>7 DEF Answers, Fails, Replied
<1>8. CASE \/ Ends \/ Prefills \/ Prefilled \/ Forks \/ Batches \/ Flushes \/ ClearsRound
           \/ \E t \in Token : Generates(t)
  BY <1>5, <1>8 DEF Ends, Prefills, Prefilled, Forks, Batches, Flushes, ClearsRound, Generates, queryVars
<1>9. CASE Terminated \/ UNCHANGED vars
  BY <1>5, <1>9 DEF Terminated, vars, queryVars
<1> QED
  BY <1>2, <1>3, <1>4, <1>6, <1>7, <1>8, <1>9 DEF Next

\* Every step keeps the work in order.
LEMMA WorkKept ==
  ASSUME Inv, [Next]_vars
  PROVE  Kept'
<1>1. Kept
  BY Parts
<1>2. CASE Submits \/ TimesOut \/ Drops \/ Terminated \/ UNCHANGED vars
  <2>1. UNCHANGED workVars
    BY <1>2 DEF Submits, TimesOut, Drops, Terminated, vars, queryVars, workVars
  <2> QED
    BY <2>1, <1>1, Rests
<1>3. ASSUME NEW p \in Prompt, NEW o \in Menu \cup {<<>>}, NEW g \in Budget \cup {0}, TakesJob(p, o, g)
      PROVE  Kept'
  <2>1. CASE Begins(p, o, g)
    BY <1>3, <2>1, BeginsKept DEF TakesJob
  <2>2. CASE ~Begins(p, o, g)
    <3>1. UNCHANGED workVars
      BY <1>3, <2>2 DEF TakesJob, queryVars, workVars
    <3> QED
      BY <3>1, <1>1, Rests
  <2> QED
    BY <2>1, <2>2
<1>4. ASSUME NEW p \in Prompt, NEW o \in Menu, NextQuestion(p, o)
      PROVE  Kept'
  <2>1. CASE Begins(p, o, 0)
    BY <1>4, <2>1, BeginsKept DEF NextQuestion
  <2>2. CASE ~Begins(p, o, 0)
    <3>1. /\ stage' \in {"idle", "gone"} /\ torn' \in BOOLEAN
          /\ UNCHANGED <<prompt, options, goal, logits, scoreVars, made, cacheVars>>
      BY <1>4, <2>2 DEF NextQuestion, Replied, Inv, TypeOK
    <3> QED
      BY <3>1, <1>1, Leaves
  <2> QED
    BY <2>1, <2>2
<1>5. CASE Answers \/ Ends \/ Fails
  <2>1. /\ stage' \in {"idle", "gone"} /\ torn' \in BOOLEAN
        /\ UNCHANGED <<prompt, options, goal, logits, scoreVars, made, cacheVars>>
    BY <1>5 DEF Answers, Ends, Fails, Replied, queryVars, Inv, TypeOK
  <2> QED
    BY <2>1, <1>1, Leaves
<1>6. CASE Prefills \/ Prefilled \/ Forks \/ Batches \/ Flushes \/ ClearsRound
  BY <1>6, PrefillsKept, PrefilledKept, ForksKept, BatchesKept, FlushesKept, ClearsRoundKept
<1>7. CASE \E t \in Token : Generates(t)
  BY <1>7, GeneratesKept
<1> QED
  BY <1>2, <1>3, <1>4, <1>5, <1>6, <1>7 DEF Next

\* The invariant holds at the start, and through every step.
LEMMA Starting == Init => Inv
<1> SUFFICES ASSUME Init
             PROVE  Inv
  OBVIOUS
<1>1. Requests
  BY LocalModelAssumption DEF Init, Requests
<1>2. Work
  <2>1. Free \in Cell
    BY DEF Cell
  <2>2. cells \in [Slot -> Cell]
    BY <2>1 DEF Init
  <2>3. tally \in [DOMAIN options -> Nat] /\ next \in Nat \X Nat /\ batch \in Seq(Nat \X Nat)
    BY DEF Init
  <2>4. logits \in Seq(Token) /\ cached \in Seq(Token) /\ offset \in 0 .. Len(options) /\ made \in 0 .. goal
    BY DEF Init
  <2> QED
    BY <2>2, <2>3, <2>4 DEF Init, Work, Stages
<1>3. Task /\ Progress
  BY DEF Init, Task, Progress
<1>4. CacheInSync
  BY DEF Init, CacheInSync, Holds, Own, Free
<1> QED
  BY <1>1, <1>2, <1>3, <1>4, Parts DEF Kept

\* Requests and work together.
LEMMA Stepping == Inv /\ [Next]_vars => Inv'
<1>1. Inv' <=> Requests' /\ Kept'
  BY DEF Inv, Kept, TypeOK, Requests, Work
<1> QED
  BY <1>1, RequestsKept, WorkKept

\* So the invariant holds throughout.
LEMMA Always == Spec => []Inv
BY Starting, Stepping, PTL DEF Spec

\* Every variable keeps its type: positions stay below n_ctx, and what is scored
\* stays within the options (local.rs:416, 479 and 510).
THEOREM LocalModelTyped == Spec => []TypeOK
<1>1. Inv => TypeOK
  BY DEF Inv
<1> QED
  BY <1>1, Always, PTL

\* The cache's sequence 0 is always what Worker::cached says (local.rs:268), through
\* any sequence of requests that succeed, fail half-way or have been abandoned.
THEOREM CacheStaysInSync == Spec => []CacheInSync
<1>1. Inv => CacheInSync
  BY DEF Inv
<1> QED
  BY <1>1, Always, PTL

\* Every answer is computed after its own prompt (local.rs:540).
THEOREM OwnTextRead == Spec => []ReadsOwnText
<1>1. Inv => ReadsOwnText
  <2> SUFFICES ASSUME Inv
               PROVE  ReadsOwnText
    OBVIOUS
  <2>1. /\ stage = "prefilling" /\ cached = prompt => logits = prompt
        /\ stage = "generating" => logits = cached /\ IsPrefix(prompt, cached)
        /\ stage \in {"forking", "scoring", "scored"} => cached = prompt
    BY DEF Inv, Progress
  <2> QED
    BY <2>1 DEF ReadsOwnText
<1> QED
  BY <1>1, Always, PTL
-----------------------------------------------------------------------------
(* Scores. *)

\* What each option's score has taken at each stage.
Tallied ==
  /\ stage = "prefilling" => offset = 0
  /\ stage \in {"prefilling", "forking", "scored"} => \A k \in DOMAIN options :
       tally[k] = IF k <= offset THEN Len(options[k]) + 1 ELSE 1
  /\ stage = "scoring" => /\ \A k \in DOMAIN options : tally[k] = DoneOf(k) + 1
                          /\ next[1] <= offset + Cardinality(Round) + 1
                          /\ next[1] = offset + Cardinality(Round) + 1 => next[2] = 1
  /\ stage = "scored" => offset = Len(options)

\* An empty batch has no tokens of any option.
LEMMA EmptyBatch ==
  ASSUME batch = <<>>, NEW k
  PROVE  InBatch(k) = 0
<1>1. {i \in DOMAIN batch : batch[i][1] = k} = {}
  OBVIOUS
<1> QED
  BY <1>1, FS_EmptySet DEF InBatch

\* The token that joins the batch counts for its option, and no other.
LEMMA FullerBatch ==
  ASSUME TypeOK, batch' = Append(batch, next), NEW k
  PROVE  InBatch(k)' = InBatch(k) + IF k = next[1] THEN 1 ELSE 0
<1> DEFINE A == {i \in DOMAIN batch : batch[i][1] = k}
           B == {i \in DOMAIN batch' : batch'[i][1] = k}
<1>1. batch \in Seq(Nat \X Nat) /\ Len(batch) \in Nat
  BY DEF TypeOK
<1>2. /\ DOMAIN batch = 1 .. Len(batch) /\ DOMAIN batch' = 1 .. Len(batch) + 1
      /\ \A i \in DOMAIN batch : batch'[i] = batch[i]
      /\ batch'[Len(batch) + 1] = next
  BY <1>1
<1>3. IsFiniteSet(A)
  <2>1. IsFiniteSet(1 .. Len(batch)) /\ A \subseteq 1 .. Len(batch)
    BY <1>1, <1>2, FS_Interval
  <2> QED
    BY <2>1, FS_Subset
<1>4. CASE k = next[1]
  <2>1. B = A \cup {Len(batch) + 1} /\ Len(batch) + 1 \notin A
    BY <1>1, <1>2, <1>4
  <2>2. Cardinality(B) = Cardinality(A) + 1
    BY <2>1, <1>3, FS_AddElement
  <2> QED
    BY <2>2, <1>4 DEF InBatch
<1>5. CASE k # next[1]
  <2>1. B = A
    BY <1>1, <1>2, <1>5
  <2>2. Cardinality(A) \in Nat
    BY <1>3, FS_CardinalityType
  <2>3. InBatch(k) = Cardinality(A) /\ InBatch(k)' = Cardinality(B)
    BY DEF InBatch
  <2> HIDE DEF A, B
  <2> QED
    BY <2>1, <2>2, <2>3, <1>5
<1> QED
  BY <1>4, <1>5

\* Where the loops are when a round begins.
LEMMA ForksDone ==
  ASSUME Inv, Forks, NEW k \in DOMAIN options
  PROVE  DoneOf(k)' = (IF k <= offset THEN Len(options[k]) ELSE 0) /\ Passed(k)' = DoneOf(k)'
<1>1. /\ next' = <<offset + 1, 1>> /\ batch' = <<>> /\ options' = options
      /\ offset \in Nat /\ k \in Nat /\ Len(options[k]) \in Nat
  BY Types DEF Forks, Inv, queryVars
<1>2. InBatch(k)' = 0
  <2>1. {i \in DOMAIN batch' : batch'[i][1] = k} = {}
    BY <1>1
  <2> QED
    BY <2>1, FS_EmptySet DEF InBatch
<1>3. Passed(k)' = IF k <= offset THEN Len(options[k]) ELSE 0
  BY <1>1 DEF Passed
<1> QED
  BY <1>1, <1>2, <1>3 DEF DoneOf

\* They pass one token at a time, which is not decoded yet.
LEMMA BatchesDone ==
  ASSUME Inv, Batches, NEW k \in DOMAIN options
  PROVE  /\ DoneOf(k)' = DoneOf(k)
         /\ Passed(k)' = Passed(k) + IF k = next[1] THEN 1 ELSE 0
         /\ Passed(k) \in Nat /\ Passed(next[1]) = next[2] - 1
         /\ next[1] \in DOMAIN options /\ next[2] \in 1 .. Len(options[next[1]])
<1>1. /\ TypeOK /\ offset \in Nat /\ options \in Seq(Seq(Token)) /\ next \in Nat \X Nat
      /\ DOMAIN options = 1 .. Len(options)
      /\ \A l \in DOMAIN options : Len(options[l]) \in Nat
  BY Types DEF Inv, TypeOK
<1>2. /\ InLoops /\ next[1] \in Round
      /\ batch' = Append(batch, next) /\ UNCHANGED <<offset, options, tally>>
      /\ next' = IF next[2] < Len(options[next[1]])
                 THEN <<next[1], next[2] + 1>> ELSE <<next[1] + 1, 1>>
  BY DEF Batches, Inv, Progress, queryVars
<1>3. next[1] \in DOMAIN options /\ next[2] \in 1 .. Len(options[next[1]])
  <2>1. next[1] \in DOMAIN options
    BY <1>1, <1>2, Rounds
  <2>2. options[next[1]] \in Seq(Token) /\ next[2] \in DOMAIN options[next[1]]
    BY <1>2, <2>1, Types DEF Inv, InLoops
  <2> QED
    BY <2>1, <2>2
<1>4. InBatch(k) \in Nat /\ InBatch(k)' = InBatch(k) + IF k = next[1] THEN 1 ELSE 0
  BY <1>1, <1>2, Counts, FullerBatch
<1>5. Passed(k) \in Nat /\ Passed(next[1]) = next[2] - 1
  BY <1>1, <1>3 DEF Passed
<1>6. Passed(k)' = Passed(k) + IF k = next[1] THEN 1 ELSE 0
  <2>0. /\ Passed(k)' = IF k < next'[1] THEN Len(options[k]) ELSE IF k = next'[1] THEN next'[2] - 1 ELSE 0
        /\ Passed(k) = IF k < next[1] THEN Len(options[k]) ELSE IF k = next[1] THEN next[2] - 1 ELSE 0
        /\ k \in Nat /\ next[1] \in Nat /\ next[2] \in Nat
    BY <1>1, <1>2 DEF Passed
  <2>1. CASE next[2] < Len(options[next[1]])
    <3>1. next'[1] = next[1] /\ next'[2] = next[2] + 1
      BY <1>2, <2>1
    <3> QED
      BY <3>1, <2>0, <1>3
  <2>2. CASE ~(next[2] < Len(options[next[1]]))
    <3>1. next'[1] = next[1] + 1 /\ next'[2] = 1 /\ next[2] = Len(options[next[1]])
      BY <1>1, <1>2, <1>3, <2>2
    <3>2. CASE k < next[1]
      BY <3>1, <3>2, <2>0
    <3>3. CASE k = next[1]
      <4>1. k < next'[1]
        BY <3>1, <3>3, <2>0
      <4>2. Passed(k)' = Len(options[k]) /\ Passed(k) = next[2] - 1
        BY <4>1, <3>3, <2>0
      <4>3. Len(options[k]) = next[2]
        BY <3>1, <3>3
      <4> QED
        BY <4>2, <4>3, <3>3, <2>0
    <3>4. CASE k > next[1]
      <4>1. ~(k < next[1]) /\ k # next[1] /\ ~(k < next'[1])
        BY <3>1, <3>4, <2>0
      <4>2. Passed(k) = 0 /\ Passed(k)' = 0
        BY <4>1, <3>1, <2>0
      <4> QED
        BY <4>1, <4>2
    <3>5. k < next[1] \/ k = next[1] \/ k > next[1]
      BY <2>0
    <3> QED
      BY <3>2, <3>3, <3>4, <3>5
  <2> QED
    BY <2>1, <2>2
<1> QED
  BY <1>3, <1>4, <1>5, <1>6 DEF DoneOf

\* A decode makes up for what was passed.
LEMMA FlushesDone ==
  ASSUME Inv, Flushes, NEW k \in DOMAIN options
  PROVE  /\ DoneOf(k)' = Passed(k) /\ Passed(k)' = Passed(k)
         /\ DoneOf(k) = Passed(k) - InBatch(k) /\ Passed(k) \in Int /\ InBatch(k) \in Nat
<1>1. batch' = <<>> /\ UNCHANGED <<options, next>>
  BY DEF Flushes, queryVars
<1>2. {i \in DOMAIN batch' : batch'[i][1] = k} = {}
  BY <1>1
<1>3. InBatch(k)' = 0 /\ InBatch(k) \in Nat
  BY <1>2, FS_EmptySet, Counts DEF InBatch, Inv
<1>4. next \in Nat \X Nat /\ Len(options[k]) \in Nat
  BY Types DEF Inv, TypeOK
<1>5. Passed(k)' = Passed(k) /\ Passed(k) \in Int
  BY <1>1, <1>4 DEF Passed
<1> QED
  BY <1>3, <1>5 DEF DoneOf

\* Scores keep count through every step.
LEMMA TalliedKept ==
  ASSUME Inv, Tallied, [Next]_vars
  PROVE  Tallied'
<1>1. /\ TypeOK /\ offset \in Nat /\ options \in Seq(Seq(Token)) /\ next \in Nat \X Nat
      /\ DOMAIN options = 1 .. Len(options) /\ offset <= Len(options)
      /\ \A k \in DOMAIN options : Len(options[k]) \in Nat
  BY Types DEF Inv, TypeOK
<1>2. ASSUME NEW p \in Prompt, NEW o \in Menu \cup {<<>>}, NEW g \in Budget \cup {0}, Begins(p, o, g)
      PROVE  Tallied'
  <2>1. /\ stage' = "prefilling" /\ offset' = 0 /\ options' = o
        /\ tally' = [k \in DOMAIN o |-> 1]
    BY <1>2 DEF Begins
  <2>2. \A k \in DOMAIN o : k \in Nat \ {0}
    BY Constants
  <2> QED
    BY <2>1, <2>2 DEF Tallied
<1>3. CASE UNCHANGED <<stage, options, offset, next, batch, tally>>
  BY <1>3 DEF Tallied, DoneOf, Passed, InBatch, Round
<1>4. CASE stage' \in {"idle", "gone", "generating"}
  BY <1>4 DEF Tallied
<1>5. CASE Prefilled
  BY <1>5 DEF Prefilled, Tallied, queryVars, scoreVars
<1>6. CASE Forks
  <2>1. /\ stage = "forking" /\ stage' = "scoring" /\ next' = <<offset + 1, 1>> /\ batch' = <<>>
        /\ UNCHANGED <<offset, options, tally>>
    BY <1>6 DEF Forks, queryVars
  <2>3. \A k \in DOMAIN options : tally'[k] = DoneOf(k)' + 1
    <3> TAKE k \in DOMAIN options
    <3>1. DoneOf(k)' = IF k <= offset THEN Len(options[k]) ELSE 0
      BY <1>1, <1>6, <2>1, ForksDone
    <3>2. tally[k] = IF k <= offset THEN Len(options[k]) + 1 ELSE 1
      BY <2>1 DEF Tallied
    <3> QED
      BY <1>1, <2>1, <3>1, <3>2
  <2>4. Round' = Round /\ Cardinality(Round) \in Nat
    BY <1>1, <2>1, Rounds DEF Round
  <2> QED
    BY <1>1, <2>1, <2>3, <2>4 DEF Tallied
<1>7. CASE Batches
  <2>1. /\ stage = "scoring" /\ stage' = "scoring" /\ InLoops /\ next[1] \in Round
        /\ batch' = Append(batch, next) /\ UNCHANGED <<offset, options, tally>>
        /\ next' = IF next[2] < Len(options[next[1]])
                   THEN <<next[1], next[2] + 1>> ELSE <<next[1] + 1, 1>>
    BY <1>7 DEF Batches, Inv, Progress, queryVars
  <2>2. \A k \in DOMAIN options : /\ DoneOf(k)' = DoneOf(k)
                                 /\ next[2] \in 1 .. Len(options[next[1]])
    BY <1>7, BatchesDone
  <2>3. next[1] \in DOMAIN options
    BY <1>1, <2>1, Rounds
  <2>4. Round' = Round /\ Round = offset + 1 .. offset + Cardinality(Round) /\ Cardinality(Round) \in Nat
    BY <1>1, <2>1, Rounds DEF Round
  <2>5. /\ next'[1] <= offset + Cardinality(Round) + 1
        /\ next'[1] = offset + Cardinality(Round) + 1 => next'[2] = 1
    BY <2>1, <2>2, <2>3, <2>4, <1>1
  <2>6. \A k \in DOMAIN options : DoneOf(k)' = DoneOf(k)
    BY <2>2
  <2> QED
    BY <2>1, <2>4, <2>5, <2>6 DEF Tallied
<1>8. CASE Flushes
  <2>1. /\ stage = "scoring" /\ stage' = "scoring" /\ batch' = <<>>
        /\ tally' = [k \in DOMAIN tally |-> Folded(k)] /\ DOMAIN tally = DOMAIN options
        /\ UNCHANGED <<offset, options, next>>
    BY <1>8 DEF Flushes, Flushing, Inv, TypeOK, queryVars
  <2>2. ASSUME NEW k \in DOMAIN options
        PROVE  tally'[k] = DoneOf(k)' + 1
    <3>1. /\ DoneOf(k)' = Passed(k) /\ DoneOf(k) = Passed(k) - InBatch(k)
          /\ Passed(k) \in Int /\ InBatch(k) \in Nat
      BY <1>8, FlushesDone
    <3>2. tally[k] = DoneOf(k) + 1 /\ tally'[k] = tally[k] + InBatch(k)
      BY <2>1 DEF Tallied, Folded
    <3> QED
      BY <3>1, <3>2
  <2>3. Round' = Round
    BY <2>1 DEF Round
  <2> QED
    BY <2>1, <2>2, <2>3 DEF Tallied
<1>9. CASE ClearsRound
  <2>1. /\ stage = "scoring" /\ batch = <<>> /\ next[1] \notin Round /\ InLoops
        /\ offset' = offset + Cardinality(Round) /\ UNCHANGED <<options, tally>>
        /\ stage' = IF offset' < Len(options) THEN "forking" ELSE "scored"
    BY <1>9 DEF ClearsRound, Inv, Progress, queryVars
  <2>2. /\ Round = offset + 1 .. offset + Cardinality(Round) /\ Cardinality(Round) \in Nat
        /\ offset' <= Len(options)
    BY <1>1, <2>1, Rounds
  <2>3. next[1] = offset' + 1 /\ next[2] = 1
    BY <1>1, <2>1, <2>2 DEF InLoops, Tallied
  <2>4. \A k \in DOMAIN options : tally[k] = IF k <= offset' THEN Len(options[k]) + 1 ELSE 1
    <3> TAKE k \in DOMAIN options
    <3>1. InBatch(k) = 0 /\ tally[k] = DoneOf(k) + 1
      BY <2>1, EmptyBatch DEF Tallied
    <3> QED
      BY <3>1, <2>1, <2>2, <2>3, <1>1 DEF DoneOf, Passed
  <2> QED
    BY <1>1, <2>1, <2>2, <2>4 DEF Tallied
<1>10. CASE Submits \/ TimesOut \/ Drops \/ Prefills \/ Terminated \/ UNCHANGED vars
  <2>1. UNCHANGED <<stage, options, offset, next, batch, tally>>
    BY <1>10 DEF Submits, TimesOut, Drops, Prefills, Terminated, vars, queryVars, scoreVars
  <2> QED
    BY <2>1, <1>3
<1>11. ASSUME NEW p \in Prompt, NEW o \in Menu \cup {<<>>}, NEW g \in Budget \cup {0}, TakesJob(p, o, g)
       PROVE  Tallied'
  <2>1. CASE Begins(p, o, g)
    BY <2>1, <1>2
  <2>2. CASE ~Begins(p, o, g)
    BY <2>2, <1>11, <1>3 DEF TakesJob, queryVars, scoreVars
  <2> QED
    BY <2>1, <2>2
<1>12. ASSUME NEW p \in Prompt, NEW o \in Menu, NextQuestion(p, o)
       PROVE  Tallied'
  <2>1. CASE Begins(p, o, 0)
    BY <2>1, <1>2
  <2>2. CASE ~Begins(p, o, 0)
    BY <2>2, <1>12, <1>4 DEF NextQuestion, Replied
  <2> QED
    BY <2>1, <2>2
<1>13. CASE Answers \/ Ends \/ Fails
  BY <1>13, <1>4 DEF Answers, Ends, Fails, Replied
<1>14. CASE \E t \in Token : Generates(t)
  BY <1>14, <1>4 DEF Generates
<1> QED
  BY <1>5, <1>6, <1>7, <1>8, <1>9, <1>10, <1>11, <1>12, <1>13, <1>14 DEF Next

\* A score takes each token of its option once, and the end of the turn, however
\* rounds and batches fall (local.rs:502).
THEOREM TokensCountOnce == Spec => []EachTokenOnce
<1>1. Init => Tallied
  BY DEF Init, Tallied
<1>2. Inv /\ Tallied /\ [Next]_vars => Tallied'
  BY TalliedKept
<1>3. Inv /\ Tallied => EachTokenOnce
  <2> SUFFICES ASSUME Inv, Tallied, stage = "scored", NEW k \in DOMAIN options
               PROVE  tally[k] = Len(options[k]) + 1
    BY DEF EachTokenOnce
  <2>1. k <= offset
    BY Types DEF Inv, Tallied
  <2> QED
    BY <2>1 DEF Tallied
<1> QED
  BY <1>1, <1>2, <1>3, Always, PTL DEF Spec
-----------------------------------------------------------------------------
(* What each sequence holds. *)

\* The batch holds each option's tokens from the decoded ones to where the loops
\* are, each once.
Queued == stage = "scoring" =>
  /\ \A k \in Round : DoneOf(k) \in Nat /\ Passed(k) \in 0 .. Len(options[k])
  /\ \A k \in Round : \A i \in DOMAIN batch :
       batch[i][1] = k => batch[i][2] \in DoneOf(k) + 1 .. Passed(k)
  /\ \A k \in Round : \A j \in DoneOf(k) + 1 .. Passed(k) :
       \E i \in DOMAIN batch : batch[i][1] = k /\ batch[i][2] = j
  /\ \A i, j \in DOMAIN batch : batch[i][1] = batch[j][1] /\ batch[i][2] = batch[j][2] => i = j

\* Scoring has cells only for its round, and each option's sequence holds the prompt
\* and what was decoded of it.
Apart ==
  /\ \A i \in Slot : \A s \in cells[i].seqs : s = 0 \/ \E k \in Round : s = k - offset
  /\ \A k \in Round : HoldsIn(cells, k - offset, prompt \o SubSeq(options[k], 1, DoneOf(k)))

\* That is so until a decode fails in the midst of it; and outside it there is no
\* cell but for sequence 0.
Untangled == ~torn =>
  /\ stage # "scoring" => \A i \in Slot : cells[i].seqs \subseteq {0}
  /\ stage = "scoring" => Apart

\* What scoring goes by does not change but by its own steps.
LEMMA OnlyScoring ==
  ASSUME [Next]_vars, stage' = "scoring"
  PROVE  \/ Forks \/ Batches \/ Flushes
         \/ UNCHANGED <<stage, options, prompt, offset, next, batch, cells, torn>>
<1>1. CASE Submits \/ TimesOut \/ Drops \/ Terminated \/ UNCHANGED vars
  BY <1>1 DEF Submits, TimesOut, Drops, Terminated, vars, queryVars, scoreVars, cacheVars
<1>2. ASSUME NEW p, NEW o, NEW g, TakesJob(p, o, g)
      PROVE  FALSE
  BY <1>2 DEF TakesJob, Begins
<1>3. ASSUME NEW p, NEW o, NextQuestion(p, o)
      PROVE  FALSE
  BY <1>3 DEF NextQuestion, Begins, Replied
<1>4. CASE Answers \/ Ends \/ Fails
  BY <1>4 DEF Answers, Ends, Fails, Replied
<1>5. CASE Prefills \/ Prefilled \/ ClearsRound
  BY <1>5 DEF Prefills, Prefilled, ClearsRound
<1>6. CASE \E t \in Token : Generates(t)
  BY <1>6 DEF Generates
<1> QED
  BY <1>1, <1>2, <1>3, <1>4, <1>5, <1>6 DEF Next

\* The batch keeps pace with the loops.
LEMMA QueuedKept ==
  ASSUME Inv, Queued, [Next]_vars
  PROVE  Queued'
<1> SUFFICES ASSUME stage' = "scoring"
             PROVE  Queued'
  BY DEF Queued
<1>1. /\ Round \subseteq DOMAIN options /\ batch \in Seq(Nat \X Nat) /\ next \in Nat \X Nat
      /\ \A k \in DOMAIN options : Len(options[k]) \in Nat
  <2>1. batch \in Seq(Nat \X Nat) /\ next \in Nat \X Nat
    BY DEF Inv, TypeOK
  <2>2. DOMAIN options = 1 .. Len(options) /\ \A k \in DOMAIN options : Len(options[k]) \in Nat
    BY Types DEF Inv
  <2> QED
    BY <2>1, <2>2, Rounds DEF Inv
<1>2. CASE Forks
  <2>1. Round' = Round /\ batch' = <<>> /\ options' = options
    BY <1>2 DEF Forks, Round, queryVars
  <2>2. \A k \in Round : DoneOf(k)' = 0 /\ Passed(k)' = 0
    <3> TAKE k \in Round
    <3>1. k \in DOMAIN options /\ k \in Nat /\ offset \in Nat /\ k > offset
      BY InRound DEF Inv
    <3> QED
      BY <3>1, <1>2, ForksDone
  <2> QED
    BY <2>1, <2>2, <1>1 DEF Queued
<1>3. CASE Batches
  <2>1. /\ Round' = Round /\ options' = options /\ batch' = Append(batch, next)
        /\ next[1] \in Round /\ InLoops /\ stage = "scoring"
    BY <1>3 DEF Batches, Round, queryVars, Inv, Progress
  <2>2. /\ DOMAIN batch = 1 .. Len(batch) /\ DOMAIN batch' = 1 .. Len(batch) + 1
        /\ \A i \in DOMAIN batch : batch'[i] = batch[i]
        /\ batch'[Len(batch) + 1] = next /\ Len(batch) \in Nat
    BY <2>1, <1>1
  <2>3. \A k \in Round : /\ DoneOf(k)' = DoneOf(k) /\ DoneOf(k) \in Nat /\ Passed(k) \in Nat
                         /\ Passed(k)' = Passed(k) + IF k = next[1] THEN 1 ELSE 0
    BY <2>1, <1>1, <1>3, BatchesDone DEF Queued
  <2>4. Passed(next[1]) = next[2] - 1 /\ next[2] \in 1 .. Len(options[next[1]])
    BY <2>1, <1>1, <1>3, BatchesDone
  <2>5. \A i \in DOMAIN batch : batch[i][2] \in Nat
    BY <1>1
  <2>6. \A k \in Round : DoneOf(k)' \in Nat /\ Passed(k)' \in 0 .. Len(options'[k])
    <3> TAKE k \in Round
    <3>1. CASE k = next[1]
      BY <3>1, <2>1, <2>3, <2>4
    <3>2. CASE k # next[1]
      BY <3>2, <2>1, <2>3 DEF Queued
    <3> QED
      BY <3>1, <3>2
  <2>7. DoneOf(next[1]) <= Passed(next[1])
    <3>1. InBatch(next[1]) \in Nat /\ Passed(next[1]) \in Int
      BY <2>1, <2>3, Counts DEF Inv
    <3> QED
      BY <3>1 DEF DoneOf
  <2>8. ASSUME NEW k \in Round, NEW i \in DOMAIN batch', batch'[i][1] = k
        PROVE  batch'[i][2] \in DoneOf(k)' + 1 .. Passed(k)'
    <3>1. CASE i \in DOMAIN batch
      <4>1. batch'[i] = batch[i]
        BY <3>1, <2>2
      <4>2. batch[i][2] \in DoneOf(k) + 1 .. Passed(k) /\ batch[i][2] \in Nat
        BY <3>1, <4>1, <2>1, <2>5, <2>8 DEF Queued
      <4> QED
        BY <4>1, <4>2, <2>3
    <3>2. CASE i \notin DOMAIN batch
      <4>1. batch'[i] = next /\ k = next[1]
        BY <3>2, <2>2, <2>8
      <4>2. DoneOf(k)' = DoneOf(k) /\ DoneOf(k) \in Nat /\ Passed(k)' = Passed(k) + 1
        BY <4>1, <2>3
      <4>3. Passed(k) = next[2] - 1 /\ DoneOf(k) <= Passed(k) /\ next[2] \in Nat
        BY <4>1, <2>4, <2>7, <1>1
      <4> QED
        BY <4>1, <4>2, <4>3
    <3> QED
      BY <3>1, <3>2
  <2>9. ASSUME NEW k \in Round, NEW j \in DoneOf(k)' + 1 .. Passed(k)'
        PROVE  \E i \in DOMAIN batch' : batch'[i][1] = k /\ batch'[i][2] = j
    <3>1. CASE j \in DoneOf(k) + 1 .. Passed(k)
      <4>1. PICK i \in DOMAIN batch : batch[i][1] = k /\ batch[i][2] = j
        BY <3>1, <2>1 DEF Queued
      <4> QED
        BY <4>1, <2>2
    <3>2. CASE j \notin DoneOf(k) + 1 .. Passed(k)
      <4>1. k = next[1] /\ j = next[2]
        BY <3>2, <2>3, <2>4
      <4> QED
        BY <4>1, <2>2
    <3> QED
      BY <3>1, <3>2
  <2>10. ASSUME NEW i \in DOMAIN batch', NEW j \in DOMAIN batch',
                batch'[i][1] = batch'[j][1], batch'[i][2] = batch'[j][2]
         PROVE  i = j
    <3>1. \A l \in DOMAIN batch : ~(batch[l][1] = next[1] /\ batch[l][2] = next[2])
      <4> SUFFICES ASSUME NEW l \in DOMAIN batch, batch[l][1] = next[1], batch[l][2] = next[2]
                   PROVE  FALSE
        OBVIOUS
      <4>1. next[2] <= Passed(next[1])
        BY <2>1, <2>3, <2>5 DEF Queued
      <4> QED
        BY <4>1, <2>4
    <3>2. CASE i \in DOMAIN batch /\ j \in DOMAIN batch
      BY <3>2, <2>1, <2>2, <2>10 DEF Queued
    <3>3. CASE i \notin DOMAIN batch /\ j \notin DOMAIN batch
      BY <3>3, <2>2
    <3>4. CASE i \in DOMAIN batch /\ j \notin DOMAIN batch
      <4>1. batch'[i] = batch[i] /\ batch'[j] = next
        BY <3>4, <2>2
      <4> QED
        BY <4>1, <3>1, <3>4, <2>10
    <3>5. CASE i \notin DOMAIN batch /\ j \in DOMAIN batch
      <4>1. batch'[i] = next /\ batch'[j] = batch[j]
        BY <3>5, <2>2
      <4> QED
        BY <4>1, <3>1, <3>5, <2>10
    <3> QED
      BY <3>2, <3>3, <3>4, <3>5
  <2> QED
    BY <2>1, <2>6, <2>8, <2>9, <2>10 DEF Queued
<1>4. CASE Flushes
  <2>1. stage = "scoring" /\ Round' = Round /\ batch' = <<>> /\ options' = options
    BY <1>4 DEF Flushes, Flushing, Round, queryVars
  <2>2. \A k \in Round : DoneOf(k)' = Passed(k) /\ Passed(k)' = Passed(k)
    BY <1>1, <1>4, FlushesDone
  <2>3. \A k \in Round : Passed(k) \in 0 .. Len(options[k]) /\ Passed(k) \in Nat
    BY <2>1, <1>1 DEF Queued
  <2> QED
    BY <2>1, <2>2, <2>3 DEF Queued
<1>5. CASE UNCHANGED <<stage, options, prompt, offset, next, batch, cells, torn>>
  <2>1. Round' = Round /\ \A k : DoneOf(k)' = DoneOf(k) /\ Passed(k)' = Passed(k)
    BY <1>5 DEF DoneOf, Passed, InBatch, Round
  <2>2. stage = "scoring" /\ batch' = batch /\ options' = options
    BY <1>5
  <2> QED
    BY <2>1, <2>2 DEF Queued
<1> QED
  BY <1>2, <1>3, <1>4, <1>5, OnlyScoring

\* The options of a round start from the prompt.
LEMMA ForksApart ==
  ASSUME Inv, Untangled, ~torn, Forks
  PROVE  Apart'
<1> DEFINE ss == {k - offset : k \in Round}
<1>1. /\ stage = "forking" /\ cached = prompt /\ Shared(ss)
      /\ Round' = Round /\ UNCHANGED <<prompt, options, offset>>
  BY DEF Forks, Inv, Progress, Round, queryVars
<1>2. /\ cells \in [Slot -> Cell] /\ cells \in Cells /\ cached \in Seq(Token)
      /\ HoldsIn(cells, 0, cached) /\ \A i \in Slot : cells[i].seqs \subseteq {0}
  BY <1>1, CellsAre, SyncIs DEF Inv, TypeOK, Untangled
<1>3. ss \in SUBSET (0 .. PerRound) /\ 0 \notin ss
  BY Rounds, Constants DEF Inv
<1>4. /\ cells' \in [Slot -> Cell]
      /\ \A i \in Slot : /\ cells'[i].pos = cells[i].pos /\ cells'[i].tok = cells[i].tok
                        /\ cells'[i].seqs = cells[i].seqs
                                \cup IF 0 \in cells[i].seqs THEN ss ELSE {}
  <2> HIDE DEF ss
  <2> QED
    BY <1>1, <1>2, <1>3, SharedStep
<1>5. cells' \in Cells
  BY <1>4, CellsAre, LocalModelAssumption DEF Cells, Cell, Free
<1>6. \A i \in Slot : \A s \in cells'[i].seqs : s = 0 \/ \E k \in Round : s = k - offset
  BY <1>2, <1>4
<1>7. ASSUME NEW k \in Round
      PROVE  HoldsIn(cells', k - offset, prompt \o SubSeq(options[k], 1, DoneOf(k)'))
  <2>1. \A i \in Slot : k - offset \in cells'[i].seqs <=> 0 \in cells[i].seqs
    <3>1. k - offset \in ss
      OBVIOUS
    <3> HIDE DEF ss
    <3> QED
      BY <3>1, <1>2, <1>3, <1>4
  <2>2. HoldsIn(cells', k - offset, cached)
    BY <2>1, <1>2, <1>4, <1>5, Copies
  <2>3. DoneOf(k)' = 0 /\ prompt \in Seq(Token)
    <3>1. k \in DOMAIN options /\ k \in Nat /\ offset \in Nat /\ k > offset
      BY InRound DEF Inv
    <3>2. prompt \in Seq(Token)
      BY Types DEF Inv
    <3> QED
      BY <3>1, <3>2, ForksDone
  <2>4. prompt \o SubSeq(options[k], 1, 0) = prompt
    BY <2>3
  <2> QED
    BY <2>2, <2>3, <2>4, <1>1
<1> QED
  BY <1>1, <1>6, <1>7 DEF Apart

\* A decode goes on with each of them where the last one left off.
LEMMA FlushesApart ==
  ASSUME Inv, Queued, Untangled, ~torn, Flushes
  PROVE  Apart'
<1>1. /\ stage = "scoring" /\ InLoops /\ Apart
      /\ Round' = Round /\ UNCHANGED <<prompt, options, offset>>
  BY DEF Flushes, Flushing, Inv, Progress, Round, queryVars, Untangled
<1>2. /\ cells' \in [Slot -> Cell] /\ Placed(cells, cells', Items) /\ DOMAIN Items = DOMAIN batch
  BY FlushesStep
<1>3. cells \in Cells /\ cells' \in Cells
  <2>1. cells \in Cells
    BY CellsAre DEF Inv, TypeOK
  <2>2. cells' \in Cells
    BY <1>2, LocalModelAssumption DEF Cells, Cell, Free
  <2> QED
    BY <2>1, <2>2
<1>4. \A i \in DOMAIN batch : /\ Items[i].tok = options[batch[i][1]][batch[i][2]]
                             /\ Items[i].pos = Len(prompt) + batch[i][2] - 1
                             /\ Items[i].seqs = {batch[i][1] - offset}
  BY DEF Items
<1>5. /\ batch \in Seq(Nat \X Nat) /\ prompt \in Seq(Token) /\ offset \in Nat
      /\ Round \subseteq DOMAIN options
      /\ \A k \in Round : k \in Nat /\ options[k] \in Seq(Token) /\ Len(options[k]) \in Nat
  <2>1. /\ batch \in Seq(Nat \X Nat) /\ prompt \in Seq(Token) /\ offset \in Nat
        /\ DOMAIN options = 1 .. Len(options)
    BY Types DEF Inv, TypeOK
  <2>2. Round \subseteq DOMAIN options
    BY <2>1, Rounds DEF Inv
  <2>3. \A k \in DOMAIN options : /\ k \in Nat /\ options[k] \in Seq(Token)
                                 /\ Len(options[k]) \in Nat
    BY <2>1, Types DEF Inv
  <2> QED
    BY <2>1, <2>2, <2>3
<1>6. \A i \in DOMAIN batch : batch[i][1] \in Nat /\ batch[i][2] \in Nat
  BY <1>5
<1>7. ASSUME NEW i \in Slot, NEW s \in cells'[i].seqs
      PROVE  s = 0 \/ \E k \in Round : s = k - offset
  <2>1. CASE cells'[i] = cells[i]
    BY <2>1, <1>1, <1>7 DEF Apart
  <2>2. CASE cells'[i] # cells[i]
    <3>1. PICK j \in DOMAIN batch : cells'[i] = Items[j]
      BY <2>2, <1>2 DEF Placed
    <3>2. cells'[i].seqs = {batch[j][1] - offset}
      BY <3>1, <1>4
    <3> QED
      BY <3>2, <1>1 DEF InLoops
  <2> QED
    BY <2>1, <2>2
<1>8. ASSUME NEW k \in Round
      PROVE  HoldsIn(cells', k - offset, prompt \o SubSeq(options[k], 1, DoneOf(k)'))
  <2> DEFINE text == prompt \o SubSeq(options[k], 1, DoneOf(k))
             longer == prompt \o SubSeq(options[k], 1, Passed(k))
  <2>1. /\ DoneOf(k)' = Passed(k) /\ DoneOf(k) \in Nat /\ Passed(k) \in 0 .. Len(options[k])
        /\ DoneOf(k) <= Passed(k)
    <3>1. /\ DoneOf(k)' = Passed(k) /\ DoneOf(k) = Passed(k) - InBatch(k)
          /\ InBatch(k) \in Nat /\ Passed(k) \in Int
      BY <1>5, FlushesDone
    <3>2. DoneOf(k) \in Nat /\ Passed(k) \in 0 .. Len(options[k])
      BY <1>1 DEF Queued
    <3> QED
      BY <3>1, <3>2
  <2>2. /\ options[k] \in Seq(Token) /\ k \in Nat /\ Len(prompt) \in Nat
    BY <1>5
  <2>3. /\ text \in Seq(Token) /\ Len(text) = Len(prompt) + DoneOf(k)
        /\ \A p \in 1 .. Len(text) :
             text[p] = IF p <= Len(prompt) THEN prompt[p] ELSE options[k][p - Len(prompt)]
    <3>1. /\ SubSeq(options[k], 1, DoneOf(k)) \in Seq(Token)
          /\ Len(SubSeq(options[k], 1, DoneOf(k))) = DoneOf(k)
          /\ \A p \in 1 .. DoneOf(k) : SubSeq(options[k], 1, DoneOf(k))[p] = options[k][p]
      BY <2>1, <2>2
    <3> QED
      BY <3>1, <1>5, <2>1
  <2>4. /\ longer \in Seq(Token) /\ Len(longer) = Len(prompt) + Passed(k)
        /\ \A p \in 1 .. Len(longer) :
             longer[p] = IF p <= Len(prompt) THEN prompt[p] ELSE options[k][p - Len(prompt)]
    <3>1. /\ SubSeq(options[k], 1, Passed(k)) \in Seq(Token)
          /\ Len(SubSeq(options[k], 1, Passed(k))) = Passed(k)
          /\ \A p \in 1 .. Passed(k) : SubSeq(options[k], 1, Passed(k))[p] = options[k][p]
      BY <2>1, <2>2
    <3> QED
      BY <3>1, <1>5, <2>1
  <2>5. HoldsIn(cells, k - offset, text)
    BY <1>1 DEF Apart
  <2> HIDE DEF text, longer
  <2>6. Len(text) <= Len(longer) /\ \A p \in 1 .. Len(text) : longer[p] = text[p]
    <3>1. Len(text) <= Len(longer) /\ 1 .. Len(text) \subseteq 1 .. Len(longer)
      BY <2>1, <2>2, <2>3, <2>4
    <3> QED
      BY <3>1, <2>3, <2>4
  <2>7. \A i \in DOMAIN Items : k - offset \in Items[i].seqs <=> batch[i][1] = k
    BY <1>2, <1>4, <1>5, <1>6, <2>2
  <2>8. ASSUME NEW i \in DOMAIN Items, k - offset \in Items[i].seqs
        PROVE  /\ Items[i].pos + 1 \in Len(text) + 1 .. Len(longer)
               /\ longer[Items[i].pos + 1] = Items[i].tok
    <3>1. batch[i][1] = k /\ batch[i][2] \in DoneOf(k) + 1 .. Passed(k) /\ batch[i][2] \in Nat
      BY <2>7, <2>8, <1>1, <1>2, <1>6 DEF Queued
    <3>2. Items[i].pos + 1 = Len(prompt) + batch[i][2] /\ Items[i].tok = options[k][batch[i][2]]
      BY <3>1, <1>2, <1>4, <2>2
    <3>3. Items[i].pos + 1 \in Len(text) + 1 .. Len(longer)
      BY <3>1, <3>2, <2>1, <2>2, <2>3, <2>4
    <3>4. longer[Items[i].pos + 1] = options[k][batch[i][2]]
      <4> DEFINE q == Items[i].pos + 1
      <4>1. q \in 1 .. Len(longer) /\ ~(q <= Len(prompt)) /\ q - Len(prompt) = batch[i][2]
        BY <3>1, <3>2, <2>1, <2>2, <2>4
      <4> HIDE DEF q
      <4>2. longer[q] = options[k][q - Len(prompt)]
        BY <4>1, <2>4
      <4> QED
        BY <4>1, <4>2 DEF q
    <3> QED
      BY <3>2, <3>3, <3>4
  <2>9. ASSUME NEW p \in Len(text) + 1 .. Len(longer)
        PROVE  \E i \in DOMAIN Items : k - offset \in Items[i].seqs /\ Items[i].pos + 1 = p
    <3>1. p - Len(prompt) \in DoneOf(k) + 1 .. Passed(k) /\ p \in Nat
      BY <2>1, <2>2, <2>3, <2>4
    <3>2. PICK i \in DOMAIN batch : batch[i][1] = k /\ batch[i][2] = p - Len(prompt)
      BY <3>1, <1>1 DEF Queued
    <3>3. Items[i].pos + 1 = p /\ k - offset \in Items[i].seqs
      <4>1. Items[i].pos = Len(prompt) + batch[i][2] - 1 /\ Items[i].seqs = {k - offset}
        BY <3>2, <1>4
      <4> QED
        BY <4>1, <3>1, <3>2, <2>2
    <3> QED
      BY <3>3, <1>2
  <2>10. ASSUME NEW i \in DOMAIN Items, NEW j \in DOMAIN Items, k - offset \in Items[i].seqs,
                k - offset \in Items[j].seqs, Items[i].pos = Items[j].pos
         PROVE  i = j
    <3>1. batch[i][1] = batch[j][1]
      BY <2>7, <2>10
    <3>2. batch[i][2] = batch[j][2]
      BY <2>10, <1>2, <1>4, <1>6, <2>2
    <3> QED
      BY <3>1, <3>2, <1>1, <1>2 DEF Queued
  <2>11. HoldsIn(cells', k - offset, longer)
    <3>1. text \in Seq(Token) /\ longer \in Seq(Token) /\ Placed(cells, cells', Items)
      BY <1>2, <2>3, <2>4
    <3> QED
      BY <3>1, <1>3, <2>5, <2>6, <2>8, <2>9, <2>10, Continues
  <2> QED
    BY <2>1, <2>11 DEF longer
<1> QED
  BY <1>1, <1>7, <1>8 DEF Apart

\* What is read belongs to sequence 0.
LEMMA ReadsForPrompt ==
  ASSUME NEW more, Reads(more), \A i \in Slot : cells[i].seqs \subseteq {0}
  PROVE  \A i \in Slot : cells'[i].seqs \subseteq {0}
<1> DEFINE items == [i \in DOMAIN more |->
                       [tok |-> more[i], pos |-> Len(cached) + i - 1, seqs |-> {0}]]
<1>1. DOMAIN items = DOMAIN more /\ \A i \in DOMAIN items : items[i].seqs = {0}
  OBVIOUS
<1>2. PICK at \in [DOMAIN items -> FreeSlots] :
        cells' = [k \in Slot |-> IF \E i \in DOMAIN items : at[i] = k
                                 THEN items[CHOOSE i \in DOMAIN items : at[i] = k] ELSE cells[k]]
  BY DEF Reads, Decoded
<1> HIDE DEF items
<1> TAKE k \in Slot
<1>3. CASE \E i \in DOMAIN items : at[i] = k
  <2> DEFINE first == CHOOSE i \in DOMAIN items : at[i] = k
  <2>1. first \in DOMAIN items /\ cells'[k] = items[first]
    BY <1>2, <1>3
  <2> HIDE DEF first
  <2> QED
    BY <2>1, <1>1
<1>4. CASE ~\E i \in DOMAIN items : at[i] = k
  BY <1>2, <1>4
<1> QED
  BY <1>3, <1>4

\* A removal gives a cell no new sequence, and takes from it those that are removed.
LEMMA RemovesOnly ==
  ASSUME TypeOK, NEW ss, NEW from, Removed(ss, from), NEW i \in Slot
  PROVE  /\ cells'[i].seqs \subseteq cells[i].seqs
         /\ cells[i].pos < from \/ cells'[i].seqs \cap ss = {}
<1>1. /\ cells \in Cells /\ Cleaned(cells, cells', ss, from)
  BY CellsAre, RemovedStep DEF TypeOK
<1>2. CASE cells[i].pos < from \/ cells[i].seqs \cap ss = {}
  BY <1>2, <1>1 DEF Cleaned
<1>3. CASE ~(cells[i].pos < from \/ cells[i].seqs \cap ss = {}) /\ cells[i].seqs \subseteq ss
  <2>1. cells'[i] = Free
    BY <1>3, <1>1 DEF Cleaned
  <2> QED
    BY <2>1 DEF Free
<1>4. CASE ~(cells[i].pos < from \/ cells[i].seqs \cap ss = {}) /\ ~(cells[i].seqs \subseteq ss)
  <2>1. cells'[i] = [cells[i] EXCEPT !.seqs = @ \ ss]
    BY <1>4, <1>1 DEF Cleaned
  <2>2. cells[i] \in [tok : Token \cup {NoToken}, pos : Nat, seqs : SUBSET Nat]
    BY <1>1 DEF Cells
  <2>3. cells'[i].seqs = cells[i].seqs \ ss
    BY <2>1, <2>2
  <2> QED
    BY <2>3
<1> QED
  BY <1>2, <1>3, <1>4

\* Outside scoring, whatever a step does, only sequence 0 has cells.
LEMMA PromptAlone ==
  ASSUME Inv, Untangled, [Next]_vars, stage' # "scoring", ~torn'
  PROVE  \A i \in Slot : cells'[i].seqs \subseteq {0}
<1> DEFINE Alone == \A i \in Slot : cells[i].seqs \subseteq {0}
           Alone1 == \A i \in Slot : cells'[i].seqs \subseteq {0}
<1>1. stage # "scoring" /\ ~torn => Alone
  BY DEF Untangled
<1>2. ASSUME stage # "scoring", torn' = torn, UNCHANGED cells
      PROVE  Alone1
  BY <1>1, <1>2
<1>3. ASSUME NEW p, NEW o, NEW g, Begins(p, o, g), stage # "scoring", torn' = torn
      PROVE  Alone1
  <2>1. PICK n : Removed({0}, n)
    BY <1>3 DEF Begins, Trims
  <2>2. \A i \in Slot : cells'[i].seqs \subseteq cells[i].seqs
    BY <2>1, RemovesOnly DEF Inv
  <2> QED
    BY <2>2, <1>1, <1>3
<1>4. CASE Submits \/ TimesOut \/ Drops \/ Terminated \/ UNCHANGED vars
  <2>1. UNCHANGED <<stage, torn, cells>>
    BY <1>4 DEF Submits, TimesOut, Drops, Terminated, vars, cacheVars
  <2> QED
    BY <2>1, <1>2
<1>5. ASSUME NEW p, NEW o, NEW g, TakesJob(p, o, g)
      PROVE  Alone1
  <2>1. stage # "scoring" /\ torn' = torn /\ (Begins(p, o, g) \/ UNCHANGED cells)
    BY <1>5 DEF TakesJob, cacheVars
  <2> QED
    BY <2>1, <1>2, <1>3
<1>6. ASSUME NEW p, NEW o, NextQuestion(p, o)
      PROVE  Alone1
  <2>1. stage # "scoring" /\ torn' = torn /\ (Begins(p, o, 0) \/ UNCHANGED cells)
    BY <1>6 DEF NextQuestion, cacheVars
  <2> QED
    BY <2>1, <1>2, <1>3
<1>7. CASE Answers \/ Ends \/ Prefilled
  <2>1. stage # "scoring" /\ torn' = torn /\ UNCHANGED cells
    BY <1>7 DEF Answers, Ends, Prefilled, cacheVars
  <2> QED
    BY <2>1, <1>2
<1>8. CASE Prefills
  <2>1. stage # "scoring" /\ torn' = torn /\ Reads(Chunk)
    BY <1>8 DEF Prefills
  <2> QED
    BY <2>1, <1>1, ReadsForPrompt
<1>9. ASSUME NEW t, Generates(t)
      PROVE  Alone1
  <2>1. stage # "scoring" /\ torn' = torn /\ Reads(<<t>>)
    BY <1>9 DEF Generates
  <2> QED
    BY <2>1, <1>1, ReadsForPrompt
<1>10. CASE ClearsRound
  <2> DEFINE ss == {k - offset : k \in Round}
  <2>1. stage = "scoring" /\ torn' = torn /\ Removed(ss, 0)
    BY <1>10 DEF ClearsRound, Cleared
  <2>2. \A i \in Slot : cells[i].seqs \subseteq {0} \cup ss
    BY <2>1 DEF Untangled, Apart
  <2>3. \A i \in Slot : ~(cells[i].pos < 0)
    BY CellsAre DEF Inv, TypeOK, Cells
  <2>4. \A i \in Slot : cells'[i].seqs \subseteq cells[i].seqs /\ cells'[i].seqs \cap ss = {}
    <3> HIDE DEF ss
    <3> QED
      BY <2>1, <2>3, RemovesOnly DEF Inv
  <2> HIDE DEF ss
  <2> QED
    BY <2>2, <2>4
<1>11. CASE Fails
  <2>1. stage # "scoring" /\ torn' = torn /\ UNCHANGED cells
    BY <1>11 DEF Fails, cacheVars, Inv, TypeOK
  <2> QED
    BY <2>1, <1>2
<1>12. CASE Forks \/ Batches \/ Flushes
  BY <1>12 DEF Forks, Batches, Flushes, Flushing
<1> QED
  BY <1>4, <1>5, <1>6, <1>7, <1>8, <1>9, <1>10, <1>11, <1>12 DEF Next

\* Every step keeps the sequences apart, or is a decode that fails while scoring.
LEMMA UntangledKept ==
  ASSUME Inv, Queued, Untangled, [Next]_vars
  PROVE  Untangled'
<1> SUFFICES ASSUME ~torn', stage' = "scoring"
             PROVE  Apart'
  BY PromptAlone DEF Untangled
<1>1. CASE Forks
  <2>1. ~torn
    BY <1>1 DEF Forks
  <2> QED
    BY <2>1, <1>1, ForksApart
<1>2. CASE Flushes
  <2>1. ~torn
    BY <1>2 DEF Flushes
  <2> QED
    BY <2>1, <1>2, FlushesApart
<1>3. CASE Batches
  <2>1. /\ stage = "scoring" /\ ~torn /\ Round' = Round
        /\ UNCHANGED <<cells, prompt, options, offset>>
    BY <1>3 DEF Batches, Round, queryVars, cacheVars
  <2>2. Round \subseteq DOMAIN options
    BY Rounds, Types DEF Inv
  <2>3. \A k \in Round : DoneOf(k)' = DoneOf(k)
    BY <2>2, <1>3, BatchesDone
  <2> QED
    BY <2>1, <2>3 DEF Untangled, Apart
<1>4. CASE UNCHANGED <<stage, options, prompt, offset, next, batch, cells, torn>>
  <2>1. Round' = Round /\ \A k : DoneOf(k)' = DoneOf(k)
    BY <1>4 DEF DoneOf, Passed, InBatch, Round
  <2>2. stage = "scoring" /\ ~torn /\ UNCHANGED <<options, prompt, offset, cells>>
    BY <1>4
  <2> QED
    BY <2>1, <2>2 DEF Untangled, Apart
<1> QED
  BY <1>1, <1>2, <1>3, <1>4, OnlyScoring

\* So the sequences stay apart throughout, until torn.
LEMMA AlwaysUntangled == Spec => [](Inv /\ Untangled)
<1>1. Init => Queued /\ Untangled
  BY DEF Init, Queued, Untangled, Free
<1>2. Inv /\ Queued /\ Untangled /\ [Next]_vars => Queued' /\ Untangled'
  BY QueuedKept, UntangledKept
<1> QED
  BY <1>1, <1>2, Always, PTL DEF Spec

\* Each option is scored after the prompt and its own earlier tokens (local.rs:514),
\* as long as no decode has failed while options were being scored.
THEOREM OptionsForked == Spec => []ForkedUnlessTorn
<1>1. Inv /\ Untangled => ForkedUnlessTorn
  <2> SUFFICES ASSUME Untangled, ~torn, stage = "scoring", NEW k \in Round
               PROVE  Holds(k - offset, prompt \o SubSeq(options[k], 1, DoneOf(k)))
    BY DEF ForkedUnlessTorn, Forked
  <2>1. HoldsIn(cells, k - offset, prompt \o SubSeq(options[k], 1, DoneOf(k)))
    BY DEF Untangled, Apart
  <2> QED
    BY <2>1 DEF Holds, Own, HoldsIn
<1> QED
  BY <1>1, AlwaysUntangled, PTL

\* The cells that sequence 0 does not need are free, while it is alone.
LEMMA RoomLeft ==
  ASSUME Inv, \A i \in Slot : cells[i].seqs \subseteq {0}
  PROVE  NCtx - Len(cached) <= Cardinality(FreeSlots) /\ Cardinality(FreeSlots) \in Nat
<1> DEFINE own == Own(0)
           f == [i \in own |-> cells[i].pos + 1]
<1>1. cells \in [Slot -> Cell] /\ cached \in Seq(Token) /\ HoldsIn(cells, 0, cached)
  BY SyncIs DEF Inv, TypeOK
<1>2. FreeSlots = Slot \ own
  <2>1. ASSUME NEW i \in Slot
        PROVE  cells[i] = Free <=> 0 \notin cells[i].seqs
    <3>1. cells[i] = Free \/ cells[i].seqs # {}
      <4>1. cells[i] \in Cell
        BY <1>1
      <4> QED
        BY <4>1 DEF Cell
    <3> QED
      BY <3>1 DEF Free
  <2> QED
    BY <2>1 DEF FreeSlots, Own
<1>3. IsFiniteSet(Slot) /\ Cardinality(Slot) = NCtx /\ NCtx \in Nat
  <2>1. NCtx \in Nat \ {0} /\ 1 \in Int
    BY Constants
  <2> QED
    BY <2>1, FS_Interval DEF Slot
<1>4. own \subseteq Slot
  BY DEF Own
<1>5. Cardinality(own) <= Len(cached)
  <2>1. f \in [own -> 1 .. Len(cached)]
    BY <1>1 DEF HoldsIn, Own
  <2>2. \A i, j \in own : f[i] = f[j] => i = j
    <3> TAKE i, j \in own
    <3> HAVE f[i] = f[j]
    <3>1. cells[i].pos \in Nat /\ cells[j].pos \in Nat
      BY <1>4, CellsAre DEF Inv, TypeOK, Cells
    <3>2. cells[i].pos = cells[j].pos
      BY <3>1
    <3> QED
      BY <3>2, <1>1 DEF HoldsIn, Own
  <2>3. f \in Injection(own, 1 .. Len(cached))
    <3> HIDE DEF f, own
    <3> QED
      BY <2>1, <2>2 DEF Injection, IsInjective
  <2>4. IsFiniteSet(1 .. Len(cached)) /\ Cardinality(1 .. Len(cached)) = Len(cached)
    <3>1. Len(cached) \in Nat /\ Len(cached) \in Int /\ 1 \in Int
      BY <1>1
    <3> QED
      BY <3>1, FS_Interval
  <2> HIDE DEF f, own
  <2> QED
    BY <2>3, <2>4, FS_Injection
<1>6. /\ Cardinality(FreeSlots) = Cardinality(Slot) - Cardinality(Slot \cap own)
      /\ IsFiniteSet(FreeSlots) /\ Slot \cap own = own
  BY <1>2, <1>3, <1>4, FS_Difference
<1>7. Cardinality(FreeSlots) = NCtx - Cardinality(own)
  BY <1>3, <1>6
<1>8. Cardinality(own) \in Nat /\ Cardinality(FreeSlots) \in Nat /\ Len(cached) \in Nat
  BY <1>1, <1>3, <1>4, <1>6, FS_Subset, FS_CardinalityType
<1> HIDE DEF own
<1> QED
  BY <1>3, <1>5, <1>7, <1>8

\* A prompt that is let in finds room for itself and for what it generates
\* (local.rs:416 and 479), unless a failed decode has left cells behind.
THEOREM RoomForPrompts == Spec => []PromptHasRoom
<1>1. Inv /\ Untangled => PromptHasRoom
  <2> SUFFICES ASSUME Inv, Untangled, ~torn, stage \in {"prefilling", "generating"}
               PROVE  /\ stage = "prefilling" => Len(prompt) - Len(cached) <= Cardinality(FreeSlots)
                      /\ stage = "generating" => goal - made <= Cardinality(FreeSlots)
    BY DEF PromptHasRoom
  <2>1. NCtx - Len(cached) <= Cardinality(FreeSlots) /\ Cardinality(FreeSlots) \in Nat
    BY RoomLeft DEF Untangled
  <2>2. /\ Len(prompt) + goal < NCtx
        /\ stage = "generating" => Len(cached) = Len(prompt) + made
    BY DEF Inv, Task, Fits, Progress
  <2>3. /\ Len(prompt) \in Nat /\ Len(cached) \in Nat /\ goal \in Nat /\ made \in Nat
        /\ NCtx \in Nat
    BY Types, Constants DEF Inv, TypeOK
  <2> QED
    BY <2>1, <2>2, <2>3
<1> QED
  BY <1>1, AlwaysUntangled, PTL
=============================================================================
