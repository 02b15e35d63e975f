----------------------------- MODULE LocalModel -----------------------------
(***************************************************************************)
(* The thread that owns the local model (local.rs, "parla-llm").  Requests  *)
(* come over a channel from a caller that may give up on them; the thread   *)
(* works on one at a time.  What it keeps between requests is the model's   *)
(* cache: a pool of cells, each with a token, its position and the          *)
(* sequences that it belongs to.  Sequence 0 is the prompt; the options of  *)
(* a question are scored on sequences 1, 2, ... forked from it.             *)
(***************************************************************************)
EXTENDS Naturals, SequencesExt, FiniteSets

CONSTANTS Token, NoToken,
          Prompt,      \* prompts, in tokens
          Menu,        \* what a question may be answered with: sequences of options
          Budget,      \* how many tokens a generation may take
          NCtx,        \* cells of the cache (local.context_tokens)
          Batch,       \* tokens per decode (BATCH)
          PerRound,    \* options scored at a time (SEQUENCES - 1)
          MaxAsked     \* requests in a behaviour (bounds the model)

ASSUME LocalModelAssumption ==
  /\ NoToken \notin Token
  /\ Prompt \subseteq Seq(Token) \ {<<>>} /\ Menu \subseteq Seq(Seq(Token) \ {<<>>})
  /\ {NCtx, Batch, PerRound} \subseteq Nat \ {0} /\ Budget \subseteq Nat /\ MaxAsked \in Nat

VARIABLES held,       \* the daemon still has the model
          asked,      \* requests sent so far
          waiting,    \* the one whose caller waits, or 0
          jobs        \* the channel

VARIABLES stage,      \* what the thread is about to do
          job,        \* the request it works on, or 0
          prompt, options, goal,  \* the question, or the generation and its budget
          logits,     \* the text whose continuation the model computed last
          offset,     \* options scored in earlier rounds
          next,       \* the option of this round, and its token, to be batched next
          batch,      \* those batched and not decoded yet
          tally,      \* probabilities multiplied into each option's
          made        \* tokens generated

VARIABLES cells,      \* the model's cache
          cached      \* what the thread takes sequence 0 to hold

\* History: a decode has failed while options were being scored.
VARIABLE torn

askVars   == <<held, asked, jobs>>
scoreVars == <<offset, next, batch, tally>>
queryVars == <<job, prompt, options, goal>>
cacheVars == <<cells, cached>>
vars == <<askVars, waiting, stage, queryVars, logits, scoreVars, made, cacheVars, torn>>

Slot == 1 .. NCtx
Free == [tok |-> NoToken, pos |-> 0, seqs |-> {}]
Cell == [tok : Token, pos : 0 .. NCtx - 1, seqs : (SUBSET (0 .. PerRound)) \ {{}}] \cup {Free}
Stages == {"idle", "prefilling", "forking", "scoring", "scored", "generating", "gone"}

TypeOK ==
  /\ held \in BOOLEAN /\ asked \in 0 .. MaxAsked
  /\ waiting \in 0 .. asked /\ jobs \in Seq(1 .. asked) /\ job \in 0 .. asked
  /\ stage \in Stages
  /\ prompt \in Prompt \cup {<<>>} /\ options \in Menu \cup {<<>>} /\ goal \in Budget \cup {0}
  /\ logits \in Seq(Token) /\ cached \in Seq(Token)
  /\ offset \in 0 .. Len(options) /\ made \in 0 .. goal
  /\ next \in Nat \X Nat /\ batch \in Seq(Nat \X Nat)
  /\ tally \in [DOMAIN options -> Nat]
  /\ cells \in [Slot -> Cell] /\ torn \in BOOLEAN
-----------------------------------------------------------------------------
(* The cache (llama.cpp, as local.rs uses it). *)

FreeSlots == {i \in Slot : cells[i] = Free}

\* Some sequences lose their cells from a position on.
RemovedInPart(ss, from) == cells' = [i \in Slot |->                 \* mutant
  IF cells[i].pos < from THEN cells[i] ELSE [cells[i] EXCEPT !.seqs = @ \ ss]]
Removed(ss, from) == cells' = [i \in Slot |->
  IF cells[i].pos < from \/ cells[i].seqs \cap ss = {} THEN cells[i]
  ELSE IF cells[i].seqs \subseteq ss THEN Free ELSE [cells[i] EXCEPT !.seqs = @ \ ss]]

\* Others come to share the cells of sequence 0.
Shared(ss) == cells' = [i \in Slot |->
  IF 0 \in cells[i].seqs THEN [cells[i] EXCEPT !.seqs = @ \cup ss] ELSE cells[i]]

\* A batch takes the first free cells, if there are enough.
Decoded(items) ==
  \E at \in [DOMAIN items -> FreeSlots] :
    /\ \A i, j \in DOMAIN items : i < j => at[i] < at[j]
    /\ \A i \in DOMAIN items, k \in FreeSlots : k < at[i] => \E j \in DOMAIN items : at[j] = k
    /\ cells' = [k \in Slot |-> IF \E i \in DOMAIN items : at[i] = k
                                THEN items[CHOOSE i \in DOMAIN items : at[i] = k] ELSE cells[k]]

\* A sequence consists of exactly this text.
Own(s) == {i \in Slot : s \in cells[i].seqs}
Holds(s, text) ==
  /\ \A i \in Own(s) : cells[i].pos + 1 \in DOMAIN text /\ text[cells[i].pos + 1] = cells[i].tok
  /\ \A p \in DOMAIN text : \E i \in Own(s) : cells[i].pos + 1 = p
  /\ \A i, j \in Own(s) : cells[i].pos = cells[j].pos => i = j
-----------------------------------------------------------------------------
(* Building blocks of the thread. *)

\* The caller, if it still waits, is told.
Replied == stage' = "idle" /\ job' = 0 /\ waiting' = IF waiting = job THEN 0 ELSE waiting

\* A prompt has to leave room for the longest option, or for what it generates.
FitsAlone(p, o, g) == Len(p) < NCtx                                 \* mutant
Fits(p, o, g) == \A n \in {g} \cup {Len(o[k]) : k \in DOMAIN o} : Len(p) + n < NCtx

\* The cache and a prompt agree on so many tokens, and on no more; the last of
\* the prompt does not count.
Agree(p, n) == n <= Len(cached) /\ SubSeq(cached, 1, n) = SubSeq(p, 1, n)
KeepsAll(p, n) == n <= Len(p) /\ Agree(p, n) /\ \A m \in n + 1 .. Len(p) : ~Agree(p, m)  \* mutant
Keeps(p, n) == n < Len(p) /\ Agree(p, n) /\ \A m \in n + 1 .. Len(p) - 1 : ~Agree(p, m)

\* Sequence 0 is cut down to those.
TrimsList(n) == cached' = SubSeq(cached, 1, n) /\ UNCHANGED cells  \* mutant
Trims(n) == cached' = SubSeq(cached, 1, n) /\ Removed({0}, n)

\* A question or a generation is begun.
Begins(p, o, g) ==
  /\ Fits(p, o, g) /\ \E n \in 0 .. Len(p) : Keeps(p, n) /\ Trims(n)
  /\ stage' = "prefilling"
  /\ prompt' = p /\ options' = o /\ goal' = g /\ logits' = <<>>
  /\ offset' = 0 /\ next' = <<1, 1>> /\ batch' = <<>> /\ made' = 0
  /\ tally' = [k \in DOMAIN o |-> 1]       \* its first token's, by the prompt

\* The options of this round; how many of option k's tokens wait in the batch, have
\* been put into one, and have been decoded.
Round == offset + 1 .. IF offset + PerRound < Len(options) THEN offset + PerRound
                       ELSE Len(options)
InBatch(k) == Cardinality({i \in DOMAIN batch : batch[i][1] = k})
Passed(k) == IF k < next[1] THEN Len(options[k]) ELSE IF k = next[1] THEN next[2] - 1 ELSE 0
DoneOf(k) == Passed(k) - InBatch(k)

\* The next tokens of the prompt, as many as a decode takes.
Chunk == SubSeq(prompt, Len(cached) + 1,
                IF Len(cached) + Batch < Len(prompt) THEN Len(cached) + Batch ELSE Len(prompt))

\* For each token decoded, the probability of the one that is to follow it is
\* multiplied into its option's.
Folded(k) == tally[k] + InBatch(k)
-----------------------------------------------------------------------------
(* The daemon. *)

Submits ==
  /\ held /\ waiting = 0
  /\ asked < MaxAsked       \* bounds the model
  /\ asked' = asked + 1 /\ waiting' = asked + 1 /\ jobs' = Append(jobs, asked + 1)
  /\ UNCHANGED <<held, stage, queryVars, logits, scoreVars, made, cacheVars, torn>>

\* The timeout elapses: the request stays where it is.
TimesOut ==
  /\ waiting # 0 /\ waiting' = 0
  /\ UNCHANGED <<askVars, stage, queryVars, logits, scoreVars, made, cacheVars, torn>>

\* Whoever waits is abandoned first.
Drops ==
  /\ held /\ held' = FALSE /\ waiting' = 0
  /\ UNCHANGED <<asked, jobs, stage, queryVars, logits, scoreVars, made, cacheVars, torn>>
-----------------------------------------------------------------------------
(* The thread: requests. *)

\* The next request, to score options or to generate, whether or not somebody
\* still waits for it.
Starts(o, g) == IF o = <<>> THEN g # 0 ELSE g = 0
TakesJob(p, o, g) ==
  /\ stage = "idle" /\ jobs # <<>> /\ Starts(o, g)
  /\ jobs' = Tail(jobs)
  /\ \/ Begins(p, o, g) /\ job' = Head(jobs) /\ UNCHANGED waiting
     \/ /\ ~Fits(p, o, g)
        /\ waiting' = IF waiting = Head(jobs) THEN 0 ELSE waiting
        /\ UNCHANGED <<stage, queryVars, logits, scoreVars, made, cacheVars>>
  /\ UNCHANGED <<held, asked, torn>>

\* The next question of the same request.
NextQuestion(p, o) ==
  /\ stage = "scored"
  /\ \/ Begins(p, o, 0) /\ UNCHANGED <<waiting, job>>
     \/ /\ ~Fits(p, o, 0) /\ Replied
        /\ UNCHANGED <<prompt, options, goal, logits, scoreVars, made, cacheVars>>
  /\ UNCHANGED <<askVars, torn>>

Answers ==
  /\ stage = "scored" \/ stage = "generating"
  /\ Replied
  /\ UNCHANGED <<askVars, prompt, options, goal, logits, scoreVars, made, cacheVars, torn>>

\* The channel has been drained, and nobody can send any more.
Ends ==
  /\ stage = "idle" /\ jobs = <<>> /\ ~held
  /\ stage' = "gone"
  /\ UNCHANGED <<askVars, waiting, queryVars, logits, scoreVars, made, cacheVars, torn>>
-----------------------------------------------------------------------------
(* The thread: decoding. *)

\* Sequence 0 goes on with some tokens.
Reads(more) ==
  /\ Decoded([i \in DOMAIN more |->
                [tok |-> more[i], pos |-> Len(cached) + i - 1, seqs |-> {0}]])
  /\ cached' = cached \o more /\ logits' = cached'

\* What of the prompt the cache does not hold, a batch at a time.
Prefills ==
  /\ stage = "prefilling" /\ cached # prompt
  /\ Reads(Chunk)
  /\ UNCHANGED <<askVars, waiting, stage, queryVars, scoreVars, made, torn>>

Prefilled ==
  /\ stage = "prefilling" /\ cached = prompt /\ logits # <<>>
  /\ stage' = IF options = <<>> THEN "generating" ELSE "forking"
  /\ UNCHANGED <<askVars, waiting, queryVars, logits, scoreVars, made, cacheVars, torn>>

\* A sequence for each option of the round.
Forks ==
  /\ stage = "forking" /\ stage' = "scoring"
  /\ Shared({k - offset : k \in Round})
  /\ next' = <<offset + 1, 1>> /\ batch' = <<>>
  /\ UNCHANGED <<askVars, waiting, queryVars, logits, offset, tally, made, cached, torn>>

Batches ==
  /\ stage = "scoring" /\ next[1] \in Round /\ Len(batch) < Batch
  /\ batch' = Append(batch, next)
  /\ next' = IF next[2] < Len(options[next[1]]) THEN <<next[1], next[2] + 1>>
             ELSE <<next[1] + 1, 1>>
  /\ UNCHANGED <<askVars, waiting, stage, queryVars, logits, offset, tally, made, cacheVars, torn>>

\* The batch is full and there is more, or there is no more.
Flushing == stage = "scoring" /\ batch # <<>> /\ (Len(batch) = Batch \/ next[1] \notin Round)
Flushes ==
  /\ Flushing
  /\ Decoded([i \in DOMAIN batch |-> [tok  |-> options[batch[i][1]][batch[i][2]],
                                      pos  |-> Len(prompt) + batch[i][2] - 1,
                                      seqs |-> {batch[i][1] - offset}]])
  /\ tally' = [k \in DOMAIN tally |-> Folded(k)] /\ batch' = <<>>
  /\ UNCHANGED <<askVars, waiting, stage, queryVars, logits, offset, next, made, cached, torn>>

\* The round's sequences are cleared.
NotCleared == UNCHANGED cells                                      \* mutant
Cleared == Removed({k - offset : k \in Round}, 0)
ClearsRound ==
  /\ stage = "scoring" /\ batch = <<>> /\ next[1] \notin Round
  /\ Cleared
  /\ offset' = offset + Cardinality(Round)
  /\ stage' = IF offset' < Len(options) THEN "forking" ELSE "scored"
  /\ UNCHANGED <<askVars, waiting, queryVars, logits, next, batch, tally, made, cached, torn>>

\* The likeliest token is taken for part of the text.
Generates(t) ==
  /\ stage = "generating" /\ made < goal
  /\ Reads(<<t>>) /\ made' = made + 1
  /\ UNCHANGED <<askVars, waiting, stage, queryVars, scoreVars, torn>>

\* A decode fails, for want of cells or on the device, and the request with it;
\* or there was nothing to decode.
Fails ==
  /\ \/ stage = "prefilling" /\ (cached # prompt \/ logits = <<>>)
     \/ Flushing
     \/ stage = "generating" /\ made < goal
  /\ Replied
  /\ torn' = (torn \/ stage = "scoring")
  /\ UNCHANGED <<askVars, prompt, options, goal, logits, scoreVars, made, cacheVars>>
-----------------------------------------------------------------------------
Init ==
  /\ held = TRUE /\ asked = 0 /\ waiting = 0 /\ jobs = <<>>
  /\ stage = "idle" /\ job = 0
  /\ prompt = <<>> /\ options = <<>> /\ goal = 0 /\ logits = <<>>
  /\ offset = 0 /\ next = <<1, 1>> /\ batch = <<>> /\ tally = <<>> /\ made = 0
  /\ cells = [i \in Slot |-> Free] /\ cached = <<>> /\ torn = FALSE

\* The daemon has exited.
Terminated == stage = "gone" /\ UNCHANGED vars

Next == \/ Submits \/ TimesOut \/ Drops
        \/ \E p \in Prompt, o \in Menu :
             TakesJob(p, o, 0) \/ NextQuestion(p, o)
        \/ \E p \in Prompt, g \in Budget : TakesJob(p, <<>>, g)
        \/ Answers \/ Ends
        \/ Prefills \/ Prefilled \/ Forks \/ Batches \/ Flushes \/ ClearsRound
        \/ \E t \in Token : Generates(t)
        \/ Fails \/ Terminated

Spec == Init /\ [][Next]_vars
-----------------------------------------------------------------------------
(* Properties. *)

\* Sequence 0 is what the thread believes it is, whatever failed before: a prompt
\* that reuses it is not read after another's tokens (cached and prefill,
\* local.rs:268 and 533).
CacheInSync == Holds(0, cached)

\* An answer is read off the text it is about, after the prompt and all that has
\* been generated: reuse of the cache always leaves something to decode
\* (prefill, local.rs:538).
ReadsOwnText ==
  /\ stage = "prefilling" /\ cached = prompt => logits = prompt
  /\ stage = "generating" => logits = cached /\ IsPrefix(prompt, cached)
  /\ stage \in {"forking", "scoring", "scored"} => cached = prompt

\* What does not fit is refused before any decode: a prompt that was let in, and
\* what it generates, never run out of cells (the ensures at local.rs:416 and
\* 479), unless scoring has left some behind.
PromptHasRoom ==
  /\ stage = "prefilling" /\ ~torn => Len(prompt) - Len(cached) <= Cardinality(FreeSlots)
  /\ stage = "generating" /\ ~torn => goal - made <= Cardinality(FreeSlots)

\* An option's score is the product over its tokens and the end of the turn, each
\* once, over rounds and batches of any size (score, local.rs:502).
EachTokenOnce ==
  stage = "scored" => \A k \in DOMAIN options : tally[k] = Len(options[k]) + 1

\* Each option is scored after the prompt and its own earlier tokens, and nothing
\* else, until a decode fails while options are scored.
Forked == stage = "scoring" =>
  \A k \in Round : Holds(k - offset, prompt \o SubSeq(options[k], 1, DoneOf(k)))
ForkedUnlessTorn == torn \/ Forked
=============================================================================
