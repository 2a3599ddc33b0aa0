----------------------------- MODULE TextSearch -----------------------------
(***************************************************************************)
(* One search call on a loaded engine (pkg/acor/scan.go, rewrite.go,       *)
(* matches.go, parallel.go, context_ops.go, and the composite engine of    *)
(* internal/engine/engine_composite.go): a bounded Scan or rewrite that    *)
(* streams the text through a window of candidates, FindMatches, and the   *)
(* parallel searches, whose workers scan chunks in any order.              *)
(*                                                                         *)
(* A keyword is a sequence of folded runes, a match the span <<start, end>> *)
(* of rune offsets, from which keyword and bytes follow. That an engine    *)
(* reports the occurrences it should is MatchEngines' subject: here an     *)
(* engine's output chain is given by them. Every loop of these functions   *)
(* is an action that does one turn of it.                                  *)
(***************************************************************************)
EXTENDS SearchOrder, Functions

CONSTANTS
  Engines,     \* sequences of disjoint dictionaries: the shards of a loaded engine
  Texts,       \* texts to search
  Fold,        \* what unicode.ToLower makes of a rune
  Width,       \* bytes of a rune
  WordRunes,   \* runes that are part of a word
  Breaks,      \* pairs of runes between which a chunk may end
  Scans,       \* the options of the scanning calls, see ScanType
  Splits,      \* the options of the parallel calls, see SplitType
  Workers      \* how many chunks are scanned at once

(* Limits as after scanOptions; replacement is its number of bytes, mask   *)
(* the width of the mask rune.                                             *)
ScanType == [call : {"scan", "replace", "mask", "findMatches"}, longest : BOOLEAN, word : BOOLEAN,
             sensitive : BOOLEAN, matches : Nat, candidates : Nat, input : Nat, output : Nat, size : Nat]
SplitType == [call : {"find", "index"}, auto : BOOLEAN, sensitive : BOOLEAN,
              chunk : Nat \ {0}, overlap : Nat]

Rune == DOMAIN Fold

(* A keyword is routed to one shard, so that the dictionaries are disjoint. *)
ASSUME SearchAssumption ==
  /\ Fold \in [Rune -> Rune]
  /\ Width \in [Rune -> Nat \ {0}]
  /\ Texts \subseteq Seq(Rune)
  /\ \A e \in Engines :
       /\ e \in Seq(SUBSET Seq(Rune))
       /\ \A i \in DOMAIN e : IsFiniteSet(e[i])
       /\ \A i, j \in DOMAIN e : i # j => e[i] \cap e[j] = {}
  /\ Scans \subseteq ScanType
  /\ \A o \in Scans :
       /\ o.call = "mask" => o.size > 0
       /\ o.call \in {"replace", "mask"} => o.longest
  /\ Splits \subseteq SplitType
  /\ Workers \in Nat \ {0}

VARIABLES
  shards, text, opts,   \* the call
  pc,                   \* where it is
  consumed, chain,      \* runes read (chunks started), candidates of the last one still to emit
  candidates,           \* raw matches seen
  best, windowEnd,      \* sourceWindow: the best end per pending start; the end of the last selection
  rest,                 \* FindMatches: sorted matches still to look at
  found, truncated,     \* the result
  cursor,               \* where a rewrite or a split has come to in the text
  rendered, total,      \* renderRewrite: matches and bytes so far
  outcome, output,      \* how the call ended; a rewrite's text as pieces
  chunks, running, perChunk

callVars == <<shards, text, opts>>
streamVars == <<consumed, chain, candidates>>
resultVars == <<found, truncated>>
rewriteVars == <<rendered, total, output>>
chunkVars == <<chunks, running, perChunk>>
vars == <<callVars, pc, streamVars, best, windowEnd, rest, resultVars, cursor, rewriteVars, outcome, chunkVars>>

(* normalizeText, and sourceScanner.normalized rune by rune. *)
Normal(t) == [i \in DOMAIN t |-> IF opts.sensitive THEN t[i] ELSE Fold[t[i]]]

(* The byte offsets of the runes and of the end. *)
Offsets(t) == Partial([i \in DOMAIN t |-> Width[t[i]]])
Bytes(a, b) == Offsets(text)[b] - Offsets(text)[a]

-----------------------------------------------------------------------------
(* The engine. *)

(* The output chain of one dictionary after e runes. *)
ChainAt(D, t, e) == {<<s, e>> : s \in {r \in 0 .. (e - 1) : SubSeq(t, r + 1, e) \in D}}

(* outputCursor.next: the longest match first. *)
Longer(S) == CHOOSE m \in S : \A n \in S : m[1] <= n[1]

(* emitCompositeQueue: the shard whose next match starts first. *)
Waiting == {i \in DOMAIN shards : chain[i] # {}}
NextShard == CHOOSE i \in Waiting : \A j \in Waiting : Longer(chain[i])[1] <= Longer(chain[j])[1]

(* matchString of a composite: every shard's matches, sorted by end and start. *)
ScanOrder(m, n) == m[2] < n[2] \/ (m[2] = n[2] /\ m[1] < n[1])
MatchString(t) == UNION {UNION {ChainAt(shards[i], t, e) : e \in DOMAIN t} : i \in DOMAIN shards}

(* MaxKeywordRunes; an engine without keywords has none. *)
Longest ==
  LET lengths == {0} \cup {Len(kw) : kw \in UNION Range(shards)}
  IN  CHOOSE n \in lengths : \A k \in lengths : k <= n

-----------------------------------------------------------------------------
Init ==
  /\ shards \in Engines /\ text \in Texts /\ opts \in Scans \cup Splits
  /\ pc = "start" /\ outcome = "none"
  /\ consumed = 0 /\ chain = [i \in DOMAIN shards |-> {}] /\ candidates = 0
  /\ best = [s \in {} |-> 0] /\ windowEnd = 0 /\ rest = {}
  /\ found = <<>> /\ truncated = FALSE
  /\ cursor = 0 /\ rendered = 0 /\ total = 0 /\ output = <<>>
  /\ chunks = <<>> /\ running = {} /\ perChunk = <<>>

Done(o) == pc' = "done" /\ outcome' = o

(* scanOptions: a text past the byte limit is refused. *)
StartScan ==
  /\ pc = "start" /\ opts \in Scans /\ opts.call # "findMatches"
  /\ IF Bytes(0, Len(text)) > opts.input
     THEN Done("input")
     ELSE pc' = "read" /\ UNCHANGED outcome
  /\ UNCHANGED <<callVars, streamVars, best, windowEnd, rest, resultVars, cursor, rewriteVars, chunkVars>>

(* The pending starts are a set: the heap serves the least. *)
NextStart == CHOOSE s \in DOMAIN best : \A r \in DOMAIN best : s <= r

(* Mutant of Ripe: a candidate is selected as soon as it is seen. *)
RipeAtOnce == DOMAIN best # {}

(* Mutant of Ripe: nothing is selected before the end. *)
RipeAtEnd == DOMAIN best # {} /\ pc = "drain"

(* flush: every match that starts where the first candidate does has been  *)
(* seen when the longest keyword from there has been read, or at the end.  *)
Ripe == DOMAIN best # {} /\ (pc = "drain" \/ consumed - NextStart >= Longest)

(* append: a match past the limit only marks the result truncated. *)
Select(m, else) ==
  IF Len(found) = opts.matches
  THEN truncated' = TRUE /\ pc' = "ended" /\ UNCHANGED found
  ELSE found' = Append(found, m) /\ pc' = else /\ UNCHANGED truncated

(* flush pops the first candidate and selects it unless the last selection overlaps it. *)
Flush ==
  /\ pc \in {"read", "drain"} /\ Ripe
  /\ LET m == <<NextStart, best[NextStart]>>
     IN  /\ best' = [s \in DOMAIN best \ {m[1]} |-> best[s]]
         /\ IF m[1] < windowEnd
            THEN UNCHANGED <<pc, found, truncated, windowEnd>>
            ELSE /\ Select(m, pc)
                 /\ windowEnd' = IF Len(found) = opts.matches THEN windowEnd ELSE m[2]
  /\ UNCHANGED <<callVars, streamVars, rest, cursor, rewriteVars, outcome, chunkVars>>

(* next: the candidates that are ripe first, then one more rune. An engine *)
(* without keywords reads none.                                            *)
ReadRune ==
  /\ pc = "read" /\ ~Ripe
  /\ consumed < Len(text) /\ Longest > 0
  /\ consumed' = consumed + 1
  /\ chain' = [i \in DOMAIN shards |-> ChainAt(shards[i], Normal(text), consumed + 1)]
  /\ pc' = "emit"
  /\ UNCHANGED <<callVars, candidates, best, windowEnd, rest, resultVars, cursor, rewriteVars, outcome, chunkVars>>

(* filterWholeWord and wholeWord *)
WholeWord(t, m) ==
  /\ m[1] = 0 \/ t[m[1]] \notin WordRunes
  /\ m[2] >= Len(t) \/ t[m[2] + 1] \notin WordRunes

(* sourceWindow.add *)
AddCandidate(m) ==
  best' = IF m[1] < windowEnd \/ (m[1] \in DOMAIN best /\ best[m[1]] >= m[2]) THEN best
          ELSE [s \in DOMAIN best \cup {m[1]} |-> IF s = m[1] THEN m[2] ELSE best[s]]

(* Mutant of OverBudget: the last candidate the budget allows is refused. *)
OverBudgetEarly == candidates' >= opts.candidates

OverBudget == candidates' > opts.candidates

(* emit: one candidate of the chain; past the budget the call fails. *)
Emit ==
  /\ pc = "emit" /\ Waiting # {}
  /\ candidates' = candidates + 1
  /\ LET m == Longer(chain[NextShard])
         skip == opts.word /\ ~WholeWord(Normal(text), m)
     IN  /\ chain' = [chain EXCEPT ![NextShard] = @ \ {m}]
         /\ \/ /\ OverBudget
               /\ Done("work") /\ UNCHANGED <<best, resultVars>>
            \/ /\ ~OverBudget /\ skip
               /\ UNCHANGED <<best, resultVars, pc, outcome>>
            \/ /\ ~OverBudget /\ ~skip /\ opts.longest
               /\ AddCandidate(m) /\ UNCHANGED <<resultVars, pc, outcome>>
            \/ /\ ~OverBudget /\ ~skip /\ ~opts.longest
               /\ Select(m, pc) /\ UNCHANGED <<best, outcome>>
  /\ UNCHANGED <<callVars, consumed, windowEnd, rest, cursor, rewriteVars, chunkVars>>
EmitDone ==
  /\ pc = "emit" /\ Waiting = {}
  /\ pc' = "read"
  /\ UNCHANGED <<callVars, streamVars, best, windowEnd, rest, resultVars, cursor, rewriteVars, outcome, chunkVars>>

(* The stream has ended: what is pending is flushed. *)
Drain ==
  /\ pc = "read" /\ ~Ripe
  /\ consumed = Len(text) \/ Longest = 0
  /\ pc' = "drain"
  /\ UNCHANGED <<callVars, streamVars, best, windowEnd, rest, resultVars, cursor, rewriteVars, outcome, chunkVars>>
ScanEnds ==
  /\ pc = "ended" \/ (pc = "drain" /\ ~Ripe)
  /\ IF opts.call = "scan" THEN Done("ok")
     ELSE IF truncated THEN Done("matches")
     ELSE pc' = "size" /\ UNCHANGED outcome
  /\ UNCHANGED <<callVars, streamVars, best, windowEnd, rest, resultVars, cursor, rewriteVars, chunkVars>>

(* renderRewrite sizes the text first, match by match, and refuses it as   *)
(* soon as it cannot fit; the mask's room is counted in whole runes.       *)
Piece(m) == IF opts.call = "mask" THEN (m[2] - m[1]) * opts.size ELSE opts.size
Room == opts.output - total
Fits(m, same) ==
  /\ same <= Room
  /\ opts.call = "mask" => m[2] - m[1] <= (Room - same) \div opts.size
  /\ Piece(m) <= Room - same

(* Mutant of TailFits: what follows the last match is not counted. *)
TailFitsAlways == TRUE

TailFits == Bytes(cursor, Len(text)) <= Room
Measure ==
  /\ pc = "size" /\ rendered < Len(found)
  /\ LET m == found[rendered + 1]
         same == Bytes(cursor, m[1])
     IN  IF Fits(m, same)
         THEN /\ total' = total + same + Piece(m)
              /\ rendered' = rendered + 1 /\ cursor' = m[2]
              /\ UNCHANGED <<pc, outcome>>
         ELSE Done("output") /\ UNCHANGED <<total, rendered, cursor>>
  /\ UNCHANGED <<callVars, streamVars, best, windowEnd, rest, resultVars, output, chunkVars>>
Measured ==
  /\ pc = "size" /\ rendered = Len(found)
  /\ IF TailFits
     THEN /\ total' = total + Bytes(cursor, Len(text))
          /\ rendered' = 0 /\ cursor' = 0
          /\ pc' = "write" /\ UNCHANGED outcome
     ELSE Done("output") /\ UNCHANGED <<total, rendered, cursor>>
  /\ UNCHANGED <<callVars, streamVars, best, windowEnd, rest, resultVars, output, chunkVars>>

(* Then it writes it: what is copied, and what stands for a match. *)
Copied(a, b) == [kind |-> "copied", from |-> a, to |-> b]
Changed(m) == [kind |-> "changed", from |-> m[1], to |-> m[2]]
Write ==
  /\ pc = "write" /\ rendered < Len(found)
  /\ LET m == found[rendered + 1]
     IN  /\ output' = output \o <<Copied(cursor, m[1]), Changed(m)>>
         /\ rendered' = rendered + 1 /\ cursor' = m[2]
  /\ UNCHANGED <<callVars, pc, streamVars, best, windowEnd, rest, resultVars, total, outcome, chunkVars>>
Written ==
  /\ pc = "write" /\ rendered = Len(found)
  /\ output' = Append(output, Copied(cursor, Len(text)))
  /\ Done("ok")
  /\ UNCHANGED <<callVars, streamVars, best, windowEnd, rest, resultVars, cursor, rendered, total, chunkVars>>

(* FindMatches: all matches, those of whole words only if asked for. *)
StartMatches ==
  /\ pc = "start" /\ opts \in Scans /\ opts.call = "findMatches"
  /\ rest' = {m \in MatchString(Normal(text)) : opts.word => WholeWord(Normal(text), m)}
  /\ pc' = "select"
  /\ UNCHANGED <<callVars, streamVars, best, windowEnd, resultVars, cursor, rewriteVars, outcome, chunkVars>>

(* In scan order, or sorted for leftmostLongest by start and the longest first. *)
LeftmostFirst(m, n) == m[1] < n[1] \/ (m[1] = n[1] /\ m[2] > n[2])
Earliest ==
  CHOOSE m \in rest : \A n \in rest \ {m} :
    IF opts.longest THEN LeftmostFirst(m, n) ELSE ScanOrder(m, n)

(* leftmostLongest: a match is kept when it starts at or past the end of   *)
(* the last one kept.                                                      *)
KeepMatch ==
  /\ pc = "select" /\ rest # {}
  /\ rest' = rest \ {Earliest}
  /\ IF opts.longest /\ Earliest[1] < windowEnd
     THEN UNCHANGED <<found, windowEnd>>
     ELSE found' = Append(found, Earliest) /\ windowEnd' = Earliest[2]
  /\ UNCHANGED <<callVars, pc, streamVars, best, truncated, cursor, rewriteVars, outcome, chunkVars>>
MatchesEnd ==
  /\ pc = "select" /\ rest = {}
  /\ Done("ok")
  /\ UNCHANGED <<callVars, streamVars, best, windowEnd, rest, resultVars, cursor, rewriteVars, chunkVars>>

-----------------------------------------------------------------------------
(* The parallel searches. A chunk is <<offset, end, owned runes>>; a search *)
(* without AutoOverlap owns all it scans.                                   *)

(* findBoundary: at most half a chunk back, to where one may end. *)
IsBoundary(i) == i > 0 /\ i < Len(text) /\ <<text[i], text[i + 1]>> \in Breaks
FindBoundary(target) ==
  LET back == {i \in 1 .. target : i > target - opts.chunk \div 2 /\ IsBoundary(i)}
  IN  IF back = {} THEN target ELSE CHOOSE i \in back : \A j \in back : j <= i
CutAt(start, end) == LET b == FindBoundary(end) IN IF b <= start THEN end ELSE b

(* An empty text is answered at once. *)
StartSplit ==
  /\ pc = "start" /\ opts \in Splits
  /\ IF text = <<>> THEN Done("ok") ELSE pc' = "split" /\ UNCHANGED outcome
  /\ UNCHANGED <<callVars, streamVars, best, windowEnd, rest, resultVars, cursor, rewriteVars, chunkVars>>

(* scanChunks has a slot for the result of each chunk. *)
AddChunk(c) == chunks' = Append(chunks, c) /\ perChunk' = Append(perChunk, <<>>)

(* splitChunks: the next chunk starts an overlap back, unless that is no   *)
(* way forward.                                                            *)
SplitChunk ==
  /\ pc = "split" /\ ~opts.auto
  /\ LET end == cursor + opts.chunk
         cut == CutAt(cursor, end)
         back == cut - opts.overlap
     IN  IF end >= Len(text)
         THEN AddChunk(<<cursor, Len(text), Len(text)>>) /\ pc' = "chunks" /\ UNCHANGED cursor
         ELSE /\ AddChunk(<<cursor, cut, Len(text)>>)
              /\ cursor' = IF back <= cursor THEN cut ELSE back
              /\ UNCHANGED pc
  /\ UNCHANGED <<callVars, streamVars, best, windowEnd, rest, resultVars, rewriteVars, outcome, running>>

Least(a, b) == IF a <= b THEN a ELSE b

(* Mutant of Extension: one rune short of the longest keyword. *)
ExtensionShort == IF opts.overlap > Longest - 2 THEN opts.overlap ELSE Longest - 2

Extension == IF opts.overlap > Longest - 1 THEN opts.overlap ELSE Longest - 1

(* splitAutoChunks: each start belongs to one chunk, which is searched as  *)
(* far as a keyword from there can reach.                                  *)
SplitAutoChunk ==
  /\ pc = "split" /\ opts.auto /\ cursor < Len(text)
  /\ LET full == cursor + Least(opts.chunk, Len(text) - cursor)
         end == IF full < Len(text) THEN CutAt(cursor, full) ELSE full
     IN  /\ AddChunk(<<cursor, end + Least(Extension, Len(text) - end), end - cursor>>)
         /\ cursor' = end
  /\ UNCHANGED <<callVars, pc, streamVars, best, windowEnd, rest, resultVars, rewriteVars, outcome, running>>
SplitAutoEnds ==
  /\ pc = "split" /\ opts.auto /\ cursor >= Len(text)
  /\ pc' = "chunks"
  /\ UNCHANGED <<callVars, streamVars, best, windowEnd, rest, resultVars, cursor, rewriteVars, outcome, chunkVars>>

(* scanChunks: the next chunk starts when a worker is free ... *)
ChunkStarts ==
  /\ pc = "chunks" /\ consumed < Len(chunks) /\ Cardinality(running) < Workers
  /\ consumed' = consumed + 1
  /\ running' = running \cup {consumed + 1}
  /\ UNCHANGED <<callVars, pc, chain, candidates, best, windowEnd, rest, resultVars, cursor, rewriteVars, outcome, chunks, perChunk>>

(* ... and ends in any order, with the matches it owns, in its own slot. *)
Scanned(c) ==
  InOrder({m \in MatchString(Normal(SubSeq(text, c[1] + 1, c[2]))) : m[1] < c[3]}, ScanOrder)
ChunkEnds(i) ==
  /\ pc = "chunks" /\ i \in running
  /\ running' = running \ {i}
  /\ perChunk' = [perChunk EXCEPT ![i] = Scanned(chunks[i])]
  /\ UNCHANGED <<callVars, pc, streamVars, best, windowEnd, rest, resultVars, cursor, rewriteVars, outcome, chunks>>

(* The caller's context ends: a chunk that sees it fails the whole call. *)
ChunkCanceled ==
  /\ pc = "chunks" /\ consumed < Len(chunks)
  /\ Done("canceled")
  /\ UNCHANGED <<callVars, streamVars, best, windowEnd, rest, resultVars, cursor, rewriteVars, chunkVars>>

(* The results, chunk by chunk, each with its offsets back into the text. *)
Positions == UNION {{<<i, k>> : k \in DOMAIN perChunk[i]} : i \in DOMAIN chunks}
Earlier(p, q) == p[1] < q[1] \/ (p[1] = q[1] /\ p[2] < q[2])
Shifted(p) ==
  LET m == perChunk[p[1]][p[2]]
      offset == chunks[p[1]][1]
  IN  <<m[1] + offset, m[2] + offset>>

(* dedupPreservingOrder *)
Named(m) == SubSeq(Normal(text), m[1] + 1, m[2])
FirstNamed == {p \in Positions : \A q \in Positions : Earlier(q, p) => Named(Shifted(q)) # Named(Shifted(p))}

(* mergeIndexResults: each once, in order; FindParallel keeps the keywords. *)
Merge ==
  /\ pc = "chunks" /\ consumed = Len(chunks) /\ running = {}
  /\ found' = IF opts.call = "index" THEN InOrder({Shifted(p) : p \in Positions}, ScanOrder)
              ELSE LET firsts == InOrder(FirstNamed, Earlier)
                   IN  [k \in DOMAIN firsts |-> Named(Shifted(firsts[k]))]
  /\ Done("ok")
  /\ UNCHANGED <<callVars, streamVars, best, windowEnd, rest, truncated, cursor, rewriteVars, chunkVars>>

Scanning ==
  StartScan \/ Flush \/ ReadRune \/ Emit \/ EmitDone \/ Drain \/ ScanEnds
Rewriting == Measure \/ Measured \/ Write \/ Written
Matching == StartMatches \/ KeepMatch \/ MatchesEnd
Splitting ==
  \/ StartSplit \/ SplitChunk \/ SplitAutoChunk \/ SplitAutoEnds
  \/ ChunkStarts \/ (\E i \in running : ChunkEnds(i)) \/ ChunkCanceled \/ Merge
Next == Scanning \/ Rewriting \/ Matching \/ Splitting

Spec == Init /\ [][Next]_vars

-----------------------------------------------------------------------------
(* The reference: the occurrences of the keywords in the text. *)
Dictionary == UNION Range(shards)
Occurrences(t) ==
  {m \in (0 .. Len(t)) \X (0 .. Len(t)) : m[1] < m[2] /\ SubSeq(t, m[1] + 1, m[2]) \in Dictionary}
Eligible ==
  {m \in Occurrences(Normal(text)) : opts.word => WholeWord(Normal(text), m)}
Overlap(m, n) == m[1] < n[2] /\ n[1] < m[2]

(* A selection of non-overlapping matches, leftmost first and then longest:  *)
(* a match is left out exactly when a better one that is in overlaps it.     *)
Selection(S) ==
  /\ S \subseteq Eligible
  /\ \A m \in Eligible : m \in S <=> ~\E n \in S : Overlap(m, n) /\ LeftmostFirst(n, m)

(* The result is what an unlimited search finds, in scan order and up to   *)
(* the limit; it is called complete only when it is. A window that gives   *)
(* up a candidate too early, or a heap out of order, breaks this (scan.go  *)
(* 218-237).                                                               *)
Chosen == {S \in SUBSET Eligible : IF opts.longest THEN Selection(S) ELSE S = Eligible}
InScanOrder(f) == \A i, j \in DOMAIN f : i < j => ScanOrder(f[i], f[j])
Leads(f, S) ==
  /\ Range(f) \subseteq S
  /\ \A m \in S \ Range(f) : \A i \in DOMAIN f : ScanOrder(f[i], m)
Exact ==
  /\ InScanOrder(found)
  /\ truncated => Len(found) = opts.matches
  /\ \E S \in Chosen : Leads(found, S) /\ (truncated <=> Range(found) # S)
ScanExact ==
  pc = "done" /\ outcome = "ok" /\ opts \in Scans => Exact

(* An exhausted budget is an error only when the text has more raw matches *)
(* than it allows, and then always, unless the scan was truncated at its   *)
(* number of matches first: a scan that was cut short is never reported as *)
(* a clean document (scan.go 60-62).                                       *)
WorkLimitHonest ==
  pc = "done" /\ opts \in Scans /\ opts.call # "findMatches" =>
    /\ outcome = "work" => Cardinality(Occurrences(Normal(text))) > opts.candidates
    /\ outcome = "ok" /\ ~truncated => Cardinality(Occurrences(Normal(text))) <= opts.candidates

(* The window holds at most one candidate per start the longest keyword    *)
(* may still reach back to (scan.go 239-240).                              *)
WindowBounded == Cardinality(DOMAIN best) <= Longest

(* A rewrite is refused for its size exactly when the rewritten text is    *)
(* too long: the subtractions and the division of renderRewrite are exact  *)
(* at the limit. What it returns is the text with every match changed, in  *)
(* the bytes it was sized for. Integers are unbounded here; that the code  *)
(* cannot overflow follows from the totals staying within the limit.       *)
Size(p) == IF p.kind = "copied" THEN Bytes(p.from, p.to) ELSE Piece(<<p.from, p.to>>)
Rewritten ==
  Bytes(0, Len(text)) + Sum([i \in DOMAIN found |-> Piece(found[i]) - Bytes(found[i][1], found[i][2])])
Pieces(o) ==
  /\ o[1].from = 0 /\ o[Len(o)].to = Len(text)
  /\ \A k \in 1 .. (Len(o) - 1) : o[k].to = o[k + 1].from
  /\ {p \in Range(o) : p.kind = "changed"} = {Changed(found[i]) : i \in DOMAIN found}
RewriteSized ==
  pc = "done" /\ opts \in Scans /\ opts.call \in {"replace", "mask"} =>
    /\ outcome = "output" => Rewritten > opts.output
    /\ outcome = "ok" =>
         /\ Pieces(output)
         /\ Sum([k \in DOMAIN output |-> Size(output[k])]) = Rewritten
         /\ total = Rewritten /\ Rewritten <= opts.output

(* With AutoOverlap the workers find every occurrence, whatever the chunks *)
(* and the order they end in; without it they find no false one.           *)
ParallelExact ==
  pc = "done" /\ outcome = "ok" /\ opts \in Splits =>
    LET all == Occurrences(Normal(text))
        want == IF opts.call = "index" THEN all ELSE {Named(m) : m \in all}
    IN  /\ Range(found) \subseteq want
        /\ opts.auto => Range(found) = want /\ IsInjective(found)

(* Without AutoOverlap, an overlap of at least the longest keyword finds   *)
(* every keyword: "set it to at least your longest keyword" (options.go    *)
(* 74-76).                                                                 *)
OverlapProtects ==
  pc = "done" /\ outcome = "ok" /\ opts \in Splits /\ opts.call = "index" /\ opts.overlap >= Longest =>
    Range(found) = Occurrences(Normal(text))
-----------------------------------------------------------------------------
(* The invariant, part by part. *)
Span == Nat \X Nat
PieceType == [kind : {"copied", "changed"}, from : Nat, to : Nat]
TypeOK ==
  /\ shards \in Engines /\ text \in Texts /\ opts \in Scans \cup Splits
  /\ pc \in {"start", "read", "emit", "drain", "ended", "size", "write", "select", "split", "chunks", "done"}
  /\ outcome \in {"none", "input", "work", "matches", "output", "canceled", "ok"}
  /\ consumed \in Nat /\ candidates \in Nat /\ windowEnd \in Nat
  /\ chain \in [DOMAIN shards -> SUBSET Span]
  /\ DOMAIN best \subseteq Nat /\ \A s \in DOMAIN best : best[s] \in Nat
  /\ rest \subseteq Span /\ truncated \in BOOLEAN
  /\ opts \in Scans => found \in Seq(Span)
  /\ cursor \in Nat /\ rendered \in Nat /\ total \in Int
  /\ output \in Seq(PieceType)
  /\ chunks \in Seq(Nat \X Nat \X Nat)
  /\ perChunk \in Seq(Seq(Span)) /\ Len(perChunk) = Len(chunks)

(* Which call is where. *)
CallInv ==
  /\ pc \in {"read", "emit", "drain", "ended", "size", "write"} => opts \in Scans /\ opts.call # "findMatches"
  /\ pc \in {"size", "write"} => opts.call \in {"replace", "mask"}
  /\ pc = "select" => opts \in Scans /\ opts.call = "findMatches"
  /\ pc \in {"split", "chunks"} => opts \in Splits
  /\ pc = "ended" => truncated
  /\ truncated => pc \in {"ended", "done"}
  /\ pc \notin {"select", "done"} => rest = {}
  /\ pc \in {"start", "split", "chunks", "select"} => consumed = 0 \/ opts \in Splits
  /\ pc \in {"start", "select"} => candidates = 0 /\ DOMAIN best = {}
  /\ pc = "start" => found = <<>> /\ windowEnd = 0 /\ consumed = 0 /\ \A i \in DOMAIN shards : chain[i] = {}
  /\ pc \in {"start", "read", "emit", "drain", "ended"} => cursor = 0 /\ rendered = 0 /\ total = 0
  /\ pc # "write" /\ pc # "done" => output = <<>>
  /\ pc = "start" => chunks = <<>> /\ running = {}

(* What the stream has shown of the text. *)
Seen(m) == m[2] < consumed \/ (m[2] = consumed /\ \A i \in DOMAIN shards : m \notin chain[i])
StreamInv ==
  pc \in {"read", "emit", "drain"} =>
    /\ consumed <= Len(text)
    /\ \A i \in DOMAIN shards : chain[i] \subseteq ChainAt(shards[i], Normal(text), consumed)
    /\ pc # "emit" => \A i \in DOMAIN shards : chain[i] = {}
    /\ \A m \in Occurrences(Normal(text)) : m[2] = consumed /\ Seen(m) =>
         \A i \in DOMAIN shards : \A n \in chain[i] : m[1] < n[1]
    /\ pc = "drain" => consumed = Len(text) \/ Longest = 0
    /\ candidates = Cardinality({m \in Occurrences(Normal(text)) : Seen(m)})
    /\ candidates <= opts.candidates

(* A rewrite is rendered only when the stream was within its budget. *)
WorkInv == pc \in {"size", "write"} => Cardinality(Occurrences(Normal(text))) <= opts.candidates

(* A pending start is within reach of the longest keyword. *)
WindowInv ==
  /\ \A s \in DOMAIN best : s < consumed /\ consumed - s <= Longest
  /\ opts \in Splits \/ ~opts.longest => DOMAIN best = {}

(* A match that is selected, or that a better selected one overlaps. *)
Settled(m) ==
  \/ m \in Range(found)
  \/ \E n \in Range(found) : m[1] < n[2] /\ LeftmostFirst(n, m)

(* The selection so far does not overlap, and the window knows its end. *)
DisjointInv ==
  opts \in Scans =>
    /\ Range(found) \subseteq Eligible
    /\ InScanOrder(found)
    /\ opts.longest => \A i, j \in DOMAIN found : i < j => found[i][2] <= found[j][1]
    /\ opts.longest => windowEnd = IF found = <<>> THEN 0 ELSE found[Len(found)][2]

(* What has been seen is settled or pending, and what is pending or not    *)
(* seen yet starts after every selected match.                             *)
GreedyInv ==
  pc \in {"read", "emit", "drain"} /\ opts.longest =>
    /\ \A s \in DOMAIN best : <<s, best[s]>> \in Eligible
    /\ \A m \in Eligible : Seen(m) =>
         IF m[1] \in DOMAIN best THEN m[2] <= best[m[1]] \/ m[1] < windowEnd ELSE Settled(m)
    /\ \A n \in Range(found) :
         /\ \A s \in DOMAIN best : n[1] < s
         /\ \A m \in Eligible : ~Seen(m) => n[1] < m[1]
OverlappingInv ==
  pc \in {"read", "emit", "drain"} /\ ~opts.longest => Range(found) = {m \in Eligible : Seen(m)}

(* FindMatches has settled what it has looked at. *)
SelectInv ==
  pc = "select" =>
    /\ rest \subseteq Eligible
    /\ opts.longest =>
         /\ \A m \in Eligible \ rest : Settled(m)
         /\ \A n \in Range(found) : \A m \in rest : LeftmostFirst(n, m)
    /\ ~opts.longest =>
         /\ Range(found) = Eligible \ rest
         /\ \A n \in Range(found) : \A m \in rest : ScanOrder(n, m)

(* The result, from the end of the scan. *)
ExactInv ==
  pc \in {"ended", "size", "write"} \/ (pc = "done" /\ outcome = "ok" /\ opts \in Scans) => Exact

(* A rewrite so far is the text up to the cursor, as changed. *)
Growth == [i \in DOMAIN found |-> Piece(found[i]) - Bytes(found[i][1], found[i][2])]
Grown == Bytes(0, cursor) + Partial(Growth)[rendered]
RewriteInv ==
  pc \in {"size", "write"} =>
    /\ rendered <= Len(found)
    /\ cursor = IF rendered = 0 THEN 0 ELSE found[rendered][2]
    /\ pc = "size" => total = Grown /\ total <= opts.output
    /\ pc = "write" =>
         /\ total = Rewritten /\ total <= opts.output
         /\ Len(output) = 2 * rendered
         /\ \A p \in Range(output) : p.from <= Len(text) /\ p.to <= Len(text)
         /\ Sum([k \in DOMAIN output |-> Size(output[k])]) = Grown
         /\ output # <<>> => output[1].from = 0 /\ output[Len(output)].to = cursor
         /\ \A k \in 1 .. (Len(output) - 1) : output[k].to = output[k + 1].from
         /\ {p \in Range(output) : p.kind = "changed"} = {Changed(found[i]) : i \in 1 .. rendered}

(* Each start of the text has a chunk that can hold every match from it. *)
Owned(c, s) ==
  /\ c[1] <= s /\ s < c[1] + c[3]
  /\ c[2] = Len(text) \/ c[2] >= s + Longest
ChunkInv ==
  pc \in {"split", "chunks"} =>
    /\ consumed <= Len(chunks) /\ running \subseteq 1 .. consumed
    /\ \A c \in Range(chunks) : c[1] <= c[2] /\ c[2] <= Len(text)
    /\ cursor <= Len(text)
    /\ opts.auto => \A s \in 0 .. (cursor - 1) : \E c \in Range(chunks) : Owned(c, s)
    /\ opts.auto /\ pc = "chunks" => cursor = Len(text)
    /\ \A i \in DOMAIN chunks : perChunk[i] = IF i <= consumed /\ i \notin running THEN Scanned(chunks[i]) ELSE <<>>

SearchInv ==
  /\ TypeOK /\ CallInv /\ StreamInv /\ WorkInv /\ WindowInv /\ DisjointInv /\ GreedyInv /\ OverlappingInv
  /\ SelectInv /\ ExactInv /\ RewriteInv /\ ChunkInv
  /\ WorkLimitHonest /\ RewriteSized /\ ParallelExact
=============================================================================
