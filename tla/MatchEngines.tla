--------------------------- MODULE MatchEngines ---------------------------
(***************************************************************************)
(* The three in-memory Aho-Corasick engines (src/internal/engine): the map *)
(* trie with failure links (MemoryEfficient), the full DFA (Speed) and the *)
(* double array with a band of DFA rows (Balanced).  One behaviour builds  *)
(* one engine from one dictionary, in any order the code's map iterations  *)
(* allow, and then runs one query rune by rune.                            *)
(*                                                                         *)
(* A node of a trie is named by the string that reaches it, a rune is a    *)
(* number, a keyword is a sequence of runes.  The double array keeps its   *)
(* real positions: packing them is what can go wrong there.                *)
(***************************************************************************)
EXTENDS SearchOrder, SequencesExt

CONSTANTS
    Dictionaries,  \* sets of keywords to build from
    TextRunes,     \* runes a text may hold
    MaxText,       \* bound: length of a text
    RuneSelf,      \* runes below it are one byte
    BandDepth,     \* depth of the balanced engine's DFA band
    OutNone,       \* outNone: the end of an output chain
    Limits         \* how many matches a caller's emit accepts (0: all)

ASSUME EngineConstants ==
    /\ MaxText \in Nat /\ RuneSelf \in Nat /\ BandDepth \in Nat
    /\ Limits \subseteq Nat /\ TextRunes \subseteq Nat
    /\ \A d \in Dictionaries : IsFiniteSet(d) /\ d \subseteq Seq(Nat)
    /\ OutNone \notin Seq(Nat) /\ OutNone \notin Nat

Presets == {"speed", "balanced", "memory"}
Queries == {"find", "findSet", "findIndex", "contains", "matchString", "matchStream"}

VARIABLES
    preset, dict,  \* what is built, from what
    phase,         \* insert, place, link, rows, ready, scan, done
    todo,          \* keywords not inserted yet
    nodes,         \* strings that reach a trie node
    queue, order,  \* the breadth-first queue and the order it was served in
    fail,          \* failure links, by state
    own, outLink,  \* outputs: the keyword ending at a state, the next one's state
    dfa,           \* rows of packed transitions: <<target, has output>>
    bloom,         \* runes the root filter lets through
    base, check, datPos, depth,  \* the double array
    query, limit, state, text,   \* a query and its cursor
    answer, seenStates           \* what it collected

trieVars == <<preset, dict, todo, nodes>>
datVars == <<base, check, datPos, depth>>
linkVars == <<fail, own, outLink>>
queryVars == <<query, limit, state, text, answer, seenStates>>
vars == <<trieVars, phase, queue, order, linkVars, dfa, bloom, datVars, queryVars>>

NoKeyword == <<>>   \* id 0: no keyword ends here
Root == <<>>        \* state 0 of the map and the flat trie
DatRoot == 1        \* datRootPos
Empty == <<>>       \* a function or sequence with nothing in it

Runes == UNION {Range(kw) : kw \in dict}
Children(s) == {ch \in Runes : Append(s, ch) \in nodes}
Orders(S) == {f \in [1 .. Cardinality(S) -> S] : IsInjective(f)}
Less(a, b) == a < b
Sorted(S) == InOrder(S, Less)
\* What a sequence has at some of its places.
Picked(seq, places) == [k \in DOMAIN Sorted(places) |-> seq[Sorted(places)[k]]]
Alphabet == Sorted(Runes)
Code(ch) == IF \E i \in DOMAIN Alphabet : Alphabet[i] = ch
            THEN (CHOOSE i \in DOMAIN Alphabet : Alphabet[i] = ch) - 1 ELSE -1

Init ==
    /\ preset \in Presets /\ dict \in Dictionaries
    /\ phase = "insert" /\ todo = dict /\ nodes = {Root}
    /\ queue = Empty /\ order = Empty /\ fail = Empty /\ own = Empty
    /\ outLink = Empty /\ dfa = Empty /\ bloom = {}
    /\ base = Empty /\ check = Empty /\ datPos = Empty /\ depth = Empty
    /\ query = "none" /\ limit = 0 /\ state = Root /\ text = Empty
    /\ answer = Empty /\ seenStates = {}

---------------------------------------------------------------------------
(* Building: the trie, the failure links, the transition rows.             *)

\* The trie grows by one keyword; an empty one would end at the root and is skipped.
InsertKeyword(kw) ==
    /\ phase = "insert" /\ kw \in todo
    /\ todo' = todo \ {kw}
    /\ nodes' = IF kw = Empty THEN nodes ELSE nodes \cup Prefixes(kw)
    /\ UNCHANGED <<preset, dict, phase, queue, order, linkVars, dfa, bloom, datVars, queryVars>>

\* The keyword that a state is assigned.
Assigned(n) == IF n \in dict THEN n ELSE NoKeyword

\* The last keyword is in: the root's children fail to the root and enter the
\* queue, in map order for the map trie and sorted for the flat one.
StartLinks ==
    /\ phase = "insert" /\ todo = {} /\ preset # "balanced"
    /\ phase' = "link"
    /\ own' = [n \in nodes |-> Assigned(n)]
    /\ outLink' = [n \in nodes |-> OutNone]
    /\ fail' = [n \in nodes |-> Root]
    /\ \E ord \in IF preset = "speed" THEN {Sorted(Children(Root))} ELSE Orders(Children(Root)) :
          queue' = [i \in DOMAIN ord |-> <<ord[i]>>]
    /\ UNCHANGED <<trieVars, order, dfa, bloom, datVars, queryVars>>

\* The failure link of a child: walk the links to the deepest state with a child
\* for ch, then follow that child once.  A link that is not set yet leads nowhere.
Walk(stops, from) ==
    LET walk[s \in {r \in DOMAIN fail : fail[r] \in DOMAIN fail}] ==
            IF s \in stops THEN s ELSE walk[fail[s]]
    IN  walk[from]
FailWalk(f, ch) == Walk({n \in nodes : n = Root \/ Append(n, ch) \in nodes}, f)

\* Mutant of ChildFail: goto is applied twice.
ChildFailTwice(s, ch) ==
    LET f == FailWalk(fail[s], ch)
        g == IF Append(f, ch) \in nodes THEN Append(f, ch) ELSE f
    IN  IF Append(g, ch) \in nodes THEN Append(g, ch) ELSE g

ChildFail(s, ch) ==
    LET f == FailWalk(fail[s], ch)
    IN  IF Append(f, ch) \in nodes THEN Append(f, ch) ELSE f

\* The nearest state on the failure path that carries a keyword.
OutLinkOf(f) == IF own[f] # NoKeyword THEN f ELSE outLink[f]

\* One node of the queue: its children get their failure and output links.
LinkChildren(s, kids) ==
    /\ LET failOf(n) == ChildFail(s, Last(n))
       IN  /\ fail' = [n \in nodes |-> IF n \in kids THEN failOf(n) ELSE fail[n]]
           /\ outLink' = [n \in nodes |-> IF n \in kids THEN OutLinkOf(failOf(n)) ELSE outLink[n]]
    /\ UNCHANGED <<trieVars, phase, own, dfa, bloom, datVars, queryVars>>
ChildNodes(s) == {Append(s, ch) : ch \in Children(s)}
MapLink ==
    /\ phase = "link" /\ preset = "memory" /\ queue # Empty
    /\ LinkChildren(Head(queue), ChildNodes(Head(queue)))
    /\ \E ord \in Orders(ChildNodes(Head(queue))) : queue' = Tail(queue) \o ord
    /\ UNCHANGED order

\* Mutant of Served: the last node comes first.
ServedLast(s) == <<s>> \o order

Served(s) == Append(order, s)
SpeedLink ==
    /\ phase = "link" /\ preset = "speed" /\ queue # Empty
    /\ LinkChildren(Head(queue), ChildNodes(Head(queue)))
    /\ LET ord == Sorted(Children(Head(queue)))
       IN  queue' = Tail(queue) \o [i \in DOMAIN ord |-> Append(Head(queue), ord[i])]
    /\ order' = Served(Head(queue))

\* The root filter: every first rune passes, and so may a rune above RuneSelf that
\* the Bloom filter confuses with one.
FirstRunes == {Head(kw) : kw \in dict \ {Empty}}
MapReady ==
    /\ phase = "link" /\ preset = "memory" /\ queue = Empty
    /\ \E confused \in SUBSET {r \in TextRunes : r >= RuneSelf} : bloom' = FirstRunes \cup confused
    /\ phase' = "ready"
    /\ UNCHANGED <<trieVars, queue, order, linkVars, dfa, datVars, queryVars>>

HasOutput(s) == own[s] # NoKeyword \/ outLink[s] # OutNone
Packed(s) == <<s, HasOutput(s)>>

\* The root's row of the DFA; then each other row in breadth-first order, a
\* missing child taking the entry of the failure link's row, filled before.
SpeedRootRow ==
    /\ phase = "link" /\ preset = "speed" /\ queue = Empty
    /\ phase' = "rows"
    /\ dfa' = [n \in {Root} |-> [i \in DOMAIN Alphabet |->
                 Packed(IF <<Alphabet[i]>> \in nodes THEN <<Alphabet[i]>> ELSE Root)]]
    /\ UNCHANGED <<trieVars, queue, order, linkVars, bloom, datVars, queryVars>>
\* A row that is not filled yet holds zeros: the root, with no output.
RowEntry(n, i) == IF n \in DOMAIN dfa THEN dfa[n][i] ELSE <<Root, FALSE>>
SpeedRow ==
    /\ phase = "rows" /\ preset = "speed" /\ order # Empty
    /\ LET s == Head(order)
           row == [i \in DOMAIN Alphabet |->
                     LET t == Append(s, Alphabet[i])
                     IN  IF t \in nodes THEN Packed(t) ELSE RowEntry(fail[s], i)]
       IN  dfa' = [n \in DOMAIN dfa \cup {s} |-> IF n = s THEN row ELSE dfa[n]]
    /\ order' = Tail(order)
    /\ UNCHANGED <<trieVars, phase, queue, linkVars, bloom, datVars, queryVars>>
SpeedReady ==
    /\ phase = "rows" /\ preset = "speed" /\ order = Empty
    /\ phase' = "ready"
    /\ UNCHANGED <<trieVars, queue, order, linkVars, dfa, bloom, datVars, queryVars>>

---------------------------------------------------------------------------
(* The double array: a child of the state at p for code c lives at         *)
(* base[p] + c, and check there names p.  Position 0 is a sentinel, an     *)
(* absent entry is zero.                                                   *)

At(f, p) == IF p \in DOMAIN f THEN f[p] ELSE 0
SlotFree(p) == p > 0 /\ At(check, p) = 0

\* Mutant of Fits: one free slot is enough.
FitsOne(b, codes) == \E c \in codes : SlotFree(b + c)

Fits(b, codes) == \A c \in codes : SlotFree(b + c)
\* findBase: the first base, from the one that puts the least code just past the
\* root, where every child's slot is free; past the last slot all are.
FindBase(codes) ==
    LET least == CHOOSE c \in codes : \A d \in codes : c <= d
        last == CHOOSE p \in DOMAIN check : \A r \in DOMAIN check : r <= p
        from == (DatRoot + 1) - least
        far == from + last
    IN  CHOOSE b \in from .. far : Fits(b, codes) /\ \A l \in from .. (b - 1) : ~Fits(l, codes)

StartPlacing ==
    /\ phase = "insert" /\ todo = {} /\ preset = "balanced"
    /\ phase' = "place"
    /\ queue' = <<Root>>
    /\ datPos' = [n \in {Root} |-> DatRoot] /\ depth' = [p \in {DatRoot} |-> 0]
    /\ check' = [p \in {0} |-> -1] /\ base' = Empty
    /\ own' = [p \in {DatRoot} |-> NoKeyword]
    /\ UNCHANGED <<trieVars, order, fail, outLink, dfa, bloom, queryVars>>

\* The children of a node get their slots, and enter the queue in any order.
PlaceChildren(parent, kids, b) ==
    LET slot(n) == b + Code(Last(n))
        slots == {slot(n) : n \in kids}
        node(p) == CHOOSE n \in kids : slot(n) = p
        above == datPos[parent]
    IN  /\ base' = [p \in DOMAIN base \cup {above} |-> IF p = above THEN b ELSE base[p]]
        /\ check' = [p \in DOMAIN check \cup slots |-> IF p \in slots THEN above ELSE check[p]]
        /\ depth' = [p \in DOMAIN depth \cup slots |-> IF p \in slots THEN depth[above] + 1 ELSE depth[p]]
        /\ own' = [p \in DOMAIN own \cup slots |-> IF p \in slots THEN Assigned(node(p)) ELSE own[p]]
        /\ datPos' = [n \in DOMAIN datPos \cup kids |-> IF n \in kids THEN slot(n) ELSE datPos[n]]
        /\ \E ord \in Orders(kids) : queue' = Tail(queue) \o ord
Place ==
    /\ phase = "place" /\ queue # Empty
    /\ LET parent == Head(queue)
           codes == {Code(ch) : ch \in Children(parent)}
       IN  IF codes = {}
           THEN queue' = Tail(queue) /\ UNCHANGED <<datVars, own>>
           ELSE PlaceChildren(parent, ChildNodes(parent), FindBase(codes))
    /\ UNCHANGED <<trieVars, phase, order, fail, outLink, dfa, bloom, queryVars>>

\* gotoStateByCode and followFailByCode; 0 says there is no such child.
DatSize == 1 + CHOOSE p \in DOMAIN own : \A r \in DOMAIN own : r <= p
Goto(p, c) ==
    LET t == At(base, p) + c
    IN  IF t >= 0 /\ t < DatSize /\ At(check, t) = p THEN t ELSE 0
FollowFail(p, c) ==
    LET q == Walk({r \in DOMAIN fail : r = DatRoot \/ Goto(r, c) # 0}, p)
    IN  IF Goto(q, c) # 0 THEN Goto(q, c) ELSE DatRoot

\* computeFailLinks starts from the slots whose check is the root.
DatRootLinks ==
    /\ phase = "place" /\ queue = Empty
    /\ phase' = "link"
    /\ queue' = Sorted({p \in DOMAIN own : p > DatRoot /\ At(check, p) = DatRoot})
    /\ fail' = [p \in DOMAIN own |-> IF p = DatRoot \/ At(check, p) = DatRoot THEN DatRoot ELSE 0]
    /\ outLink' = [p \in DOMAIN own |-> OutNone]
    /\ UNCHANGED <<trieVars, order, own, dfa, bloom, datVars, queryVars>>
DatLink ==
    /\ phase = "link" /\ preset = "balanced" /\ queue # Empty
    /\ LET s == Head(queue)
           kids == {Goto(s, c) : c \in 0 .. (Len(Alphabet) - 1)} \ {0}
           failOf(p) == FollowFail(fail[s], p - base[s])
       IN  /\ fail' = [p \in DOMAIN fail |-> IF p \in kids THEN failOf(p) ELSE fail[p]]
           /\ outLink' = [p \in DOMAIN fail |-> IF p \in kids THEN OutLinkOf(failOf(p)) ELSE outLink[p]]
           /\ queue' = Tail(queue) \o Sorted(kids)
    /\ UNCHANGED <<trieVars, phase, order, own, dfa, bloom, datVars, queryVars>>

\* buildDFABand: a row of packed transitions for every state of the band; the
\* empty slots of the array are not states.
InBand(p) == (p = DatRoot \/ At(check, p) # 0) /\ At(depth, p) <= BandDepth
BuildBand ==
    /\ phase = "link" /\ preset = "balanced" /\ queue = Empty
    /\ phase' = "ready"
    /\ dfa' = [p \in {q \in DatRoot .. (DatSize - 1) : InBand(q)} |->
                 [i \in DOMAIN Alphabet |-> Packed(FollowFail(p, i - 1))]]
    /\ UNCHANGED <<trieVars, queue, order, linkVars, bloom, datVars, queryVars>>

---------------------------------------------------------------------------
(* Scanning.  A step returns the next state and whether it carries outputs.*)

MapGoto(s, ch) ==
    LET f == FailWalk(s, ch)
    IN  IF Append(f, ch) \in nodes THEN Append(f, ch) ELSE Root
SkipAtRoot(ch) == state = Root /\ ch \notin bloom
MapStep(ch) == IF SkipAtRoot(ch) THEN <<state, FALSE>> ELSE <<MapGoto(state, ch), TRUE>>

\* A rune outside the alphabet resets the automaton; so does every byte of one
\* when the dictionary is ASCII and the scan goes by bytes.
SpeedStep(ch) == IF Code(ch) = -1 THEN <<Root, FALSE>> ELSE dfa[state][Code(ch) + 1]
BandedStep(c) ==
    IF state \in DOMAIN dfa THEN dfa[state][c + 1]
    ELSE Packed(IF Goto(state, c) # 0 THEN Goto(state, c) ELSE FollowFail(state, c))
BalancedStep(ch) == IF Code(ch) = -1 THEN <<DatRoot, FALSE>> ELSE BandedStep(Code(ch))

\* The keywords on a state's output chain, deepest first.
Chain(s) ==
    LET chain[r \in DOMAIN own] ==
            (IF own[r] = NoKeyword THEN Empty ELSE <<own[r]>>)
            \o (IF outLink[r] = OutNone THEN Empty ELSE chain[outLink[r]])
    IN  chain[s]
Span(kw, end) == <<kw, end - Len(kw), end>>

\* What one rune does to each query, given the step it makes.
Advance(ch, st) == state' = st[1] /\ text' = Append(text, ch)
Output(st) == IF st[2] THEN Chain(st[1]) ELSE Empty
Collect(ch, st) ==
    /\ Advance(ch, st) /\ UNCHANGED <<seenStates, phase>>
    /\ answer' = answer \o Output(st)
\* The keywords of a chain that are not collected yet.
Unseen(chain) == Picked(chain, {i \in DOMAIN chain : chain[i] \notin Range(answer)})
\* collectChain: a state seen before adds nothing, a keyword seen before neither.
CollectSet(ch, st) ==
    /\ Advance(ch, st) /\ UNCHANGED phase
    /\ LET fresh == st[2] /\ HasOutput(st[1]) /\ st[1] \notin seenStates
       IN  /\ seenStates' = IF fresh THEN seenStates \cup {st[1]} ELSE seenStates
           /\ answer' = IF fresh THEN answer \o Unseen(Output(st)) ELSE answer
Index(ch, st) ==
    /\ Advance(ch, st) /\ UNCHANGED <<seenStates, phase>>
    /\ LET hits == Range(Output(st))
       IN  answer' = [kw \in DOMAIN answer \cup hits |->
                        (IF kw \in DOMAIN answer THEN answer[kw] ELSE Empty)
                        \o (IF kw \in hits THEN <<Span(kw, Len(text'))[2]>> ELSE Empty)]
\* emitChain: the caller's emit refuses the match after its limit and ends the scan.
Emit(ch, st) ==
    /\ Advance(ch, st) /\ UNCHANGED seenStates
    /\ LET hits == [i \in DOMAIN Output(st) |-> Span(Output(st)[i], Len(text'))]
           all == answer \o hits
       IN  /\ answer' = IF limit # 0 /\ Len(all) >= limit THEN SubSeq(all, 1, limit) ELSE all
           /\ phase' = IF limit # 0 /\ Len(all) >= limit THEN "done" ELSE phase
Found(ch, st) ==
    /\ Advance(ch, st) /\ UNCHANGED seenStates
    /\ LET hit == st[2] /\ HasOutput(st[1])
       IN  /\ answer' = IF hit THEN <<TRUE>> ELSE Empty
           /\ phase' = IF hit THEN "done" ELSE phase

Ask(q, n) ==
    /\ phase = "ready"
    /\ phase' = "scan" /\ query' = q /\ limit' = n
    /\ state' = IF preset = "balanced" THEN DatRoot ELSE Root
    /\ UNCHANGED <<trieVars, queue, order, linkVars, dfa, bloom, datVars, text, answer, seenStates>>

\* A dictionary with nothing but the root answers at once.
NoTrie == nodes = {Root}
Scanning(p, q) ==
    /\ phase = "scan" /\ preset = p /\ query = q /\ ~NoTrie
    /\ Len(text) < MaxText
    /\ UNCHANGED <<trieVars, queue, order, linkVars, dfa, bloom, datVars, query, limit>>
MapFind(ch) == Scanning("memory", "find") /\ Collect(ch, MapStep(ch))
MapFindSet(ch) == Scanning("memory", "findSet") /\ CollectSet(ch, MapStep(ch))
MapFindIndex(ch) == Scanning("memory", "findIndex") /\ Index(ch, MapStep(ch))
MapContains(ch) == Scanning("memory", "contains") /\ Found(ch, MapStep(ch))
MapMatchString(ch) == Scanning("memory", "matchString") /\ Emit(ch, MapStep(ch))
MapMatchStream(ch) == Scanning("memory", "matchStream") /\ Emit(ch, MapStep(ch))
SpeedFind(ch) == Scanning("speed", "find") /\ Collect(ch, SpeedStep(ch))
SpeedFindSet(ch) == Scanning("speed", "findSet") /\ CollectSet(ch, SpeedStep(ch))
SpeedFindIndex(ch) == Scanning("speed", "findIndex") /\ Index(ch, SpeedStep(ch))
SpeedContains(ch) == Scanning("speed", "contains") /\ Found(ch, SpeedStep(ch))
SpeedMatchString(ch) == Scanning("speed", "matchString") /\ Emit(ch, SpeedStep(ch))
SpeedMatchStream(ch) == Scanning("speed", "matchStream") /\ Emit(ch, SpeedStep(ch))
BalancedFind(ch) == Scanning("balanced", "find") /\ Collect(ch, BalancedStep(ch))
BalancedFindSet(ch) == Scanning("balanced", "findSet") /\ CollectSet(ch, BalancedStep(ch))
BalancedFindIndex(ch) == Scanning("balanced", "findIndex") /\ Index(ch, BalancedStep(ch))
BalancedContains(ch) == Scanning("balanced", "contains") /\ Found(ch, BalancedStep(ch))
BalancedMatchString(ch) == Scanning("balanced", "matchString") /\ Emit(ch, BalancedStep(ch))
BalancedMatchStream(ch) == Scanning("balanced", "matchStream") /\ Emit(ch, BalancedStep(ch))

Build ==
    \/ \E kw \in dict : InsertKeyword(kw)
    \/ StartLinks \/ MapLink \/ MapReady
    \/ SpeedLink \/ SpeedRootRow \/ SpeedRow \/ SpeedReady
    \/ StartPlacing \/ Place \/ DatRootLinks \/ DatLink \/ BuildBand
Scan(ch) ==
    \/ MapFind(ch) \/ MapFindSet(ch) \/ MapFindIndex(ch) \/ MapContains(ch)
    \/ MapMatchString(ch) \/ MapMatchStream(ch)
    \/ SpeedFind(ch) \/ SpeedFindSet(ch) \/ SpeedFindIndex(ch) \/ SpeedContains(ch)
    \/ SpeedMatchString(ch) \/ SpeedMatchStream(ch)
    \/ BalancedFind(ch) \/ BalancedFindSet(ch) \/ BalancedFindIndex(ch) \/ BalancedContains(ch)
    \/ BalancedMatchString(ch) \/ BalancedMatchStream(ch)
Next ==
    \/ Build
    \/ \E q \in Queries, n \in Limits : (n # 0 => q \in {"matchString", "matchStream"}) /\ Ask(q, n)
    \/ \E ch \in TextRunes : Scan(ch)

Spec == Init /\ [][Next]_vars

---------------------------------------------------------------------------
(* The reference: every occurrence of every keyword, by where it ends and  *)
(* the longest first.                                                      *)

Matches ==
    {Span(kw, e) : kw \in dict \ {Empty}, e \in DOMAIN text} \cap
    {m \in Seq(Nat) \X Nat \X Nat : m[1] = SubSeq(text, m[2] + 1, m[3])}
ScanOrder(m, n) == m[3] < n[3] \/ (m[3] = n[3] /\ m[2] < n[2])
Occurrences == InOrder(Matches, ScanOrder)
FirstOfEach(seq) == Picked(seq, {i \in DOMAIN seq : \A j \in 1 .. (i - 1) : seq[j] # seq[i]})
Keywords(spans) == [i \in DOMAIN spans |-> spans[i][1]]

\* Building.  A failure link is always strictly shallower than its state, so every
\* walk over the links ends (engine_map.go 97-101, engine_flat.go 161-164), and once
\* linked it names the longest proper suffix that is a node: what the flat trie,
\* the map trie and the double array each compute in their own way.
NodeOf(p) == CHOOSE n \in nodes : datPos[n] = p
LongestSuffix(n) ==
    CHOOSE f \in nodes :
        /\ f # n /\ IsSuffix(f, n)
        /\ \A g \in nodes : g # n /\ IsSuffix(g, n) => Len(g) <= Len(f)
Linked == phase \in {"rows", "ready"}
FailureLinksRight ==
    /\ preset # "balanced" =>
         \A n \in DOMAIN fail \ {Root} : Len(fail[n]) < Len(n) /\ (Linked => fail[n] = LongestSuffix(n))
    /\ preset = "balanced" /\ Linked =>
         \A n \in nodes \ {Root} : fail[datPos[n]] = datPos[LongestSuffix(n)]

\* Building.  The double array holds the trie: two nodes never share a slot, and a
\* lookup by code finds exactly the child the trie has, leaves and gaps included
\* (findBase, gotoStateByCode).
DoubleArrayIsTheTrie ==
    phase = "link" /\ preset = "balanced" =>
        /\ IsInjective(datPos)
        /\ \A n \in nodes : \A i \in DOMAIN Alphabet :
             Goto(datPos[n], i - 1) =
                 IF Append(n, Alphabet[i]) \in nodes THEN datPos[Append(n, Alphabet[i])] ELSE 0

\* Scanning.  After every rune each engine has collected exactly what the naive
\* search of the text so far finds, in scan order, for each kind of query: Find one
\* entry per occurrence, FindSet each keyword once in first-match order, FindIndex
\* the starts of each keyword, Contains whether there is any, MatchString and
\* MatchStream the spans up to the one the caller refused.
AnswerRight ==
    phase \in {"scan", "done"} =>
        LET all == Occurrences
            kws == Keywords(all)
        IN  /\ query = "find" => answer = kws
            /\ query = "findSet" => answer = FirstOfEach(kws)
            /\ query = "findIndex" =>
                 answer = [kw \in Range(kws) |-> Sorted({m[2] : m \in {n \in Matches : n[1] = kw}})]
            /\ query = "contains" => (answer # Empty <=> all # Empty)
            /\ query \in {"matchString", "matchStream"} =>
                 answer = SubSeq(all, 1, IF limit = 0 \/ limit > Len(all) THEN Len(all) ELSE limit)

---------------------------------------------------------------------------
(* The invariant of building, part by part.  The order of the work is told *)
(* by node, whatever names the states have.                                *)

StateOf(n) == IF preset = "balanced" THEN datPos[n] ELSE n
NodeQueue == IF preset = "balanced" /\ phase = "link" THEN [i \in DOMAIN queue |-> NodeOf(queue[i])] ELSE queue

\* The trie of the keywords inserted so far.
TrieInv ==
    /\ preset \in Presets /\ dict \in Dictionaries
    /\ phase \in {"insert", "place", "link", "rows", "ready", "scan", "done"}
    /\ phase = "place" => preset = "balanced"
    /\ phase = "rows" => preset = "speed"
    /\ todo \subseteq dict /\ (phase # "insert" => todo = {})
    /\ nodes = {Root} \cup UNION {Prefixes(kw) : kw \in dict \ todo}

\* No node of the queue is above another; what is below one waits.
Apart(Q) == Q \in Seq(nodes) /\ \A i, j \in DOMAIN Q : i # j => ~IsPrefix(Q[i], Q[j])
Waits(n, Q) == \E i \in DOMAIN Q : IsStrictPrefix(Q[i], n)
\* Breadth first: level by level, and what does not wait is at most one level down.
Layered(Q) ==
    /\ \A i, j \in DOMAIN Q : i < j => Len(Q[i]) <= Len(Q[j])
    /\ \A n \in nodes : Waits(n, Q) \/ \A i \in DOMAIN Q : Len(n) <= Len(Q[i]) + 1
QueueInv ==
    /\ phase \in {"place", "link"} => Apart(NodeQueue)
    /\ phase = "link" => Layered(NodeQueue) /\ Root \notin Range(NodeQueue)
    /\ phase = "link" /\ preset = "balanced" => queue \in Seq(Range(datPos))
    /\ phase \notin {"place", "link"} => queue = Empty

\* The slots of the double array that are taken, and by which node.
Placed == IF phase = "place" THEN {n \in nodes : ~Waits(n, queue)} ELSE nodes
SlotInv ==
    preset = "balanced" /\ phase # "insert" =>
        /\ DOMAIN datPos = Placed
        /\ \A n \in Placed : datPos[n] \in Nat /\ (IF n = Root THEN datPos[n] = DatRoot ELSE datPos[n] > DatRoot)
        /\ \A m, n \in Placed : datPos[m] = datPos[n] => m = n
        /\ DOMAIN own = Range(datPos) /\ DOMAIN depth = Range(datPos)
        /\ \A n \in Placed : own[datPos[n]] = Assigned(n) /\ depth[datPos[n]] = Len(n)
        /\ DOMAIN check = {0} \cup {datPos[n] : n \in Placed \ {Root}}
        /\ check[0] = -1
        /\ DOMAIN base \subseteq Range(datPos) /\ \A p \in DOMAIN base : base[p] \in Int
        /\ \A n \in Placed \ {Root} :
             LET above == datPos[Front(n)]
             IN  /\ check[datPos[n]] = above
                 /\ above \in DOMAIN base /\ datPos[n] = base[above] + Code(Last(n))

\* Every node that does not wait has its links.
LinkInv ==
    IF phase \in {"insert", "place"} THEN fail = Empty ELSE
        /\ DOMAIN fail = {StateOf(n) : n \in nodes}
        /\ fail[StateOf(Root)] = StateOf(Root)
        /\ \A n \in nodes \ {Root} :
             fail[StateOf(n)] = IF ~Waits(n, NodeQueue) THEN StateOf(LongestSuffix(n))
                                ELSE IF preset = "balanced" THEN 0 ELSE Root

BuildInv == TrieInv /\ QueueInv /\ SlotInv /\ LinkInv

---------------------------------------------------------------------------
(* The invariant of a query, part by part.                                 *)

\* The keywords that a word ends with, and the state the automaton is in after it.
Ending(w) == {kw \in dict \ {Empty} : IsSuffix(kw, w)}
Longest(w) ==
    CHOOSE m \in nodes : IsSuffix(m, w) /\ \A u \in nodes : IsSuffix(u, w) => Len(u) <= Len(m)

\* The output link of a linked state leads to the longest keyword it properly ends with.
OutInv ==
    phase \notin {"insert", "place"} =>
        /\ DOMAIN own = {StateOf(n) : n \in nodes} /\ DOMAIN outLink = DOMAIN own
        /\ \A n \in nodes : own[StateOf(n)] = Assigned(n)
        /\ \A n \in nodes :
             LET shorter == Ending(n) \ {n}
             IN  IF Waits(n, NodeQueue) \/ shorter = {} THEN outLink[StateOf(n)] = OutNone
                 ELSE \E kw \in shorter : /\ outLink[StateOf(n)] = StateOf(kw)
                                          /\ \A k \in shorter : Len(k) <= Len(kw)

\* The rows of the DFA are filled level by level.
OrderInv ==
    /\ phase = "insert" => order = Empty
    /\ preset = "speed" /\ phase \in {"link", "rows"} =>
         /\ order \in Seq(nodes \ {Root})
         /\ \A i, j \in DOMAIN order : i < j => Len(order[i]) <= Len(order[j])
    /\ preset = "speed" /\ phase = "link" =>
         /\ \A n \in nodes \ {Root} : n \in Range(order) \/ n \in Range(queue) \/ Waits(n, queue)
         /\ \A i \in DOMAIN order, j \in DOMAIN queue : Len(order[i]) <= Len(queue[j])
    /\ preset = "speed" /\ phase = "rows" => nodes = DOMAIN dfa \cup Range(order)
    /\ preset = "speed" /\ phase \in {"ready", "scan", "done"} => nodes = DOMAIN dfa

\* A row that is filled leads where the failure links would.
RowInv ==
    preset # "memory" /\ phase \in {"rows", "ready", "scan", "done"} =>
        /\ StateOf(Root) \in DOMAIN dfa
        /\ \A n \in nodes : StateOf(n) \in DOMAIN dfa =>
             /\ DOMAIN dfa[StateOf(n)] = DOMAIN Alphabet
             /\ \A i \in DOMAIN Alphabet :
                  dfa[StateOf(n)][i] = Packed(StateOf(Longest(Append(n, Alphabet[i]))))

\* A scan has read text and is where the automaton should be.
ScanInv ==
    /\ preset = "memory" /\ phase \in {"ready", "scan", "done"} => FirstRunes \subseteq bloom
    /\ IF phase \in {"scan", "done"}
       THEN query \in Queries /\ limit \in Nat /\ text \in Seq(Nat) /\ state = StateOf(Longest(text))
       ELSE text = Empty /\ answer = Empty /\ seenStates = {}

\* What each query has collected when it goes on.
AnswerInv ==
    /\ AnswerRight
    /\ phase = "scan" =>
         /\ query = "contains" => Occurrences = Empty
         /\ query = "findSet" => \A s \in seenStates : s \in DOMAIN own /\ Range(Chain(s)) \subseteq Range(answer)
         /\ query \in {"matchString", "matchStream"} => limit = 0 \/ Len(Occurrences) < limit

EngineInv == BuildInv /\ OutInv /\ OrderInv /\ RowInv /\ ScanInv /\ AnswerInv
=============================================================================
