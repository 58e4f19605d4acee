# Verification of tex-core

tex-core turns TeX source into a tree of positioned boxes. The engine is a C library
(`src/packages/tex-core/core`, about 6,350 lines); bindings for JavaScript, Kotlin and Swift
carry its render tree to their languages. This directory holds TLA+ models of the engine, the
configurations that check them with TLC, and proofs checked by TLAPS.

## 1. Inventory of the system

| Component | Source (under `src/packages/`) | State | Operations |
|---|---|---|---|
| Scanner | `tex-core/core/token.c`, `utf8.c` | byte position | next token: character, control sequence, blank run, paragraph, end; UTF-8 decoding |
| Command lookup | `tex-core/core/parse.c:413-1047` | constant tables | bisection over the sorted command table, linear search of the small ones |
| Parser | `tex-core/core/parse.c`, `parse.h` | stack of frames, arena of items and constructs | one handler per token; delivery of constructs; error paths |
| Layout | `tex-core/core/layout.c` | render nodes, style of the list in progress | lists to boxes: atom classes and spacing, scripts, limits, fractions, radicals, fences, accents, arrays |
| Scaled arithmetic | `tex-core/core/scaled.c` | none | product with an em, rounding, decimal formatting |
| Metrics | `tex-core/core/metrics.c`, `metrics.inc` | constant tables | glyph lookup by family and code point |
| Memory | `tex-core/core/memory.c` | two atomic counters; arenas | allocate, reallocate, free, injected failure; arena allocate and release |
| Compile and facade | `tex-core/core/tex_core.c`, `error.c` | one render tree per compile | compile, free, dump, node views |
| Dump | `tex-core/core/dump.c` | growing buffer, explicit stack | canonical text of a tree |
| Command line | `tex-core/core/main.c` | none | read, compile, print |
| TXC1 bridge | `tex-core/bridge/tex_core_txc1.c` | output buffer | size, then encode a tree |
| JavaScript binding | `es-tex-core/src` | copy of the tree | decode TXC1, own the handle |
| Kotlin binding | `kotlin-tex-core` | copy of the tree | decode TXC1 over JNI or cinterop |
| Swift binding | `swift-tex-core` | handle on the C tree | walk, dump |
| Tests, fuzzing, fixtures, scripts | `tex-core/tests`, `tex-core/fuzz`, `src/specs`, `src/scripts` | | not program logic |

**How they interact.** A compile is a chain of direct calls in one thread: `tex_core_document_compile`
allocates the tree, calls `txc_parse` with a scratch arena, `txc_layout` with the tree's own
arena, and releases the scratch arena; `txc_parse` pulls tokens from the scanner one at a time
and looks commands up in the tables. Each stage hands the next a pointer structure that is only
meaningful while its arena lives. There are no callbacks and no messages. The two counters of
`memory.c` are the only state shared by threads; a finished tree is immutable and may be read by
many. The bridge and the Swift binding read a finished tree.

**What is hard.** `PROJECT.json` lists the hazards line by line. In short:

* *Long token sequences.* The parser is a pushdown automaton written as one loop over an explicit
  stack. When it closes a group it writes through pointers saved when the group was opened, possibly
  hundreds of tokens earlier, and it does not check that they are still right. They are right only
  because every other token that could have invalidated them was refused on the way.
* *Values copied and still referenced.* A list is copied by value into a field, a cell, a fence
  or a `\text`, and its frame is reset, reused or dropped.
* *Source positions.* Layout attributes the space between two atoms to the source between their
  ranges, so that ranges must nest and be ordered, though several functions move them.
* *A source that ends anywhere*, and must be refused with a range that names the reason.
* *Failing allocations*, each of which must leave nothing behind, injected by a counter that
  threads decrement together.
* *Arithmetic and sizes in layout*: the arrays of children sized before they are filled, the
  demotion of Bin atoms that reads already demoted classes on one side, and clearances that must survive
  roundings and later corrections.
* *Two sides of one format*: the encoder and the decoders are written in three languages and share
  nothing but the order and the widths of the fields.

**What makes each component correct.** Scanner: every byte is in exactly one token but for the blanks a
control word swallows, a blank line always ends a paragraph, and the decoder accepts exactly well-formed
UTF-8. Lookup: finds a name exactly when the table holds it. Parser: section 4. Layout: writes as many
children as it reserved, never leaves a Bin next to nothing, emits children in source order, and keeps
the clearances of TeX's rules in every finished box. Scaled arithmetic: what is printed reads back.
Command line: compiles the whole input or nothing, and its exit status tells which. Memory: the counter of live blocks equals the blocks that live, and
no more allocations succeed than the limit. Compile: a failed compile owns nothing, a successful
one only its tree. Dump: pre-order, never past its buffer. Bridge and decoders: decoding what was
encoded gives the tree back, and anything else is refused.

## 2. Plan

| Step | Modules | Abstract specification | Theorems |
|---|---|---|---|
| 1 (done) | `Parser`, `ParserProps`, `Nesting`, `ParserNesting`, `MCParser`, `ParserProofs`, `ParserTreeProofs` | `Nesting`: last-in first-out constructs within a limit | types, stack discipline, depth bound; destinations open, nothing overwritten, document content, stretch, verdicts; the parser implements `Nesting` |
| 2a (done) | `Seam`, `Allocation`, `AllocationProps`, `MemoryProofs` | `Seam`: a budget spent one at a time | one holder for each block; live counter exact; the seam implements `Seam` |
| 2b (done) | `Arena`, `MCArena`, `MemoryProofs`; `Facade`, `FacadeProps`, `MCFacade`, `FacadeProofs`; `Dump`, `DumpProps`, `MCDump` | the recursive walk of a tree, for the dump | blocks lie inside their chunks and apart; nothing leaks, one owner, safe readers, out-parameters |
| 3 (done) | `Utf8`, `Scanner`, `Search`, `Decimal`, composed in `Leaves`; `LeavesProps`, `MCLeaves`, `LeavesProofs` | Unicode's table of well-formed sequences; TeX's paragraphs; membership in the table; TeX's section 102 | lookup exactly when present, the decoder by Unicode's table, the tokens tile the source and end its paragraphs |
| 4 (done) | `Styles`, `Mlist`, `MlistProps`, `Typesetting`, `MCMlist`, `MlistProofs` | `Typesetting`: TeX's rules for a list, in one step | exact capacity, own nucleus, no impossible pair, only Bins demoted |
| 5 (done) | `Boxes`, `BoxesProps`, `MCBoxes`, `BoxesProofs` | the clearances of Appendix G | every property of the geometry |
| 6 (done) | `Engine`, `Wire`, `Bindings`, `CommandLine`, composed in `Clients`; `ClientsProps`, `MCClients`, `ClientsProofs` | identity on trees | no leak, no dangling read, whole input, truthful exit, the answer arrives as given |

The parser comes first because everything else trusts the structure it builds and because
it is where ordinary tests reach least. What the plan leaves is proofs: that the face
of every letter is the one its source gives it (`LexicalFaces`), and the walk of the dump.

## 3. The modules

| Module | What it is |
|---|---|
| `Parser` | `txc_parse` and everything it calls, one action per handler |
| `ParserProps` | types, invariants, action and liveness properties of the parser |
| `Nesting` | abstract: constructs open and close last in, first out |
| `ParserNesting` | the refinement mapping from `Parser` to `Nesting` |
| `MCParser` | the small alphabets of the runs |
| `ParserProofs` | theorems about the parser |
| `ParserTreeProofs` | theorems about the tree it builds |
| `Seam` | abstract: a budget of allocations spent one at a time by any number of callers |
| `Allocation` | `txc_malloc`, `txc_realloc`, `txc_free` and the test hook, one action per access to shared state |
| `AllocationProps` | types, invariants, the refinement mapping to `Seam`, liveness |
| `Arena` | `txc_arena_init`, `txc_arena_alloc`, `txc_arena_release`, with the arithmetic of `size_t`, and its properties |
| `MCArena` | the sizes of the run |
| `MemoryProofs` | theorems about the seam and about the arena |
| `Facade` | compile, free, dump and dump free of `tex_core.c`, called by any threads, one action per allocation, release or end of a stage |
| `FacadeProps` | types, ownership, readers, out-parameters |
| `MCFacade` | symmetry of the run |
| `FacadeProofs` | theorems about the life of trees and dumps |
| `Dump` | one call of `txc_dump`: growing buffer, explicit stack, failing reallocations |
| `DumpProps` | types, room for the NUL, leaks, and the reference walk |
| `MCDump` | all ordered trees of up to `MaxNodes` nodes |
| `Styles` | the eight math styles, the atom classes and the spacing table |
| `Mlist` | the passes of `txc_mlist` over one list, one action per item and kind of node |
| `MlistProps` | types, capacity, classes, the refinement mapping to `Typesetting` |
| `Typesetting` | abstract: what laying out a list gives, by TeX's rules, in one step |
| `MCMlist` | the lists of the run |
| `MlistProofs` | theorems about the passes |
| `Boxes` | the geometry of every construct, one action per box builder |
| `BoxesProps` | slots, order, extents, and the clearances of each construct |
| `MCBoxes` | measures of the tables, in thousandths of a point |
| `BoxesProofs` | theorems about the geometry |
| `Utf8`, `Scanner` | `txc_utf8_next`; `txc_scan`, one action per kind of token |
| `Search` | the bisections of the command table and of the metrics, one probe a step |
| `Decimal` | the fraction `txc_scaled_format` prints, one digit a step |
| `Leaves`, `LeavesProps`, `MCLeaves`, `LeavesProofs` | the four run one at a time; their properties, inputs and theorems |
| `Engine` | the C API as its clients see it: one answer, and the views of its nodes |
| `Wire` | the TXC1 payload and its encoder |
| `Bindings` | the calls and the decoders of the JavaScript, JVM and Swift bindings |
| `CommandLine` | `main.c`: arguments, reading, compile, dump, exit status |
| `Clients`, `ClientsProps`, `MCClients`, `ClientsProofs` | one call of any client; properties, instances and theorems |

### Parser

*Steps.* One step is one iteration of the loop of `txc_parse`: scan a token and run its whole
handler, the frame pushes and pops, delivery and `txc_collect_finish` included. Handlers run in one
thread with nothing in between, so nothing finer is observable. The row terminator, `\begin`
and `\end` scan further tokens inside their handler, and so do their actions.

*The source is drawn as it is read.* `text` holds the tokens scanned so far, `pos` how many are
consumed; the two differ only after the row terminator's lookahead, which scans with a copy of
the scanner. `Sources` is a set of kinds of sources, each an alphabet and a length; all sources of all kinds
are thereby explored, each once.
Positions count tokens: token *n* has the byte range `[n, n+1)`. A `\begin` with its name is
two tokens.

*Tokens.* A token stands for its class in the tables: one letter, one digit, one Bin character
that is `*` too, the brackets, every special character, one symbol command; two of a class
where its rows differ in something the parser acts on (`\sum`/`\int` by limits, `\mathrm`,
`\mathbf` and `\text` by face, `pmatrix`, `matrix`, `cases`, `smallmatrix` by columns, stretch,
strut and class). `@` and `\foo` stand for what no table holds, `BAD` for what the scanner
rejects. `MayFollow` is what the scanner never returns: a blank after a control word, which
swallows it, or two blank runs in a row.

*State.* `stack` is the chain of `txc_frame`, root first; `items` and `nodes` are the parser's
arena, indices into them are pointers, 0 is NULL. `txc_collect` and the pending script are records
inside the frame, as in C. A list is the sequence of its items; the C's head, tail and count are its
first, last and length. Copying a list by value copies the sequence; the frame that still holds it is
popped or its list reset, as the code does. Fields of the frame that only carry the wording of an error
are left out, as are delimiter glyphs, code points and the geometry an environment's row hands
to layout.

*Failure.* Where the code allocates, the action may instead end in `ALLOCATION_FAILED`;
`txc_fail` ends the parse and keeps nothing. The one thing abstracted is how many allocations precede
the failing one within a handler: none of what they wrote is reachable afterwards.

*Actions and code*: `PROJECT.json`, `map`, names for each definition the lines it translates.

### Nesting and the refinement

`Nesting` knows a stack of open constructs, the token just read and a verdict: a construct is
entered by a token that opens it, left by one that closes that very construct, never more than
`Limit` are open, and a source is accepted only at its end with none open. `ParserNesting` maps the
frames above the root to it. It says what a reader of TeX expects whatever the frames hold.

### Allocation and the seam

*Steps.* The counters of `memory.c` are C11 atomics used with sequential consistency, so that a
step is one access: the load of the countdown, each compare and swap, each add on the live counter, each
call of the C library. `call[t]` holds the program counter of thread *t*, the block it was passed or got,
and `current`. The test of `current` that follows a load touches nothing shared and belongs to the
load (`Decide`). A weak compare and swap may fail though the value is the expected one; either way it
reloads `current` (`SwapFails`). `malloc`, `realloc` and `free` are taken as atomic and may return any
address that is not in use, or NULL.

*The callers* own the blocks in `owned`. They pass a block they own to `txc_realloc` or `txc_free`, and have
it back only from the return. `txc_realloc` of NULL runs exactly like `txc_malloc` and is `Malloc`;
`txc_free` of NULL touches nothing and is left out. Sizes play no role in this part of the file.

*The refinement.* `Seam` is what `memory.h` says: the next `remaining` allocations succeed and
every later one fails, negative never fails. A caller asks from its first load to its decision; a grant
spends one and a refusal needs the budget to be spent, in a single step each. The load that finds a negative
countdown, and the compare and swap that succeeds, are grants; the load that finds zero is a refusal;
every other step is invisible.

### Arena

An arena belongs to one thread and calls no code that could come back to it, so that a step is a whole
call. `chunks` is the list of chunks, oldest first; each records its capacity, what is used, and the
`bytes` the code asks `txc_malloc` for, which need not be what the chunk assumes it has: sums and products are
taken modulo `SizeMax + 1`. `blocks` is what has been returned and not released. `txc_arena_alloc` is four
actions by its early returns: the rounding wraps (`Overflows`), the newest chunk has room (`Bump`), a
chunk is obtained (`Refill`), or none is, be it too large or refused (`Fails`). In the last case
`next_capacity` has advanced all the same, as in the code. `MaxChunks` bounds what the library gives. Zeroing of
blocks is left out.

### Facade

*Steps.* One call of the public API may be interrupted by other threads anywhere; what they share is the heap,
so that a step is one allocation or release of a block, with the local work around it. `call[t]` holds the
local variables that own memory: `tree` (`compiled`), `arena` (the chunks of `compiled->arena`), `scratch`,
and `status`. `txc_parse` and `txc_layout` are seen from here as stages that take chunks for the arena they
are given and end with a status; an error is written when it is found, the return value at the return. A stage
that fails on memory may have been refused a chunk at any point, and takes any number before it.
`tex_core_render_tree_free` is the same two actions (`DiscardChunk`, `DiscardTree`) whether a failing compile
or a caller runs it. `out[t]` is what the last compile of the thread left in the caller's hands.

*The callers' contract.* They free what they own, once, and not while another thread reads it (`FreeTree`
requires that no dump of that tree is in progress: the header's "immutable and safely shareable" says nothing
of a free). Each thread compiles into variables of its own. Handles and errors are not NULL.

### Dump

One call, one thread; a step is one reservation and what is written into it. `buffer`, `stack` and `slots` are
the code's, with capacities counted in bytes and frames, and the doubling loop computed modulo `SizeMax + 1`. `lines`
records which node was written at which depth. Each reservation that needs memory may fail (`Fail`), which covers the
guards against overflow too. The text of a line is left out and its length kept; that it fits the 512
bytes of `txc_line` is taken as given (the longest, a glyph's, has fewer than 300). No object is larger than `MaxObject`,
as with any C library, so that the doubling ends.

### Mlist and Typesetting

`txc_mlist` goes over a list three times: Bin atoms are resolved in place, the nodes to come are counted and
the children array allocated, and the nodes are built. A step is one item of the first two passes, and of
the third one node: the space between a pair, the nucleus, the scripts or the limits. `items` is the list as it
is rewritten, `given` as the parser left it; `children` is what is in the array below `index`, `capacity`
the count. A list holds what a parse may leave: an Op has a nucleus, and a list laid out without math
holds Ord characters or one Op (section 6). The boxes of nuclei and scripts are made by calls that
lay out lists of their own, and each is here a step that gives a box or fails; `Boxes` is about what is in them.
`tally` is a history, of which the properties only ask whether the count has begun.

`Typesetting` states the outcome with no passes: the class of an atom is a function of its neighbours, the
one on the left as resolved and the one on the right as given (the TeXbook's rule for Bin atoms), the list
of nodes is the concatenation of what each item gives. It delivers that or a failure in one step, and
`PromiseKept` maps `published` to nothing until `pc` is `"done"` or `"failed"`.

### Boxes

*Steps.* Constructs are built inside out: a behaviour starts from a letter, a big operator, a sized
delimiter or an accented letter, and each step lays out one construct around the box made last, its other
arguments single letters. A step is a whole box builder of `layout.c` (`txc_fraction_box`, `txc_array_box`, ...)
with the placing of all its children. It may be taken in a style only if the code lays out that argument in
the style the box was made in. `Mlist` here makes a box of a list of the last box and at most one character after it.
`MaxNested` stands for the parser's limit, on which the recursion of layout relies.

*State.* `box` has extents, children in order and the number of `slots` their array was allocated at; `made`
tells what it is of, in which style the parameters were taken, and which ladders were asked for what. A
child is a record of what it is, its role, reference point, extents, and for rows and assemblies their own
children. `src` is where a child's range stands in its construct. Measures are integers; `Half` and `Em` round as
`txc_half` and `txc_em` do. Names and code points of glyphs are gone, a glyph is its metrics at each size.

*Ladders.* A ladder has a small glyph at each size, the size faces there are, and the pieces. `Candidates`
is the order in which `txc_delimiter_node` tries them, `Chosen` takes the first that fits, then pieces, then the
last face; `Assembly` counts and stacks the pieces.

*What the tables owe.* The tables are CONSTANTS: `Metric` and `BoxesAssumption` give their types (widths and italic corrections
are not negative, no glyph ends above its top, rules have a thickness and repeated pieces a height, columns a gap), `ShapesAssumption` says that an
alignment has rows and a row has cells, and `TablesAscend` what the searches in the code rely on without a test: the rungs of a ladder and
the steps of a wide accent ascend, no accent hangs below the baseline, the radical sign has faces and no pieces and is wider than the kern that
tucks an index over it, and the strut of a fenced environment is more than twice the height of the axis. Every row of `metrics.inc`, of the delimiters
and of the environments of `parse.c` satisfies them at each of the three sizes, rounding included.

*An accent over little.* `InkInside` lets one child out: the ink of an accent may begin below the extents that `txc_accent_box` gives, which are
the nucleus's descent, when the nucleus is a small alignment that ends above the baseline. The proof of `WholeBoxes` is what showed it.

### Leaves: Utf8, Scanner, Search, Decimal

The four share no state, and one behaviour runs one of them. `Scanner` goes through a source of bytes as a
caller that scans to the end does; a step is one `txc_scan`. `txc_utf8_next` is an operator, as are the run of blanks and the run of letters,
recursive functions over the source. `Search` is both bisections, which differ in that the command table's stops at a match; keys
are compared by an operator parameter, which the run gives `txc_command_order`. `Decimal` prints the fraction of a value; sign and
integer part are those of any integer.

### Clients: Engine, Wire, Bindings, CommandLine

`Engine` is the facade from outside: a compile gives one of `Trees`, owned by the caller, or one of `Errors`.
`heap` holds the blocks, handles and open files not yet given back. `Wire` is the bridge. The payload maps the offset of each field to
its width and value; a value is a token for that field of that node, so that a field that is read at another offset, or
in another width, gives garbage. `Written`, `ReadByES` and `ReadByKotlin` are the three orders, each from its own
source; sizes are modulo `SizeMax + 1`. `Bindings` follows each call from the source's block to the `finally` or the
last return, and the decoder's loop frame by frame, with its checks. `CommandLine` parses arguments one by one, reads into the doubling buffer, and goes
on to the output; `path` is empty or the one name given, which may itself be the empty word. Every allocation may be refused, a read may come short at the end or on an error, and the write or the flush may fail. `Wire`
and `Bindings` share the variables of `Engine` with `CommandLine`, and one behaviour of `Clients` is one call of one of the four
clients. One thread runs each call; what threads do to one another is `Facade`'s.

## 4. The runs

A run of the parser explores all sources written in one of its small alphabets (`MCParser`), up to that alphabet's
length; each gathers tokens whose handlers could disturb one another, and every property of the run is checked on all
of them. Deadlock is checked: the only final states are those where the parse has returned (`Returned`).

| Run | Instance | Question |
|---|---|---|
| `ParserLists` | `ScriptTokens` to 7, `StyleTokens` and `OperatorTokens` to 6 tokens; depth 3 | Do saved pointers stay right (`DestinationOpen`), is nothing overwritten (`WrittenOnce`), do ranges nest (`RangesNest`) and cover the source (`NothingSkipped`), is the recorded order of scripts the written one (`SubFirstFaithful`), does each letter get the face of the innermost switch around it (`LexicalFaces`), does the parser end (`Terminates`), are types kept (`TypeOK`)? |
| `ParserConstructs` | `RadicalTokens` and `FenceTokens` to 6, `EnvironmentTokens` to 8 tokens, two environments and an unknown one; depth 3 | Is each popped frame the one pushed by the frame below (`StackDiscipline`), do constructs contain their arguments in order (`BuiltWithin`), is nesting last in, first out (`NestingRefined`), is the limit kept exactly (`DepthBound`), is what is accepted complete (`AcceptedComplete`), does each error name a token of the source (`ErrorNamesSource`), is every item in exactly one list as lists move into cells (`OneOwner`), are cells and rows in source order and within the columns (`CellsOrdered`), does `\arraystretch` pierce what it should (`StretchPierces`)? |
| `ParserDocument` | `DocumentTokens` to 6 tokens, document mode | Do lists under the document rules get only characters and spaces (`DocumentRules`)? |
| `ParserText` | `TextTokens` to 4 tokens | Expected to fail: see section 6. |
| `Allocation` | 3 threads, 2 blocks, limits -1 to 2 | Has every block one holder (`OneHolder`), does the live counter tell the truth (`Outstanding`), is the budget spent one at a time and refused exactly when spent (`BudgetSpentOnce`), does every call return once the test hook is quiet (`CallsReturn`), are types kept (`TypeOK`)? |
| `Arena` | `size_t` of 5 bits, alignment 4, header 6, capacities 8 to 16, 2 chunks, sizes 0 to 29 | Does each block lie inside its chunk (`BlocksHeld`) and apart from the others (`BlocksApart`), is no chunk overfull (`ArenaTypeOK`)? |
| `Facade` | 2 threads, 4 blocks, 2 chunks per arena | Does every block have an owner (`NothingLeaked`) and only one (`OneOwner`), are readers undisturbed (`ReadersSafe`), what do callers see (`OutParameters`)? |
| `Mlist` | all lists of up to 4 plain atoms of the 8 classes and spaces, and of up to 3 of nine items with scripts, limits and boxes; display, text and cramped script style; math or not | Is the array filled exactly (`ExactCapacity`), is the node taken back the atom's own (`TakesOwnNucleus`), is no pair impossible (`NoImpossiblePair`), is the result TeX's, do only Bins change and before the count, and does it end (`PromiseKept`), are types kept (`TypeOK`)? |
| `Boxes` | two constructs around one another and a letter, an operator, a delimiter or an accent; styles 0, 2, 5, 6; 6 ladders, 3 environments, 4 shapes of alignment | Are arrays of children filled (`SlotsFilled`), is ink inside its box (`InkInside`), are children in source order (`SourceOrder`), do fractions (`FractionClear`), scripts (`ScriptsApart`), limits (`LimitsApart`), accents (`AccentFits`) and radicals (`RadicalCovers`) keep their distances, do ladders take the right rung (`LadderKept`), fences cover (`FencesCover`), pieces abut (`AssemblyTight`), rows and columns not overlap (`RowsStacked`, `ColumnsApart`)? |
| `Leaves` | sources of up to 6 of backslash, letter, digit, blank, LF, CR, and of up to 4 bytes around every bound of UTF-8; all tables over 9 names with common prefixes; all 65536 fractions | Is a character what its bytes encode (`CharactersExact`), is an error where the source goes wrong (`ErrorsExact`), do tokens tile the source (`TokensTile`), is every blank line a paragraph and nothing else (`ParagraphsKept`), is the key never left behind (`Bracket`) and found when there (`FoundIfPresent`), do digits read back (`ReadsBack`) and are they as few as possible (`Shortest`), does each end (`Terminates`)? |
| `Clients` | all ordered trees of up to 4 nodes with leaves of each kind, every style and family, one tree too large; all statuses; up to 4 arguments of 8; inputs up to 9 units | Does the engine's answer arrive as it was given (`AnswerCarried`) and always (`AnswerGiven`), is the payload as long as its block (`ExactPayload`), is nothing left (`NothingLeaked`) or read after its release (`NoDangling`), does the command line compile the whole input (`InputWhole`) as it was told (`ArgumentsHeeded`) and exit truthfully (`ExitTruthful`), does each call end (`Terminates`)? |
| `Dump` | all trees of up to 5 nodes, first capacities 4 bytes and 1 frame | Is the result the recursive walk (`Preorder`), does the buffer have room for its NUL (`RoomForNul`) and the stack for its frames (`TypeOK`), is nothing left behind (`NothingLeaked`)? |

The names in the table are those of the statements, each with a comment of its own. Where several statements answer one
question, the run checks their conjunction, under one name:

| Conjunction | Of |
|---|---|
| `RangesFaithful` | `RangesNest`, `NothingSkipped` |
| `RecordedAsWritten` | `SubFirstFaithful`, `LexicalFaces` |
| `FramesInOrder` | `StackDiscipline`, `DepthBound` |
| `VerdictJustified` | `AcceptedComplete`, `ErrorNamesSource` |
| `ConstructsFaithful` | `BuiltWithin`, `CellsOrdered`, `StretchPierces` |
| `BlocksAccounted` (`Allocation`) | `TypeOK`, `OneHolder`, `Outstanding` |
| `BlocksSound` (`Arena`) | `ArenaTypeOK`, `BlocksHeld`, `BlocksApart` |
| `Owned` (`Facade`) | `TypeOK`, `NothingLeaked`, `OneOwner` |
| `BuffersSound` (`Dump`) | `TypeOK`, `RoomForNul`, `NothingLeaked` |
| `ArrayFilled` (`Mlist`) | `TypeOK`, `ExactCapacity`, `TakesOwnNucleus` |
| `PromiseKept` (`Mlist`) | the refinement of `Typesetting`, `DemotedOnce`, `Terminates` |
| `BoxWhole` (`Boxes`) | `TypeOK`, `SlotsFilled`, `InkInside` |
| `Clearances` | `ScriptsApart`, `LimitsApart`, `RadicalCovers`, `AccentFits` |
| `DelimitersFit` | `LadderKept`, `FencesCover`, `AssemblyTight` |
| `GridAligned` | `RowsStacked`, `ColumnsApart` |
| `DecodedExactly` (`Leaves`) | `CharactersExact`, `ErrorsExact` |
| `TokensFaithful` | `TypeOK`, `TokensTile`, `ParagraphsKept` |
| `SearchRight` | `Bracket`, `FoundIfPresent` |
| `PrintedShortest` | `ReadsBack`, `Shortest` |
| `AnswerFaithful` (`Clients`) | `TypeOK`, `AnswerCarried`, `AnswerGiven`, `ExactPayload` |
| `BlocksKept` | `NothingLeaked`, `NoDangling` |
| `CommandTruthful` | `ArgumentsHeeded`, `ExitTruthful` |

*Why these bounds are enough.* A property breaks here when a token arrives in a state that another
token should have made impossible. A frame interacts only with its parent, a collector with its frame,
so that depth 2 or 3 shows every pair, and six to eight tokens suffice to open two constructs, disturb
the inner one and close both; each mutated handler listed in `PROJECT.json` is found within them.
`MaxColumns = 2` makes the extra alignment tab reachable; with braces and a depth of 3, every token that pushes a
frame meets the limit within six. What is uniform in depth is proved for every depth (section 5).
For the seam, two threads already race in the compare and swap, a third can reset the value in between
(the hook does too, at any time), a limit of 2 makes the loop go round with a changed value, and two
blocks let one move while the other is held, or be freed by another thread in the middle. Proofs cover every number
of both. Where nothing but safety is checked, threads and blocks are symmetric (`Facade`).
For the arena, five bits leave all edges in reach: a size whose rounding wraps (29), one whose chunk would
wrap with its header (26), one that is an oversized chunk (17, 24), and one that fills a chunk exactly (8); two
chunks let the head change and the schedule move. For the facade, four blocks are a tree with two chunks and one left for
the other thread, or two compiles short of memory at different stages; two threads are what it takes for a reader
and a writer. For the dump, five nodes are a box in a box with siblings on both sides, lines of 3 and 4 bytes meet every
remainder of the capacity, and a first capacity of one frame makes the stack grow in the middle of the walk.
For a list, four atoms hold a chain of Bins with a neighbour on each side, and three atoms with scripts an operator with limits between two others; the
theorems cover any length. For boxes, a construct sees only the extents and the single glyph of its arguments, so that two levels show each
construct around each other one; the measures are those of the tables, so that each branch on them is taken as in the program. `Boxes` needs
no larger number of rows or cells: three rows of unequal length meet both branches of the interline glue and a column missing in the last row.
For the scanner, six characters hold two line ends of two bytes each after a control word, and four bytes the longest sequence and every way to cut or spoil it. For
the clients, four nodes are a box in a box with siblings; `SizeMax = 420` holds the payload of four nodes, so that five wrap; an input of 9 against a
first buffer of 4 makes it double and fill up exactly.

*Fairness.* `Terminates` assumes `WF_vars(Next)`: the parser's loop is a plain `for (;;)` in the
caller's thread, which runs whenever the thread does. No fairness is assumed among the alternatives;
the choice of the source stays arbitrary.
`CallsReturn` assumes `WF_vars(Continue(t))`, a thread inside a call keeps running, and nothing stronger. A
spurious failure of the weak compare and swap reads what it had and changes no variable, a stutter, so this
fairness also says that only finitely many of them come in a row, which C11 leaves to the hardware. A swap lost to another
thread is not excluded: the loop of `memory.c:15-26` is lock-free at best. What ends it is that every lost swap finds the
countdown lower and only the test hook raises it; so the property has that as its hypothesis, `<>[][~HookSets]_vars`, the hook
sets the limit finitely often, and promises nothing while the hook keeps resetting it (without the hypothesis TLC finds
a thread that loses for ever). No fairness is assumed of callers or of the test hook.
`Terminates` of `Mlist` assumes `WF_vars(Step)`, which leaves out the failures: a pass goes on, nothing need fail for it to end. That of `Leaves` assumes
`WF_vars(Run)`, and that of `Clients` `WF_vars(Next)`: each is a loop, or a sequence of statements, in one thread. A stream gives
what it has in the end: a read that blocks for ever is not modelled.

## 5. The theorems

`ParserProofs` proves, for every set of kinds of sources, set of names, nesting
limit, number of columns and mode allowed by `SourceAssumption` and `BoundAssumption` (both
only say what kind of value each constant is):

* `TypeCorrect`: `Spec => []TypeOK`. Beside the types, every link of a frame's list points into the arena.
* `Discipline`: `Spec => []StackDiscipline`. A frame popped was pushed by the frame below it for
  what it is: an index by a radical that has none yet, a `\text` group by its switch, a script by a
  frame that waits for nothing.
* `Depth`: `Spec => []DepthBound`; with `Discipline`, `Frames`: `Spec => []FramesInOrder`.

None of these is inductive alone. That a push meets the bound needs the stack to have frames; that a
closing token may write into its parent (`parent.collect.node`, say) with types intact needs the
parent to be collecting, which is the discipline; and the discipline needs that a frame never waits
for a delimiter, collects and owes a script all at once (`Steady`), and that the text frames do none
of it. `IInv` is the conjunction: types of `text`, `pos` and `result`, and `Good(stack, items, nodes)`,
which is `Typed`, `Disciplined` and the bound on any stack and arenas. `Good` is about values and not
variables, because delivery acts on a stack that the handler has already popped: the lemmas on
`SetTop`, `Append` and `Below` (`TopReplaced`, `PushDisciplined`, `BelowDisciplined`, ...) then serve all
handlers, `DeliverGood` covers the four ways a construct lands, and one lemma per action combines
them; `NextKept` puts the actions together and `Invariance` concludes by temporal reasoning.

What is in the arenas, and the verdict, take a second invariant on top of the first:

* `Destinations`: `Spec => []DestinationOpen`, and `WritesOnce`: `Spec => WrittenOnce`. A saved pointer always leads to an empty
  place, so that no handler ever overwrites what another wrote.
* `DocumentContent`: `Spec => []DocumentRules`, `Stretch`: `Spec => []StretchPierces`.
* `Verdicts`: `Spec => []VerdictJustified`. What is accepted is complete, and an error names a token of the source.
* `NestingImplemented`: `Spec => NestingRefined`. The parser implements `Nesting`.

`Standing` is the conjunction of `IInv` with four parts (`StandingKept`: `Spec => []Standing`). `Sound` says of each frame that the places it will write
are open (`Aimed`), that its construct is begun and not yet ended, that what its saved positions say lies in the source read, that its list rises, and of each two
frames that the lower one's items and construct are older. The order is what makes `Aimed` inductive: an item in reach of a frame is in no other list,
so that the top frame cannot fill it. `Complete` says that a construct without its arguments, or an atom with nothing in it, is in reach of some frame, which gives the first half of `Verdicts`
once the root is idle and alone. `Reading` bounds the lookahead and keeps the end of the source last; `Concluded` is what the verdict says. `DestinationOpen` follows from
`Standing` and the discipline, `WrittenOnce` because each action grows the arenas (`GrownItems`, `GrownNodes`: an old item changes only where it was open).

A handler runs after its token is consumed, so that one lemma per handler starts from `Poised`, the invariant with the new position, and ends in `Moves`: `Onward`, which
restores `Sound` and `Complete`, and one of six turns, which are the refinement step by step: the frames above the root stay (`Stays`), one opened by this token is added (`Enters`), the
top one is closed by it (`Leaves`), or the parse ends for want of memory (`Starves`), with an error (`Refuses`) or with a list (`Accepts`). `NestingImplemented` reads each
as an action of `Nesting`.

`ParserTreeProofs` goes on from there:

* `SingleOwner`: `Spec => []OneOwner`. Every item allocated is in exactly one list, once: nothing parsed is dropped, and no two lists share a tail.

Its invariant is `Standing` and `Owned`. A place is where a list may be: a frame, a cell of a frame's open or closed rows, a field of an item, an argument of a construct, its fence,
a cell of its array; `Shelf` gives each place its list, and `Shelved` says that every item is in one list at one place, once. As handlers move a list by copying it and ending the life of
the copy it came from, `Shelf` has one place more, `Loose`, for the list in the handler's hand: popping a frame puts its list there, a delivery takes it from there, and between steps it is empty
(`OwnedNow`). A handler is then a few edits of the shelf, each of them a rearrangement of places (`MovedShelved`, `SwappedShelved`) or one item more, and the rest is to show which places an assignment
to a frame, an item or a construct changes. Two facts ride along: an empty field has no list, so that filling it loses none (that it is empty is `Aimed`), and only an environment has cells.

* `RangesKept`: `Spec => []RangesFaithful`. Ranges nest as the tree does, and an accepted source is covered.
* `ConstructsKept`: `Spec => []ConstructsFaithful`, and `SubFirstKept`: `Spec => []SubFirstFaithful`, of which
  `RecordedAsWritten` is one half.

Their invariant is `Placed`: `Standing`, `OwnedNow` and `RangesNow`. `Ranged` gives each frame a place in the source, `b` for the top one and where the next
one opens for the others, and says that its items, its arguments and the rows of its environment are in order up to what it has `Settled`: the
begin of the script or the construct in progress, the delimiter it waits for, or `b`. An item or construct fits (`ItemFits`, `NodeFits`) if its fields lie in it, apart and in order,
and a field fits if its list and its construct lie in it. What an item covers, or a frame holds, changes only through the last item of the top frame's list (`AllAgree`,
`AmendRanged`), and here the ownership is needed: because no other list holds that item (`Keeps`, from `Owned`), no other range can be overtaken when it is extended. Whatever a frame
has still to deliver begins after what it has settled, so that a handler is again a few steps, each of which extends the settled part: an item linked (`LinkRanged`), the last one amended, an argument stored (`FirstRanged`, `LastStored`),
a frame turned, pushed or popped. `Covering` is the part of the invariant for the root, whose settled part skips nothing but blanks; with the end of the source settled it is `NothingSkipped`.
`TextStays` lets all of it be said of a source that is still being read. The values and arenas come first in `ParserProofs`, as do the lemmas on one frame or one field; what needs ownership, and the handlers, are in `ParserTreeProofs`.

`MemoryProofs` proves, for any finite sets of threads and blocks and any bound on the limits
(`AllocationAssumption`):

* `Holders`: `Spec => []OneHolder`. A block of the heap belongs to one caller or to one call.
* `LiveExact`: `Spec => []Outstanding`. The counter is the number of blocks in the heap less the
  threads between a block and its count. With the types and `Holders`, `Accounted`: `Spec => []BlocksAccounted`.
* `SeamImplemented`: `Spec => BudgetSpentOnce`. The loop implements `Seam`.

The inductive invariant adds to `TypeOK`, `OneHolder` and `Outstanding` only `InHand`: a thread at rest has no block,
and one that counts or frees has one. `OneHolder` carries the others: that a move or a release changes the size
of the heap by what the counter assumes needs the block to be in the heap, and nobody else's. Three
lemmas serve all actions: `QuietKeeps` for steps that leave heap and counter alone, `ReturnKeeps`
for those that give a block back, `BetweenSet` for the cardinality of the threads in between. For the
refinement, `PhaseSet` turns an update of one call into a move of one caller; the compare and swap is
a grant because `TypeOK` keeps `current` positive between the load and the swap.

It also proves, for any width of `size_t`, alignment, header, capacities and sizes (`ArenaAssumption`):

* `Held`: `Spec => []BlocksHeld`. Blocks are aligned and inside the bytes asked for, whatever wraps.
* `Disjoint`: `Spec => []BlocksApart`. Together with the types, `Sound`: `Spec => []BlocksSound`.

The invariant says that the bytes asked for are header and capacity without a wrap, that used sizes and offsets are aligned,
and that a block ends before the `used` of its chunk. The two facts that carry it are that a rounding
which is not less than the size did not wrap, and that the test on the capacity excludes the wrap of the sum.

`FacadeProofs` proves, for any sets of threads and blocks and any bound on chunks (`FacadeAssumption`: NULL is no address):

* `NoLeak`, `SoleOwner`, `SafeReaders`, `OutParametersHold`: the four properties of `FacadeProps` in every state; `AllOwned`: `Spec => []Owned`.

The invariant is `TypeOK`, `NothingLeaked` and `OneOwner` together with `Carries` (a thread that is between
calls has no chunks in hand, and a tree is discarded without scratch), `Reading` (who dumps a tree dumps one that a
caller has) and `Reporting` (what `call[t]` knows and `out[t]` says agree at each stage). None of the first three can be had
alone: that a free leaves no block behind needs that it was nobody else's, and the return to idle needs `Carries`. `Kept` states
the leak property block by block; every step is then one of a few exchanges, with a lemma each: a call gets a block (`Got`), gives one
back (`Gave`), goes on with what it has (`Went`), hands its blocks to a new tree (`HandOver`), takes those of an old one (`TakeBack`),
or the dumps change (`DumpsKept`). `Step` puts the parts together for all actions.

`MlistProofs` proves, for every set of lists and styles (`ListAssumption`):

* `MlistTyped`, `CapacityExact`, `NucleusTaken`, and `ArrayIsFilled`, which is the three together: `Spec => []ArrayFilled`.
* `PairsPossible`: `Spec => []NoImpossiblePair`.
* `OnlyBinsDemoted`: `Spec => DemotedOnce`, the part of `PromiseKept` that is proved.

The invariant adds to the types that `previous` is the last atom before `at` (`IsLast`), that classes are settled up to `at` or, after the
first pass, everywhere (`Settled`), that `tally` records what each item cost (`Tallied`), and that in the third pass `children` holds exactly
the tally of the items passed, with a part of the present item's (`Built`). Exact capacity follows at the end of the list, and the bound because the
tally grows. The two passes compute the same costs because they read the same classes and the same `previous`; that is `Costed`.

`BoxesProofs` proves, for every set of tables, glyphs, environments, alignments and any depth (`BoxesAssumption`, `ShapesAssumption`, `TablesAscend`):

* `TypeCorrect`: `Spec => []TypeOK`, `WholeBoxes`: `Spec => []BoxWhole`, `SourceOrdered`: `Spec => []SourceOrder`.
* `FractionsClear`, `ClearancesKept`, `DelimitersFitted`, `GridsAligned`: `Spec => []FractionClear`, `[]Clearances`, `[]DelimitersFit`, `[]GridAligned`.

All from one invariant (`Inductive`: `Spec => []IInv`), which says that the box is `Kept`: it is `Whole` (formed of integers, its ink inside, its children in order), its slots
are filled, it holds its advance unless something was nudged aside, each ladder that was asked has its answer among the children (`Answered`), and the construct's own arithmetic
holds (`PartsKept`). A step only needs `Whole` of the box it goes around, since a construct sees extents and not children; the rest is what the step establishes. So each construct has a lemma that
builds it from arguments that have extents (`FractionKept`, `RadicalSteps`, `ArrayKept`, ...), a lemma per action that finds the arguments, and a lemma per property that reads it
off the invariant for the children of each role. `TablesAscend` is used where the code searches: that the first rung tall enough is the one before which none is needs
the rungs to ascend.

The extents of rows, columns, stacks of pieces and lists are running sums of any length. They are recursive functions, whose values are shown by induction: `SetInduction` is
induction over the naturals on a set instead of a predicate, from the library's `WFMin`; `Runs` describes such a function by its steps, and `LargestOf` the maximum of a finite
set.

`LeavesProofs` proves, for any strict total order of keys and any sorted tables (`SearchAssumption`), any sources of bytes (`SourcesAssumption`) and
any fractions below one (`DecimalAssumption`):

* `BracketKept`: `Spec => []Bracket`, `LookupCorrect`: `Spec => []FoundIfPresent`, and with both `SearchesRight`: `Spec => []SearchRight`.

`Bracket` becomes inductive with `low <= high` and, for the search that stops at a match, with the fact that no entry left behind above is the key; that the end of the search
finds what is there needs the order to be total, that no other is found needs the table to be sorted.

* `DecodingExact`: `Spec => []DecodedExactly`, and `ScanningFaithful`: `Spec => []TokensFaithful`. The types include that of the printer, whose digits are digits
  because the fraction left is less than one and more than `delta`.

`LeafInv` is the types of the printer and the bisection, and `Scanned`, a statement about a source, a position, a list of tokens and an error, in which no variable occurs: each
token is good by itself (`TokenGood`), each two neighbours follow one another with nothing between but swallowed blanks (`Follows`, `Gap`), and an error is right
about the place it names. A scan reads ahead, by `BlankRun` and `WordEnd`, so that each action first needs what these return. `BlankRunRan` says so of the first: a recursive function over positions, from the
end of the source down, shown to exist and to be right by `SetInduction` on the set of positions. The decoder (`NextDecodes`) is taken form by form: `TwoBytes`, `ThreeBytes` and `FourBytes` each relate
the bounds of `utf8.c` on lead and continuation bytes, with its tests for overlong forms, surrogates and the end of Unicode, to a line of the table, and the value it shifts together to the bytes `Encoded` takes it apart into.

`ClientsProofs` proves, for every set of trees and errors, every size, input and list of arguments:

* `NoLeaks` and `NothingDangles`, together `BlocksAreKept`: `Spec => []BlocksKept`, and `InputIsWhole`: `Spec => []InputWhole`.
* `AnswersAreFaithful`: `Spec => []AnswerFaithful`.
* `ArgumentsAreHeeded`: `Spec => []ArgumentsHeeded`, and with the exit status `CommandTold`: `Spec => []CommandTruthful`.

Which blocks are held is a function of the place in the call, up to those that an empty source or standard input does without (`Held`);
`Asked` says that there is no answer before the compile and one after it; `Loop` that what was read and what is left make up the
input, and that only a stream that is not broken gets past the loop. `Commanded` is the invariant of the command line: `Parsed` says that
`mode` and `path` are what the arguments before `index` say and that nothing was seen among them that ends the parsing; `Exited`
which result and exit status each way to the end leaves.

The answer's invariant is `Faithful`: `Answering` says what is known of the answer at each place in the call; `Carrying` what the payload is, while it is written, when it is whole and while it
is decoded; `Measuring` and `Counting` type the positions. A payload is described by the walk of the tree: the list of nodes still to write after each number of nodes. At every place of a node
already written stands its field; the sizes of the subtrees still to write and the nodes written make up `txc1_count`; and the decoder's stack of frames is the path from the root to where the walk is,
each frame with the children it has already (`Stacked`). That the encoder's and a decoder's lists of fields give the same offsets, that no field is written over (`Behind` joins them), and that the
size of the block does not wrap, is by arithmetic (`WireAssumption`: a message fits the array of `tex_core.h:91` that holds it). The count is a recursive function over the nodes from the last to
the first, since children have larger numbers than their parents (`EngineAssumption`); nothing needs a node to have only one parent.

Only model-checked: of the parser, the half of `RecordedAsWritten` that is about faces (`LexicalFaces`); the dump. `PrintedShortest` is checked
for all 65536 fractions with the `One` of the code, which are all the cases there are. Out of this prover's reach are all liveness (`CallsReturn`, and `Terminates` of the parser, `Mlist`, `Leaves` and `Clients`), and of `PromiseKept` the refinement of
`Typesetting`, whose reference is a fold with an operator for parameter. `RECURSIVE` is used nowhere.

## 6. A disagreement between code and documents

`ParserText` shows that `\text\sin` publishes an Op atom as text content. `txc_deliver` turns any list
delivered to `\text` into text (`parse.c:1567`); an operator given as a bare argument is delivered as a
list of one Op atom (`parse.c:2605`). `parse.h:105` calls the field "document-rule content", and
`docs/specs/render-tree.md:323-326` lists what it may hold, "published as the group's box with no atom
classes inside". Braced text is unaffected: `DocumentRules` holds.

Two remarks that no run makes a claim of. `token.c:28` says that CRLF sources scan like LF ones; a backslash
directly before a line end is the one place where they differ, a control symbol of CR and a blank against one
of LF. `docs/specs/render-tree.md:31-34` describes the ranges of children as ordered; the space between two atoms gets the gap between
their ranges (`layout.c:1755-1771`) and stands after an explicit space that lies in that gap.

## 7. Not modelled

* `metrics.inc`, generated data: the run of `Boxes` takes a sample of it, `Search` any table.
* An alignment without rows, as `\begin{matrix}\end{matrix}` gives: in `Boxes` alignments have one; the parser's models accept it.
* Widths of 64 bits in measures, and the narrowing of the payload's length to a `jsize` in the JNI adapter (it
  takes more than 23 million nodes).
* The start of the WASM runtime, and the cinterop adapter of the native Kotlin targets, which differs from the JNI one only in how it hands bytes over.
* The throw of the JavaScript binding for a mode that is none of the three (`options.ts:19-22`), and the decoders' checks of code points and of
  integers beyond 2^53: no node of the core gives them cause.
* Of the facade, calls with a NULL handle or error.
* The wording of messages, what the command line prints beside the dump, the text format of the dumps in C and in the bindings: pure formatting
  over trees that the models carry.
* Build and release scripts, tests, fuzzers and fixtures.
