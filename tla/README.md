# Formal models of arity-arrays

A TLA+ development beside the Rust workspace `arity-arrays`: models of its four
libraries, TLC runs that check them on small instances, and TLAPS proofs that
hold for every arity and element type. Every definition is translated from the
code; source paths below are relative to `src/crates/`. `PROJECT.json` maps each
definition to the lines it stands for.

## 1. Inventory

The workspace is four `no_std` libraries, one above the other. All of them are
sequential: a mutating call takes `&mut self`, or `&mut` on the root of a trie,
for as long as it runs. What is hard is therefore not threads but long sequences
of legal calls, `unsafe` memory discipline, user code (destructors, `clone`)
that panics halfway, and a store that fails halfway.

| Component | State | Operations | Used by | What makes it correct |
|---|---|---|---|---|
| bitmaps (`arity-bitmap`: `native.rs`, `u256.rs`) | one word | `test`, `with_bit`, `without_bit`, `rank`, `select`, lowest and highest bit, nearest clear bit | both array forms, hash walk, iteration | the word algorithms compute what their names say on the set of bits, at the word's ends too |
| `BitIter` (`arity-bitmap/src/iter.rs`) | the bits left | `next`, `next_back` | array iterators | each bit once, in order, from both ends |
| niche indices (`arity-index`: `niche.rs`) | none | checked, masked and slice conversions | everything | an index is below its arity |
| ranges (`arity-index/src/range.rs`) | two ends and a flag | `next`, `next_back`, `len` | all-slot iterators, `FixedArray` | each index between the bounds once, from both ends; no cursor that is read leaves the domain |
| `GappedArray` (`arity-arrays/src/gapped.rs`) | block capacity, occupancy and live bitmaps, slots | `insert` with three placement strategies, `remove`, `take_only_child`, `reserve`, `shrink_to_fit`, `clear`, conversions | tries (`Gapped` children) | both bitmaps have one popcount; a slot is initialised iff it is live; each index reads its own element; elements are neither lost nor duplicated; deletion never moves; respreading is a dead fallback |
| `PackedArray` (`packed.rs`, `raw.rs`) | one exact-size block or none | `insert`, `remove`, `take_only_child`, conversions | tries (`Packed` children), conversions | dense block of the exact size; at every point where an allocation may fail, each element has one owner |
| element and block lifetimes (`Drop`, `clear`, `IntoIter`, `Clone` of both) | owner, unwinding guards | drop, clear, consume from both ends, clone | callers | each destructor once, the block freed, no leak, panics included |
| borrowing iterators (`PresentIter`, `Iter`, ...) | index and slot cursors | `next`, `next_back`, `len` | callers, tries | the two cursors never drift apart |
| `FixedArray` (`fixed.rs`) | a full-width array | indexing, conversions, owning iterator, `map` | conversions, decoders, tries (`Fixed` children) | index and element stay paired; each element handed out once, also when iteration is abandoned or the closure panics |
| wire forms (`macros.rs`, `compact.rs`, `serde`) | the array under construction | serialise and deserialise, logical and compact; `Eq`, `Hash` | callers | a decoder accepts exactly the encodings |
| byte keys (`arity-tries`: `key.rs`) | none | `nibbles`, `unnibble`, checked slices | callers of tries | order and prefixes of keys survive |
| trie nodes and paths (`arity-tries`: `node.rs`, `path.rs`, `children.rs`) | partial path, value, children | split, join, merge | everything in tries | no valueless node with fewer than two children |
| edge store (`store.rs`) | each edge inline or sealed with a hash | `read`, `materialize` (may fail), `inline`, `seal` | mutations, hash walk | sealed nodes are never edited in place |
| in-memory store (`memory.rs`, `drop_subtree` in `node.rs`) | owned edges | the same, never failing; `Drop` | callers, tests | a subtree of any depth drops on a flat stack, each value once |
| mutations (`ops.rs`, `frames.rs`) | the trie, a stack of frames | `insert`, `remove`, `remove_prefix`, `materialize_subtree` | callers | a map from keys to values; all-or-nothing under store failures; structural invariant kept |
| hash walk (`hash.rs`) | frames, a shared path buffer, cached hashes | `hash`, `hash_sealed_node` | callers | the root hash is a function of keys and values alone; cached hashes stay valid |
| lookup and handle chain (`ops.rs` `get`, `chain.rs`) | a stack of read handles | `get`, `get_node` | callers, iteration | handles are released deepest first, also while unwinding |
| iteration (`iter.rs`) | frames, path buffer, start key | `iter`, `visit` | callers | every key at or after the start, once, ascending |
| validation (`validate.rs`) | none | `validate` | tests | reports exactly the violations of the structural invariant |

Interactions. The arrays are built on bitmaps: the element of index `i` sits at
rank `rank(occupancy, i)`, and in a gapped block at the live slot of that rank.
A trie node holds its edges in one of the arrays; mutations and the hash walk
reach a child only through the store's `materialize`, `as_inline`, `read` and
`seal`. Reads share one chain of handles: lookup, iteration, `visit` and
`validate` push what they read and pop it when they leave the node, and both the
handles' destructors and the visitor are user code. Mutations leave every node on their path inline; the hash walk seals
inline edges bottom-up and trusts the sealed ones it meets. So the state of an
edge is the memory one call leaves for the next, and most trie properties
relate that memory to the contents.

The full hazard list, each at its line, is in `PROJECT.json`.

## 2. Modules

| Module | Models | Built on |
|---|---|---|
| `Bitmaps` | bitmap operations as operators on sets of positions | - |
| `BitmapWords` | the word arithmetic of `native.rs` and `u256.rs`, checked against `Bitmaps` | `Bitmaps`, `Bitwise` |
| `SparseMap` | abstract: an owned map from indices to elements | - |
| `GappedArray` | `gapped.rs`: block, bitmaps, every state-changing operation | `Bitmaps`; implements `SparseMap` |
| `PackedArray` | `packed.rs`: allocate, copy, free, publish, with failing allocations | `Bitmaps`; implements `SparseMap` |
| `BlockLifecycle` | drop, clear, `IntoIter` and clone of both forms under panics | `Bitmaps` |
| `NicheIndices`, `NicheRanges` | index conversions; the half-open and the inclusive range | `Bitmaps` |
| `RangeDraws` | both ranges between any bounds, drawn from both ends | `NicheRanges` |
| `ArrayIterators` | the borrowing iterators of the three arrays, `BitIter` inside them | `NicheRanges` |
| `FixedArray` | `FixedArray<Option<T>>` with its consuming operations | `NicheRanges`; implements `SparseMap` |
| `WireForms` | both serialised forms and their decoders | `NicheIndices` |
| `IndexMachines` | `RangeDraws`, `ArrayIterators`, `FixedArray` and `WireForms` side by side, each with its own variables | the four |
| `ByteKeys` | byte keys as paths | `NicheIndices`, `Bitwise` |
| `BitmapTheorems` | lemmas on `Rank`, `Select` and hole searches | `Bitmaps`, TLAPS |
| `GappedArrayProofs` | the theorems about `GappedArray`, refinement included | both above |
| `PackedArrayProofs` | the theorems about `PackedArray`, refinement included | `PackedArray`, `BitmapTheorems` |
| `ElementProofs` | the theorems about `BlockLifecycle` and the machines of `IndexMachines` | both, `BitmapTheorems` |
| `KeyMap` | abstract: calls on a map of keys that take effect whole or fail | - |
| `TrieNodes` | nodes, edges, split, merge, recover, lookup, as operators on a trie | - |
| `TrieOps` | the mutations of `ops.rs`, one loop turn per step | `TrieNodes` |
| `TrieHash` | the hash walk of `hash.rs`, one loop turn per step | `TrieOps` |
| `Trie` | calls one after another on one trie; all properties of mutation and hashing | `TrieHash`; implements `KeyMap` |
| `TrieTheorems` | lemmas on paths, on trees of slots, on each edit of a tree and on the keys it holds | `TrieNodes`, TLAPS |
| `TrieProofs` | the inductive invariant of calls: only inline nodes are edited, the trie implements the key map and stays settled, sealed regions are closed downwards, hashes are valid and canonical, when hashing cannot fail | `Trie`, `TrieTheorems` |
| `ChainStack` | the chain of read handles and its destructor | - |
| `TrieWalk` | `get_node`, and the walk of `iter`, `visit` and `validate` | `TrieNodes`, `ChainStack` |
| `TrieWalkProofs` | that no frame or handle of a read dangles, and that reads list in order and answer exactly | `TrieWalk`, `TrieTheorems` |
| `SubtreeDrop` | `Drop` of an in-memory edge and `drop_subtree` | `Bitmaps` |
| `SubtreeDropProofs` | that dropping is flat and drops each value once | `SubtreeDrop`, `BitmapTheorems` |

`MC*.tla` and `MC*.cfg` instantiate them for TLC; a behaviour of `MCIndexMachines` runs
one of the four machines and leaves the others at rest. A definition whose name ends
in `_Something` right before the definition it is named after is a mutant: the
body a plausible bug would give it. Nothing refers to mutants; they document
which bug each property would catch.

### How state and actions correspond to the code

**GappedArray.** `cap`, `occ`, `live` are the header (`cap = 0` is `None`),
`slots` the element memory with `Uninit` for uninitialised slots, `outside` the
elements the caller owns. Elements have identity, so a bitwise copy that leaves
two owners would show. Each action is a whole call: `Insert` has one
disjunct per arm (first block, overwrite, full block doubles, room), and
`PlaceAbsent` chooses hole, shift left, shift right or respread by the code's
costs. Positions read outside the block are `Uninit`.
`FromIterator` and `Extend` are loops of `insert` and add no state of
their own; the conversions are `ThroughFixed`.

**PackedArray.** A call that changes membership is several steps: it takes the
value, allocates (or unwinds), copies around the rank, frees and
publishes. `pc` is where it stands, `held` what it would drop when unwinding.

**BlockLifecycle.** The walk over live slots is a stack of frames; a destructor
that panics turns its frame into an unwinding one and pushes the guard that
drops the rest, as `Rest` or slice drop glue does. A panic that leaves cleanup
code aborts. A call made while something else unwinds starts as cleanup.

**BitmapWords.** Words are integers modulo `2^W`; a shift by `W` or more wraps
its amount, as a release build does, so a mask that fails to saturate is wrong
in the model as well. `count_ones`, `trailing_zeros` and `ilog2` are external.

**Ranges and iterators.** `lo`, `hi`, `done` are the cursors of a range. A cursor
that is turned into an index with `unwrap_unchecked` goes through `TryFromUsize`
in the model, so one past the domain would show as no index. The nine iterators
differ in the two cursors they pair (bits, ranks, live bits, slices, ranges);
`fronts` and `backs` collect what came out, and `folding` is set once `fold` or
`rfold` has taken the iterator over: from then on one end is drawn until nothing
is left.

**FixedArray.** `slots` is the array; while it is consumed, `lo`/`hi` is the index
range and `elems` the element iterator of `hybrid-array` (external). `DrainDrop`
abandons an owning iterator, `MapPanics` is a panic out of the closure.

**WireForms.** `wire` is the input, any sequence of pairs or any bytes with any
values, not only what a serialiser writes. A logical input is read one pair per
step; a compact one in one step, as its parts arrive whole. Serde is external.

**Tries.** `slot` maps each place that holds a node (the root, or an edge) to
the node's partial path, value and cached hash. A place is named by the path
that leads to it, the `leading_path` of the hash walk. That makes sharing a
slot, orphaning a subtree or moving a node under a longer path visible as
arithmetic on paths. `req` is the call, `pc` its loop, `frames` the stack of
`Frames` of a mutation, `walk` that of a subtree or hash walk. `Materialized`
turns an edge inline; each place where the code has `?` on a store call has a
disjunct that returns `Err` with the edge unchanged. A hash is the record of
everything the hasher was given, i.e. a hasher without collisions, so equality
of hashes is equality of inputs. `update_value` writes the children's hashes
into the stored value (`splice`); `sibling_sensitive` holds at the paths in
`Sensitive`; the lone form of a hash differs from the other there and only there.

**Reads.** `TrieWalk` has the walk's own fields (`state`, `start`, `frames`, `buf`)
and one turn of `advance`, `seek` or `step` per step. `handles` is the chain: the
slots of the nodes whose handles live. A slot is the full path of its
parent and one index, so it names the node its handle borrows from. `out` collects what
the caller gets. Every `read` may fail; every handle destructor may panic; a
visitor may go on, break or panic. `pc = "idle"` is an iterator between two
calls to `next`, which may be called again after a caught panic, and dropped at
any time, also while something else unwinds. `release` is how far the chain's
destructor is: its loop, or the guard that finishes after a panic.

**SubtreeDrop.** A frame of `stack` is a running drop: the loop of `drop_subtree`
over its worklist, or drop glue over edges that are left. `panicking` marks a
frame that unwinds, `cleanup` one that runs on behalf of an unwinding.

## 3. Runs

| Run | Instance | Question it answers |
|---|---|---|
| `gapped_layouts` | arity 8, one element per index | which layouts are reachable, and in all of them: bitmaps agree, slots are initialised iff live, respreading never wins, removal never moves, inserts move the fewest elements possible, capacity follows its rules |
| `gapped_elements` | arity 8, four interchangeable elements | no element is lost, duplicated or found under another index; the array implements `SparseMap` |
| `packed` | arity 4, four elements, any allocation may fail | the block is dense, elements have one owner wherever an unwind may start, a failed call changes nothing; implements `SparseMap` |
| `block_lifecycle` | both arrays, blocks of 4, all live sets, any destructor or clone may panic (7 689 states) | each slot is answered for once at every step, each element dropped once, a dropped block is freed |
| `bitmap_words` | all 256 bytes, all positions | the word algorithms equal their definition on sets |
| `index_machines` | arity 4, all bounds, layouts and nine iterators, folds, up to 4 pairs on the wire (47 176 states) | ranges yield each index once; iterators give pairs in order with their own slot, and `len` is exact; decoders accept exactly the encodings; the fixed array implements `SparseMap` |
| `byte_keys` | half bytes of 2 bits, two keys of up to 2 bytes (74 529 states) | keys keep order and prefixes as paths |
| `trie_mutations` | 3 indices, 6 keys that nest and branch three ways, an insensitive hasher | the trie implements `KeyMap` although any sealed edge may fail to materialize; the structural invariant holds at every step; sealed nodes are never edited; hashing cannot fail |
| `trie_hashing` | 2 indices, 5 keys three levels deep, two nested sensitive nodes | root hashes are canonical, cached hashes valid, sealed regions closed downwards; every call returns |
| `trie_hand_built` | tries built through `children_mut`, two values | the same promises for valueless chains and a sealed edge above an inline one |
| `trie_walk` | 3 indices, 6 tries, 14 start keys (9 049 states) | what iteration, `visit`, `validate` and `get` give, that no frame or handle outlives what it borrows from, that every call ends with its handles released |
| `subtree_drop` | every tree of 6 nodes (6 692 states) | dropping is flat and drops each value once, panics included |

Bounds, and why they are enough:

- Arity 8 is the smallest `GappedArray` arity the crate has. It gives capacities
  1, 2, 4, 8, blocks with several holes on both sides, and every strategy. In
  `gapped_layouts` index `i` only receives element `i`, so states are layouts;
  in `gapped_elements` four elements can go anywhere, so capacity 8 is reached by
  `reserve`, with holes. `Requests` is `0..9`, past the arity.
- Four slots let a destructor panic in the first, a middle and the last slot,
  twice in a row, and let both ends of an iterator meet anywhere.
- Width 8 has the same halving search, saturating masks and shift limits as the
  wider words; the algorithms differ only in the width constant. `RankBelow256`
  is the one variant of `U256`.
- The trie keys contain a key that is a prefix of another, a fork inside a
  partial path, a parent with three children (the only case in which a valueless
  parent survives a detach), a value on an inner node, and in
  `trie_hashing` a sensitive node under a sensitive node. Prefixes that are
  removed end at a node, inside a partial path, and at the root.

- The walked tries have values on inner nodes, a fork inside a partial path, a
  three-way branch, a chain four nodes deep and hand-built violations of both
  kinds in both orders. The start keys fall before the root, at a node, inside a
  partial path, between two siblings, below a leaf and past the end.
- Two bytes and two key positions give every way two keys can differ: in a high
  half, in a low half, in length, not at all. `MaxPairs` is the arity: one more
  pair than indices cannot be ascending, and repeats show with two.
- Six nodes give chains twice as deep as the bound of three nested drops that
  `DropsFlat` states, and every mix of depth and width below.

`MaxLen` and `MaxPairs` bound the inputs of `byte_keys` and `index_machines`. No run caps a counter:
all state spaces are finite as they are.

Deadlock is checked wherever the system runs on for ever. It is off for the
lifecycle run and `subtree_drop` (what is gone, or a process that aborted, does
nothing more), for `index_machines` (an exhausted iterator yields nothing more, a read
input is read), for `byte_keys` (the keys are as long as they get) and for `trie_walk` (a call that ended
and released its handles is over).

Fairness. `BlockLifecycle` assumes `WF(Run)`: once a drop, clear or clone has
started, each destructor or `clone` it calls returns or panics; nothing is
assumed about whether callers start anything. `Trie` assumes `WF(Step)`: the
store answers or fails. `TrieWalk` assumes `WF(Run)`, the same for reads, handle destructors and the
visitor; its callers need neither ask for a next item nor drop what they hold.
All are what a sequential program that is scheduled at all does, given that user
code terminates. With them, `DropFreesBlock` says
that a started drop frees the block unless the process aborts, and
`CallsReturn` that the frame loops terminate, and `ReadsEnd` that a read call
returns and a dropped walk releases every handle unless the process aborts.

`RefinesMap` in `GappedArray` and `PackedArray` maps the abstract map to what
`get` reads through the bitmaps, in `Trie` to what `get` returns for each key.
In `PackedArray` the abstract step is `Publish` (or the failure). In `Trie` it
is the end of a call; the keys and values visible through `get` may not change
at any earlier step, which is the all-or-nothing contract of `ops.rs`.
In `FixedArray` an index is in the abstract map as long as the range has it ahead,
so each draw from a consuming iterator is a removal.
`WalkInOrder` gives `iter` and `visit` their specification outright: each item is
a key at or after the start with its value, the keys before it in path order are
exactly those given earlier, and at a normal end none is missing.
`SealedHashValid` states the hash-validity contract of `node.rs` with the
exception the walk recovers from: the only sealed child of an inline sensitive
node may carry the other of its two forms.

## 4. Proofs

The theorems hold for every value of the constants that the `ASSUME`s of the
models allow, and TLC evaluates those on every run:

- arrays: an arity that is a power of two up to 256 (`ArityAssumption` and its
  neighbours), any element set, any choice of what callers insert and reserve;
- lifetimes (`BlockLifecycle`): any capacity and any set of live slots;
- `IndexMachines`: any arity, any elements and values but the mark of an empty slot
  (`AbsentAssumption`: in the code `Some` and `None`), bitmaps of whole bytes
  (`BytesAssumption`) of any width, pair inputs of any length (`PairsAssumption`);
- tries: `IndexAssumption` (finitely many ordered indices), `KeysAssumption` (keys and
  prefixes are paths), `StartsAssumption` (a caller's trie is what owning its
  children makes it: a tree of slots, its root behind no edge, settled or not, whose
  keys and values are callers'), `DataAssumption` and `RequestsAssumption` (no value
  and no call is `None`), `ResultsAssumption` (an error is told apart from an answer);
- reads (`TrieWalk`): `CallsAssumption` (the trie is a tree of slots, as owning its
  children makes it, settled or not; keys are paths) and its own `ResultsAssumption`
  (how a read ended is told apart from what it says of a node);
- `SubtreeDrop`: any number of nodes (`SizeAssumption`) in a tree of any shape.

| Module | Theorem | States |
|---|---|---|
| `GappedArrayProofs` | `TypeCorrect` | `Spec => []TypeOK`: capacities are powers of two up to the arity, live bits lie inside the block |
| | `PopcountsAgree` | `Spec => []EqualPopcount`, on which every `expect("present => rank < count")` in the code rests |
| | `LiveSlotsInitialised` | `Spec => []LiveIsInitialised`: what each `unsafe` read and drop assumes |
| | `RespreadUnreachable` | `Spec => []RespreadNeverWins`: the fallback arm of `place_absent` is dead, as its comment says |
| | `Conservation` | `Spec => []ElementsConserved`: no operation loses, duplicates or invents an element |
| | `Refinement` | `Spec => RefinesMap`: each operation is one step of the owned map `SparseMap` |
| | `DeletesStayPut` | `Spec => DeleteNeverMoves` |
| | `CapacityAsDocumented` | `Spec => CapacityDiscipline` |
| | `InsertsMoveFewest` | `Spec => InsertMovesFewest`: no other arrangement of the block would move fewer elements |
| `PackedArrayProofs` | `AlwaysDense` | `Spec => []DenseBlock` |
| | `Conservation` | `Spec => []OneOwner`: one owner per element wherever an unwind may start |
| | `Refinement` | `Spec => RefinesMap`: failing allocations included |
| `ElementProofs` | `SlotsAnswered` | `Spec => []EverySlotAnswered` |
| | `DropsOnce` | `Spec => []DroppedOnce` |
| | `RangesYieldEachOnce` | `R!Spec => []RangeExact`, of `RangeDraws` |
| | `FixedRefinement` | `F!Spec => RefinesMap`, of `FixedArray` |
| | `IteratorsPairRight` | `A!Spec => []PairsInOrder`, of `ArrayIterators`: nine iterators, every layout |
| | `DecodersCanonical` | `W!Spec => []WireIsCanonical`, of `WireForms`: every input, in either form |
| `TrieWalkProofs` | `NoUseAfterRelease` | `Spec => []NothingDangles`: nothing outlives the handle it borrows from |
| | `ListsInOrder` | `Spec => []WalkInOrder`: every key from the start on, once, ascending, with its value |
| | `AnswersExactly` | `Spec => []ReadsExact`: `validate` and `get_node` |
| `TrieProofs` | `OnlyInlineIsEdited` | `Spec => EditsOnlyInline` |
| | `Refinement` | `Spec => RefinesMap`, if `NoneIsNoValue`: each call is one step of the map `KeyMap`, or a failure that changes nothing |
| | `SealedRegions` | `Spec => []SealedClosed`, if `StartsClosed` and `NoneIsNoHash` |
| | `AlwaysSettled` | `Spec => []Settled`, if `StartsSettled`, `NoneIsNoValue` and callers have a key |
| | `HashIsTotal` | `Spec => HashNeverFails` |
| | `RootHashIsCanonical` | `Spec => []HashIsCanonical`, if `StartsHashed`, `StartsClosed`, `NoneIsNoHash` and `NoneIsNoValue` |
| | `CachedHashesValid` | `Spec => []SealedHashValid`, if the same |
| `SubtreeDropProofs` | `FlatDrop` | `Spec => []DropsFlat` |

`BitmapTheorems` and `TrieTheorems` hold the lemmas they share. TLC checked every
inductive invariant below on the configurations of section 3 before it was proved.

**GappedArray.** The first four theorems share
`IInv == TypeOK /\ EqualPopcount /\ LiveIsInitialised`. None of its parts is
inductive alone: where a new element goes depends on both bitmaps having one
popcount (otherwise `select` of a rank finds nothing), that a shift finds
initialised slots needs live slots to be initialised, and both need the
positions to lie in the block. The argument per operation:

- `SpreadPosIncreases` and `SpreadCardinality`: distinct ranks get distinct slots
  below the capacity, so a rebuild has as many live slots as elements.
- `NeighbourBounds`: the neighbours of an absent index are `-1` or a live slot
  and a live slot or `cap`, with every slot between them clear.
- `RoomMeansNoRespread`: with room in the block and no hole between the
  neighbours, the run between the nearest holes has at most `Count` elements, so
  one of the two shifts costs no more than a respread.
- `HolePlan`, `LeftPlan`, `RightPlan`: each placement adds exactly the hole to
  the live slots; a shift moves a run of live slots by one.

`RespreadNeverWins` follows from `IInv` alone and is not part of it.
`Conservation` needs more: `Owned` says that elements in live slots are pairwise
distinct, disjoint from `outside`, and together with it everything. It is
preserved because every operation relocates along a bijection of live slots:
`Relocation` and `RelocationWithInsert` turn "the r-th live slot goes to the
r-th live slot" into that, through the rank lemmas of `BitmapTheorems`
(`EqualRanksPair`, `SkippedRanksPair`, `EqualRanksCover`). The refinement uses the same
lemmas the other way round: the element `get` reads at an index is the one in
the live slot of its rank, and a relocation keeps ranks.

`InsertsMoveFewest` compares a placement with every arrangement of the block that has the new
element in it. When a hole lies between the new element's neighbours nothing moves.
Otherwise the neighbours' slots are adjacent, and of two runs, down to the next hole on
one side and up to it on the other, an arrangement moves one whole: elements keep their
order, so the one next to the new element moves on whichever side makes room, and an
element that moves takes the place of the next until the run is over (`RankSpan`:
between two elements that stay there is no room for one more). The code
shifts the shorter run.

**PackedArray.** The argument is about views, the map from indices to elements
that a block stands for: dense blocks have as many elements as their view has
indices, so `DenseBlock` and `OneOwner` follow from what holds of views. The
invariant `IInv` adds to density what each step between the call and its
publication has prepared (`Ready`, `Progress`): the new block, once filled, has
the view the call is to end with (`GapOpened`, `GapClosed`). The refinement maps a call
that publishes to one step of the map, and an allocation that fails to the
failure that changes nothing.

**BlockLifecycle.** `EverySlotAnswered` counts slots over a stack of drop loops.
Inductively only the innermost loop has slots left: a frame that panics
hands its rest to the guard above it (`Shape`), and the slots that remain are those of
`RestOf` the stack together with those the iterator's cursors still enclose
(`Cursor`, `Accounts`).

**Ranges, iterators, the fixed array.** Each of these theorems is about the behaviours of one
machine of `IndexMachines`, and states the property that the run checks of all.
`RangeInv`: the cursors stand as many places inside the bounds as either end has given
indices, and what was given and what remains make up the width. `IterInv`: whatever
cursors an iterator has, each has exactly the ranks `First .. Past - 1` left, so the two it
pairs name one element, and the range of an all-slot iterator stands at the indices
that are not yet out. The draws at the two ends are one argument, by `Between`, what is left of
a bitmap between two ranks. `FixedInv`: the index range and the element iterator stand
at the same indices, `map` has built only what lies behind them, and what is in view and what
the caller has are together everything. Each step then puts, gives or clears what is in
view, or leaves it alone.

**Wire forms.** `DecoderInv`: after `c` pairs the array holds those and nothing else, and
their indices rise; what is accepted is the whole input, what is rejected breaks the rule
at its next pair. The pairs of any array rise (`PairsRise`), and an array that holds just
some rising pairs encodes as them, since there is one way to map ranks onto indices in
order (`HeldIsEncoded`, by `OrderPairsRanks`). A byte is known by its binary digits and
there is one for each set of digits (`DigitsTellApart`, `DigitsAll`: as many bytes as sets,
by the cardinality of a power set), and to add an absent digit is to add its
power of two (`DigitAdded`), so the byte with the wanted digits solves the recursion of
the sum, in any order (`ByteSum`). Both round trips of the bytes follow (`BytesReadBack`,
`BytesWriteBack`).

**Reads.** A frame dangles when frames and handles lose step, so the invariant
counts: frames are the root's and one for each handle, in the same order, at
every point where user code may unwind (`InStep`), and each handle was read from
an edge of its predecessor's node (`Chained`).

What a read says rests on a second invariant. `Walk` is about `iter`, `visit` and `validate`: each
frame lies below a child smaller than those left to the frames before it (`Nested`), so all that is
still to do (`Todo`) comes after all that is done, in the order of paths; what was said and
what is to do make up what was asked for (`Covers`); and what was said is right however the
walk goes on (`Right`). A seek only leaves out subtrees that sort before the start
(`Sought`), and the shared buffer starts with the path of the node at hand
(`BufferHolds`). `Lookups` has a lookup stand on the way to its key. Neither asks for a settled trie:
`validate` is for the others.

**SubtreeDrop.** A drop has at most three frames (`Nesting`): the owner's drop; on it, once it has
no edge left, a worklist, or the guard of one that unwinds; on that a worklist that
runs as cleanup, out of which a panic aborts. What is under an edge is a recursive
function, shown to have one solution: the least set closed under children solves the
recursion, and two solutions that differ would differ at a least node. No edge on the stack is
under another (`Antichain`), so a step that drops a node and lists its children loses that
node and nothing else (`Counts`).

**Mutations.** `EditsOnlyInline` needs to know why the node a mutation edits is
inline. `TrieInv` says it for each loop: the slots are a tree (`Hung`); frames
lead from the root edge by edge, all inline (`Descent`), on the way to the key
(`OnKeysPath`); whatever a subtree walk has not made inline lies
below a child it has still to enter (`Collecting`), so that what leaves the trie
is inline to the last node (`Unwinds`). The hash walk seals nodes while it
stands in the trie: `HashWalk` has its frames and their pending children inline,
each frame below a child its predecessor has entered. `BufferHolds` says that the shared path
buffer, cut back to a frame's length, is the path of that frame's node, without
which the child that the walk rehashes would be another one. Tree edits are
lemmas of `TrieTheorems`, one for each of `LeafHangs`, `NodePushed`, `ChildMerged`
and `SubtreeDetached`, each saying that the result is a tree and which nodes,
children and paths it keeps.

**The key map.** What a caller sees of a trie is `Contents`, what `Lookup` finds for each
key. `Lookup` and `Recover` are recursive functions over the tree, chosen
(`CHOOSE`) as what solves their recursion; a function of every node's answer is
shown to solve it (`LookupSolves`, `RecoverSolves`), and any two solutions agree
because a node where they differ has a child where they differ, and some such node is longest
(`Longest`). That gives closed forms: `LookupFinds`, the value of the node whose full
path is the key, wherever it hangs; `RecoverFinds`, the value at the end of a `ThinWay`
of valueless only children. With the first, `Contents` is the map of
the keys and data in the nodes (`ContentsAreMap`), and each edit has a lemma that
says which keys it adds (`GrownPuts`, `PushedPuts`) or takes (`MergedLoses`, `CutLoses`).

The invariant adds `Held` to `IInv`. `Typed` and `Loops` say what a value is and which
calls reach which loop. `Leaves`: from the moment a removal starts to collect or
unwind, the subtree at the top frame holds exactly the keys the call is to remove; a
pop extends the subtree by a valueless node. `Recoverable`: the value
that `remove` is to return is at the end of a thin way from the top frame, so
`recover` finds it however far the unwinding went. Every step is then `Quiet`, or
begins or finishes a call (`Effect`), and `EffectIsStep` turns that into a step of the
map. That a search which stops found nothing is `KeyStopsHere` and `PrefixStopsHere`: a
node with the key would lie below the next child on its way.
`NoneIsNoValue` says that a node's value is never the mark of a node without one,
which in the code are `Some` and `None`.

**Sealing.** `Sealing` adds to `TrieInv` that no edge is inline below a sealed one,
seen from the child (`Closed`), that subtree walks stand on inline nodes
(`CollectsInline`), and that every child the hash walk has entered is sealed by
the time the walk leaves it (`SealedBehind`). The last is the reason the walk may
seal the parent. `SealedRegions` has two hypotheses. `StartsClosed` is about callers: a trie
built through `children_mut` may have an inline edge below a sealed one, and
`trie_hand_built` starts from such a trie; `trie_hashing` and `trie_mutations` start
from the empty trie, for which it holds trivially. `NoneIsNoHash` says that a hash is never the mark of an edge
that has none, which in the code are different variants of `Edge`.

**Settled tries.** `Settling` (a valueless node has two children or more, `Branching`, in a
trie of finite depth, `Shallow`) is inductive given `TrieInv`: an edit takes a child
only from a parent that keeps its value or two others (`CutBranches`), or merges the
parent (`MergedBranches`); an insert that pushes a node down gives what is above it
a value or a second child (`PushedBranches`, `GrownBranches`). `StartsSettled` asks the
same of the tries callers bring; one built through `children_mut` may have a valueless
node with one child, as `trie_hand_built` has. `TypeOK`, the rest of `Settled`, says
that slots lie on paths of keys. That is no induction step of its own: below every node
of a settled trie lies a value, at a longest slot (`LeadsToValue`), and only callers' keys
have one (`KeysHeld`, from `Effect`).

**Hashing without an error.** `HashIsTotal` rests on `Unanswered`: until a call returns
it has answered nothing, and without a sensitive node no step of the walk reads an edge.

**Hashes.** `HashInv` adds four parts to `TrieInv` and `Sealing`. `Hashed`: the hash of a
sealed node is the hasher's input for the node as it stands, taken from its children's
cached hashes, in one of its two forms; in the form for its place, unless it is the only
sealed child of an inline sensitive node. `Shallow`: the trie has finite depth.
`Counted`: a frame of the walk knows how many children and siblings its node has, and
the children the walk has taken as they were are in the right form. And no call has its
digest before it returns.

- `Hashed` speaks of a node and its children only, so each step keeps it by a local
  argument. A mutation is a `PlainEdit`: it seals nothing and leaves every sealed node,
  with its children, where it was. `UnsealingKeepsHashes` needs no more of an edit than
  that. The step of the walk that seals a node is `HashPutKeepsHashes`.
- `SealedHashValid` speaks of `Fresh`, a recursive function of the whole subtree. In a
  trie of finite depth its recursion has a solution, built level by level from the
  deepest nodes (`HashOneUp`, `FreshSolves`), so `Fresh` can be unfolded at any node. A
  sealed node whose cached hash is not the fresh one has a child of which the same is
  true, which is absurd at a longest slot (`SealedKidsFresh`, `HashesValid`).
- `HashIsCanonical` follows where a walk ends: the root's children are all sealed and in
  the right form, so the root's hash is the fresh one (`HashFinishHashes`).

`StartsHashed` asks of the tries callers bring that what is sealed in them was sealed by
a hash walk: no hash means anything otherwise. It holds of the empty trie, from which
`trie_hashing` and `trie_mutations` start. `trie_hand_built` starts from a trie that is
not closed; there `HashIsCanonical` is model-checked only.

**Only model-checked**, because it is out of the provers' reach:

- liveness under fairness (`DropFreesBlock`, `CallsReturn`, `ReadsEnd`), and `ExactSize`,
  which is about `ENABLED`;
- `UpdatesAgree`, `RankAgrees`, `SelectAgrees`, `HolesAgree` and `KeysKeepOrder`, in modules that use
  `Bitwise`, whose operators are recursive.

## 5. Not modelled

- Arity tables, size witnesses, `Send`/`Sync` and other auto-trait assertions: the
  compiler decides them, nothing happens at run time.
- Formatting (`Debug`, `Display`, error texts) and `Borrow`/`AsRef` adapters.
- Memory layout (`alloc_layout`, offsets): a block is a function from slots. That
  a layout overflow panics appears as a failing allocation of `PackedArray`.
- A store whose `read` panics rather than fails, and a value whose `clone` panics
  inside `Iter::next`: a caller that catches the first and asks again skips
  the child that was being read, the second loses the item that was being cloned.
  Neither touches the chain.
- The store's own bookkeeping: what an adopter does with a sealed edge once
  `materialize` has taken it is not in this repository.
- `hash_sealed_node` called by an adopter outside the hash walk: a function of a
  node that changes nothing.
- Tooling (`xtask`, benchmarks, fuzz targets, CI): no part of the libraries.

## 6. Plan

Done: every component of section 1, with the theorems of section 4.

Every property that a run checks is a theorem, but for those section 4 lists as out of the
provers' reach.
