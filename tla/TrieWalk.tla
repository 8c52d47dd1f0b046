------------------------------ MODULE TrieWalk ------------------------------
(***************************************************************************)
(* Reading a trie: the pre-order walk of arity-tries/src/iter.rs under     *)
(* `iter`, `visit` and `validate`, and the lookup of `get_node`.  The trie *)
(* is borrowed and does not change; every edge is read through the store,  *)
(* which may fail, and the nodes read live in the handles of a ChainStack. *)
(*                                                                         *)
(* A step is one turn of a loop, because each turn calls user code: the    *)
(* store's read, a handle's destructor, the visitor.  Destructors and the  *)
(* visitor may panic; the caller of an iterator may catch that and go on.  *)
(***************************************************************************)
EXTENDS TrieNodes, ChainStack

CONSTANTS
  End, Err, Break,  \* how a call that yields no node may end
  Calls             \* the calls made: [op, trie, key], key None for no start

Ops == {"iter", "visit", "validate", "get"}

(* Any trie can be read, not only a settled one: owning its children makes *)
(* it a tree of slots.  Keys are paths.                                    *)
ASSUME CallsAssumption ==
  \A c \in Calls :
    /\ c.op \in Ops /\ IsTrie(c.trie) /\ Apart(c.trie) /\ NoOrphans(c.trie)
    /\ c.key \in Seq(Index) \/ (c.op # "get" /\ c.key = None)

(* The ends of a call are told apart, and from what it says of a node.     *)
ASSUME ResultsAssumption ==
  /\ None \notin {End, Err, Break} /\ End \notin {Err, Break}
  /\ \A c \in Calls : \A s \in DOMAIN c.trie :
       LET v == c.trie[s].value
       IN  \A answer \in {None, v} \cup {u.data : u \in {v} \ {None}} :
             [path |-> Full(c.trie, s), value |-> answer] \notin {None, End, Err, Break}

VARIABLES
  call,    \* the call
  state,   \* `Walk::state`
  start,   \* `Walk::start`, None once seek took it
  frames,  \* `Walk::frames`: [slot, len, remaining]
  buf,     \* `Walk::buf`, the full path of the last frame's node
  pc,      \* the loop that runs, or "idle" between two calls to `next`
  out      \* what the call gave its caller, in order

vars == <<call, state, start, frames, buf, pc, out, handles, release>>

t == call.trie

Init ==
  /\ call \in Calls
  /\ state = "fresh"
  /\ start = IF call.op \in {"iter", "visit"} THEN call.key ELSE None
  /\ frames = << >>
  /\ buf = << >>
  /\ pc = CASE call.op = "iter" -> "idle" [] call.op = "get" -> "get" [] OTHER -> "advance"
  /\ out = << >>
  /\ ChainInit

FrameOf(s) == [slot |-> s, len |-> Len(Full(t, s)), remaining |-> Kids(t, s)]

Least(S) == CHOOSE i \in S : \A j \in S : i <= j

(* What is left of a and of b after their longest common prefix. *)
CommonPrefix(a, b) ==
  LET n == CHOOSE m \in 0 .. Len(a) :
             /\ m <= Len(b) /\ SubSeq(a, 1, m) = SubSeq(b, 1, m)
             /\ m < Len(a) /\ m < Len(b) => a[m + 1] # b[m + 1]
  IN  [a |-> Beyond(a, n), b |-> Beyond(b, n)]

(* The call is over; everything but an iterator drops its walk on return,  *)
(* a panicking visitor drops it as cleanup.                                *)
Finish(result, cleanup) ==
  /\ out' = IF result = None THEN out ELSE Append(out, result)
  /\ IF call.op = "iter" THEN pc' = "idle" /\ UNCHANGED release
                         ELSE pc' = "drop" /\ DropChain(cleanup)

-----------------------------------------------------------------------------
(* What `iter`, `visit` and `validate` do with the node advance returned.  *)
Item(s, path) == [path |-> path, value |-> t[s].value.data]

(* A validation that lets a valueless leaf pass. *)
Violation_OneChildOnly(s) == t[s].value = None /\ Cardinality(Kids(t, s)) = 1

Violation(s) == t[s].value = None /\ Cardinality(Kids(t, s)) < 2

Receive(s, path) ==
  LET passed == IF call.op = "validate" THEN ~Violation(s) ELSE t[s].value = None
  IN  \/ passed /\ pc' = "advance" /\ UNCHANGED <<out, release>>
      \/ ~passed /\ call.op = "validate" /\ Finish([path |-> path, value |-> None], FALSE)
      \/ ~passed /\ call.op = "iter" /\ Finish(Item(s, path), FALSE)
      \/ /\ ~passed /\ call.op = "visit"
         /\ pc' = "visitor" /\ out' = Append(out, Item(s, path))
         /\ UNCHANGED release

(* The visitor of `visit` goes on, breaks, or panics. *)
Visitor ==
  /\ pc = "visitor"
  /\ \/ pc' = "advance" /\ UNCHANGED <<out, release>>
     \/ Finish(Break, FALSE)
     \/ Finish(None, TRUE)
  /\ UNCHANGED <<call, state, start, frames, buf, handles>>

(* The caller of an iterator asks for the next item. *)
IterNext ==
  /\ pc = "idle"
  /\ pc' = "advance"
  /\ UNCHANGED <<call, state, start, frames, buf, out, handles, release>>

(* `Ok(None)`: an iterator may be asked again, and stays ended. *)
ReachEnd ==
  /\ state' = "done"
  /\ Finish(IF state = "done" THEN None ELSE End, FALSE)

-----------------------------------------------------------------------------
(* `Walk::advance` up to the loops it calls. *)
Advance ==
  /\ pc = "advance"
  /\ \/ /\ state = "done" \/ (state = "fresh" /\ t = EmptyTrie)
        /\ ReachEnd
        /\ UNCHANGED <<frames, buf>>
     \/ /\ state = "fresh"
        /\ t # EmptyTrie
        /\ buf' = t[Root].partial
        /\ frames' = <<FrameOf(Root)>>
        /\ IF start = None
             THEN state' = "walking" /\ Receive(Root, buf')
             ELSE state' = "seeking" /\ pc' = "seek" /\ UNCHANGED <<out, release>>
     \/ /\ state = "walking"
        /\ pc' = "step"
        /\ UNCHANGED <<state, frames, buf, out, release>>
  /\ UNCHANGED <<call, start, handles>>

(* An unwinding that leaves advance: `next` of an iterator may be called   *)
(* again, the walk of visit or validate drops.                             *)
Unwind ==
  /\ IF call.op = "iter" THEN pc' = "idle" /\ UNCHANGED release
                         ELSE pc' = "drop" /\ DropChain(TRUE)
  /\ UNCHANGED out

(* A pop that releases the handle before it gives up the frame. *)
PopFrame_HandleFirst ==
  /\ handles' = IF Len(frames) = 1 THEN handles ELSE Popped
  /\ \/ pc' = "step" /\ frames' = Front(frames) /\ UNCHANGED <<out, release>>
     \/ Len(frames) > 1 /\ Unwind /\ UNCHANGED frames
  /\ UNCHANGED buf

(* The last frame is done: it goes first, then its handle (the root has    *)
(* none), whose destructor returns, and step goes on, or panics.           *)
PopFrame ==
  /\ frames' = Front(frames)
  /\ handles' = IF Len(frames) = 1 THEN handles ELSE Popped
  /\ \/ pc' = "step" /\ UNCHANGED <<out, release>>
     \/ Len(frames) > 1 /\ Unwind
  /\ UNCHANGED buf

-----------------------------------------------------------------------------
(* The child at i is read: it has a handle and a frame, and the buffer,    *)
(* cut back to its parent's path, becomes its full path.                   *)
ReadChild(i, remaining) ==
  LET c == Child(t, Last(frames).slot, i)
  IN  /\ Push(c)
      /\ buf' = Append(SubSeq(buf, 1, Last(frames).len), i) \o t[c].partial
      /\ frames' = Append([frames EXCEPT ![Len(frames)].remaining = remaining \ {i}],
                          FrameOf(c))

(* The store fails: the child is no longer to visit, and the walk is done. *)
ReadFails(i, remaining) ==
  /\ buf' = Append(SubSeq(buf, 1, Last(frames).len), i)
  /\ frames' = [frames EXCEPT ![Len(frames)].remaining = remaining \ {i}]
  /\ state' = "done"
  /\ Finish(Err, FALSE)
  /\ UNCHANGED handles

(* One turn of `Walk::step`: the end, a finished frame, or the next child. *)
Step ==
  /\ pc = "step"
  /\ \/ /\ frames = << >>
        /\ ReachEnd
        /\ UNCHANGED <<frames, buf, handles>>
     \/ /\ frames # << >>
        /\ Last(frames).remaining = {}
        /\ PopFrame
        /\ UNCHANGED state
     \/ /\ frames # << >>
        /\ Last(frames).remaining # {}
        /\ LET remaining == Last(frames).remaining
               i == Least(remaining)
           IN  \/ /\ ReadChild(i, remaining)
                  /\ Receive(Child(t, Last(frames).slot, i), buf')
                  /\ UNCHANGED state
               \/ ReadFails(i, remaining)
  /\ UNCHANGED <<call, start>>

(* A seek that descends without pruning what sorts before the start. *)
AtOrAfter_All(remaining, i) == remaining

(* The children at or after the next index of the start. *)
AtOrAfter(remaining, i) == {j \in remaining : j >= i}

(* `Walk::seek` has found where to start: the node at hand, or whatever    *)
(* step finds next.                                                        *)
SeekEnds ==
  /\ state' = "walking"
  /\ start' = None
  /\ LET o == CommonPrefix(buf, start)
         remaining == Last(frames).remaining
     IN  \/ /\ o.b # << >> => o.a # << >> /\ o.a[1] > o.b[1]
            /\ Receive(Last(frames).slot, buf)
            /\ UNCHANGED <<frames, buf, handles>>
         \/ /\ o.a # << >> /\ o.b # << >> /\ o.a[1] < o.b[1]
            /\ PopFrame
         \/ /\ o.a = << >> /\ o.b # << >> /\ o.b[1] \notin remaining
            /\ frames' = [frames EXCEPT ![Len(frames)].remaining =
                            AtOrAfter(remaining, o.b[1])]
            /\ pc' = "step"
            /\ UNCHANGED <<buf, handles, out, release>>

(* The node's path is a proper prefix of the start and the child towards   *)
(* it is present: seek descends through step.                              *)
SeekDescends ==
  /\ LET o == CommonPrefix(buf, start)
         remaining == Last(frames).remaining
     IN  /\ o.a = << >> /\ o.b # << >> /\ o.b[1] \in remaining
         /\ LET kept == AtOrAfter(remaining, o.b[1])
            IN  \/ /\ ReadChild(Least(kept), kept)
                   /\ UNCHANGED <<state, start, pc, out>>
                \/ /\ ReadFails(Least(kept), kept)
                   /\ start' = None

Seek == pc = "seek" /\ (SeekEnds \/ SeekDescends) /\ UNCHANGED call

-----------------------------------------------------------------------------
(* The node `get_node` stands at, and one turn of its loop.  The end and   *)
(* an error drop the chain; a node found keeps it, in a NodeRef.           *)
Cur == IF handles = << >> THEN Root ELSE Last(handles)

Missing ==
  t # EmptyTrie =>
     LET o == CommonPrefix(Beyond(call.key, Len(Cur)), t[Cur].partial)
     IN  o.b # << >> \/ (o.a # << >> /\ o.a[1] \notin Kids(t, Cur))

Get ==
  /\ pc = "get"
  /\ \/ /\ Missing
        /\ Finish(End, FALSE)
        /\ UNCHANGED handles
     \/ /\ ~Missing
        /\ LET o == CommonPrefix(Beyond(call.key, Len(Cur)), t[Cur].partial)
           IN  \/ /\ o.a = << >>
                  /\ out' = <<[path |-> Full(t, Cur), value |-> t[Cur].value]>>
                  /\ pc' = "found"
                  /\ UNCHANGED chain
               \/ /\ o.a # << >>
                  /\ Push(Child(t, Cur, o.a[1]))
                  /\ UNCHANGED <<pc, out>>
               \/ /\ o.a # << >>
                  /\ Finish(Err, FALSE)
                  /\ UNCHANGED handles
  /\ UNCHANGED <<call, state, start, frames, buf>>

(* The caller drops the iterator or the NodeRef, perhaps while unwinding.  *)
DropByCaller ==
  /\ pc \in {"idle", "found"}
  /\ pc' = "drop"
  /\ \E cleanup \in BOOLEAN : DropChain(cleanup)
  /\ UNCHANGED <<call, state, start, frames, buf, out, handles>>

Drop == pc = "drop" /\ DropStep /\ UNCHANGED <<call, state, start, frames, buf, pc, out>>

Run == Advance \/ Seek \/ Step \/ Visitor \/ Get \/ Drop

Next == IterNext \/ DropByCaller \/ Run

(* What has begun goes on: reads, destructors and the visitor return,      *)
(* fail or panic.  Callers need not ask again, nor drop what they hold.    *)
Spec == Init /\ [][Next]_vars /\ WF_vars(Run)

-----------------------------------------------------------------------------
(* `Ord for Path`: lexicographic, a prefix first.                          *)
PathLess(p, q) ==
  \/ IsStrictPrefix(p, q)
  \/ \E n \in DOMAIN p \cap DOMAIN q :
       SubSeq(p, 1, n - 1) = SubSeq(q, 1, n - 1) /\ p[n] < q[n]

Ends == {End, Err, Break}
Given == {n \in DOMAIN out : out[n] \notin Ends}
Ended(how) == out # << >> /\ Last(out) = how

(* From any start, between two nodes, inside a partial path or past the    *)
(* end, iter and visit give every key at or after it once, ascending, with *)
(* its value.  Only an error or a Break cuts that short, nothing follows   *)
(* it, and a destructor that panicked between two calls loses no key.      *)
WalkInOrder ==
  LET keys == {Full(t, s) : s \in {u \in DOMAIN t : t[u].value # None}}
      wanted == {k \in keys : call.key = None \/ ~PathLess(k, call.key)}
  IN  call.op \in {"iter", "visit"} =>
        /\ \A n \in DOMAIN out : out[n] \in Ends => n = Len(out)
        /\ \A n \in Given :
             /\ out[n].path \in wanted
             /\ out[n] = [path |-> out[n].path, value |-> Lookup(t, out[n].path)]
             /\ \A k \in wanted :
                  PathLess(k, out[n].path) <=> \E m \in 1 .. n - 1 : out[m].path = k
        /\ Ended(End) => \A k \in wanted : \E n \in Given : out[n].path = k

(* validate names the first node in order of full paths that breaks the    *)
(* structural invariant, or there is none; get_node finds the node whose   *)
(* full path is the key, valued or not, or there is none.                  *)
ReadsExact ==
  LET thin == {Full(t, s) : s \in {u \in DOMAIN t :
                 t[u].value = None /\ Kids(t, u) \in {{}} \cup {{i} : i \in Index}}}
      nodes == {Full(t, s) : s \in DOMAIN t}
      first(q) == q \in thin /\ \A p \in thin : p = q \/ PathLess(q, p)
  IN  /\ call.op = "validate" =>
           /\ Ended(End) => thin = {}
           /\ Given # {} => first(out[1].path)
      /\ call.op = "get" =>
           /\ Ended(End) => call.key \notin nodes
           /\ Given # {} => out[1].path = call.key

(* Memory: every frame's node is the root or has a live handle, and so has *)
(* the node each live handle borrows from, whatever panics where.          *)
NothingDangles ==
  LET alive == {Root} \cup Range(handles)
  IN  /\ pc # "drop" => \A n \in DOMAIN frames : frames[n].slot \in alive
      /\ \A h \in Range(handles) : \E p \in alive : Full(t, p) = Front(h)

(* Every call returns or hands out its node; when a walk or a node is      *)
(* dropped, every handle is released and the buffer freed, also while      *)
(* handles panic, unless a panic during cleanup aborts.                    *)
ReadsEnd ==
  pc \notin {"idle", "found"} ~>
    \/ pc \in {"idle", "found"}
    \/ release = Freed /\ handles = << >>
    \/ release = Aborted

=============================================================================
