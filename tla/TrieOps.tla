------------------------------- MODULE TrieOps -------------------------------
(***************************************************************************)
(* The mutations of crates/arity-tries/src/ops.rs, step by step: insert,   *)
(* remove, remove_prefix and materialize_subtree, over a store whose       *)
(* `materialize` may fail on any sealed edge.  A step is one turn of a     *)
(* loop in the code: one edge descended, one frame popped, one change.     *)
(***************************************************************************)
EXTENDS TrieNodes

CONSTANTS
  Data,    \* the values callers store
  Done,    \* the result `()`
  Err      \* the store's error

ASSUME DataAssumption == None \notin Data

(* An error is told apart from an answer. *)
ASSUME ResultsAssumption == Err \notin {None, Done}

(* A value in a node: what callers store, with what the hasher spliced in. *)
IsValue(v) == v = [data |-> v.data, splice |-> v.splice] /\ v.data \in Data

VARIABLES
  slot,    \* the trie (see TrieNodes)
  req,     \* the call in progress, or None
  pc,      \* the loop it is in
  frames,  \* `Frames` of a mutation: the slots from the root down to the top
  walk,    \* `Frames` of a whole-subtree walk: slots with their children left
  out      \* the result of the last call

control == <<req, pc, frames, walk, out>>

Top == Last(frames)
Key == req.key

(* A call ends: its frames are gone. *)
Return(result) ==
  /\ req' = None
  /\ pc' = "idle"
  /\ frames' = << >>
  /\ walk' = << >>
  /\ out' = result

Change(t, result) == slot' = t /\ Return(result)

Fail == Change(slot, Err)

(* The store failed on a sealed edge: the edge is unchanged. *)
MaterializeFails(c) == ~Inline(slot, c) /\ Fail

-----------------------------------------------------------------------------
(* The descent shared by insert, remove and remove_prefix. *)

Descending(op) == req # None /\ req.op = op /\ pc = "descend"
OnNode(op) == Descending(op) /\ slot # EmptyTrie

(* `Split`: how the key lies to the top node's full path. *)
At(path) == Full(slot, Top) = path
KeyContinues == IsStrictPrefix(Full(slot, Top), Key)
KeyEndsAbove == IsStrictPrefix(Key, Full(slot, Top))
KeyNext == Key[Len(Full(slot, Top)) + 1]
HasNext == KeyContinues /\ KeyNext \in Kids(slot, Top)

(* A descent that reads sealed nodes without turning their edges inline. *)
Descend_LeavesSealed ==
  /\ \E op \in {"insert", "remove", "remove_prefix"} : OnNode(op)
  /\ HasNext
  /\ slot' = slot
  /\ frames' = Append(frames, Child(slot, Top, KeyNext))
  /\ UNCHANGED <<req, pc, walk, out>>

(* One level down: the edge is materialized and its node pushed. *)
Descend ==
  /\ \E op \in {"insert", "remove", "remove_prefix"} : OnNode(op)
  /\ HasNext
  /\ LET c == Child(slot, Top, KeyNext)
     IN  \/ /\ slot' = Materialized(slot, c)
            /\ frames' = Append(frames, c)
            /\ UNCHANGED <<req, pc, walk, out>>
         \/ MaterializeFails(c)

-----------------------------------------------------------------------------
(* insert *)

InsertIntoEmpty ==
  /\ Descending("insert")
  /\ slot = EmptyTrie
  /\ Change(Holding(EmptyTrie, Root, LeafNode(Key, req.val)), None)

(* The key is the node's: its value is replaced. *)
Replace ==
  /\ OnNode("insert")
  /\ At(Key)
  /\ Change([slot EXCEPT ![Top].value = Unspliced(req.val)],
            IF slot[Top].value = None THEN None ELSE slot[Top].value.data)

(* The top slot's node goes n indices below a new one: it is held by an    *)
(* inline edge of the new node and its partial path is shorter.            *)
Pushed(n, value) ==
  LET full == Full(slot, Top)
      new  == [partial |-> SubSeq(full, Len(Top) + 1, n),
               value |-> value, hash |-> slot[Top].hash]
      old  == [partial |-> Beyond(full, n + 1),
               value |-> slot[Top].value, hash |-> None]
  IN  Holding(Holding(slot, Top, new), SubSeq(full, 1, n + 1), old)

(* The key ends inside the partial path: a new node at the key. *)
InsertAbove ==
  /\ OnNode("insert")
  /\ KeyEndsAbove
  /\ Change(Pushed(Len(Key), Unspliced(req.val)), None)

(* The key continues past the node where it has no child. *)
InsertBelow ==
  /\ OnNode("insert")
  /\ KeyContinues
  /\ ~HasNext
  /\ LET n == Len(Full(slot, Top)) + 1
     IN  Change(Holding(slot, SubSeq(Key, 1, n), LeafNode(Beyond(Key, n), req.val)),
                None)

(* Key and partial path part: a valueless fork above both. *)
InsertFork ==
  /\ OnNode("insert")
  /\ ~At(Key) /\ ~KeyContinues /\ ~KeyEndsAbove
  /\ LET n == Len(LongestCommonPrefix({Key, Full(slot, Top)}))
     IN  Change(Holding(Pushed(n, None), SubSeq(Key, 1, n + 1),
                        LeafNode(Beyond(Key, n + 1), req.val)),
                None)

-----------------------------------------------------------------------------
(* remove *)

RemoveFindsNothing ==
  /\ Descending("remove")
  /\ ~(slot # EmptyTrie /\ (HasNext \/ (At(Key) /\ slot[Top].value # None)))
  /\ Change(slot, None)

RemovesAt(cond) ==
  /\ OnNode("remove")
  /\ At(Key)
  /\ slot[Top].value # None
  /\ cond

(* Two or more children: only the value leaves. *)
ClearValue ==
  /\ RemovesAt(Cardinality(Kids(slot, Top)) >= 2)
  /\ Change([slot EXCEPT ![Top].value = None], slot[Top].value.data)

(* One child: it is materialized first, then takes the node's place. *)
ClearAndMerge ==
  /\ RemovesAt(Cardinality(Kids(slot, Top)) = 1)
  /\ LET c == OnlyChild(slot, Top)
     IN  \/ MaterializeFails(c)
         \/ ~Inline(slot, c) /\ slot' = Materialized(slot, c) /\ UNCHANGED control
         \/ /\ Inline(slot, c)
            /\ Change(MergeOnlyChild(slot, Top), slot[Top].value.data)

(* A leaf leaves the trie. *)
RemoveLeaf ==
  /\ RemovesAt(Kids(slot, Top) = {})
  /\ pc' = "unwind"
  /\ UNCHANGED <<slot, req, frames, walk, out>>

-----------------------------------------------------------------------------
(* remove_prefix and materialize_subtree *)

PrefixFindsNothing ==
  /\ Descending("remove_prefix")
  /\ ~(slot # EmptyTrie /\ (HasNext \/ IsPrefix(Key, Full(slot, Top))))
  /\ Change(slot, Done)

(* A prefix that leaves without being materialized. *)
PrefixFound_Unread ==
  /\ OnNode("remove_prefix")
  /\ IsPrefix(Key, Full(slot, Top))
  /\ pc' = "unwind"
  /\ UNCHANGED <<slot, req, frames, walk, out>>

(* The top node's full path starts with the prefix: its subtree leaves,    *)
(* once it is materialized.                                                *)
PrefixFound ==
  /\ OnNode("remove_prefix")
  /\ IsPrefix(Key, Full(slot, Top))
  /\ pc' = "collect"
  /\ walk' = <<[slot |-> Top, left |-> Kids(slot, Top)]>>
  /\ UNCHANGED <<slot, req, frames, out>>

(* materialize_subtree on the root, called by itself. *)
StartMaterialize ==
  /\ Descending("materialize")
  /\ pc' = "collect"
  /\ walk' = <<[slot |-> Root, left |-> Kids(slot, Root)]>>
  /\ UNCHANGED <<slot, req, frames, out>>

(* The lowest child left is materialized and entered. *)
CollectChild ==
  /\ pc = "collect"
  /\ LET top == Last(walk)
         i   == Min(top.left)
         c   == Child(slot, top.slot, i)
     IN  /\ top.left # {}
         /\ \/ /\ slot' = Materialized(slot, c)
               /\ walk' = Append([walk EXCEPT ![Len(walk)].left = @ \ {i}],
                                 [slot |-> c, left |-> Kids(slot, c)])
               /\ UNCHANGED <<req, pc, frames, out>>
            \/ MaterializeFails(c)

(* A finished child whose frame is never popped. *)
CollectUp_KeepsFrame ==
  /\ pc = "collect"
  /\ walk # << >>
  /\ Last(walk).left = {}
  /\ slot' = slot
  /\ IF Len(walk) > 1
       THEN UNCHANGED control
       ELSE IF req.op = "materialize" THEN Return(Done)
       ELSE pc' = "unwind" /\ walk' = << >> /\ UNCHANGED <<req, frames, out>>

(* No child left: back to the parent, or done. *)
CollectUp ==
  /\ pc = "collect"
  /\ Last(walk).left = {}
  /\ slot' = slot
  /\ IF Len(walk) > 1
       THEN walk' = Front(walk) /\ UNCHANGED <<req, pc, frames, out>>
       ELSE IF req.op = "materialize" THEN Return(Done)
       ELSE pc' = "unwind" /\ walk' = << >> /\ UNCHANGED <<req, frames, out>>

-----------------------------------------------------------------------------
(* unwind_remove: the top node leaves, its ancestors are repaired. *)

Unwinding == req # None /\ pc = "unwind"

(* The recovered value is remove's result; remove_prefix drops it. *)
Leaving(d) == IF req.op = "remove" THEN Recover(slot, d) ELSE Done

UnwindRoot ==
  /\ Unwinding
  /\ Len(frames) = 1
  /\ Change(EmptyTrie, Leaving(Root))

Parent == frames[Len(frames) - 1]
UnwindsInto(cond) == Unwinding /\ Len(frames) > 1 /\ cond
Thin == slot[Parent].value = None /\ Cardinality(Kids(slot, Parent)) < 3

(* A detach that takes the leaving node for the only repair. *)
UnwindDetach_AnyParent ==
  /\ UnwindsInto(TRUE)
  /\ Change(Detached(slot, Top), Leaving(Top))

(* A parent that stays: it has a value, or two children besides. *)
UnwindDetach ==
  /\ UnwindsInto(~Thin)
  /\ Change(Detached(slot, Top), Leaving(Top))

(* A merge that detaches before the step that may fail. *)
UnwindMerge_DetachFirst ==
  /\ UnwindsInto(Thin /\ Cardinality(Kids(slot, Parent)) = 2)
  /\ LET c == CHOOSE c \in {Child(slot, Parent, i) : i \in Kids(slot, Parent)} :
                c # Top
     IN  \/ ~Inline(slot, c) /\ Change(Detached(slot, Top), Err)
         \/ ~Inline(slot, c) /\ slot' = Materialized(slot, c) /\ UNCHANGED control
         \/ /\ Inline(slot, c)
            /\ Change(MergeOnlyChild(Detached(slot, Top), Parent), Leaving(Top))

(* A valueless parent of two: the survivor is materialized, then the       *)
(* leaving edge is removed and the survivor merged into the parent.        *)
UnwindMerge ==
  /\ UnwindsInto(Thin /\ Cardinality(Kids(slot, Parent)) = 2)
  /\ LET c == CHOOSE c \in {Child(slot, Parent, i) : i \in Kids(slot, Parent)} :
                c # Top
     IN  \/ MaterializeFails(c)
         \/ ~Inline(slot, c) /\ slot' = Materialized(slot, c) /\ UNCHANGED control
         \/ /\ Inline(slot, c)
            /\ Change(MergeOnlyChild(Detached(slot, Top), Parent), Leaving(Top))

(* A valueless parent whose only child is leaving leaves too. *)
UnwindPop ==
  /\ UnwindsInto(Thin /\ Cardinality(Kids(slot, Parent)) = 1)
  /\ frames' = Front(frames)
  /\ UNCHANGED <<slot, req, pc, walk, out>>

-----------------------------------------------------------------------------
InsertStep ==
  InsertIntoEmpty \/ Replace \/ InsertAbove \/ InsertBelow \/ InsertFork
RemoveStep == RemoveFindsNothing \/ ClearValue \/ ClearAndMerge \/ RemoveLeaf
RemovePrefixStep == PrefixFindsNothing \/ PrefixFound
Collect == StartMaterialize \/ CollectChild \/ CollectUp
Unwind == UnwindRoot \/ UnwindDetach \/ UnwindMerge \/ UnwindPop

Mutate ==
  Descend \/ InsertStep \/ RemoveStep \/ RemovePrefixStep \/ Collect \/ Unwind

=============================================================================
