------------------------------ MODULE TrieHash ------------------------------
(***************************************************************************)
(* The Merkle hash walk of crates/arity-tries/src/hash.rs: post-order over *)
(* a frame stack, with one path buffer shared by all frames.  A hash is    *)
(* the record of everything the hasher was given, so two hashes are equal  *)
(* exactly when their inputs were: a hasher without collisions.            *)
(***************************************************************************)
EXTENDS TrieOps

CONSTANT
  Sensitive   \* the full paths of nodes for which `sibling_sensitive` holds

VARIABLES
  buf,        \* `buf`, the path buffer
  digest      \* what the last call returned, when that was a root hash

(* A hasher may tell an only child from one with siblings, and only under  *)
(* a sensitive parent.                                                     *)
Lone(leading, siblings) ==
  leading # << >> /\ Front(leading) \in Sensitive /\ siblings = 1

ChildHashes(t, s) == [i \in Kids(t, s) |-> t[Child(t, s, i)].hash]

(* `hash_node` on the input built from the node at s. *)
HashNode(t, s, leading, siblings) ==
  [leading |-> leading, partial |-> t[s].partial, value |-> t[s].value,
   lone |-> Lone(leading, siblings), kids |-> ChildHashes(t, s)]

(* `update_value` on the node at s. *)
Updated(t, s) ==
  IF t[s].value = None THEN t
  ELSE [t EXCEPT ![s].value.splice = ChildHashes(t, s)]

SealedKids(s) == {i \in Kids(slot, s) : ~Inline(slot, Child(slot, s, i))}

IsSensitive(leading, s) == leading \o slot[s].partial \in Sensitive

(* The rule for any lone sealed child. *)
RehashesLone_Always(leading, s) == Cardinality(SealedKids(s)) = 1

(* The rule that asks for an only child, not for an only sealed one. *)
RehashesLone_OnlyChild(leading, s) ==
  /\ Cardinality(Kids(slot, s)) = 1
  /\ SealedKids(s) # {}
  /\ IsSensitive(leading, s)

(* Exactly one sealed child under a sensitive parent: nothing records      *)
(* which form its hash has.                                                *)
RehashesLone(leading, s) ==
  Cardinality(SealedKids(s)) = 1 /\ IsSensitive(leading, s)

(* `prepare` for the node at s, whose leading path is the whole buffer b,  *)
(* and the push of its frame on stack w.                                   *)
Enter(s, b, siblings, w) ==
  LET pending  == Kids(slot, s) \ SealedKids(s)
      count    == Cardinality(Kids(slot, s))
      Push(p)  == /\ walk' = Append(w, [slot |-> s, lead |-> Len(b),
                                        siblings |-> siblings,
                                        count |-> count, left |-> p])
                  /\ buf' = b
                  /\ UNCHANGED <<req, pc, frames, out, digest>>
      i == CHOOSE i \in SealedKids(s) : TRUE
      c == Child(slot, s, i)
      sub == Append(b \o slot[s].partial, i)
  IN  \/ /\ ~RehashesLone(b, s)
         /\ slot' = slot
         /\ Push(pending)
      \/ /\ RehashesLone(b, s)
         /\ Kids(slot, c) = SealedKids(c)
         /\ slot' = [slot EXCEPT ![c].hash = HashNode(slot, c, sub, count)]
         /\ Push(pending)
      \* Inline descendants under the sealed child: hash it like an inline one.
      \/ /\ RehashesLone(b, s)
         /\ Kids(slot, c) # SealedKids(c)
         /\ slot' = Materialized(slot, c)
         /\ Push(pending \cup {i})
      \* `read` or `materialize` failed.
      \/ /\ RehashesLone(b, s)
         /\ Fail
         /\ buf' = << >>
         /\ digest' = None

Hashing == req # None /\ pc = "hash"

HashRoot ==
  /\ Hashing
  /\ walk = << >>
  /\ Enter(Root, << >>, 0, << >>)

(* The path pushed without cutting the buffer back first. *)
HashChild_NoTruncate ==
  /\ Hashing
  /\ walk # << >>
  /\ Last(walk).left # {}
  /\ LET top == Last(walk)
         i   == Min(top.left)
     IN  Enter(Child(slot, top.slot, i),
               Append(buf \o slot[top.slot].partial, i),
               top.count, [walk EXCEPT ![Len(walk)].left = @ \ {i}])

(* The next inline child, lowest first. *)
HashChild ==
  /\ Hashing
  /\ walk # << >>
  /\ Last(walk).left # {}
  /\ LET top == Last(walk)
         i   == Min(top.left)
     IN  Enter(Child(slot, top.slot, i),
               Append(SubSeq(buf, 1, top.lead) \o slot[top.slot].partial, i),
               top.count, [walk EXCEPT ![Len(walk)].left = @ \ {i}])

(* A finish that hashes the value before it is rewritten. *)
HashFinish_HashFirst ==
  /\ Hashing
  /\ walk # << >>
  /\ Last(walk).left = {}
  /\ LET top == Last(walk)
         b == SubSeq(buf, 1, top.lead)
         t == Updated(slot, top.slot)
         h == HashNode(slot, top.slot, b, top.siblings)
     IN  IF Len(walk) = 1
           THEN Change(t, Done) /\ digest' = h /\ buf' = << >>
           ELSE /\ slot' = [t EXCEPT ![top.slot].hash = h]
                /\ walk' = Front(walk)
                /\ buf' = b
                /\ UNCHANGED <<req, pc, frames, out, digest>>

(* Every child is sealed: the value is rewritten, the node hashed, its     *)
(* edge sealed; the root has no edge and its hash is the result.           *)
HashFinish ==
  /\ Hashing
  /\ walk # << >>
  /\ Last(walk).left = {}
  /\ LET top == Last(walk)
         b == SubSeq(buf, 1, top.lead)
         t == Updated(slot, top.slot)
         h == HashNode(t, top.slot, b, top.siblings)
     IN  IF Len(walk) = 1
           THEN Change(t, Done) /\ digest' = h /\ buf' = << >>
           ELSE /\ slot' = [t EXCEPT ![top.slot].hash = h]
                /\ walk' = Front(walk)
                /\ buf' = b
                /\ UNCHANGED <<req, pc, frames, out, digest>>

HashStep == HashRoot \/ HashChild \/ HashFinish

=============================================================================
