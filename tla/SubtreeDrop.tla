----------------------------- MODULE SubtreeDrop -----------------------------
(***************************************************************************)
(* How a subtree of the in-memory store is dropped                         *)
(* (arity-tries/src/memory.rs, node.rs).  Drop glue alone would recurse    *)
(* once per level; an edge's `Drop` takes its node out instead and hands   *)
(* it to drop_subtree, a worklist.  Each node's value is user code and its *)
(* destructor may panic: what the unwinding frame still holds is dropped   *)
(* by glue, as cleanup, and a panic that leaves cleanup aborts.            *)
(***************************************************************************)
EXTENDS Bitmaps, Sequences, SequencesExt

CONSTANT Size   \* nodes of the subtree

ASSUME SizeAssumption == Size \in Nat \ {0}

Node == 1 .. Size

VARIABLES
  parent,    \* the subtree: every node but 1 has a parent before it
  stack,     \* the running drops, innermost last
  drops,     \* how often each node's value was dropped
  aborted

vars == <<parent, stack, drops, aborted>>

Children(n) == {c \in Node \ {1} : parent[c] = n}
Edges(S) == [k \in 1 .. Cardinality(S) |-> Select(S, k - 1)]

(* A frame holds edges, named by their nodes: a list that drop_subtree     *)
(* takes apart, or edges that glue drops one by one.  `cleanup`: it runs   *)
(* on behalf of an unwinding.                                              *)
Frame(kind, edges, cleanup) ==
  [kind |-> kind, edges |-> edges, cleanup |-> cleanup, panicking |-> FALSE]

Top   == Last(stack)
Below == Front(stack)

(* The owner drops the edge to node 1. *)
Init ==
  /\ parent \in {p \in [Node \ {1} -> Node] : \A n \in Node \ {1} : p[n] < n}
  /\ stack = <<Frame("glue", <<1>>, FALSE)>>
  /\ drops = [n \in Node |-> 0]
  /\ aborted = FALSE

Running(kind) ==
  /\ ~aborted
  /\ stack # << >>
  /\ Top.kind = kind
  /\ Top.edges # << >>

DropValue(n) == drops' = [drops EXCEPT ![n] = @ + 1]

-----------------------------------------------------------------------------
(* `Drop for MemEdge` on a leaf: its value drops in place, or panics.      *)
DropLeaf ==
  /\ Running("glue")
  /\ Children(Head(Top.edges)) = {}
  /\ DropValue(Head(Top.edges))
  /\ LET f == [Top EXCEPT !.edges = Tail(@)]
     IN  \/ stack' = Append(Below, f) /\ UNCHANGED aborted
         \/ stack' = Append(Below, [f EXCEPT !.panicking = TRUE]) /\ aborted' = Top.panicking
  /\ UNCHANGED parent

(* `Drop for MemEdge` on an inner node: the node is taken out, and nothing *)
(* is left in the edge for the glue that follows.                          *)
DropInner ==
  /\ Running("glue")
  /\ Children(Head(Top.edges)) # {}
  /\ stack' = Append(Append(Below, [Top EXCEPT !.edges = Tail(@)]),
                     Frame("list", <<Head(Top.edges)>>, Top.cleanup \/ Top.panicking))
  /\ UNCHANGED <<parent, drops, aborted>>

(* An `into_node` that leaves the node in its edge, whose drop comes next. *)
TakenApart_ByGlue(n) ==
  <<[Top EXCEPT !.edges = Front(@)], Frame("list", Edges(Children(n)), Top.cleanup)>>

(* A node taken apart: its edges join the worklist. *)
TakenApart(n) == <<[Top EXCEPT !.edges = Front(@) \o Edges(Children(n))]>>

(* drop_subtree pops an edge and takes its node apart; the value drops     *)
(* before its edges join the list.                                         *)
TakeApart ==
  /\ Running("list")
  /\ DropValue(Last(Top.edges))
  /\ stack' = Below \o TakenApart(Last(Top.edges))
  /\ UNCHANGED <<parent, aborted>>

(* The value's destructor panics: the children map and the worklist drop   *)
(* with the frame.                                                         *)
TakeApartPanics ==
  /\ Running("list")
  /\ DropValue(Last(Top.edges))
  /\ stack' = Append(Below,
                [kind |-> "glue", edges |-> Edges(Children(Last(Top.edges))) \o Front(Top.edges),
                 cleanup |-> Top.cleanup, panicking |-> TRUE])
  /\ UNCHANGED <<parent, aborted>>

(* A frame has nothing left: it returns, or the panic goes on into the     *)
(* frame below, whose glue drops the rest as cleanup.                      *)
Return ==
  /\ ~aborted /\ stack # << >> /\ Top.edges = << >>
  /\ IF ~Top.panicking \/ Len(stack) = 1
       THEN stack' = Below /\ UNCHANGED aborted
     ELSE IF Top.cleanup
       THEN aborted' = TRUE /\ UNCHANGED stack
     ELSE stack' = [Below EXCEPT ![Len(Below)].panicking = TRUE] /\ UNCHANGED aborted
  /\ UNCHANGED <<parent, drops>>

Next == DropLeaf \/ DropInner \/ TakeApart \/ TakeApartPanics \/ Return

Spec == Init /\ [][Next]_vars

-----------------------------------------------------------------------------
(* The edges a running drop still holds, and every node under them. *)
Held == {n \in Node : \E k \in DOMAIN stack : n \in Range(stack[k].edges)}
Under(S) ==
  LET up[n \in Node] == n \in S \/ (n # 1 /\ up[parent[n]])
  IN  {n \in Node : up[n]}

Doomed == aborted \/ \E k \in DOMAIN stack : stack[k].cleanup /\ stack[k].panicking

(* "A chain of any depth drops on any stack": at most three drops nest,    *)
(* the owner's, one that unwinds and one beneath it, however deep the      *)
(* subtree is, unless a second panic dooms the process.  Every value is    *)
(* dropped once: those not dropped yet are under an edge some frame holds, *)
(* in no frame twice, so at the end, panic or not, none is left.           *)
DropsFlat ==
  ~Doomed =>
    /\ Len(stack) <= 3
    /\ \A n \in Node : drops[n] = (IF n \in Under(Held) THEN 0 ELSE 1)
    /\ \A j, k \in DOMAIN stack : \A a \in DOMAIN stack[j].edges, b \in DOMAIN stack[k].edges :
         <<j, a>> # <<k, b>> => stack[j].edges[a] # stack[k].edges[b]

=============================================================================
