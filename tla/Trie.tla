-------------------------------- MODULE Trie --------------------------------
(***************************************************************************)
(* A trie under calls that run one after another (the code takes `&mut`    *)
(* on the root for the whole of a call): the mutations of TrieOps and the  *)
(* hash walk of TrieHash share the trie, and any call may fail halfway.    *)
(***************************************************************************)
EXTENDS TrieHash

CONSTANTS
  Keys,        \* the keys callers use
  PrefixKeys,  \* the prefixes callers remove
  Starts       \* the tries a behaviour may start from

ASSUME KeysAssumption == Keys \cup PrefixKeys \subseteq Seq(Index)

(* Owning its children, a node can only be built into a tree; settled or   *)
(* not, sealed or not, as its builder likes, with keys and values that are *)
(* callers'.  No edge leads to the root.                                   *)
ASSUME StartsAssumption ==
  \A t \in Starts :
    /\ IsTrie(t) /\ Apart(t) /\ NoOrphans(t)
    /\ t # EmptyTrie => Inline(t, Root)
    /\ \A s \in DOMAIN t : t[s].value # None => Full(t, s) \in Keys /\ IsValue(t[s].value)

vars == <<slot, req, pc, frames, walk, out, buf, digest>>

(* What get returns for every key that could be found. *)
Contents ==
  LET found == {k \in Keys \cup {Full(slot, s) : s \in DOMAIN slot} :
                  Lookup(slot, k) # None}
  IN  [k \in found |-> Lookup(slot, k)]

Abstract == INSTANCE KeyMap WITH map <- Contents

ASSUME RequestsAssumption == None \notin Abstract!Requests

Init ==
  /\ slot \in Starts
  /\ req = None
  /\ pc = "idle"
  /\ frames = << >>
  /\ walk = << >>
  /\ out = None
  /\ buf = << >>
  /\ digest = None

(* A call begins; materialize_subtree and hash take a node, so the trie is *)
(* not empty.                                                              *)
Begin(r) ==
  /\ req = None
  /\ r.op \in {"materialize", "hash"} => slot # EmptyTrie
  /\ req' = r
  /\ pc' = IF r.op = "hash" THEN "hash" ELSE "descend"
  /\ frames' = IF slot = EmptyTrie THEN << >> ELSE <<Root>>
  /\ out' = None
  /\ digest' = None
  /\ UNCHANGED <<slot, walk, buf>>

Step == (Mutate /\ UNCHANGED <<buf, digest>>) \/ HashStep

Next == (\E r \in Abstract!Requests : Begin(r)) \/ Step

(* A call in progress keeps running: the store answers or fails.           *)
Spec == Init /\ [][Next]_vars /\ WF_vars(Step)

-----------------------------------------------------------------------------
Paths == UNION {{SubSeq(k, 1, n) : n \in 0 .. Len(k)} : k \in Keys}

TypeOK ==
  /\ \A s \in DOMAIN slot :
       /\ s \in Paths /\ Full(slot, s) \in Paths
       /\ DOMAIN slot[s] = {"partial", "value", "hash"}
       /\ slot[s].value # None => IsValue(slot[s].value)
  /\ req \in Abstract!Requests \cup {None}
  /\ pc \in {"idle", "descend", "collect", "unwind", "hash"}
  /\ \A n \in DOMAIN frames : frames[n] \in DOMAIN slot
  /\ \A n \in DOMAIN walk :
       walk[n].slot \in DOMAIN slot /\ walk[n].left \subseteq Kids(slot, walk[n].slot)
  /\ buf \in Paths
  /\ out \in Data \cup {None, Done, Err}

(* Every call implements one atomic step of the key map, or fails without  *)
(* one: a key present is found by its path, a failed call leaves keys and  *)
(* values alone, and each result is the value the call displaced.          *)
RefinesMap == Abstract!Spec

(* The structural invariant of node.rs, at every step of every call and    *)
(* after every failure: all nodes hang together, a valueless node has two  *)
(* children or more, the root is inline.                                   *)
Settled ==
  /\ TypeOK
  /\ NoOrphans(slot)
  /\ \A s \in DOMAIN slot :
       slot[s].value = None => Cardinality(Kids(slot, s)) >= 2
  /\ slot # EmptyTrie => Root \in DOMAIN slot /\ Inline(slot, Root)

(* Beneath a sealed edge every edge is sealed: the walk may stop there.    *)
SealedClosed ==
  \A s \in DOMAIN slot :
    ~Inline(slot, s) => Kids(slot, s) = SealedKids(s)

(* A node is changed, moved or removed only while its edge is inline, so   *)
(* the store was told of every sealed node that is replaced.               *)
EditsOnlyInline ==
  [][\A s \in DOMAIN slot :
       ~Inline(slot, s) =>
         /\ s \in DOMAIN slot'
         /\ slot'[s].partial = slot[s].partial
         /\ slot'[s].value = slot[s].value]_vars

(* The children beside the slot s, itself included. *)
Siblings(t, s) == {i \in Index : Append(Front(s), i) \in DOMAIN t}

(* The hash of the node at s computed from nothing but the contents of t.  *)
Fresh(t, s) ==
  LET hash[u \in DOMAIN t] ==
        LET kids == [i \in Kids(t, u) |-> hash[Child(t, u, i)]]
        IN  [leading |-> u, partial |-> t[u].partial,
             value |-> IF t[u].value = None THEN None
                       ELSE [data |-> t[u].value.data, splice |-> kids],
             lone |-> Lone(u, Cardinality(Siblings(t, u))), kids |-> kids]
  IN  hash[s]

(* A root hash depends on the keys and values alone: not on the calls that *)
(* built the trie, the edges sealed before, or walks that failed halfway.  *)
HashIsCanonical == digest # None => digest = Fresh(slot, Root)

(* The sealed slot s is the only sealed child of an inline sensitive node. *)
OnlySealed(s) ==
  \E p \in DOMAIN slot :
    /\ Full(slot, p) = Front(s)
    /\ Full(slot, p) \in Sensitive
    /\ Inline(slot, p)
    /\ SealedKids(p) = {Last(s)}

(* A cached hash is the hash of its node where it stands; the one way to   *)
(* be stale is the lone form of the only sealed child of an inline         *)
(* sensitive node, which the next walk rehashes.                           *)
SealedHashValid ==
  \A s \in DOMAIN slot : ~Inline(slot, s) =>
    \/ slot[s].hash = Fresh(slot, s)
    \/ slot[s].hash = [Fresh(slot, s) EXCEPT !.lone = ~@] /\ OnlySealed(s)

(* Without a sensitive node the walk reads nothing and cannot fail.        *)
HashNeverFails ==
  [][Sensitive = {} /\ req # None /\ req.op = "hash" => out' # Err]_vars

(* Every call returns, whatever fails on the way.                          *)
CallsReturn == req # None ~> req = None

=============================================================================
