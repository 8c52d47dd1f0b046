------------------------------- MODULE KeyMap -------------------------------
(***************************************************************************)
(* What crates/arity-tries promises its caller: a map from keys to values  *)
(* under calls that run one at a time, each of which either takes effect   *)
(* whole or fails and changes nothing.  Paths, nodes, hashes and the store *)
(* are invisible here.                                                     *)
(***************************************************************************)
EXTENDS Sequences, SequencesExt, Functions, TLC

CONSTANTS
  Keys,      \* the keys callers use: sequences of indices
  PrefixKeys,  \* the prefixes callers remove
  Data,      \* the values callers store
  None,      \* no value, no result, no call
  Done,      \* the result of a call that returns `()`
  Err        \* the result of a call that failed

VARIABLES
  map,       \* the present keys and their values
  req,       \* the call in progress, or None
  out        \* the result of the last call

vars == <<map, req, out>>

Requests ==
  [op : {"insert"}, key : Keys, val : Data]
    \cup [op : {"remove"}, key : Keys]
    \cup [op : {"remove_prefix"}, key : PrefixKeys]
    \cup [op : {"materialize", "hash"}]

ValueAt(k) == IF k \in DOMAIN map THEN map[k] ELSE None

Keeping(Test(_)) == Restrict(map, {k \in DOMAIN map : Test(k)})

(* A caller may bring a trie it built itself. *)
Init ==
  /\ \E present \in SUBSET Keys : map \in [present -> Data]
  /\ req = None
  /\ out = None

Begin(r) == req = None /\ req' = r /\ out' = None /\ map' = map

InsertKey ==
  /\ req.op = "insert"
  /\ map' = [k \in DOMAIN map \cup {req.key} |-> IF k = req.key THEN req.val ELSE map[k]]
  /\ out' = ValueAt(req.key)

RemoveKey ==
  /\ req.op = "remove"
  /\ map' = Keeping(LAMBDA k : k # req.key)
  /\ out' = ValueAt(req.key)

RemovePrefix ==
  /\ req.op = "remove_prefix"
  /\ map' = Keeping(LAMBDA k : ~IsPrefix(req.key, k))
  /\ out' = Done

(* Hashing and materializing change no key and no value. *)
Rewrite == req.op \in {"materialize", "hash"} /\ map' = map /\ out' = Done

Fail == map' = map /\ out' = Err

Finish ==
  /\ req # None
  /\ req' = None
  /\ InsertKey \/ RemoveKey \/ RemovePrefix \/ Rewrite \/ Fail

Next == (\E r \in Requests : Begin(r)) \/ Finish

Spec == Init /\ [][Next]_vars

=============================================================================
