---------------------------- MODULE ElementProofs ----------------------------
(***************************************************************************)
(* Every way the elements of an array are walked, read and written, for    *)
(* every arity, layout and block: the loops that drop, consume or clone    *)
(* them, index ranges, the borrowing iterators, the operations that        *)
(* consume a fixed array, and the two wire forms.                          *)
(***************************************************************************)
EXTENDS BlockLifecycle, IndexMachines, BitmapTheorems, SequenceTheorems

-----------------------------------------------------------------------------
(* The stack of walks.                                                     *)

Frames == [rest : SUBSET Slots, cleanup : BOOLEAN, panicking : BOOLEAN]

(* Only the innermost walk has slots left: a frame that panicked has given *)
(* its rest to the guard above it.  Every walk but the first is a guard's. *)
Shape(s) ==
  /\ s \in Seq(Frames)
  /\ \A k \in 1 .. Len(s) : /\ k < Len(s) \/ s[k].panicking => s[k].rest = {}
                            /\ k > 1 => s[k].cleanup

RestOf(s) == UNION {s[k].rest : k \in 1 .. Len(s)}

LEMMA EmptyStack == Shape(<<>>) /\ RestOf(<<>>) = {}
  BY DEF Shape, RestOf

LEMMA RestIsTop ==
  ASSUME NEW s, Shape(s), s # <<>>
  PROVE  /\ Len(s) \in Nat \ {0}
         /\ s[Len(s)] \in Frames
         /\ RestOf(s) = s[Len(s)].rest
  <1>1. Len(s) \in Nat \ {0} /\ s[Len(s)] \in Frames
    BY DEF Shape
  <1>2. \A k \in 1 .. Len(s) : k # Len(s) => s[k].rest = {}
    BY <1>1 DEF Shape
  <1> QED
    BY <1>1, <1>2 DEF RestOf

LEMMA Prefix ==
  ASSUME NEW S, NEW s, NEW n \in Nat, \A k \in 1 .. n : s[k] \in S
  PROVE  /\ SubSeq(s, 1, n) \in Seq(S)
         /\ Len(SubSeq(s, 1, n)) = n
         /\ \A k \in 1 .. n : SubSeq(s, 1, n)[k] = s[k]
  <1>1. SubSeq(s, 1, n) \in Seq(S)
    BY SubSeqProperties
  <1>2. Len(SubSeq(s, 1, n)) = IF 1 <= n THEN n - 1 + 1 ELSE 0
    BY SubSeqProperties
  <1>3. \A k \in 1 .. n : SubSeq(s, 1, n)[k] = s[k]
    OBVIOUS
  <1> QED
    BY <1>1, <1>2, <1>3

(* What is below the top has no slots left. *)
Spent(b, n) ==
  /\ b \in Seq(Frames) /\ Len(b) = n - 1
  /\ \A k \in 1 .. Len(b) : b[k].rest = {} /\ (k > 1 => b[k].cleanup)

LEMMA BelowTop ==
  ASSUME NEW s, Shape(s), s # <<>>
  PROVE  Spent(SubSeq(s, 1, Len(s) - 1), Len(s)) /\ Len(s) \in Nat \ {0}
  <1> DEFINE n == Len(s) - 1
  <1>1. n \in Nat /\ \A k \in 1 .. n : s[k] \in Frames
    BY DEF Shape
  <1>2. \A k \in 1 .. n : s[k].rest = {} /\ (k > 1 => s[k].cleanup)
    BY <1>1 DEF Shape
  <1>3. n = Len(s) - 1
    OBVIOUS
  <1> HIDE DEF n
  <1>4. /\ SubSeq(s, 1, n) \in Seq(Frames)
        /\ Len(SubSeq(s, 1, n)) = n
        /\ \A k \in 1 .. n : SubSeq(s, 1, n)[k] = s[k]
    BY <1>1, Prefix
  <1> QED
    BY <1>1, <1>2, <1>3, <1>4 DEF Spent, Shape

LEMMA ReplaceTop ==
  ASSUME NEW s, Shape(s), s # <<>>, NEW f \in Frames, f.panicking => f.rest = {},
         f.cleanup = s[Len(s)].cleanup
  PROVE  LET t == Append(SubSeq(s, 1, Len(s) - 1), f)
         IN  Shape(t) /\ t # <<>> /\ RestOf(t) = f.rest
  <1> DEFINE b == SubSeq(s, 1, Len(s) - 1)
             t == Append(b, f)
  <1>1. Spent(b, Len(s)) /\ Len(s) \in Nat \ {0}
    BY BelowTop
  <1>2. Len(s) > 1 => f.cleanup
    BY <1>1 DEF Shape
  <1> HIDE DEF b
  <1>4. t \in Seq(Frames) /\ Len(t) = Len(b) + 1 /\ t[Len(t)] = f
        /\ \A k \in 1 .. Len(b) : t[k] = b[k]
    BY <1>1 DEF Spent
  <1>5. Shape(t) /\ t # <<>>
    BY <1>1, <1>2, <1>4 DEF Shape, Spent
  <1>6. RestOf(t) = f.rest
    BY <1>4, <1>5, RestIsTop
  <1> QED
    BY <1>5, <1>6 DEF b

LEMMA PanicTop ==
  ASSUME NEW s, Shape(s), s # <<>>, NEW g \in Frames, NEW f \in Frames,
         g.rest = {}, g.cleanup = s[Len(s)].cleanup, ~f.panicking, f.cleanup
  PROVE  LET t == SubSeq(s, 1, Len(s) - 1) \o <<g, f>>
         IN  Shape(t) /\ t # <<>> /\ RestOf(t) = f.rest
  <1> DEFINE b == SubSeq(s, 1, Len(s) - 1)
             t == b \o <<g, f>>
  <1>1. Spent(b, Len(s)) /\ Len(s) \in Nat \ {0}
    BY BelowTop
  <1>2. Len(s) > 1 => g.cleanup
    BY <1>1 DEF Shape
  <1> HIDE DEF b
  <1>4. t \in Seq(Frames) /\ Len(t) = Len(b) + 2 /\ t[Len(b) + 1] = g /\ t[Len(t)] = f
        /\ \A k \in 1 .. Len(b) : t[k] = b[k]
    BY <1>1 DEF Spent
  <1>5. Shape(t) /\ t # <<>>
    BY <1>1, <1>2, <1>4 DEF Shape, Spent
  <1>6. RestOf(t) = f.rest
    BY <1>4, <1>5, RestIsTop
  <1> QED
    BY <1>5, <1>6 DEF b

LEMMA PopTop ==
  ASSUME NEW s, Shape(s), s # <<>>
  PROVE  LET t == SubSeq(s, 1, Len(s) - 1)
         IN  Shape(t) /\ RestOf(t) = {} /\ (s[Len(s)].cleanup \/ t = <<>>)
  <1> DEFINE b == SubSeq(s, 1, Len(s) - 1)
  <1>1. Spent(b, Len(s)) /\ Len(s) \in Nat \ {0}
    BY BelowTop
  <1>2. Len(s) > 1 => s[Len(s)].cleanup
    BY <1>1 DEF Shape
  <1>3. Len(s) > 1 \/ Len(s) = 1
    BY RestIsTop
  <1> HIDE DEF b
  <1>4. Shape(b) /\ RestOf(b) = {}
    BY <1>1 DEF Shape, RestOf, Spent
  <1>5. Len(s) = 1 => b = <<>>
    BY <1>1 DEF Spent
  <1> QED
    BY <1>2, <1>3, <1>4, <1>5 DEF b

LEMMA NewFrame ==
  ASSUME NEW P \in SUBSET Slots, NEW c \in BOOLEAN
  PROVE  /\ Frame(P, c) \in Frames
         /\ Frame(P, c).rest = P
         /\ ~Frame(P, c).panicking
         /\ Frame(P, c).cleanup = c
  BY DEF Frame, Frames

LEMMA FirstFrame ==
  ASSUME NEW P \in SUBSET Slots, NEW c \in BOOLEAN
  PROVE  Shape(<<Frame(P, c)>>) /\ RestOf(<<Frame(P, c)>>) = P
  <1> DEFINE f == Frame(P, c)
  <1>1. f \in Frames /\ f.rest = P /\ ~f.panicking
    BY NewFrame
  <1> HIDE DEF f
  <1>2. Shape(<<f>>) /\ <<f>> # <<>> /\ Len(<<f>>) = 1 /\ <<f>>[1] = f
    BY <1>1 DEF Shape
  <1>3. RestOf(<<f>>) = P
    BY <1>1, <1>2, RestIsTop
  <1> QED
    BY <1>2, <1>3 DEF f

-----------------------------------------------------------------------------
(* The inductive invariant.                                                *)

TypeInv ==
  /\ dense \in BOOLEAN /\ owner \in {"array", "iter", "gone"}
  /\ header \in SUBSET Slots /\ bits \in SUBSET Slots /\ remaining \in SUBSET Slots
  /\ front \in 0 .. Cap /\ back \in 0 .. Cap
  /\ mem \in SUBSET Slots /\ taken \in SUBSET Slots
  /\ drops \in [Slots -> Nat]
  /\ call \in {"none", "drop", "drop_panicked", "clear", "clear_panicked", "clone"}
  /\ Shape(stack)
  /\ guard \in SUBSET Slots

(* When a walk can be on the stack, who owns the block meanwhile, and what *)
(* a call has already done.                                                *)
Phases ==
  /\ call \in {"none", "clone", "drop_panicked", "clear_panicked"} => stack = <<>>
  /\ call \in {"drop", "drop_panicked"} => owner # "gone"
  /\ call \in {"clear", "clear_panicked"} => owner = "array" /\ header = {}

(* A packed array's live slots are a prefix; a packed iterator's cursor    *)
(* counts as many bits as it has ranks to take; a gapped iterator keeps    *)
(* its two maps together.                                                  *)
Cursor ==
  /\ owner = "array" /\ dense => \E n \in 0 .. Cap : header = 0 .. n - 1
  /\ owner = "iter" => IF dense THEN front <= back /\ Cardinality(bits) = back - front
                        ELSE bits = remaining

(* Outside a drop the owner answers for the initialised slots, in a walk   *)
(* the innermost frame does.                                               *)
Owned ==
  IF call \in {"drop", "drop_panicked"} \/ owner = "gone" THEN {}
  ELSE IF owner = "array" THEN header ELSE Untaken

Accounts ==
  /\ mem = RestOf(stack) \cup Owned
  /\ guard = cmem
  /\ \A p \in mem : drops[p] = 0 /\ p \notin taken
  /\ DroppedOnce

IInv == TypeInv /\ Phases /\ Cursor /\ Accounts

LEMMA BlockBits ==
  ASSUME NEW S \in SUBSET Slots
  PROVE  /\ Cardinality(S) \in 0 .. Cap
         /\ S # {} => Lowest(S) \in S /\ Highest(S) \in S /\ Cardinality(S) # 0
         /\ \A p \in S : Cardinality(S \ {p}) = Cardinality(S) - 1
  <1>1. IsFiniteSet(Slots) /\ Cardinality(Slots) = Cap
    BY CapAssumption, FS_Interval DEF Slots
  <1>2. IsFiniteSet(S) /\ Cardinality(S) <= Cap
    BY <1>1, FS_Subset
  <1>3. IsBitmap(S)
    BY <1>2 DEF IsBitmap, Slots
  <1>4. Cardinality(S) \in Nat /\ (S # {} => Cardinality(S) # 0)
    BY <1>2, FS_CardinalityType, FS_EmptySet
  <1>5. \A p \in S : Cardinality(S \ {p}) = Cardinality(S) - 1
    BY <1>2, FS_RemoveElement
  <1> QED
    BY <1>2, <1>3, <1>4, <1>5, CapAssumption, LowestMember, HighestMember

(* An initialised slot whose element is dropped or moved out leaves the    *)
(* other accounts as they were.                                            *)
LEMMA DropOne ==
  ASSUME IInv, NEW p \in mem, Destroy(p)
  PROVE  /\ mem' \in SUBSET Slots /\ mem' = mem \ {p} /\ taken' \in SUBSET Slots
         /\ drops' \in [Slots -> Nat]
         /\ \A q \in mem' : drops'[q] = 0 /\ q \notin taken'
         /\ DroppedOnce'
  BY DEF IInv, TypeInv, Accounts, Destroy, DroppedOnce

LEMMA TakeOne ==
  ASSUME IInv, NEW p \in mem,
         mem' = mem \ {p}, taken' = taken \cup {p}, drops' = drops
  PROVE  /\ mem' \in SUBSET Slots /\ taken' \in SUBSET Slots
         /\ drops' \in [Slots -> Nat]
         /\ \A q \in mem' : drops'[q] = 0 /\ q \notin taken'
         /\ DroppedOnce'
  BY DEF IInv, TypeInv, Accounts, DroppedOnce

-----------------------------------------------------------------------------
LEMMA Initial == Init => IInv
  <1> SUFFICES ASSUME Init PROVE IInv
    OBVIOUS
  <1>1. header \in SUBSET Slots /\ (dense => \E n \in 0 .. Cap : header = 0 .. n - 1)
    BY CapAssumption DEF Init, Slots
  <1>2. TypeInv
    BY <1>1, CapAssumption, EmptyStack DEF Init, TypeInv
  <1>3. Phases /\ Cursor
    BY <1>1 DEF Init, Phases, Cursor
  <1>4. Accounts
    <2>1. mem = RestOf(stack) \cup Owned
      BY EmptyStack DEF Init, Owned
    <2>2. \A p \in Slots : drops[p] = 0 /\ p \notin taken
      BY DEF Init
    <2>3. guard = cmem /\ mem \in SUBSET Slots
      BY <1>2 DEF Init, TypeInv
    <2> QED
      BY <2>1, <2>2, <2>3 DEF Accounts, DroppedOnce
  <1> QED
    BY <1>2, <1>3, <1>4 DEF IInv

(* The actions that start and end calls.                                   *)
LEMMA CallSteps ==
  ASSUME IInv,
         \/ \E cleanup \in BOOLEAN : DropArray(cleanup) \/ DropIter(cleanup)
         \/ Clear \/ EndDrop \/ EndClear \/ StartClone
  PROVE  IInv'
  <1> USE DEF IInv
  <1>1. CASE \E cleanup \in BOOLEAN : DropArray(cleanup) \/ DropIter(cleanup)
    <2>1. PICK cleanup \in BOOLEAN : DropArray(cleanup) \/ DropIter(cleanup)
      BY <1>1
    <2>2. /\ Idle /\ call' = "drop" /\ owner # "gone"
          /\ stack' = <<Frame(Owned, cleanup)>>
          /\ UNCHANGED <<source, copy, aborted>>
      BY <2>1 DEF DropArray, DropIter, Idle, Owned
    <2>3. Owned \in SUBSET Slots /\ mem = Owned
      BY <2>2, EmptyStack DEF Idle, TypeInv, Phases, Accounts
    <2>4. Shape(stack') /\ RestOf(stack') = Owned
      BY <2>2, <2>3, FirstFrame
    <2>5. TypeInv' /\ Phases' /\ Cursor'
      BY <2>2, <2>4 DEF TypeInv, Phases, Cursor, source, copy
    <2>6. Accounts'
      BY <2>2, <2>3, <2>4 DEF Accounts, Owned, DroppedOnce, source, copy
    <2> QED
      BY <2>5, <2>6
  <1>2. CASE Clear
    <2>1. Shape(stack') /\ RestOf(stack') = header /\ stack = <<>>
      BY <1>2, FirstFrame DEF Clear, Idle, TypeInv, Phases
    <2>2. TypeInv' /\ Phases' /\ Cursor'
      BY <1>2, <2>1 DEF Clear, TypeInv, Phases, Cursor, copy
    <2>3. Accounts'
      BY <1>2, <2>1, EmptyStack DEF Clear, Idle, Accounts, Owned, DroppedOnce, copy
    <2> QED
      BY <2>2, <2>3
  <1>3. CASE EndDrop
    <2>1. TypeInv' /\ Phases' /\ Cursor'
      BY <1>3 DEF EndDrop, TypeInv, Phases, Cursor, copy
    <2>2. Accounts'
      BY <1>3 DEF EndDrop, Accounts, Owned, DroppedOnce, copy
    <2> QED
      BY <2>1, <2>2
  <1>4. CASE EndClear
    <2>1. TypeInv' /\ Phases' /\ Cursor'
      BY <1>4 DEF EndClear, TypeInv, Phases, Cursor, source, copy
    <2>2. Accounts'
      BY <1>4 DEF EndClear, Accounts, Owned, DroppedOnce, source, copy, Untaken
    <2> QED
      BY <2>1, <2>2
  <1>5. CASE StartClone
    <2>1. TypeInv' /\ Phases' /\ Cursor'
      BY <1>5 DEF StartClone, Idle, TypeInv, Phases, Cursor, source
    <2>2. Accounts'
      BY <1>5 DEF StartClone, Idle, Accounts, Owned, DroppedOnce, source, Untaken
    <2> QED
      BY <2>1, <2>2
  <1> QED
    BY <1>1, <1>2, <1>3, <1>4, <1>5

(* The consuming iterator.                                                 *)
LEMMA DrawSteps ==
  ASSUME IInv, IntoIter \/ TakeFront \/ TakeBack
  PROVE  IInv'
  <1> USE DEF IInv
  <1>1. CASE IntoIter
    <2>1. /\ stack = <<>> /\ owner = "array" /\ call = "none" /\ mem = header
          /\ Cardinality(header) \in 0 .. Cap
          /\ dense => \E n \in 0 .. Cap : header = 0 .. n - 1 /\ Cardinality(header) = n
      <3>1. \A n \in 0 .. Cap : Cardinality(0 .. n - 1) = n
        BY CapAssumption, FS_Interval
      <3> QED
        BY <1>1, <3>1, EmptyStack, BlockBits
           DEF IntoIter, Idle, Phases, Cursor, TypeInv, Accounts, Owned
    <2>2. TypeInv' /\ Phases'
      BY <1>1, <2>1, CapAssumption DEF IntoIter, TypeInv, Phases, copy
    <2>4. Cursor'
      BY <1>1, <2>1 DEF IntoIter, Cursor
    <2>3. mem' = RestOf(stack') \cup Owned'
      BY <1>1, <2>1, EmptyStack DEF IntoIter, Owned, Untaken
    <2> QED
      BY <1>1, <2>2, <2>3, <2>4 DEF IntoIter, Accounts, DroppedOnce, copy
  <1>2. ASSUME TakeFront \/ TakeBack PROVE IInv'
    <2>1. /\ stack = <<>> /\ owner = "iter" /\ call = "none" /\ mem = Untaken
          /\ bits \in SUBSET Slots /\ bits # {}
          /\ Lowest(bits) \in bits /\ Highest(bits) \in bits
          /\ Cardinality(bits) \in 0 .. Cap /\ Cardinality(bits) # 0
          /\ \A p \in bits : Cardinality(bits \ {p}) = Cardinality(bits) - 1
      BY <1>2, EmptyStack, BlockBits
         DEF TakeFront, TakeBack, Idle, Phases, TypeInv, Accounts, Owned
    <2>2. PICK b \in bits, p \in mem :
            /\ bits' = bits \ {b}
            /\ mem' = mem \ {p} /\ taken' = taken \cup {p}
            /\ \/ dense /\ p = front /\ front' = front + 1 /\ UNCHANGED <<back, remaining>>
               \/ dense /\ p = back - 1 /\ back' = back - 1 /\ UNCHANGED <<front, remaining>>
               \/ ~dense /\ p = b /\ remaining' = remaining \ {b} /\ UNCHANGED <<front, back>>
      <3>1. CASE dense
        <4>1. front < back /\ front \in Int /\ back \in Int /\ mem = front .. back - 1
          BY <2>1, <3>1 DEF Cursor, TypeInv, Untaken
        <4>2. front \in mem /\ back - 1 \in mem
          BY <4>1
        <4> QED
          BY <1>2, <2>1, <3>1, <4>2 DEF TakeFront, TakeBack
      <3>2. CASE ~dense
        <4>1. bits = remaining /\ mem = bits
          BY <2>1, <3>2 DEF Cursor, Untaken
        <4> QED
          BY <1>2, <2>1, <3>2, <4>1 DEF TakeFront, TakeBack, Take
      <3> QED
        BY <3>1, <3>2
    <2>3. UNCHANGED <<dense, owner, header, freed, drops, call, stack, copy, aborted>>
      BY <1>2 DEF TakeFront, TakeBack, Take
    <2>4. /\ mem' \in SUBSET Slots /\ taken' \in SUBSET Slots
          /\ drops' \in [Slots -> Nat]
          /\ \A q \in mem' : drops'[q] = 0 /\ q \notin taken'
          /\ DroppedOnce'
      BY <2>2, <2>3, TakeOne
    <2>5. Cardinality(bits') = Cardinality(bits) - 1 /\ bits' \in SUBSET Slots
      BY <2>1, <2>2
    <2>6. /\ front' \in 0 .. Cap /\ back' \in 0 .. Cap /\ remaining' \in SUBSET Slots
          /\ IF dense THEN front' <= back' /\ Cardinality(bits') = back' - front'
                      ELSE bits' = remaining'
          /\ mem' = Untaken'
      <3>1. CASE dense
        <4>1. /\ front \in 0 .. Cap /\ back \in 0 .. Cap /\ front < back
              /\ mem = front .. back - 1 /\ Cardinality(bits) = back - front
          BY <2>1, <3>1 DEF Cursor, TypeInv, Untaken
        <4>2. mem' = front' .. back' - 1 /\ front' \in 0 .. Cap /\ back' \in 0 .. Cap
              /\ front' <= back' /\ Cardinality(bits') = back' - front'
          BY <2>2, <2>5, <3>1, <4>1, CapAssumption
        <4> QED
          BY <2>2, <2>3, <3>1, <4>2 DEF Untaken, TypeInv
      <3>2. CASE ~dense
        BY <2>1, <2>2, <2>3, <3>2 DEF Cursor, Untaken, TypeInv
      <3> QED
        BY <3>1, <3>2
    <2>7. TypeInv' /\ Phases' /\ Cursor'
      BY <2>1, <2>3, <2>4, <2>5, <2>6 DEF TypeInv, Phases, Cursor, copy
    <2>8. mem' = RestOf(stack') \cup Owned'
      BY <2>1, <2>3, <2>6, EmptyStack DEF Owned
    <2> QED
      BY <2>3, <2>4, <2>7, <2>8 DEF Accounts, copy
  <1> QED
    BY <1>1, <1>2

(* The walk: a destructor that returns or panics, a frame that returns or  *)
(* unwinds.                                                                *)
LEMMA DestroySteps ==
  ASSUME IInv, DestructorReturns \/ DestructorPanics
  PROVE  IInv'
  <1> USE DEF IInv
  <1> DEFINE p == Lowest(Top.rest)
             rest == Top.rest \ {p}
  <1>1. /\ stack # <<>> /\ Shape(stack) /\ Top \in Frames /\ ~Top.panicking
        /\ RestOf(stack) = Top.rest /\ Top.rest # {}
    BY RestIsTop DEF DestructorReturns, DestructorPanics, Walking, TypeInv, Top
  <1>2. p \in Top.rest /\ rest \in SUBSET Slots
    BY <1>1, BlockBits DEF Frames
  <1>3. /\ call \in {"drop", "clear"} /\ Owned = {} /\ mem = Top.rest
    BY <1>1 DEF Accounts, Owned, Phases, TypeInv
  <1>4. Destroy(p)
    BY DEF DestructorReturns, DestructorPanics
  <1>5. /\ mem' \in SUBSET Slots /\ mem' = rest /\ taken' \in SUBSET Slots
        /\ drops' \in [Slots -> Nat]
        /\ \A q \in mem' : drops'[q] = 0 /\ q \notin taken'
        /\ DroppedOnce'
    <2> HIDE DEF p
    <2> QED
      BY <1>2, <1>3, <1>4, DropOne
  <1>6. Shape(stack') /\ RestOf(stack') = rest /\ stack' # <<>>
    <2>1. CASE DestructorReturns
      <3> DEFINE f == [Top EXCEPT !.rest = rest]
      <3>1. /\ f \in Frames /\ f.rest = rest /\ ~f.panicking /\ f.cleanup = Top.cleanup
            /\ stack' = Append(SubSeq(stack, 1, Len(stack) - 1), f)
        BY <1>1, <1>2, <2>1 DEF DestructorReturns, Frames, Below
      <3> HIDE DEF f, rest
      <3> QED
        BY <1>1, <3>1, ReplaceTop DEF Top
    <2>2. CASE DestructorPanics
      <3> DEFINE g == [rest |-> {}, cleanup |-> Top.cleanup, panicking |-> TRUE]
                 f == Frame(rest, TRUE)
      <3>1. /\ g \in Frames /\ g.rest = {} /\ g.cleanup = Top.cleanup
            /\ f \in Frames /\ f.rest = rest /\ ~f.panicking /\ f.cleanup
        BY <1>1, <1>2, NewFrame DEF Frames
      <3>2. stack' = SubSeq(stack, 1, Len(stack) - 1) \o <<g, f>>
        BY <2>2 DEF DestructorPanics, Below
      <3> HIDE DEF g, f, rest
      <3> QED
        BY <1>1, <3>1, <3>2, PanicTop DEF Top
    <2> QED
      BY <2>1, <2>2
  <1>7. UNCHANGED <<dense, owner, header, bits, remaining, front, back, call, copy>>
    BY <1>4 DEF Destroy
  <1> HIDE DEF p, rest
  <1>8. TypeInv' /\ Phases' /\ Cursor'
    BY <1>3, <1>5, <1>6, <1>7 DEF TypeInv, Phases, Cursor, copy
  <1>9. Owned' = Owned
    BY <1>7 DEF Owned, Untaken
  <1> QED
    BY <1>3, <1>5, <1>6, <1>7, <1>8, <1>9 DEF Accounts, copy

(* A frame that is done.                                                   *)
LEMMA ReturnSteps ==
  ASSUME IInv, WalkReturns \/ WalkUnwinds
  PROVE  IInv'
  <1> USE DEF IInv
  <1>1. /\ stack # <<>> /\ Shape(stack) /\ Top \in Frames
        /\ RestOf(stack) = Top.rest /\ Top.rest = {}
    <2>1. stack # <<>> /\ Shape(stack) /\ Len(stack) \in Nat \ {0}
          /\ Top \in Frames /\ RestOf(stack) = Top.rest
      BY RestIsTop DEF WalkReturns, WalkUnwinds, Walking, TypeInv, Top
    <2>2. Top.panicking => Top.rest = {}
      BY <2>1 DEF Shape, Top
    <2> QED
      BY <2>1, <2>2 DEF WalkReturns, WalkUnwinds, Walking
  <1>2. call \in {"drop", "clear"} /\ Owned = {} /\ mem = {}
    BY <1>1 DEF Accounts, Owned, Phases, TypeInv
  <1>3. Shape(Below) /\ RestOf(Below) = {} /\ (Top.cleanup \/ Below = <<>>)
    BY <1>1, PopTop DEF Below, Top
  <1>4. \/ stack' = Below /\ call' = call
        \/ stack' = stack /\ call' = call
        \/ /\ stack' = <<>>
           /\ call' = IF call = "drop" THEN "drop_panicked" ELSE "clear_panicked"
    BY <1>3 DEF WalkReturns, WalkUnwinds
  <1>5. UNCHANGED <<source, copy>>
    BY DEF WalkReturns, WalkUnwinds
  <1>6. Shape(stack') /\ RestOf(stack') = {}
    BY <1>1, <1>3, <1>4, EmptyStack
  <1>7. TypeInv' /\ Phases' /\ Cursor'
    BY <1>2, <1>4, <1>5, <1>6 DEF TypeInv, Phases, Cursor, source, copy
  <1>8. Owned' = {}
    BY <1>2, <1>4, <1>5 DEF Owned, Phases, Untaken, source
  <1> QED
    BY <1>2, <1>5, <1>6, <1>7, <1>8 DEF Accounts, DroppedOnce, source, copy

(* The copy is filled and undone without touching the source.              *)
LEMMA CloneSteps ==
  ASSUME IInv, FillNext \/ FillDone \/ GuardDrops
  PROVE  IInv'
  <1> USE DEF IInv
  <1>1. guard' \in SUBSET Slots /\ guard' = cmem'
    <2>1. CASE FillNext
      <3>1. header \ cmem \in SUBSET Slots /\ header \ cmem # {}
        BY <2>1 DEF FillNext, TypeInv
      <3>2. Lowest(header \ cmem) \in Slots
        BY <3>1, BlockBits
      <3> QED
        BY <2>1, <3>2 DEF FillNext, TypeInv, Accounts
    <2>2. CASE FillDone
      BY <2>2 DEF FillDone, TypeInv, Accounts
    <2>3. CASE GuardDrops
      BY <2>3 DEF GuardDrops, TypeInv, Accounts
    <2> QED
      BY <2>1, <2>2, <2>3
  <1>2. UNCHANGED <<source, stack>> /\ call = "clone" /\ call' \in {"clone", "none"}
    BY DEF FillNext, FillDone, GuardDrops
  <1>3. TypeInv' /\ Phases' /\ Cursor'
    BY <1>1, <1>2 DEF TypeInv, Phases, Cursor, source
  <1>4. mem' = RestOf(stack') \cup Owned'
    BY <1>2 DEF Accounts, Owned, Untaken, source
  <1> QED
    BY <1>1, <1>2, <1>3, <1>4 DEF Accounts, DroppedOnce, source

LEMMA Invariance == Spec => []IInv
  <1>1. IInv /\ [Next]_vars => IInv'
    <2> SUFFICES ASSUME IInv, [Next]_vars PROVE IInv'
      OBVIOUS
    <2>1. CASE \E cleanup \in BOOLEAN : DropArray(cleanup) \/ DropIter(cleanup)
      BY <2>1, CallSteps
    <2>2. CASE Clear \/ EndDrop \/ EndClear \/ StartClone
      BY <2>2, CallSteps
    <2>3. CASE IntoIter \/ TakeFront \/ TakeBack
      BY <2>3, DrawSteps
    <2>4. CASE DestructorReturns \/ DestructorPanics
      BY <2>4, DestroySteps
    <2>5. CASE WalkReturns \/ WalkUnwinds
      BY <2>5, ReturnSteps
    <2>6. CASE FillNext \/ FillDone \/ GuardDrops
      BY <2>6, CloneSteps
    <2>7. CASE UNCHANGED vars
      BY <2>7 DEF IInv, TypeInv, Phases, Cursor, Accounts, Owned, Untaken, DroppedOnce,
                  vars, source, copy
    <2> QED
      BY <2>1, <2>2, <2>3, <2>4, <2>5, <2>6, <2>7 DEF Next, Run
  <1> QED
    BY <1>1, Initial, PTL DEF Spec

-----------------------------------------------------------------------------
(* After any number of moves, destructors, clones and caught panics, each  *)
(* initialised slot is answered for by exactly one of header, iterator and *)
(* walk, and the clone's fill guard knows exactly what it has to undo      *)
(* (drop_live_elems, clear, IntoIter::drop, FillGuard).                    *)
THEOREM SlotsAnswered == Spec => []EverySlotAnswered
  <1>1. IInv => EverySlotAnswered
    <2> SUFFICES ASSUME IInv PROVE EverySlotAnswered
      OBVIOUS
    <2>1. mem = Answered /\ AllGuarded = RestOf(stack)
      BY DEF IInv, Accounts, Answered, Owned, AllGuarded, RestOf, Guarded
    <2>2. \A j, k \in 1 .. Len(stack) : j # k => Guarded(j) \cap Guarded(k) = {}
      <3>1. \A k \in 1 .. Len(stack) : k < Len(stack) => stack[k].rest = {}
        BY DEF IInv, TypeInv, Shape
      <3>2. Len(stack) \in Nat
        BY DEF IInv, TypeInv, Shape
      <3> QED
        BY <3>1, <3>2 DEF Guarded
    <2> QED
      BY <2>1, <2>2 DEF EverySlotAnswered, IInv, Phases, Accounts
  <1> QED
    BY <1>1, Invariance, PTL

(* No destructor runs twice, nor for an element that was moved out,        *)
(* whatever panics and whatever the process survives.                      *)
THEOREM DropsOnce == Spec => []DroppedOnce
  <1>1. IInv => DroppedOnce
    BY DEF IInv, Accounts
  <1> QED
    BY <1>1, Invariance, PTL

-----------------------------------------------------------------------------
(* Sequences that come out of iterators.                                   *)

LEMMA ArityFacts == N \in Nat \ {0} /\ ByteCount \in Nat /\ N <= ByteCount /\ Index \subseteq Nat
  BY ArityAssumption DEF Index

LEMMA PrefixByMembers ==
  ASSUME NEW S, NEW p \in Seq(S), NEW T, NEW q \in Seq(T), Len(p) <= Len(q),
         \A k \in 1 .. Len(p) : p[k] = q[k]
  PROVE  /\ Len(p) <= Len(q)
         /\ SubSeq(p, 1, Len(p)) = SubSeq(q, 1, Len(p))
  <1>1. Len(p) \in Nat /\ Len(q) \in Nat
    BY LenProperties
  <1> DEFINE n == Len(p)
  <1>2. SubSeq(p, 1, n) = [k \in 1 .. n |-> p[k]]
    BY <1>1
  <1>3. SubSeq(q, 1, n) = [k \in 1 .. n |-> q[k]]
    BY <1>1
  <1> QED
    BY <1>2, <1>3

LEMMA Appended ==
  ASSUME NEW S, NEW p \in Seq(S), NEW e \in S
  PROVE  /\ Append(p, e) \in Seq(S)
         /\ Len(p) \in Nat
         /\ Len(Append(p, e)) = Len(p) + 1
         /\ \A k \in 1 .. Len(p) : Append(p, e)[k] = p[k]
         /\ Append(p, e)[Len(p) + 1] = e
  OBVIOUS

-----------------------------------------------------------------------------
(* Index ranges.                                                           *)

(* How many indices a range starts with. *)
Width == IF R!Beyond < start THEN 0 ELSE R!Beyond - start

RangeInv ==
  /\ form \in {"closed", "open"} /\ start \in Index /\ end \in Index
  /\ left \in Int /\ right \in Int /\ over \in BOOLEAN
  /\ fronts \in Seq(Nat) /\ backs \in Seq(Nat)
  /\ \A k \in 1 .. Len(fronts) : fronts[k] = start + k - 1
  /\ \A k \in 1 .. Len(backs) : backs[k] = R!Beyond - k
  /\ Len(fronts) + Len(backs) + R!Remaining = Width
  /\ form = "open" \/ ~over => left = start + Len(fronts) /\ right = end - Len(backs)
  /\ form = "closed" /\ ~over => left <= right

LEMMA WidthFacts ==
  ASSUME RangeInv
  PROVE  Width \in Nat /\ R!Beyond \in Nat /\ start \in Nat /\ end \in Nat /\ end < N
  BY ArityFacts DEF RangeInv, Width, R!Beyond, Index

LEMMA RangeInitial == R!Init => RangeInv
  <1> SUFFICES ASSUME R!Init PROVE RangeInv
    OBVIOUS
  <1>1. /\ fronts \in Seq(Nat) /\ backs \in Seq(Nat) /\ Len(fronts) = 0 /\ Len(backs) = 0
        /\ \A k \in 1 .. Len(fronts) : fronts[k] = start + k - 1
        /\ \A k \in 1 .. Len(backs) : backs[k] = R!Beyond - k
    BY DEF R!Init
  <1>2. /\ form \in {"closed", "open"} /\ start \in Index /\ end \in Index
        /\ start \in Nat /\ end \in Nat
    BY ArityFacts DEF R!Init, R!Index, Index
  <1>3. /\ left = start /\ right = end /\ over \in BOOLEAN
        /\ form = "closed" => (over <=> start > end)
    <2>1. CASE form = "closed"
      <3>1. left = start /\ right = end /\ over = (start > end)
        BY <2>1 DEF R!Init, R!ClosedNew
      <3>2. (start > end) \in BOOLEAN
        OBVIOUS
      <3>3. over \in BOOLEAN /\ (over <=> start > end)
        BY ONLY <3>1, <3>2, Zenon
      <3> QED
        BY <3>1, <3>3
    <2>2. CASE form = "open"
      BY <2>2 DEF R!Init, R!OpenNew
    <2> QED
      BY <1>2, <2>1, <2>2
  <1>4. R!Remaining = Width
    <2>1. CASE form = "closed"
      BY <1>2, <1>3, <2>1 DEF R!Remaining, R!ClosedLen, R!Beyond, Width
    <2>2. CASE form = "open"
      BY <1>2, <1>3, <2>2 DEF R!Remaining, R!OpenLen, R!Beyond, Width
    <2> QED
      BY <1>2, <2>1, <2>2
  <1>5. R!Remaining \in Nat
    BY <1>2, <1>4 DEF Width, R!Beyond
  <1> QED
    BY <1>1, <1>2, <1>3, <1>4, <1>5 DEF RangeInv

(* A cursor in the domain is the index it yields. *)
LEMMA CursorIsIndex ==
  ASSUME NEW c \in Index
  PROVE  R!TryFromUsize(c) = c
  BY ArityFacts DEF R!TryFromUsize, R!TryNew, Index

(* A draw that yields the next index at its end and leaves one less. *)
Draws(e) ==
  /\ UNCHANGED <<form, start, end>>
  /\ left' \in Int /\ right' \in Int /\ over' \in BOOLEAN
  /\ IF e = "front"
       THEN fronts' = Append(fronts, start + Len(fronts)) /\ UNCHANGED backs
       ELSE backs' = Append(backs, R!Beyond - (Len(backs) + 1)) /\ UNCHANGED fronts
  /\ R!Remaining' = R!Remaining - 1
  /\ form = "open" \/ ~over' =>
       IF e = "front" THEN left' = left + 1 /\ right' = right
                      ELSE right' = right - 1 /\ left' = left
  /\ form = "closed" /\ ~over' => ~over /\ left' <= right'
  /\ Len(backs) < R!Beyond

LEMMA DrawKeepsInv ==
  ASSUME RangeInv, NEW e \in R!EndsOf, Draws(e)
  PROVE  RangeInv'
  <1>1. /\ fronts \in Seq(Nat) /\ backs \in Seq(Nat)
        /\ Len(fronts) \in Nat /\ Len(backs) \in Nat
    BY LenProperties DEF RangeInv
  <1>2. /\ start \in Nat /\ end \in Nat /\ R!Beyond \in Nat /\ Width \in Nat
        /\ left \in Int /\ right \in Int
    BY WidthFacts DEF RangeInv
  <1>3. Width' = Width /\ R!Beyond' = R!Beyond
    BY DEF Draws, Width, R!Beyond
  <1>4. R!Remaining \in Int /\ Len(fronts) + Len(backs) + R!Remaining = Width
    BY <1>1, <1>2 DEF RangeInv, R!Remaining, R!ClosedLen, R!OpenLen
  <1>7. form' = form /\ start' = start /\ end' = end
    BY DEF Draws
  <1>8. form' = "open" \/ ~over' =>
          /\ left = start + Len(fronts) /\ right = end - Len(backs)
          /\ IF e = "front" THEN left' = left + 1 /\ right' = right
                            ELSE right' = right - 1 /\ left' = left
    <2>1. form' = "open" \/ ~over' => form = "open" \/ ~over
      BY <1>7 DEF Draws, RangeInv
    <2>2. form = "open" \/ ~over => left = start + Len(fronts) /\ right = end - Len(backs)
      BY DEF RangeInv
    <2>3. form' = "open" \/ ~over' =>
            IF e = "front" THEN left' = left + 1 /\ right' = right
                           ELSE right' = right - 1 /\ left' = left
      BY <1>7 DEF Draws
    <2> QED
      BY <2>1, <2>2, <2>3
  <1>5. CASE e = "front"
    <2> DEFINE c == start + Len(fronts)
    <2>1. c \in Nat
      BY <1>1, <1>2
    <2>2. fronts' = Append(fronts, c) /\ backs' = backs
      BY <1>5 DEF Draws
    <2>3. /\ fronts' \in Seq(Nat) /\ Len(fronts') = Len(fronts) + 1
          /\ \A k \in 1 .. Len(fronts) : fronts'[k] = fronts[k]
          /\ fronts'[Len(fronts) + 1] = c
      BY <1>1, <2>1, <2>2, Appended
    <2>4. \A k \in 1 .. Len(fronts') : fronts'[k] = start' + k - 1
      <3>1. \A k \in 1 .. Len(fronts) : fronts'[k] = start + k - 1
        BY <2>3 DEF RangeInv
      <3>2. \A k \in 1 .. Len(fronts) + 1 : k \in 1 .. Len(fronts) \/ k = Len(fronts) + 1
        BY <1>1
      <3>3. fronts'[Len(fronts) + 1] = start + (Len(fronts) + 1) - 1
        BY <1>1, <1>2, <2>3
      <3> QED
        BY <1>7, <2>3, <3>1, <3>2, <3>3
    <2>5. \A k \in 1 .. Len(backs') : backs'[k] = R!Beyond' - k
      BY <1>3, <2>2 DEF RangeInv
    <2>6. Len(fronts') + Len(backs') + R!Remaining' = Width'
      BY <1>1, <1>3, <1>4, <2>2, <2>3 DEF Draws
    <2>7. form' = "open" \/ ~over' => left' = start' + Len(fronts') /\ right' = end' - Len(backs')
      <3>1. Len(fronts') = Len(fronts) + 1 /\ Len(backs') = Len(backs)
        BY <2>2, <2>3
      <3>2. ASSUME form' = "open" \/ ~over'
            PROVE  left' = start' + Len(fronts') /\ right' = end' - Len(backs')
        <4>1. left = start + Len(fronts) /\ right = end - Len(backs)
          BY <1>8, <3>2
        <4>2. left' = left + 1 /\ right' = right
          BY <1>5, <1>8, <3>2
        <4>3. left' = start + (Len(fronts) + 1) /\ right' = end - Len(backs)
          BY <1>1, <1>2, <4>1, <4>2
        <4> QED
          BY <1>7, <3>1, <4>3
      <3> QED
        BY <3>2
    <2> HIDE DEF c
    <2> QED
      BY <2>2, <2>3, <2>4, <2>5, <2>6, <2>7 DEF RangeInv, Draws
  <1>6. CASE e # "front"
    <2> DEFINE c == R!Beyond - (Len(backs) + 1)
    <2>1. c \in Nat
      BY <1>1, <1>2 DEF Draws
    <2>2. backs' = Append(backs, c) /\ fronts' = fronts
      BY <1>6 DEF Draws
    <2>3. /\ backs' \in Seq(Nat) /\ Len(backs') = Len(backs) + 1
          /\ \A k \in 1 .. Len(backs) : backs'[k] = backs[k]
          /\ backs'[Len(backs) + 1] = c
      BY <1>1, <2>1, <2>2, Appended
    <2>4. \A k \in 1 .. Len(backs') : backs'[k] = R!Beyond' - k
      <3>1. \A k \in 1 .. Len(backs) : backs'[k] = R!Beyond - k
        BY <2>3 DEF RangeInv
      <3>2. \A k \in 1 .. Len(backs) + 1 : k \in 1 .. Len(backs) \/ k = Len(backs) + 1
        BY <1>1
      <3> QED
        BY <1>3, <2>3, <3>1, <3>2
    <2>5. \A k \in 1 .. Len(fronts') : fronts'[k] = start' + k - 1
      BY <2>2 DEF RangeInv, Draws
    <2>6. Len(fronts') + Len(backs') + R!Remaining' = Width'
      BY <1>1, <1>3, <1>4, <2>2, <2>3 DEF Draws
    <2>7. form' = "open" \/ ~over' => left' = start' + Len(fronts') /\ right' = end' - Len(backs')
      <3>1. Len(fronts') = Len(fronts) /\ Len(backs') = Len(backs) + 1
        BY <2>2, <2>3
      <3>2. ASSUME form' = "open" \/ ~over'
            PROVE  left' = start' + Len(fronts') /\ right' = end' - Len(backs')
        <4>1. left = start + Len(fronts) /\ right = end - Len(backs)
          BY <1>8, <3>2
        <4>2. left' = left /\ right' = right - 1
          BY <1>6, <1>8, <3>2
        <4>3. left' = start + Len(fronts) /\ right' = end - (Len(backs) + 1)
          BY <1>1, <1>2, <4>1, <4>2
        <4> QED
          BY <1>7, <3>1, <4>3
      <3> QED
        BY <3>2
    <2> HIDE DEF c
    <2> QED
      BY <2>2, <2>3, <2>4, <2>5, <2>6, <2>7 DEF RangeInv, Draws
  <1> QED
    BY <1>5, <1>6

LEMMA ClosedDraws ==
  ASSUME RangeInv, NEW e \in R!EndsOf, R!DrawClosed(e), UNCHANGED R!given
  PROVE  Draws(e)
  <1>1. /\ form = "closed" /\ ~over /\ left \in Nat /\ right \in Nat
        /\ left = start + Len(fronts) /\ right = end - Len(backs) /\ left <= right
        /\ start \in Nat /\ end \in Nat /\ end < N
        /\ Len(fronts) \in Nat /\ Len(backs) \in Nat /\ N \in Nat
    <2>1. Len(fronts) \in Nat /\ Len(backs) \in Nat
      BY LenProperties DEF RangeInv
    <2> QED
      BY <2>1, WidthFacts, ArityFacts DEF R!DrawClosed, R!ClosedStep, RangeInv
  <1>2. R!TryFromUsize(left) = left /\ R!TryFromUsize(right) = right
    BY <1>1, CursorIsIndex DEF Index
  <1>3. UNCHANGED <<form, start, end>> /\ R!Beyond = end + 1
    BY <1>1 DEF R!given, R!Beyond
  <1>4. /\ left' \in Int /\ right' \in Int /\ over' \in BOOLEAN
        /\ over' => left = right
        /\ ~over' => IF e = "front" THEN left' = left + 1 /\ right' = right
                                    ELSE right' = right - 1 /\ left' = left
        /\ ~over' => left' <= right'
    <2>1. CASE left = right /\ over' = TRUE /\ UNCHANGED <<left, right>>
      <3>1. over' /\ over' \in BOOLEAN
        BY ONLY <2>1, Zenon
      <3> QED
        BY <1>1, <2>1, <3>1
    <2>2. CASE left # right /\ e = "front" /\ left' = left + 1 /\ UNCHANGED <<right, over>>
      <3>1. ~over' /\ over' \in BOOLEAN
        BY <1>1, <2>2, Zenon DEF RangeInv
      <3>2. left' = left + 1 /\ right' = right /\ e = "front"
        BY <2>2
      <3>3. left + 1 <= right /\ left + 1 \in Int /\ right \in Int
        BY <1>1, <2>2
      <3> QED
        BY <3>1, <3>2, <3>3
    <2>3. CASE left # right /\ e # "front" /\ right' = right - 1 /\ UNCHANGED <<left, over>>
      <3>1. ~over' /\ over' \in BOOLEAN
        BY <1>1, <2>3, Zenon DEF RangeInv
      <3>2. left' = left /\ right' = right - 1 /\ e # "front"
        BY <2>3
      <3>3. left <= right - 1 /\ right - 1 \in Int /\ left \in Int
        BY <1>1, <2>3
      <3> QED
        BY <3>1, <3>2, <3>3
    <2> QED
      BY <2>1, <2>2, <2>3 DEF R!DrawClosed, R!ClosedStep
  <1>5. R!Remaining' = R!Remaining - 1
    <2>1. /\ R!Remaining = right - left + 1
          /\ R!Remaining' = IF over' THEN 0 ELSE right' - left' + 1
      BY <1>1, <1>3 DEF R!Remaining, R!ClosedLen
    <2>2. CASE over'
      BY <1>1, <1>4, <2>1, <2>2
    <2>3. CASE ~over'
      <3>1. R!Remaining' = right' - left' + 1
        BY <2>1, <2>3
      <3>2. right \in Int /\ left \in Int
        BY <1>1
      <3>3. CASE e = "front"
        <4>1. left' = left + 1 /\ right' = right
          BY <1>4, <2>3, <3>3
        <4> QED
          BY <2>1, <3>1, <3>2, <4>1
      <3>4. CASE e # "front"
        <4>1. right' = right - 1 /\ left' = left
          BY <1>4, <2>3, <3>4
        <4> QED
          BY <2>1, <3>1, <3>2, <4>1
      <3> QED
        BY <3>3, <3>4
    <2> QED
      BY <2>2, <2>3
  <1>6. IF e = "front"
          THEN fronts' = Append(fronts, start + Len(fronts)) /\ UNCHANGED backs
          ELSE backs' = Append(backs, R!Beyond - (Len(backs) + 1)) /\ UNCHANGED fronts
    <2>1. end + 1 - (Len(backs) + 1) = right
      BY <1>1
    <2> QED
      BY <1>1, <1>2, <1>3, <2>1 DEF R!DrawClosed, R!Yield, R!ClosedAt
  <1> QED
    BY <1>1, <1>3, <1>4, <1>5, <1>6 DEF Draws

LEMMA OpenDraws ==
  ASSUME RangeInv, NEW e \in R!EndsOf, R!DrawOpen(e), UNCHANGED R!given
  PROVE  Draws(e)
  <1>1. /\ form = "open" /\ left \in Nat /\ right \in Nat /\ over \in BOOLEAN
        /\ left = start + Len(fronts) /\ right = end - Len(backs) /\ left < right
        /\ start \in Nat /\ end \in Nat /\ end < N
        /\ Len(fronts) \in Nat /\ Len(backs) \in Nat /\ N \in Nat
    <2>1. Len(fronts) \in Nat /\ Len(backs) \in Nat
      BY LenProperties DEF RangeInv
    <2> QED
      BY <2>1, WidthFacts, ArityFacts DEF R!DrawOpen, R!OpenStep, RangeInv
  <1>2. R!TryFromUsize(left) = left /\ R!TryFromUsize(right - 1) = right - 1
    BY <1>1, CursorIsIndex DEF Index
  <1>3. UNCHANGED <<form, start, end>> /\ R!Beyond = end
    BY <1>1 DEF R!given, R!Beyond
  <1>4. /\ IF e = "front" THEN left' = left + 1 /\ right' = right
                          ELSE right' = right - 1 /\ left' = left
        /\ over' = over
    BY <1>1 DEF R!DrawOpen, R!OpenStep
  <1>5. R!Remaining' = R!Remaining - 1
    BY <1>1, <1>3, <1>4 DEF R!Remaining, R!OpenLen
  <1>6. IF e = "front"
          THEN fronts' = Append(fronts, start + Len(fronts)) /\ UNCHANGED backs
          ELSE backs' = Append(backs, R!Beyond - (Len(backs) + 1)) /\ UNCHANGED fronts
    <2>1. end - (Len(backs) + 1) = right - 1
      BY <1>1
    <2> QED
      BY <1>1, <1>2, <1>3, <2>1 DEF R!DrawOpen, R!Yield, R!OpenAt
  <1> QED
    BY <1>1, <1>3, <1>4, <1>5, <1>6 DEF Draws

LEMMA RangeIsExact ==
  ASSUME RangeInv
  PROVE  R!RangeExact
  <1>1. /\ fronts \in Seq(Nat) /\ backs \in Seq(Nat)
        /\ Len(fronts) \in Nat /\ Len(backs) \in Nat
    BY LenProperties DEF RangeInv
  <1>2. R!Beyond \in Nat /\ Width \in Nat /\ start \in Nat
    BY WidthFacts
  <1>3. R!Remaining \in Nat /\ Len(fronts) + Len(backs) + R!Remaining = Width
    <2>1. R!Remaining \in Nat
      BY DEF RangeInv, R!Remaining, R!ClosedLen, R!OpenLen
    <2> QED
      BY <2>1 DEF RangeInv
  <1>4. R!Span = [k \in 1 .. Width |-> start + k - 1]
    BY DEF R!Span, Width
  <1>5. /\ R!Span \in Seq(Nat) /\ Len(R!Span) = Width
        /\ \A k \in 1 .. Width : R!Span[k] = start + k - 1
    BY <1>2, <1>4
  <1>6. R!Reverse(R!Span) = [k \in 1 .. Width |-> R!Span[(Width - k) + 1]]
    BY <1>5 DEF R!Reverse
  <1>7. \A k \in 1 .. Width : /\ (Width - k) + 1 \in 1 .. Width
                              /\ R!Span[(Width - k) + 1] \in Nat
                              /\ R!Span[(Width - k) + 1] = R!Beyond - k
    BY <1>2, <1>5 DEF Width
  <1>8. /\ R!Reverse(R!Span) \in Seq(Nat) /\ Len(R!Reverse(R!Span)) = Width
        /\ \A k \in 1 .. Width : R!Reverse(R!Span)[k] = R!Beyond - k
    BY <1>2, <1>6, <1>7
  <1>9. R!IsPrefix(fronts, R!Span)
    <2>1. Len(fronts) <= Len(R!Span) /\ \A k \in 1 .. Len(fronts) : fronts[k] = R!Span[k]
      <3>1. \A k \in 1 .. Len(fronts) : fronts[k] = start + k - 1
        BY DEF RangeInv
      <3>2. Len(fronts) <= Width
        BY <1>1, <1>2, <1>3
      <3>3. \A k \in 1 .. Len(fronts) : k \in 1 .. Width
        BY <1>1, <1>2, <3>2
      <3> QED
        BY <1>5, <3>1, <3>2, <3>3
    <2> QED
      BY <1>1, <1>5, <2>1, PrefixByMembers DEF R!IsPrefix
  <1>10. R!IsPrefix(backs, R!Reverse(R!Span))
    <2> DEFINE q == R!Reverse(R!Span)
    <2>1. Len(backs) <= Len(q) /\ \A k \in 1 .. Len(backs) : backs[k] = q[k]
      <3>1. \A k \in 1 .. Len(backs) : backs[k] = R!Beyond - k
        BY DEF RangeInv
      <3>2. Len(backs) <= Width
        BY <1>1, <1>2, <1>3
      <3>3. \A k \in 1 .. Len(backs) : k \in 1 .. Width
        BY <1>1, <1>2, <3>2
      <3> QED
        BY <1>8, <3>1, <3>2, <3>3
    <2>2. q \in Seq(Nat)
      BY <1>8
    <2> HIDE DEF q
    <2>3. R!IsPrefix(backs, q)
      BY <1>1, <2>1, <2>2, PrefixByMembers DEF R!IsPrefix
    <2> QED
      BY <2>3 DEF q
  <1> QED
    BY <1>3, <1>5, <1>9, <1>10 DEF R!RangeExact

(* For any two bounds and any mixture of draws at the two ends, both forms *)
(* of an index range (range.rs) yield each index between the bounds once,  *)
(* in order at either end, `len` counts what is left, and no cursor that   *)
(* is turned into an index unchecked lies outside the domain.              *)
THEOREM RangesYieldEachOnce == R!Spec => []RangeExact
  <1>1. RangeInv /\ [R!Next]_(R!vars) => RangeInv'
    <2> SUFFICES ASSUME RangeInv, [R!Next]_(R!vars) PROVE RangeInv'
      OBVIOUS
    <2>1. CASE UNCHANGED R!vars
      BY <2>1 DEF R!vars, R!given, R!range, RangeInv, Width, R!Beyond, R!Remaining,
                  R!ClosedLen, R!OpenLen
    <2>2. ASSUME NEW e \in R!EndsOf, R!DrawClosed(e) \/ R!DrawOpen(e), UNCHANGED R!given
          PROVE  RangeInv'
      BY <2>2, ClosedDraws, OpenDraws, DrawKeepsInv
    <2> QED
      BY <2>1, <2>2 DEF R!Next
  <1> QED
    BY <1>1, RangeInitial, RangeIsExact, PTL DEF R!Spec, RangeExact

-----------------------------------------------------------------------------
(* The fixed array, a map while its owning iterator or `map` consumes it.  *)

(* The indices whose slots have not been handed on. *)
Rest == IF mode = "held" THEN Index ELSE elems.from .. elems.to - 1

(* What an index stands for: its slot, or what `map` has put in its place. *)
View == [i \in Index |-> IF i \in Rest THEN slots[i] ELSE built[i]]

FixedTypes ==
  /\ slots \in [Index -> Elem \cup {Absent}] /\ built \in [Index -> Elem \cup {Absent}]
  /\ mode \in {"held", "drain", "map"}
  /\ elems \in [from : 0 .. N, to : 0 .. N] /\ elems.from <= elems.to
  /\ lo \in Int /\ hi \in Int /\ done \in BOOLEAN
  /\ outside \in SUBSET Elem

(* The range and the element iterator stand at the same indices. *)
InStep ==
  /\ mode = "held" => elems.from = 0 /\ elems.to = N
  /\ IF done THEN elems.from = elems.to
             ELSE lo = elems.from /\ hi = elems.to - 1 /\ lo <= hi

(* `map` has built only what lies behind the range. *)
BuiltBehind == \A i \in Index : mode # "map" \/ i \in Rest => built[i] = Absent

Whole == \A e \in Elem : e \in outside \/ \E i \in Index : View[i] = e

FixedInv == FixedTypes /\ InStep /\ BuiltBehind /\ Whole

LEMMA ViewIsMap ==
  ASSUME FixedInv
  PROVE  /\ View = [i \in Index |-> IF F!Ahead(i) THEN slots[i] ELSE built[i]]
         /\ View \in [Index -> Elem \cup {Absent}]
         /\ \A i \in Index : i \in Rest <=> F!Ahead(i)
  <1>1. ASSUME NEW i \in Index
        PROVE  i \in Rest <=> F!Ahead(i)
    <2>1. i \in Nat /\ N \in Nat /\ elems.from \in Nat /\ elems.to \in Nat
      BY ArityFacts DEF FixedInv, FixedTypes
    <2>2. CASE mode = "held"
      BY <2>2 DEF Rest, F!Ahead
    <2>3. CASE mode # "held" /\ done
      BY <2>1, <2>3 DEF FixedInv, InStep, Rest, F!Ahead
    <2>4. CASE mode # "held" /\ ~done
      BY <2>1, <2>4 DEF FixedInv, InStep, Rest, F!Ahead
    <2> QED
      BY <2>2, <2>3, <2>4
  <1>2. View \in [Index -> Elem \cup {Absent}]
    BY DEF FixedInv, FixedTypes, View
  <1> QED
    BY <1>1, <1>2 DEF View
(* What a step of the map does to what a caller sees. *)
Puts(i, e) ==
  /\ e \in outside
  /\ View' = [View EXCEPT ![i] = e]
  /\ outside' = (outside \ {e}) \cup ({View[i]} \ {Absent})

Gives(i) == View' = [View EXCEPT ![i] = Absent] /\ outside' = outside \cup ({View[i]} \ {Absent})

Clears ==
  /\ View' = [i \in Index |-> Absent]
  /\ outside' = outside \cup {View[i] : i \in {j \in Index : View[j] # Absent}}

Effect ==
  \/ \E i \in Index, e \in Elem : Puts(i, e)
  \/ \E i \in Index : Gives(i)
  \/ Clears
  \/ UNCHANGED <<View, outside>>

(* All of the invariant but who owns what. *)
Structure ==
  /\ slots \in [Index -> Elem \cup {Absent}] /\ built \in [Index -> Elem \cup {Absent}]
  /\ mode \in {"held", "drain", "map"}
  /\ elems \in [from : 0 .. N, to : 0 .. N] /\ elems.from <= elems.to
  /\ lo \in Int /\ hi \in Int /\ done \in BOOLEAN
  /\ InStep /\ BuiltBehind

LEMMA EffectKeepsOwners ==
  ASSUME FixedInv, Structure', Effect
  PROVE  FixedInv'
  <1>1. View \in [Index -> Elem \cup {Absent}] /\ outside \subseteq Elem /\ Whole
    BY ViewIsMap DEF FixedInv, FixedTypes
  <1>2. outside' \subseteq Elem /\ Whole'
    <2>1. ASSUME NEW i \in Index, NEW e \in Elem, Puts(i, e)
          PROVE  outside' \subseteq Elem /\ Whole'
      <3>1. outside' \subseteq Elem
        BY <1>1, <2>1 DEF Puts
      <3>2. View'[i] = e /\ \A j \in Index \ {i} : View'[j] = View[j]
        BY <1>1, <2>1 DEF Puts
      <3>3. ASSUME NEW x \in Elem PROVE x \in outside' \/ \E j \in Index : View'[j] = x
        <4>1. CASE x = e
          BY <3>2, <4>1
        <4>2. CASE x # e /\ x \in outside
          BY <2>1, <4>2 DEF Puts
        <4>3. CASE x # e /\ x \notin outside
          <5>1. PICK j \in Index : View[j] = x
            BY <1>1, <4>3 DEF Whole
          <5>2. CASE j = i
            BY <2>1, <5>1, <5>2, AbsentAssumption DEF Puts
          <5>3. CASE j # i
            BY <3>2, <5>1, <5>3
          <5> QED
            BY <5>2, <5>3
        <4> QED
          BY <4>1, <4>2, <4>3
      <3> QED
        BY <3>1, <3>3 DEF Whole
    <2>2. ASSUME NEW i \in Index, Gives(i)
          PROVE  outside' \subseteq Elem /\ Whole'
      <3>1. outside' \subseteq Elem
        BY <1>1, <2>2 DEF Gives
      <3>2. \A j \in Index \ {i} : View'[j] = View[j]
        BY <1>1, <2>2 DEF Gives
      <3>3. ASSUME NEW x \in Elem PROVE x \in outside' \/ \E j \in Index : View'[j] = x
        <4>1. CASE x \in outside
          BY <2>2, <4>1 DEF Gives
        <4>2. CASE x \notin outside
          <5>1. PICK j \in Index : View[j] = x
            BY <1>1, <4>2 DEF Whole
          <5>2. CASE j = i
            BY <2>2, <5>1, <5>2, AbsentAssumption DEF Gives
          <5>3. CASE j # i
            BY <3>2, <5>1, <5>3
          <5> QED
            BY <5>2, <5>3
        <4> QED
          BY <4>1, <4>2
      <3> QED
        BY <3>1, <3>3 DEF Whole
    <2>3. CASE Clears
      <3>1. outside' \subseteq Elem
        BY <1>1, <2>3 DEF Clears
      <3>2. ASSUME NEW x \in Elem PROVE x \in outside'
        <4>1. CASE x \in outside
          BY <2>3, <4>1 DEF Clears
        <4>2. CASE x \notin outside
          <5>1. PICK j \in Index : View[j] = x
            BY <1>1, <4>2 DEF Whole
          <5> QED
            BY <2>3, <5>1, AbsentAssumption DEF Clears
        <4> QED
          BY <4>1, <4>2
      <3> QED
        BY <3>1, <3>2 DEF Whole
    <2>4. CASE UNCHANGED <<View, outside>>
      BY <1>1, <2>4 DEF Whole
    <2> QED
      BY <2>1, <2>2, <2>3, <2>4 DEF Effect
  <1> QED
    BY <1>2 DEF FixedInv, FixedTypes, Structure

(* Without an iterator the slots are the map. *)
LEMMA HeldView ==
  ASSUME FixedInv, mode = "held"
  PROVE  /\ View = slots /\ Rest = Index
         /\ elems.from = 0 /\ elems.to = N /\ Index = elems.from .. elems.to - 1
         /\ lo = 0 /\ hi = N - 1 /\ ~done
         /\ \A i \in Index : built[i] = Absent
  <1>1. elems.from = 0 /\ elems.to = N /\ N \in Nat \ {0}
    BY ArityFacts DEF FixedInv, InStep
  <1>2. Rest = Index /\ slots \in [Index -> Elem \cup {Absent}]
    BY DEF Rest, FixedInv, FixedTypes
  <1>3. View = slots
    BY <1>2 DEF View
  <1> QED
    BY <1>1, <1>2, <1>3 DEF FixedInv, InStep, BuiltBehind, Index

LEMMA ReplaceEffect ==
  ASSUME FixedInv, NEW i \in Index, NEW v \in outside \cup {Absent},
         F!Replace(i, v)
  PROVE  Structure' /\ Effect
  <1>1. mode = "held" /\ mode' = "held" /\ slots' = [slots EXCEPT ![i] = v]
        /\ outside' = (outside \ {v}) \cup ({slots[i]} \ {Absent})
        /\ UNCHANGED <<elems, built, lo, hi, done>>
    BY DEF F!Replace, F!range, F!Owned
  <1>2. View = slots /\ slots \in [Index -> Elem \cup {Absent}] /\ outside \subseteq Elem
    BY <1>1, HeldView DEF FixedInv, FixedTypes
  <1>3. Rest' = Index /\ slots' \in [Index -> Elem \cup {Absent}]
    BY <1>1, <1>2 DEF Rest
  <1>4. View' = slots'
    BY <1>3 DEF View
  <1>5. Structure'
    BY <1>1, <1>3, HeldView DEF FixedInv, FixedTypes, Structure, InStep, BuiltBehind
  <1>6. CASE v \in outside
    BY <1>1, <1>2, <1>4, <1>5, <1>6 DEF Effect, Puts
  <1>7. CASE v = Absent
    <2>1. outside \ {v} = outside
      BY <1>2, <1>7, AbsentAssumption
    <2>2. Gives(i)
      BY <1>1, <1>2, <1>4, <1>7, <2>1 DEF Gives
    <2> QED
      BY <1>5, <2>2 DEF Effect
  <1> QED
    BY <1>6, <1>7

(* Into an iterator or `map`, with everything still to come. *)
LEMMA StartEffect ==
  ASSUME FixedInv, F!IntoIter \/ F!StartMap
  PROVE  Structure' /\ Effect
  <1>1. /\ mode = "held" /\ mode' \in {"drain", "map"}
        /\ UNCHANGED <<slots, outside, elems, built, lo, hi, done>>
    BY DEF F!IntoIter, F!StartMap, F!range
  <1>2. Rest' = Rest
    BY <1>1, HeldView DEF Rest
  <1>3. View' = View
    BY <1>1, <1>2 DEF View
  <1>4. InStep' /\ BuiltBehind'
    BY <1>1, HeldView DEF FixedInv, InStep, BuiltBehind
  <1> QED
    BY <1>1, <1>3, <1>4 DEF FixedInv, FixedTypes, Structure, Effect

(* The element drawn at an end is the one of the index drawn there. *)
LEMMA DrawAtEnd ==
  ASSUME FixedInv, mode # "held", mode' = mode, NEW e \in F!EndsOf,
         F!ClosedStep(e), F!DrawElem(e)
  PROVE  /\ F!ElemAt(e) \in Index /\ F!ElemAt(e) \in Rest
         /\ Rest' = Rest \ {F!ElemAt(e)}
         /\ elems' \in [from : 0 .. N, to : 0 .. N] /\ elems'.from <= elems'.to
         /\ lo' \in Int /\ hi' \in Int /\ done' \in BOOLEAN
         /\ InStep'
  <1>1. /\ elems \in [from : 0 .. N, to : 0 .. N] /\ elems.from < elems.to
        /\ N \in Nat /\ elems.from \in 0 .. N /\ elems.to \in 0 .. N
    BY ArityFacts DEF FixedInv, FixedTypes, F!DrawElem
  <1>2. /\ ~done /\ done \in BOOLEAN /\ lo = elems.from /\ hi = elems.to - 1
        /\ lo \in Int /\ hi \in Int
    BY DEF F!ClosedStep, FixedInv, FixedTypes, InStep
  <1>3. CASE e = "front"
    <2>1. F!ElemAt(e) = elems.from
      BY <1>3 DEF F!ElemAt
    <2>2. elems' = [elems EXCEPT !.from = elems.from + 1]
      BY <1>3 DEF F!DrawElem
    <2>3. /\ elems'.from = elems.from + 1 /\ elems'.to = elems.to
          /\ elems' \in [from : 0 .. N, to : 0 .. N]
      BY <1>1, <2>2
    <2>4. CASE lo = hi
      <3>1. done' = TRUE /\ lo' = lo /\ hi' = hi
        BY <2>4 DEF F!ClosedStep
      <3>2. done' /\ done' \in BOOLEAN
        BY ONLY <3>1, Zenon
      <3>3. elems'.from = elems'.to
        BY <1>1, <1>2, <2>3, <2>4
      <3>4. InStep'
        BY <1>1, <3>2, <3>3 DEF InStep
      <3> QED
        BY <1>1, <1>2, <2>1, <2>3, <3>1, <3>2, <3>4 DEF Rest, Index
    <2>5. CASE lo # hi
      <3>1. done' = done /\ lo' = lo + 1 /\ hi' = hi
        BY <1>3, <2>5 DEF F!ClosedStep
      <3>2. ~done' /\ done' \in BOOLEAN
        BY ONLY <1>2, <3>1, Zenon
      <3>3. lo' = elems'.from /\ hi' = elems'.to - 1 /\ lo' <= hi' /\ lo' \in Int /\ hi' \in Int
        BY <1>1, <1>2, <2>3, <2>5, <3>1
      <3>4. InStep'
        BY <3>2, <3>3 DEF InStep
      <3> QED
        BY <1>1, <1>2, <2>1, <2>3, <3>2, <3>3, <3>4 DEF Rest, Index
    <2> QED
      BY <2>4, <2>5
  <1>4. CASE e # "front"
    <2>1. F!ElemAt(e) = elems.to - 1
      BY <1>4 DEF F!ElemAt
    <2>2. elems' = [elems EXCEPT !.to = elems.to - 1]
      BY <1>4 DEF F!DrawElem
    <2>3. /\ elems'.to = elems.to - 1 /\ elems'.from = elems.from
          /\ elems' \in [from : 0 .. N, to : 0 .. N]
      BY <1>1, <2>2
    <2>4. CASE lo = hi
      <3>1. done' = TRUE /\ lo' = lo /\ hi' = hi
        BY <2>4 DEF F!ClosedStep
      <3>2. done' /\ done' \in BOOLEAN
        BY ONLY <3>1, Zenon
      <3>3. elems'.from = elems'.to
        BY <1>1, <1>2, <2>3, <2>4
      <3>4. InStep'
        BY <1>1, <3>2, <3>3 DEF InStep
      <3> QED
        BY <1>1, <1>2, <2>1, <2>3, <3>1, <3>2, <3>4 DEF Rest, Index
    <2>5. CASE lo # hi
      <3>1. done' = done /\ lo' = lo /\ hi' = hi - 1
        BY <1>4, <2>5 DEF F!ClosedStep
      <3>2. ~done' /\ done' \in BOOLEAN
        BY ONLY <1>2, <3>1, Zenon
      <3>3. lo' = elems'.from /\ hi' = elems'.to - 1 /\ lo' <= hi' /\ lo' \in Int /\ hi' \in Int
        BY <1>1, <1>2, <2>3, <2>5, <3>1
      <3>4. InStep'
        BY <3>2, <3>3 DEF InStep
      <3> QED
        BY <1>1, <1>2, <2>1, <2>3, <3>2, <3>3, <3>4 DEF Rest, Index
    <2> QED
      BY <2>4, <2>5
  <1> QED
    BY <1>3, <1>4

(* An index whose element has been handed on stands for what is built. *)
LEMMA HandedOn ==
  ASSUME FixedInv, NEW i \in Index, i \in Rest, Rest' = Rest \ {i}, slots' = slots,
         NEW v, built' = [built EXCEPT ![i] = v]
  PROVE  /\ View[i] = slots[i]
         /\ View' = [View EXCEPT ![i] = v]
  <1>1. /\ built \in [Index -> Elem \cup {Absent}]
        /\ View = [j \in Index |-> IF j \in Rest THEN slots[j] ELSE built[j]]
    BY DEF FixedInv, FixedTypes, View
  <1>2. View' = [j \in Index |-> IF j \in Rest' THEN slots[j] ELSE built'[j]]
    BY DEF View
  <1>3. \A j \in Index : View'[j] = IF j = i THEN v ELSE View[j]
    BY <1>1, <1>2
  <1> QED
    BY <1>1, <1>2, <1>3

LEMMA DrainEffect ==
  ASSUME FixedInv, NEW e \in F!EndsOf, F!DrainNext(e)
  PROVE  Structure' /\ Effect
  <1> DEFINE k == F!ElemAt(e)
  <1>1. /\ mode = "drain" /\ mode' = mode /\ slots' = slots /\ built' = built
        /\ outside' = outside \cup ({slots[k]} \ {Absent})
        /\ F!ClosedStep(e) /\ F!DrawElem(e)
    BY DEF F!DrainNext, F!Owned
  <1>2. /\ k \in Index /\ k \in Rest /\ Rest' = Rest \ {k}
        /\ elems' \in [from : 0 .. N, to : 0 .. N] /\ elems'.from <= elems'.to
        /\ lo' \in Int /\ hi' \in Int /\ done' \in BOOLEAN
        /\ InStep'
    BY <1>1, DrawAtEnd
  <1> HIDE DEF k
  <1>3. BuiltBehind'
    BY <1>1 DEF BuiltBehind, FixedInv
  <1>4. built' = [built EXCEPT ![k] = Absent]
    BY <1>1, <1>2 DEF FixedInv, FixedTypes, BuiltBehind
  <1>5. View[k] = slots[k] /\ View' = [View EXCEPT ![k] = Absent]
    BY <1>1, <1>2, <1>4, HandedOn
  <1>6. Gives(k)
    BY <1>1, <1>5 DEF Gives
  <1> QED
    BY <1>1, <1>2, <1>3, <1>6 DEF Structure, Effect, FixedInv, FixedTypes

LEMMA MapEffect ==
  ASSUME FixedInv, NEW keeps \in BOOLEAN, F!MapNext(keeps)
  PROVE  Structure' /\ Effect
  <1> DEFINE k == F!ElemAt("front")
  <1>1. /\ mode = "map" /\ mode' = mode /\ slots' = slots /\ k = elems.from
        /\ F!ClosedStep("front") /\ F!DrawElem("front") /\ "front" \in F!EndsOf
    BY DEF F!MapNext, F!ElemAt, F!EndsOf
  <1>2. /\ k \in Index /\ k \in Rest /\ Rest' = Rest \ {k}
        /\ elems' \in [from : 0 .. N, to : 0 .. N] /\ elems'.from <= elems'.to
        /\ lo' \in Int /\ hi' \in Int /\ done' \in BOOLEAN
        /\ InStep'
    BY <1>1, DrawAtEnd
  <1>3. /\ keeps => built' = [built EXCEPT ![k] = slots[k]] /\ outside' = outside
        /\ ~keeps => built' = built /\ outside' = outside \cup ({slots[k]} \ {Absent})
    BY <1>1 DEF F!MapNext, F!Owned
  <1> HIDE DEF k
  <1>4. /\ slots[k] \in Elem \cup {Absent} /\ built[k] = Absent
        /\ built \in [Index -> Elem \cup {Absent}]
    BY <1>2 DEF FixedInv, FixedTypes, BuiltBehind
  <1>5. BuiltBehind' /\ built' \in [Index -> Elem \cup {Absent}]
    BY <1>1, <1>2, <1>3, <1>4 DEF BuiltBehind, FixedInv
  <1>6. Structure'
    BY <1>1, <1>2, <1>5 DEF Structure, FixedInv, FixedTypes
  <1>7. CASE keeps
    <2>1. View[k] = slots[k] /\ View' = [View EXCEPT ![k] = slots[k]]
      BY <1>1, <1>2, <1>3, <1>7, HandedOn
    <2>2. View' = View
      BY <1>2, <2>1 DEF View
    <2> QED
      BY <1>3, <1>6, <1>7, <2>2 DEF Effect
  <1>8. CASE ~keeps
    <2>1. built' = [built EXCEPT ![k] = Absent]
      BY <1>2, <1>3, <1>4, <1>8
    <2>2. View[k] = slots[k] /\ View' = [View EXCEPT ![k] = Absent]
      BY <1>1, <1>2, <2>1, HandedOn
    <2>3. Gives(k)
      BY <1>3, <1>8, <2>2 DEF Gives
    <2> QED
      BY <1>2, <1>6, <2>3 DEF Effect
  <1> QED
    BY <1>7, <1>8

(* An array anew. *)
LEMMA AnewFacts ==
  ASSUME F!New
  PROVE  Structure' /\ View' = [i \in Index |-> Absent]
  <1>1. N \in Nat \ {0}
    BY ArityFacts
  <1>2. /\ slots' = [i \in Index |-> Absent] /\ built' = [i \in Index |-> Absent]
        /\ mode' = "held" /\ elems' = [from |-> 0, to |-> N]
        /\ lo' = 0 /\ hi' = N - 1 /\ done' = FALSE
    BY DEF F!New, F!AllAbsent, F!Index, Index
  <1>3. ~done' /\ done' \in BOOLEAN
    BY ONLY <1>2, Zenon
  <1>4. InStep'
    BY <1>1, <1>2, <1>3 DEF InStep
  <1>5. BuiltBehind'
    BY <1>2 DEF BuiltBehind
  <1>6. Rest' = Index
    BY <1>2 DEF Rest
  <1>7. View' = [i \in Index |-> Absent]
    BY <1>2, <1>6 DEF View
  <1> QED
    BY <1>1, <1>2, <1>3, <1>4, <1>5, <1>7 DEF Structure

LEMMA ViewIsMixed ==
  ASSUME FixedInv
  PROVE  \A i \in Index : View[i] = IF i \in Rest THEN slots[i] ELSE built[i]
  BY DEF View

(* An abandoned iterator drops the elements it has not yielded. *)
LEMMA AbandonEffect ==
  ASSUME FixedInv, F!DrainDrop
  PROVE  Structure' /\ Effect
  <1>1. /\ mode = "drain" /\ F!New
        /\ outside' = outside \cup ({slots[k] : k \in elems.from .. elems.to - 1} \ {Absent})
    BY DEF F!DrainDrop, F!Owned
  <1>2. Rest = elems.from .. elems.to - 1 /\ Rest \subseteq Index
    BY <1>1, ArityFacts DEF Rest, FixedInv, FixedTypes, Index
  <1>3. \A i \in Index : View[i] = IF i \in Rest THEN slots[i] ELSE Absent
    BY <1>1, ViewIsMixed DEF FixedInv, BuiltBehind
  <1>4. {slots[k] : k \in Rest} \ {Absent} = {View[i] : i \in {j \in Index : View[j] # Absent}}
    BY <1>2, <1>3
  <1> QED
    BY <1>1, <1>2, <1>4, AnewFacts DEF Effect, Clears

(* A closure that panics: everything in the array and in what is built of  *)
(* the new one is dropped, and that was all the caller did not have.       *)
LEMMA PanicEffect ==
  ASSUME FixedInv, F!MapPanics
  PROVE  Structure' /\ Effect
  <1>1. F!New /\ outside' = Elem
    BY DEF F!MapPanics
  <1>2. View \in [Index -> Elem \cup {Absent}] /\ outside \subseteq Elem /\ Whole
    BY ViewIsMap DEF FixedInv, FixedTypes
  <1>3. Elem = outside \cup {View[i] : i \in {j \in Index : View[j] # Absent}}
    BY <1>2, AbsentAssumption DEF Whole
  <1> QED
    BY <1>1, <1>3, AnewFacts DEF Effect, Clears

(* What `map` has built takes the place of the array. *)
LEMMA MapDoneEffect ==
  ASSUME FixedInv, F!MapDone
  PROVE  Structure' /\ Effect
  <1>1. /\ mode = "map" /\ elems.from = elems.to /\ UNCHANGED outside
        /\ slots' = built /\ built' = [i \in Index |-> Absent]
        /\ mode' = "held" /\ elems' = [from |-> 0, to |-> N]
        /\ lo' = 0 /\ hi' = N - 1 /\ done' = FALSE
    BY DEF F!MapDone, F!AllAbsent, F!Index, Index
  <1>2. N \in Nat \ {0}
    BY ArityFacts
  <1>3. ~done' /\ done' \in BOOLEAN
    BY ONLY <1>1, Zenon
  <1>4. InStep' /\ BuiltBehind'
    BY <1>1, <1>2, <1>3 DEF InStep, BuiltBehind
  <1>5. built \in [Index -> Elem \cup {Absent}] /\ elems.from \in Nat /\ elems.to \in Nat
    BY ArityFacts DEF FixedInv, FixedTypes
  <1>6. Rest = {}
    BY <1>1, <1>5 DEF Rest
  <1>7. View = [i \in Index |-> built[i]]
    BY <1>6 DEF View
  <1>8. View' = [i \in Index |-> slots'[i]]
    BY <1>1 DEF View, Rest
  <1>9. View' = View
    BY <1>1, <1>7, <1>8
  <1> QED
    BY <1>1, <1>2, <1>3, <1>4, <1>5, <1>9 DEF Structure, Effect

(* The index of the only child is one. *)
LEMMA OnlyChildIsIndex ==
  ASSUME FixedInv, Len(F!IterPresent) >= 1
  PROVE  F!IterPresent[1] \in Index
  <1> DEFINE P == F!Present
  <1>1. P \subseteq Index
    BY DEF F!Present, F!Index, Index
  <1>2. IsFiniteSet(Index) /\ Index \subseteq Nat
    BY ArityFacts, FS_Interval DEF Index
  <1>3. IsFiniteSet(P) /\ IsBitmap(P) /\ Cardinality(P) \in Nat
    BY <1>1, <1>2, FS_Subset, FS_CardinalityType DEF IsBitmap
  <1> HIDE DEF P
  <1>4. F!Cardinality(P) = Cardinality(P)
    BY DEF F!Cardinality, Cardinality
  <1>5. \A i : F!Rank(P, i) = Rank(P, i)
    BY DEF F!Rank, Rank, F!Cardinality, Cardinality
  <1>6. F!IterPresent = [k \in 1 .. Cardinality(P) |-> F!Select(P, k - 1)]
    BY <1>4 DEF F!IterPresent, P
  <1>7. Cardinality(P) >= 1
    BY <1>3, <1>6
  <1>8. F!IterPresent[1] = F!Select(P, 0)
    BY <1>3, <1>6, <1>7
  <1>9. Select(P, 0) \in P /\ Rank(P, Select(P, 0)) = 0
    BY <1>3, <1>7, SelectMember
  <1>10. F!Select(P, 0) = CHOOSE p \in P : F!Rank(P, p) = 0
    BY <1>5, <1>9 DEF F!Select
  <1>11. F!Select(P, 0) \in P
    BY <1>5, <1>9, <1>10
  <1> QED
    BY <1>1, <1>8, <1>11

LEMMA FixedInitial == F!Init => FixedInv /\ F!Map!Init
  <1> SUFFICES ASSUME F!Init PROVE FixedInv /\ F!Map!Init
    OBVIOUS
  <1>1. /\ slots = [i \in Index |-> Absent] /\ built = [i \in Index |-> Absent]
        /\ mode = "held" /\ elems = [from |-> 0, to |-> N]
        /\ lo = 0 /\ hi = N - 1 /\ done = FALSE /\ outside = Elem
    BY DEF F!Init, F!Full, F!AllAbsent, F!Index, Index
  <1>2. N \in Nat \ {0}
    BY ArityFacts
  <1>3. ~done /\ done \in BOOLEAN
    BY ONLY <1>1, Zenon
  <1>4. FixedTypes /\ InStep /\ BuiltBehind /\ Whole
    BY <1>1, <1>2, <1>3 DEF FixedTypes, InStep, BuiltBehind, Whole
  <1>5. F!Map!Init
    BY <1>1 DEF F!Map!Init, F!Ahead, F!Index, Index
  <1> QED
    BY <1>4, <1>5 DEF FixedInv

LEMMA FixedSteps ==
  ASSUME FixedInv, [F!Next]_(F!vars)
  PROVE  Structure' /\ Effect
  <1>1. ASSUME NEW i \in Index, NEW e \in Elem, F!Insert(i, e) PROVE Structure' /\ Effect
    BY <1>1, ReplaceEffect DEF F!Insert
  <1>2. ASSUME NEW i \in Index, F!Take(i) PROVE Structure' /\ Effect
    BY <1>2, ReplaceEffect DEF F!Take
  <1>3. CASE F!TakeOnlyChild
    BY <1>2, <1>3, OnlyChildIsIndex DEF F!TakeOnlyChild
  <1>4. CASE F!IntoIter \/ F!StartMap
    BY <1>4, StartEffect
  <1>5. CASE \E e \in F!EndsOf : F!DrainNext(e)
    BY <1>5, DrainEffect
  <1>6. CASE F!DrainDrop
    BY <1>6, AbandonEffect
  <1>7. CASE \E keeps \in BOOLEAN : F!MapNext(keeps)
    BY <1>7, MapEffect
  <1>8. CASE F!MapDone
    BY <1>8, MapDoneEffect
  <1>9. CASE F!MapPanics
    BY <1>9, PanicEffect
  <1>10. CASE UNCHANGED F!vars
    <2>1. UNCHANGED <<slots, outside, mode, elems, built, lo, hi, done>>
      BY <1>10 DEF F!vars, F!range
    <2> QED
      BY <2>1 DEF Structure, Effect, FixedInv, FixedTypes, InStep, BuiltBehind, View, Rest
  <1>11. F!Index = Index
    BY DEF F!Index, Index
  <1> QED
    BY <1>1, <1>2, <1>3, <1>4, <1>5, <1>6, <1>7, <1>8, <1>9, <1>10, <1>11 DEF F!Next

(* The view is the map that FixedArray refines. *)
AbstractMap == [i \in Index |-> IF F!Ahead(i) THEN slots[i] ELSE built[i]]

Agrees == View = AbstractMap

LEMMA EffectIsStep ==
  ASSUME FixedInv, Agrees, Agrees', Effect
  PROVE  [F!Map!Next]_(F!Map!vars)
  <1>1. F!Index = Index /\ View \in [Index -> Elem \cup {Absent}]
    BY ViewIsMap DEF F!Index, Index
  <1>2. AbstractMap = [i \in F!Index |-> IF F!Ahead(i) THEN slots[i] ELSE built[i]]
    BY <1>1 DEF AbstractMap
  <1>3. AbstractMap = View /\ AbstractMap' = View'
    BY DEF Agrees
  <1>4. ASSUME NEW i \in Index, NEW e \in Elem, Puts(i, e) PROVE F!Map!Insert(i, e)
    BY <1>1, <1>2, <1>3, <1>4 DEF Puts, F!Map!Insert, AbstractMap
  <1>5. ASSUME NEW i \in Index, Gives(i)
        PROVE  F!Map!Remove(i) \/ UNCHANGED F!Map!vars
    <2>1. CASE View[i] = Absent
      <3>1. View' = View /\ outside' = outside
        BY <1>1, <1>5, <2>1 DEF Gives
      <3> QED
        BY <1>1, <1>2, <1>3, <3>1 DEF F!Map!vars, AbstractMap
    <2>2. CASE View[i] # Absent
      <3>1. View' = [View EXCEPT ![i] = Absent] /\ outside' = outside \cup {View[i]}
        BY <1>5, <2>2 DEF Gives
      <3>2. i \in F!Map!Present
        BY <1>1, <1>2, <1>3, <2>2 DEF F!Map!Present, AbstractMap
      <3> QED
        BY <1>1, <1>2, <1>3, <3>1, <3>2 DEF F!Map!Remove, AbstractMap
    <2> QED
      BY <2>1, <2>2
  <1>6. CASE Clears
    <2>1. F!Map!Present = {j \in Index : View[j] # Absent}
      BY <1>1, <1>2, <1>3 DEF F!Map!Present, AbstractMap
    <2>2. F!Map!Clear
      BY <1>1, <1>2, <1>3, <1>6, <2>1 DEF Clears, F!Map!Clear, AbstractMap
    <2> QED
      BY <2>2 DEF F!Map!Next
  <1>7. CASE UNCHANGED <<View, outside>>
    BY <1>1, <1>2, <1>3, <1>7 DEF F!Map!vars, AbstractMap
  <1> QED
    BY <1>1, <1>4, <1>5, <1>6, <1>7 DEF Effect, F!Map!Next

(* The fixed array (fixed.rs) is a map from indices to owned elements      *)
(* through every operation: its owning iterator drawn from both ends and   *)
(* abandoned, and a `map` whose closure drops elements or panics, hand out *)
(* each element with the index it was stored under, once.                  *)
THEOREM FixedRefinement == F!Spec => RefinesMap
  <1>1. FixedInv => Agrees
    BY ViewIsMap DEF Agrees, AbstractMap
  <1>2. FixedInv /\ [F!Next]_(F!vars) => FixedInv' /\ Effect
    BY FixedSteps, EffectKeepsOwners
  <1>3. FixedInv /\ Agrees /\ Agrees' /\ Effect => [F!Map!Next]_(F!Map!vars)
    BY EffectIsStep
  <1> QED
    BY <1>1, <1>2, <1>3, FixedInitial, PTL DEF F!Spec, RefinesMap, F!RefinesMap, F!Map!Spec

-----------------------------------------------------------------------------
(* The borrowing iterators.                                                *)

(* The bits of S whose ranks lie in x .. z - 1, what a cursor drained from *)
(* both ends has left of S.                                                *)
Between(S, x, z) == {p \in S : x <= Rank(S, p) /\ Rank(S, p) < z}

LEMMA RankRises ==
  ASSUME NEW S, IsBitmap(S), NEW i \in Int, NEW j \in Int, i <= j
  PROVE  Rank(S, i) <= Rank(S, j)
  <1>1. {p \in S : p < i} \subseteq {p \in S : p < j}
    <2>1. \A p \in S : p \in Int
      BY DEF IsBitmap
    <2>2. \A p \in S : p < i => p < j
      BY <2>1
    <2> QED
      BY <2>2
  <1>2. IsFiniteSet({p \in S : p < j})
    BY FS_Subset DEF IsBitmap
  <1> QED
    BY <1>1, <1>2, FS_Subset DEF Rank

LEMMA RankStep ==
  ASSUME NEW S, IsBitmap(S), NEW i \in Int
  PROVE  Rank(S, i + 1) = Rank(S, i) + (IF i \in S THEN 1 ELSE 0)
  <1> DEFINE P == {p \in S : p < i}
  <1>1. IsFiniteSet(P) /\ i \notin P
    BY FS_Subset DEF IsBitmap
  <1>2. {p \in S : p < i + 1} = IF i \in S THEN P \cup {i} ELSE P
    <2>1. \A p \in S : p \in Int
      BY DEF IsBitmap
    <2>2. \A p \in S : p < i + 1 <=> p < i \/ p = i
      BY <2>1
    <2> QED
      BY <2>2
  <1>3. Cardinality(P) \in Nat /\ Cardinality(P \cup {i}) = Cardinality(P) + 1
    BY <1>1, FS_AddElement, FS_CardinalityType
  <1> QED
    BY <1>2, <1>3 DEF Rank

(* In 0 .. n - 1 a bit is its own rank. *)
LEMMA PrefixBits ==
  ASSUME NEW n \in Nat
  PROVE  /\ IsBitmap(0 .. n - 1) /\ Cardinality(0 .. n - 1) = n
         /\ \A i \in 0 .. n : Rank(0 .. n - 1, i) = i
         /\ \A r \in 0 .. n - 1 : Select(0 .. n - 1, r) = r
  <1> DEFINE S == 0 .. n - 1
  <1>1. IsBitmap(S) /\ Cardinality(S) = n
    BY FS_Interval DEF IsBitmap
  <1>2. Rank(S, 0) = 0
    <2>1. {p \in S : p < 0} = {}
      OBVIOUS
    <2> QED
      BY <2>1, FS_EmptySet DEF Rank
  <1>3. ASSUME NEW i \in 0 .. n PROVE Rank(S, i) = i
    <2>1. 0 .. i - 1 \subseteq S
      OBVIOUS
    <2>2. Rank(S, i) = Rank(S, 0) + (i - 0)
      BY <1>1, <2>1, RankSpan
    <2> QED
      BY <1>2, <2>2
  <1>4. ASSUME NEW r \in 0 .. n - 1 PROVE Select(S, r) = r
    <2>1. r \in S /\ Rank(S, r) = r
      BY <1>3
    <2> QED
      BY <1>1, <2>1, SelectOfRank
  <1> QED
    BY <1>1, <1>3, <1>4

(* The cursor's ends, and what is left when one is taken. *)
LEMMA BetweenEnds ==
  ASSUME NEW S, IsBitmap(S), NEW x \in Nat, NEW z \in Nat, z <= Cardinality(S)
  PROVE  /\ Between(S, x, z) = {} <=> z <= x
         /\ x < z => /\ A!Lowest(Between(S, x, z)) = Select(S, x)
                     /\ A!Highest(Between(S, x, z)) = Select(S, z - 1)
                     /\ Between(S, x, z) \ {Select(S, x)} = Between(S, x + 1, z)
                     /\ Between(S, x, z) \ {Select(S, z - 1)} = Between(S, x, z - 1)
  <1> DEFINE B == Between(S, x, z)
             p == Select(S, x)
             q == Select(S, z - 1)
  <1>1. Cardinality(S) \in Nat
    BY FS_CardinalityType DEF IsBitmap
  <1>2. \A s \in S : s \in Nat /\ Rank(S, s) \in Nat
    <2>1. \A s \in S : s \in Nat /\ s \in Int
      BY DEF IsBitmap
    <2> QED
      BY <2>1, RankType
  <1>3. z <= x => B = {}
    BY <1>2 DEF Between
  <1>4. ASSUME x < z
        PROVE  /\ p \in B /\ q \in B /\ Rank(S, p) = x /\ Rank(S, q) = z - 1
               /\ \A s \in B : /\ p <= s /\ s <= q
                               /\ s = p <=> Rank(S, s) = x
                               /\ s = q <=> Rank(S, s) = z - 1
    <2>1. p \in S /\ Rank(S, p) = x /\ q \in S /\ Rank(S, q) = z - 1
      BY <1>1, <1>4, SelectMember
    <2>2. p \in B /\ q \in B
      BY <1>4, <2>1 DEF Between
    <2>3. ASSUME NEW s \in B
          PROVE  /\ p <= s /\ s <= q
                 /\ s = p <=> Rank(S, s) = x
                 /\ s = q <=> Rank(S, s) = z - 1
      <3>1. s \in S /\ x <= Rank(S, s) /\ Rank(S, s) < z /\ Rank(S, s) \in Nat
        BY <1>2 DEF Between
      <3>2. /\ s < p <=> Rank(S, s) < Rank(S, p)
            /\ q < s <=> Rank(S, q) < Rank(S, s)
            /\ s = p <=> Rank(S, s) = Rank(S, p)
            /\ s = q <=> Rank(S, s) = Rank(S, q)
        BY <2>1, <3>1, RankOrders
      <3> QED
        BY <1>2, <2>1, <3>1, <3>2
    <2> QED
      BY <2>1, <2>2, <2>3
  <1>5. ASSUME x < z
        PROVE  /\ A!Lowest(B) = p /\ A!Highest(B) = q
               /\ B \ {p} = Between(S, x + 1, z) /\ B \ {q} = Between(S, x, z - 1)
    <2> HIDE DEF p, q
    <2>1. B # {} /\ \A s \in B : s \in Nat
      BY <1>2, <1>4, <1>5 DEF Between
    <2>2. A!Lowest(B) = CHOOSE s \in B : \A t \in B : s <= t
      BY <2>1 DEF A!Lowest
    <2>3. A!Lowest(B) \in B /\ \A t \in B : A!Lowest(B) <= t
      BY <1>4, <1>5, <2>2
    <2>4. A!Highest(B) = CHOOSE s \in B : \A t \in B : t <= s
      BY <2>1 DEF A!Highest
    <2>5. A!Highest(B) \in B /\ \A t \in B : t <= A!Highest(B)
      BY <1>4, <1>5, <2>4
    <2> HIDE DEF B
    <2>6. A!Lowest(B) = p /\ A!Highest(B) = q
      BY <1>4, <1>5, <2>1, <2>3, <2>5
    <2>7. \A s \in S : s \in B <=> x <= Rank(S, s) /\ Rank(S, s) < z
      BY DEF B, Between
    <2>8. B \subseteq S
      BY DEF B, Between
    <2>9. B \ {p} = Between(S, x + 1, z)
      BY <1>2, <1>4, <1>5, <2>7, <2>8 DEF Between
    <2>10. B \ {q} = Between(S, x, z - 1)
      BY <1>2, <1>4, <1>5, <2>7, <2>8 DEF Between
    <2> QED
      BY <2>6, <2>9, <2>10
  <1> QED
    BY <1>3, <1>4, <1>5

(* The iterators count and look up with the same operators. *)
LEMMA SameBitmaps ==
  /\ \A S : A!Cardinality(S) = Cardinality(S)
  /\ \A S, i : A!Rank(S, i) = Rank(S, i)
  <1>1. \A S : A!Cardinality(S) = Cardinality(S)
    BY DEF A!Cardinality, Cardinality
  <1> QED
    BY <1>1 DEF A!Rank, Rank

LEMMA SameSelect ==
  ASSUME NEW S, IsBitmap(S), NEW r \in 0 .. Cardinality(S) - 1
  PROVE  A!Select(S, r) = Select(S, r)
  <1>1. Select(S, r) \in S /\ Rank(S, Select(S, r)) = r
    BY SelectMember
  <1>2. A!Select(S, r) = CHOOSE p \in S : A!Rank(S, p) = r
    BY <1>1, SameBitmaps DEF A!Select
  <1>3. A!Select(S, r) \in S /\ Rank(S, A!Select(S, r)) = r
    BY <1>1, <1>2, SameBitmaps
  <1> QED
    BY <1>1, <1>3, RankOrders

(* The iterators by what they find elements with. *)
GappedKinds == {"gapped_present", "gapped_all", "gapped_present_mut", "gapped_all_mut"}
RankKinds   == {"packed_present", "packed_all"}
SliceKinds  == {"packed_present_mut", "packed_all_mut", "fixed_all"}
BitKinds    == GappedKinds \cup {"packed_present", "packed_present_mut"}

Total   == Cardinality(occ)
Covered == IF kind \in A!PresentKinds THEN occ ELSE Index
Size    == Cardinality(Covered)

(* The r-th pair of the iteration. *)
Stored(i) == IF i \in occ THEN Select(live, Rank(occ, i)) ELSE NoBit
PairAt(r) == <<Select(Covered, r), Stored(Select(Covered, r))>>

(* What is borrowed. *)
Borrowed ==
  /\ kind \in A!Kinds /\ occ \subseteq Index /\ live \subseteq Index
  /\ Cardinality(live) = Total
  /\ kind \in A!DenseKinds => live = 0 .. Total - 1
  /\ kind = "fixed_all" => occ = Index

(* What came out. *)
Lists ==
  /\ heads \in Seq(Int \X Int) /\ tails \in Seq(Int \X Int)
  /\ \A k \in 1 .. Len(heads) : heads[k] = PairAt(k - 1)
  /\ \A k \in 1 .. Len(tails) : tails[k] = PairAt(Size - k)
  /\ Len(heads) + Len(tails) <= Size

(* The elements still to come have the ranks First .. Past - 1. *)
First == IF kind \in A!PresentKinds THEN Len(heads) ELSE Rank(occ, Len(heads))
Past  == IF kind \in A!PresentKinds THEN Total - Len(tails) ELSE Rank(occ, N - Len(tails))

Cursors(x, z) ==
  /\ kind \in BitKinds => marks = Between(occ, x, z)
  /\ kind \in GappedKinds => liveBits = Between(live, x, z)
  /\ kind \in RankKinds => frontRank = x /\ backConsumed = Total - z
  /\ kind \in SliceKinds => slice = [from |-> x, to |-> z]

RangeAt ==
  /\ low \in Int /\ high \in Int /\ spent \in BOOLEAN
  /\ kind \notin A!PresentKinds =>
       IF spent THEN Len(heads) + Len(tails) = N
               ELSE low = Len(heads) /\ high = N - 1 - Len(tails) /\ low <= high

IterInv == Borrowed /\ Lists /\ Cursors(First, Past) /\ RangeAt

LEMMA BorrowedFacts ==
  ASSUME Borrowed
  PROVE  /\ N \in Nat \ {0} /\ IsBitmap(Index)
         /\ IsBitmap(occ) /\ IsBitmap(live) /\ IsBitmap(Covered)
         /\ Total \in Nat /\ Size \in Nat /\ Cardinality(Index) = N
         /\ Size = IF kind \in A!PresentKinds THEN Total ELSE N
         /\ \A r \in Index : Select(Index, r) = r
         /\ kind \in A!DenseKinds => \A r \in 0 .. Total - 1 : Select(live, r) = r
  <1>1. N \in Nat \ {0}
    BY ArityFacts
  <1>2. IsBitmap(Index) /\ Cardinality(Index) = N /\ \A r \in Index : Select(Index, r) = r
    BY <1>1, PrefixBits DEF Index
  <1>3. IsBitmap(occ) /\ IsBitmap(live)
    BY <1>2, FS_Subset DEF Borrowed, IsBitmap
  <1>4. Total \in Nat
    BY <1>3, FS_CardinalityType DEF Total, IsBitmap
  <1>5. kind \in A!DenseKinds => \A r \in 0 .. Total - 1 : Select(live, r) = r
    BY <1>4, PrefixBits DEF Borrowed
  <1>6. IsBitmap(Covered) /\ Size = IF kind \in A!PresentKinds THEN Total ELSE N
    BY <1>2, <1>3 DEF Covered, Size, Total
  <1> QED
    BY <1>1, <1>2, <1>3, <1>4, <1>5, <1>6

LEMMA CursorBounds ==
  ASSUME Borrowed, Lists
  PROVE  /\ Len(heads) \in Nat /\ Len(tails) \in Nat
         /\ First \in Nat /\ Past \in Nat /\ First <= Past /\ Past <= Total
  <1>1. Len(heads) \in Nat /\ Len(tails) \in Nat /\ Len(heads) + Len(tails) <= Size
    BY LenProperties DEF Lists
  <1>2. CASE kind \in A!PresentKinds
    BY <1>1, <1>2, BorrowedFacts DEF First, Past
  <1>3. CASE kind \notin A!PresentKinds
    <2>1. Len(heads) \in Int /\ N - Len(tails) \in Int /\ Len(heads) <= N - Len(tails)
      BY <1>1, <1>3, BorrowedFacts
    <2>2. Rank(occ, Len(heads)) <= Rank(occ, N - Len(tails))
      BY <2>1, RankRises, BorrowedFacts
    <2>3. /\ Rank(occ, Len(heads)) \in Nat /\ Rank(occ, N - Len(tails)) \in Nat
          /\ Rank(occ, N - Len(tails)) <= Total
      BY <2>1, RankType, BorrowedFacts DEF Total
    <2> QED
      BY <1>1, <1>3, <2>2, <2>3 DEF First, Past
  <1> QED
    BY <1>2, <1>3

(* A pair is of integers, and NoBit is the slot of an absent index. *)
LEMMA PairType ==
  ASSUME Borrowed, NEW r \in 0 .. Size - 1
  PROVE  PairAt(r) \in Int \X Int /\ Select(Covered, r) \in Covered
  <1>1. Select(Covered, r) \in Covered
    BY BorrowedFacts, SelectMember DEF Size
  <1>2. ASSUME NEW i \in Covered PROVE i \in Int /\ Stored(i) \in Int
    <2>1. i \in Int
      BY BorrowedFacts DEF IsBitmap
    <2>2. CASE i \in occ
      <3>1. Rank(occ, i) \in 0 .. Cardinality(live) - 1
        BY <2>2, BorrowedFacts, RankOfMember DEF Borrowed, Total
      <3>2. Select(live, Rank(occ, i)) \in live
        BY <3>1, BorrowedFacts, SelectMember
      <3> QED
        BY <2>1, <2>2, <3>2, BorrowedFacts DEF Stored, IsBitmap
    <2>3. CASE i \notin occ
      BY <2>1, <2>3 DEF Stored, NoBit
    <2> QED
      BY <2>2, <2>3
  <1> QED
    BY <1>1, <1>2 DEF PairAt

(* Where end e of x .. z - 1 is, and where it moves. *)
At(e, x, z) == IF e = "front" THEN x ELSE z - 1
Up(e, x)    == IF e = "front" THEN x + 1 ELSE x
Down(e, z)  == IF e = "front" THEN z ELSE z - 1

Resting == UNCHANGED <<kind, occ, live>>

(* The next pair comes out at end e. *)
LEMMA ListsGrow ==
  ASSUME Borrowed, Lists, Resting, NEW e \in A!EndsOf, NEW i, NEW slot,
         Len(heads) + Len(tails) < Size,
         <<i, slot>> = PairAt(At(e, Len(heads), Size - Len(tails))),
         A!Yield(e, i, slot)
  PROVE  /\ Lists'
         /\ Len(heads') = Up(e, Len(heads))
         /\ Size' - Len(tails') = Down(e, Size - Len(tails))
  <1>1. Len(heads) \in Nat /\ Len(tails) \in Nat /\ Size \in Nat
    BY CursorBounds, BorrowedFacts
  <1>2. Size' = Size /\ \A r : PairAt(r)' = PairAt(r)
    BY DEF Resting, Size, Covered, PairAt, Stored
  <1> DEFINE r == At(e, Len(heads), Size - Len(tails))
             p == <<i, slot>>
  <1>3. r \in 0 .. Size - 1
    BY <1>1 DEF At
  <1>4. p \in Int \X Int /\ p = PairAt(r)
    BY <1>3, PairType
  <1>5. CASE e = "front"
    <2>1. heads' = Append(heads, p) /\ tails' = tails /\ r = Len(heads)
      BY <1>5 DEF A!Yield, At
    <2> HIDE DEF p, r
    <2>2. /\ heads' \in Seq(Int \X Int) /\ Len(heads') = Len(heads) + 1
          /\ \A k \in 1 .. Len(heads) : heads'[k] = heads[k]
          /\ heads'[Len(heads) + 1] = p
      BY <1>4, <2>1, Appended DEF Lists
    <2>3. \A k \in 1 .. Len(heads) + 1 : k \in 1 .. Len(heads) \/ k = Len(heads) + 1
      BY <1>1
    <2>4. PairAt((Len(heads) + 1) - 1) = p
      BY <1>1, <1>4, <2>1
    <2>5. \A k \in 1 .. Len(heads') : heads'[k] = PairAt(k - 1)
      BY <2>2, <2>3, <2>4 DEF Lists
    <2>6. \A k \in 1 .. Len(heads') : heads'[k] = PairAt(k - 1)'
      BY <1>2, <2>5
    <2>7. \A k \in 1 .. Len(tails') : tails'[k] = PairAt(Size - k)'
      BY <1>2, <2>1 DEF Lists
    <2>8. tails' \in Seq(Int \X Int) /\ Len(heads') + Len(tails') <= Size'
      BY <1>1, <1>2, <2>1, <2>2 DEF Lists
    <2>9. Lists'
      BY <2>2, <2>6, <2>7, <2>8 DEF Lists
    <2>10. Len(heads') = Len(heads) + 1 /\ Len(tails') = Len(tails)
      BY <2>1, <2>2
    <2> QED
      BY <1>1, <1>2, <1>5, <2>9, <2>10 DEF Up, Down
  <1>6. CASE e # "front"
    <2>1. tails' = Append(tails, p) /\ heads' = heads /\ r = Size - Len(tails) - 1
      BY <1>6 DEF A!Yield, At
    <2> HIDE DEF p, r
    <2>2. /\ tails' \in Seq(Int \X Int) /\ Len(tails') = Len(tails) + 1
          /\ \A k \in 1 .. Len(tails) : tails'[k] = tails[k]
          /\ tails'[Len(tails) + 1] = p
      BY <1>4, <2>1, Appended DEF Lists
    <2>3. \A k \in 1 .. Len(tails) + 1 : k \in 1 .. Len(tails) \/ k = Len(tails) + 1
      BY <1>1
    <2>4. Size - (Len(tails) + 1) = r
      BY <1>1, <2>1
    <2>5. \A k \in 1 .. Len(tails') : tails'[k] = PairAt(Size - k)
      BY <1>4, <2>2, <2>3, <2>4 DEF Lists
    <2>6. \A k \in 1 .. Len(tails') : tails'[k] = PairAt(Size - k)'
      BY <1>2, <2>5
    <2>7. \A k \in 1 .. Len(heads') : heads'[k] = PairAt(k - 1)'
      BY <1>2, <2>1 DEF Lists
    <2>8. heads' \in Seq(Int \X Int) /\ Len(heads') + Len(tails') <= Size'
      BY <1>1, <1>2, <2>1, <2>2 DEF Lists
    <2>9. Lists'
      BY <2>2, <2>6, <2>7, <2>8 DEF Lists
    <2>10. Len(heads') = Len(heads) /\ Len(tails') = Len(tails) + 1
      BY <2>1, <2>2
    <2> QED
      BY <1>1, <1>2, <1>6, <2>9, <2>10 DEF Up, Down
  <1> QED
    BY <1>5, <1>6

(* One element is drawn at end e: every cursor the iterator has steps. *)
ElementDrawn(e) ==
  /\ kind \in BitKinds => A!DrawBit(e)
  /\ kind \in GappedKinds => liveBits' = liveBits \ {A!BitAt(liveBits, e)}
  /\ kind \in RankKinds => A!CountRank(e)
  /\ kind \in SliceKinds => A!DrawElem(e)

(* The slot its cursors name. *)
SlotCursor(e) ==
  IF kind \in GappedKinds THEN A!BitAt(liveBits, e)
  ELSE IF kind \in RankKinds THEN A!RankAt(e) ELSE A!ElemAt(e)

Advanced(e, x, z) ==
  /\ kind \in BitKinds => marks' = Between(occ, Up(e, x), Down(e, z))
  /\ kind \in GappedKinds => liveBits' = Between(live, Up(e, x), Down(e, z))
  /\ kind \in RankKinds => frontRank' = Up(e, x) /\ backConsumed' = Total - Down(e, z)
  /\ kind \in SliceKinds => slice' = [from |-> Up(e, x), to |-> Down(e, z)]

LEMMA BitsDrain ==
  ASSUME NEW S, IsBitmap(S), NEW x \in Nat, NEW z \in Nat, x < z, z <= Cardinality(S), NEW e
  PROVE  /\ Between(S, x, z) # {}
         /\ A!BitAt(Between(S, x, z), e) = Select(S, At(e, x, z))
         /\ Between(S, x, z) \ {A!BitAt(Between(S, x, z), e)} = Between(S, Up(e, x), Down(e, z))
  <1>1. CASE e = "front"
    BY <1>1, BetweenEnds DEF A!BitAt, At, Up, Down
  <1>2. CASE e # "front"
    BY <1>2, BetweenEnds DEF A!BitAt, At, Up, Down
  <1> QED
    BY <1>1, <1>2

LEMMA KindsApart ==
  /\ GappedKinds \cap RankKinds = {} /\ GappedKinds \cap SliceKinds = {}
  /\ RankKinds \cap SliceKinds = {}
  /\ A!Kinds = GappedKinds \cup RankKinds \cup SliceKinds
  /\ RankKinds \cup SliceKinds = A!DenseKinds
  /\ A!PresentKinds \subseteq BitKinds
  BY DEF GappedKinds, RankKinds, SliceKinds, BitKinds, A!Kinds, A!DenseKinds, A!PresentKinds

LEMMA DrawAdvances ==
  ASSUME Borrowed, NEW x \in Nat, NEW z \in Nat, x < z, z <= Total, Cursors(x, z),
         NEW e \in A!EndsOf, ElementDrawn(e)
  PROVE  /\ Advanced(e, x, z)
         /\ SlotCursor(e) = Select(live, At(e, x, z))
         /\ kind \in BitKinds => A!BitAt(marks, e) = Select(occ, At(e, x, z))
  <1>1. /\ IsBitmap(occ) /\ IsBitmap(live) /\ Total \in Nat
        /\ z <= Cardinality(occ) /\ z <= Cardinality(live)
        /\ At(e, x, z) \in 0 .. Total - 1
    BY BorrowedFacts DEF Borrowed, Total, At
  <1>2. kind \in BitKinds => /\ A!BitAt(marks, e) = Select(occ, At(e, x, z))
                             /\ marks' = Between(occ, Up(e, x), Down(e, z))
    <2>1. /\ A!BitAt(Between(occ, x, z), e) = Select(occ, At(e, x, z))
          /\ Between(occ, x, z) \ {A!BitAt(Between(occ, x, z), e)}
               = Between(occ, Up(e, x), Down(e, z))
      BY <1>1, BitsDrain
    <2>2. kind \in BitKinds => /\ marks = Between(occ, x, z)
                               /\ marks' = marks \ {A!BitAt(marks, e)}
      BY DEF ElementDrawn, Cursors, A!DrawBit
    <2> QED
      BY <2>1, <2>2
  <1>3. kind \in GappedKinds => /\ A!BitAt(liveBits, e) = Select(live, At(e, x, z))
                                /\ liveBits' = Between(live, Up(e, x), Down(e, z))
    <2>1. /\ A!BitAt(Between(live, x, z), e) = Select(live, At(e, x, z))
          /\ Between(live, x, z) \ {A!BitAt(Between(live, x, z), e)}
               = Between(live, Up(e, x), Down(e, z))
      BY <1>1, BitsDrain
    <2>2. kind \in GappedKinds => /\ liveBits = Between(live, x, z)
                                  /\ liveBits' = liveBits \ {A!BitAt(liveBits, e)}
      BY DEF ElementDrawn, Cursors
    <2> QED
      BY <2>1, <2>2
  <1>4. kind \in A!DenseKinds => Select(live, At(e, x, z)) = At(e, x, z)
    BY <1>1, BorrowedFacts
  <1>5. A!Count = Total
    BY SameBitmaps DEF A!Count, Total
  <1>6. kind \in RankKinds => /\ A!RankAt(e) = At(e, x, z)
                              /\ frontRank' = Up(e, x) /\ backConsumed' = Total - Down(e, z)
    <2> SUFFICES ASSUME kind \in RankKinds
                 PROVE  /\ A!RankAt(e) = At(e, x, z)
                        /\ frontRank' = Up(e, x) /\ backConsumed' = Total - Down(e, z)
      OBVIOUS
    <2>1. frontRank = x /\ backConsumed = Total - z /\ A!CountRank(e)
      BY DEF Cursors, ElementDrawn
    <2> QED
      BY <1>1, <1>5, <2>1 DEF A!RankAt, A!CountRank, At, Up, Down
  <1>7. kind \in SliceKinds => /\ A!ElemAt(e) = At(e, x, z)
                               /\ slice' = [from |-> Up(e, x), to |-> Down(e, z)]
    BY DEF Cursors, ElementDrawn, A!ElemAt, A!DrawElem, At, Up, Down
  <1>8. SlotCursor(e) = Select(live, At(e, x, z))
    BY <1>3, <1>4, <1>6, <1>7, KindsApart DEF SlotCursor, Borrowed
  <1> QED
    BY <1>2, <1>3, <1>6, <1>7, <1>8 DEF Advanced

LEMMA CursorsFollow ==
  ASSUME Resting, NEW e, Advanced(e, First, Past),
         First' = Up(e, First), Past' = Down(e, Past)
  PROVE  Cursors(First, Past)'
  BY DEF Resting, Advanced, Cursors, Total

(* The iterators over present indices. *)
PresentDraw(e) ==
  /\ kind \in A!PresentKinds /\ Resting /\ ElementDrawn(e)
  /\ A!Yield(e, A!BitAt(marks, e), SlotCursor(e))
  /\ UNCHANGED <<low, high, spent>>

LEMMA PresentKeeps ==
  ASSUME IterInv, NEW e \in A!EndsOf, PresentDraw(e)
  PROVE  IterInv'
  <1>1. /\ Borrowed /\ Lists /\ Cursors(First, Past) /\ Resting /\ ElementDrawn(e)
        /\ kind \in A!PresentKinds /\ kind \in BitKinds
    BY KindsApart DEF IterInv, PresentDraw
  <1>2. /\ Len(heads) \in Nat /\ Len(tails) \in Nat /\ Total \in Nat
        /\ First = Len(heads) /\ Past = Total - Len(tails) /\ Size = Total
        /\ First \in Nat /\ Past \in Nat /\ First <= Past /\ Past <= Total /\ Covered = occ
    BY <1>1, CursorBounds, BorrowedFacts DEF First, Past, Covered
  <1>3. First < Past
    <2>1. marks = Between(occ, First, Past) /\ marks # {}
      BY <1>1 DEF Cursors, ElementDrawn, A!DrawBit
    <2> QED
      BY <1>1, <1>2, <2>1, BetweenEnds, BorrowedFacts DEF Total
  <1> DEFINE r == At(e, First, Past)
  <1>4. /\ Advanced(e, First, Past)
        /\ SlotCursor(e) = Select(live, r) /\ A!BitAt(marks, e) = Select(occ, r)
    BY <1>1, <1>2, <1>3, DrawAdvances
  <1>5. r \in 0 .. Total - 1 /\ r = At(e, Len(heads), Size - Len(tails))
    BY <1>2, <1>3 DEF At
  <1> HIDE DEF r
  <1>6. PairAt(r) = <<Select(occ, r), Select(live, r)>>
    <2>1. Select(occ, r) \in occ /\ Rank(occ, Select(occ, r)) = r
      BY <1>1, <1>5, SelectMember, BorrowedFacts DEF Total
    <2> QED
      BY <1>2, <2>1 DEF PairAt, Stored
  <1>7. /\ Lists' /\ Len(heads') = Up(e, Len(heads))
        /\ Size' - Len(tails') = Down(e, Size - Len(tails))
    <2>1. <<A!BitAt(marks, e), SlotCursor(e)>> = PairAt(At(e, Len(heads), Size - Len(tails)))
      BY <1>4, <1>5, <1>6
    <2>2. Len(heads) + Len(tails) < Size
      BY <1>2, <1>3
    <2> QED
      BY <1>1, <2>1, <2>2, ListsGrow DEF PresentDraw
  <1>8. Size' = Size /\ Total' = Total /\ Borrowed'
    BY <1>1 DEF Resting, Size, Covered, Total, Borrowed
  <1>9. First' = Up(e, First) /\ Past' = Down(e, Past)
    BY <1>1, <1>2, <1>7, <1>8 DEF First, Past, Resting
  <1>10. Cursors(First, Past)'
    BY <1>1, <1>4, <1>9, CursorsFollow
  <1>11. RangeAt'
    BY <1>1 DEF PresentDraw, IterInv, RangeAt, Resting
  <1> QED
    BY <1>7, <1>8, <1>10, <1>11 DEF IterInv

(* The iterators over all indices: an absent one leaves the elements alone. *)
SlotDraw(e) ==
  /\ kind \notin A!PresentKinds /\ Resting
  /\ A!ClosedStep(e)
  /\ IF A!ClosedAt(e) \in occ
       THEN ElementDrawn(e) /\ A!Yield(e, A!ClosedAt(e), SlotCursor(e))
       ELSE /\ UNCHANGED <<marks, liveBits, frontRank, backConsumed, slice>>
            /\ A!Yield(e, A!ClosedAt(e), NoBit)

(* The range is at the ends of what has not come out. *)
LEMMA RangeDraw ==
  ASSUME IterInv, NEW e \in A!EndsOf, kind \notin A!PresentKinds, A!ClosedStep(e)
  PROVE  /\ Len(heads) + Len(tails) < N
         /\ A!ClosedAt(e) = At(e, Len(heads), N - Len(tails)) /\ A!ClosedAt(e) \in Index
         /\ low' \in Int /\ high' \in Int /\ spent' \in BOOLEAN
         /\ IF spent' THEN Len(heads) + Len(tails) + 1 = N
                     ELSE /\ low' = Up(e, Len(heads)) /\ high' = Down(e, N - Len(tails)) - 1
                          /\ low' <= high'
  <1>1. Len(heads) \in Nat /\ Len(tails) \in Nat /\ N \in Nat \ {0}
    BY CursorBounds, BorrowedFacts DEF IterInv
  <1>2. /\ ~spent /\ spent \in BOOLEAN /\ low \in Int /\ high \in Int
        /\ low = Len(heads) /\ high = N - 1 - Len(tails) /\ low <= high
    BY DEF A!ClosedStep, IterInv, RangeAt
  <1>3. /\ Len(heads) + Len(tails) < N
        /\ A!ClosedAt(e) = At(e, Len(heads), N - Len(tails)) /\ A!ClosedAt(e) \in Index
    BY <1>1, <1>2 DEF A!ClosedAt, At, Index
  <1>4. CASE low = high
    <2>1. spent' = TRUE /\ low' = low /\ high' = high
      BY <1>4 DEF A!ClosedStep
    <2>2. spent' /\ spent' \in BOOLEAN
      BY ONLY <2>1, Zenon
    <2>3. Len(heads) + Len(tails) + 1 = N
      BY <1>1, <1>2, <1>4
    <2> QED
      BY <1>2, <1>3, <2>1, <2>2, <2>3
  <1>5. CASE low # high
    <2>1. /\ spent' = spent
          /\ IF e = "front" THEN low' = low + 1 /\ high' = high ELSE high' = high - 1 /\ low' = low
      BY <1>5 DEF A!ClosedStep
    <2>2. ~spent' /\ spent' \in BOOLEAN
      BY ONLY <1>2, <2>1, Zenon
    <2>3. /\ low' = Up(e, Len(heads)) /\ high' = Down(e, N - Len(tails)) - 1 /\ low' <= high'
          /\ low' \in Int /\ high' \in Int
      BY <1>1, <1>2, <1>5, <2>1 DEF Up, Down
    <2> QED
      BY <1>3, <2>2, <2>3
  <1> QED
    BY <1>4, <1>5

LEMMA SlotKeeps ==
  ASSUME IterInv, NEW e \in A!EndsOf, SlotDraw(e)
  PROVE  IterInv'
  <1> DEFINE c == A!ClosedAt(e)
             f == Len(heads)
             b == Len(tails)
  <1>1. /\ Borrowed /\ Lists /\ Cursors(First, Past) /\ Resting
        /\ kind \notin A!PresentKinds /\ Covered = Index /\ Size = N
    BY BorrowedFacts DEF IterInv, SlotDraw, Covered
  <1>2. /\ f \in Nat /\ b \in Nat /\ Total \in Nat /\ N \in Nat /\ IsBitmap(occ)
        /\ First = Rank(occ, f) /\ Past = Rank(occ, N - b)
        /\ First \in Nat /\ Past \in Nat /\ First <= Past /\ Past <= Total
    BY <1>1, CursorBounds, BorrowedFacts DEF First, Past
  <1>3. /\ f + b < N /\ c = At(e, f, N - b) /\ c \in Index
        /\ low' \in Int /\ high' \in Int /\ spent' \in BOOLEAN
        /\ IF spent' THEN f + b + 1 = N
                    ELSE low' = Up(e, f) /\ high' = Down(e, N - b) - 1 /\ low' <= high'
    BY <1>1, RangeDraw DEF SlotDraw
  <1>4. PairAt(c) = <<c, IF c \in occ THEN Select(live, Rank(occ, c)) ELSE NoBit>>
    BY <1>1, <1>3, BorrowedFacts DEF PairAt, Stored
  <1>5. /\ Rank(occ, f + 1) = Rank(occ, f) + (IF f \in occ THEN 1 ELSE 0)
        /\ Rank(occ, N - b) = Rank(occ, N - b - 1) + (IF N - b - 1 \in occ THEN 1 ELSE 0)
        /\ Rank(occ, f + 1) <= Rank(occ, N - b) /\ Rank(occ, f) <= Rank(occ, N - b - 1)
        /\ Rank(occ, N - b - 1) \in Nat
    <2>1. /\ f \in Int /\ f + 1 \in Int /\ N - b \in Int /\ N - b - 1 \in Int
          /\ f + 1 <= N - b /\ f <= N - b - 1 /\ (N - b - 1) + 1 = N - b
      BY <1>2, <1>3
    <2> HIDE DEF f, b
    <2>2. Rank(occ, f + 1) = Rank(occ, f) + (IF f \in occ THEN 1 ELSE 0)
      BY <1>2, <2>1, RankStep
    <2>3. Rank(occ, (N - b - 1) + 1) = Rank(occ, N - b - 1) + (IF N - b - 1 \in occ THEN 1 ELSE 0)
      BY <1>2, <2>1, RankStep
    <2>4. Rank(occ, f + 1) <= Rank(occ, N - b) /\ Rank(occ, f) <= Rank(occ, N - b - 1)
      BY <1>2, <2>1, RankRises
    <2>5. Rank(occ, N - b - 1) \in Nat
      BY <1>2, <2>1, RankType
    <2> QED
      BY <2>1, <2>2, <2>3, <2>4, <2>5
  <1>6. c \in occ => /\ First < Past /\ At(e, First, Past) = Rank(occ, c)
                     /\ Advanced(e, First, Past)
                     /\ SlotCursor(e) = Select(live, Rank(occ, c))
    <2> SUFFICES ASSUME c \in occ
                 PROVE  /\ First < Past /\ At(e, First, Past) = Rank(occ, c)
                        /\ Advanced(e, First, Past)
                        /\ SlotCursor(e) = Select(live, Rank(occ, c))
      OBVIOUS
    <2>1. First < Past /\ At(e, First, Past) = Rank(occ, c)
      <3> HIDE DEF f, b
      <3>1. CASE e = "front"
        <4>1. c = f /\ At(e, First, Past) = First
          BY <1>3, <3>1 DEF At
        <4> HIDE DEF c
        <4> QED
          BY <1>2, <1>5, <4>1
      <3>2. CASE e # "front"
        <4>1. c = N - b - 1 /\ At(e, First, Past) = Past - 1
          BY <1>2, <1>3, <3>2 DEF At
        <4> HIDE DEF c
        <4> QED
          BY <1>2, <1>5, <4>1
      <3> QED
        BY <3>1, <3>2
    <2>2. ElementDrawn(e)
      BY DEF SlotDraw
    <2> QED
      BY <1>1, <1>2, <2>1, <2>2, DrawAdvances
  <1>7. /\ Lists' /\ Len(heads') = Up(e, f) /\ N - Len(tails') = Down(e, N - b)
    <2> DEFINE slot == IF c \in occ THEN SlotCursor(e) ELSE NoBit
    <2>1. A!Yield(e, c, slot)
      BY DEF SlotDraw
    <2>2. <<c, slot>> = PairAt(At(e, f, Size - b))
      BY <1>1, <1>3, <1>4, <1>6
    <2>3. Size' = Size
      BY <1>1 DEF Size, Covered, Resting
    <2> HIDE DEF c, slot
    <2> QED
      BY <1>1, <1>3, <2>1, <2>2, <2>3, ListsGrow
  <1>8. Total' = Total /\ Borrowed'
    BY <1>1 DEF Resting, Total, Borrowed
  <1>9. First' = Rank(occ, Up(e, f)) /\ Past' = Rank(occ, Down(e, N - b))
    <2>1. First' = Rank(occ, Len(heads')) /\ Past' = Rank(occ, N - Len(tails'))
      BY <1>1 DEF First, Past, Resting
    <2> QED
      BY <1>7, <2>1
  <1>10. ASSUME c \in occ PROVE Cursors(First, Past)'
    <2>1. First' = Up(e, First) /\ Past' = Down(e, Past)
      <3>1. CASE e = "front"
        BY <1>2, <1>3, <1>5, <1>9, <1>10, <3>1 DEF At, Up, Down
      <3>2. CASE e # "front"
        BY <1>2, <1>3, <1>5, <1>9, <1>10, <3>2 DEF At, Up, Down
      <3> QED
        BY <3>1, <3>2
    <2> QED
      BY <1>1, <1>6, <1>10, <2>1, CursorsFollow
  <1>11. ASSUME c \notin occ PROVE Cursors(First, Past)'
    <2>1. First' = First /\ Past' = Past
      <3>1. CASE e = "front"
        BY <1>2, <1>3, <1>5, <1>9, <1>11, <3>1 DEF At, Up, Down
      <3>2. CASE e # "front"
        BY <1>2, <1>3, <1>5, <1>9, <1>11, <3>2 DEF At, Up, Down
      <3> QED
        BY <3>1, <3>2
    <2>2. UNCHANGED <<marks, liveBits, frontRank, backConsumed, slice>>
      BY <1>11 DEF SlotDraw
    <2> QED
      BY <1>1, <1>8, <2>1, <2>2 DEF Cursors, Resting
  <1>12. RangeAt'
    <2>1. Len(heads') + Len(tails') = f + b + 1
      BY <1>2, <1>7 DEF Up, Down
    <2>2. IF spent' THEN Len(heads') + Len(tails') = N
                   ELSE low' = Len(heads') /\ high' = N - 1 - Len(tails') /\ low' <= high'
      <3>1. CASE spent'
        BY <1>3, <2>1, <3>1
      <3>2. CASE ~spent'
        <4>1. low' = Len(heads') /\ high' = (N - Len(tails')) - 1 /\ low' <= high'
          BY <1>3, <1>7, <3>2
        <4>2. Len(tails') \in Nat
          BY <1>7 DEF Lists
        <4> QED
          BY <1>2, <3>2, <4>1, <4>2
      <3> QED
        BY <3>1, <3>2
    <2> QED
      BY <1>1, <1>3, <2>2 DEF RangeAt, Resting
  <1> QED
    BY <1>7, <1>8, <1>10, <1>11, <1>12 DEF IterInv

(* Each iterator's step is one of the two draws. *)
LEMMA IteratorSteps ==
  ASSUME IterInv, NEW e \in A!EndsOf, A!Draw(e)
  PROVE  PresentDraw(e) \/ SlotDraw(e)
  <1>1. Resting /\ UNCHANGED folding
    BY DEF A!Draw, A!array, Resting
  <1>2. CASE A!PackedPresentIter(e)
    BY <1>1, <1>2 DEF A!PackedPresentIter, PresentDraw, ElementDrawn, SlotCursor, A!PresentKinds,
      GappedKinds, RankKinds, SliceKinds, BitKinds, A!range
  <1>3. CASE A!PackedPresentIterMut(e)
    BY <1>1, <1>3 DEF A!PackedPresentIterMut, PresentDraw, ElementDrawn, SlotCursor,
      A!PresentKinds, GappedKinds, RankKinds, SliceKinds, BitKinds, A!range
  <1>4. CASE A!GappedPresentIter(e) \/ A!GappedPresentIterMut(e)
    BY <1>1, <1>4 DEF A!GappedPresentIter, A!GappedPresentIterMut, A!DrawPresent, PresentDraw,
      ElementDrawn, SlotCursor, A!PresentKinds, GappedKinds, RankKinds, SliceKinds, BitKinds,
      A!range
  <1>5. CASE A!PackedIter(e)
    BY <1>1, <1>5 DEF A!PackedIter, SlotDraw, ElementDrawn, SlotCursor, A!PresentKinds,
      GappedKinds, RankKinds, SliceKinds, BitKinds, A!NoBit, NoBit
  <1>6. CASE A!PackedIterMut(e)
    BY <1>1, <1>6 DEF A!PackedIterMut, SlotDraw, ElementDrawn, SlotCursor, A!PresentKinds,
      GappedKinds, RankKinds, SliceKinds, BitKinds, A!NoBit, NoBit
  <1>7. CASE A!GappedIter(e) \/ A!GappedIterMut(e)
    BY <1>1, <1>7 DEF A!GappedIter, A!GappedIterMut, A!GappedSlots, A!DrawPresent, SlotDraw,
      ElementDrawn, SlotCursor, A!PresentKinds, GappedKinds, RankKinds, SliceKinds, BitKinds,
      A!NoBit, NoBit
  <1>8. CASE A!FixedIter(e)
    <2>1. kind = "fixed_all" /\ A!ClosedStep(e) /\ A!DrawElem(e)
          /\ A!Yield(e, A!ClosedAt(e), A!ElemAt(e))
      BY <1>8 DEF A!FixedIter
    <2>2. /\ kind \notin A!PresentKinds /\ kind \notin BitKinds /\ kind \notin GappedKinds
          /\ kind \notin RankKinds
      BY <2>1 DEF A!PresentKinds, GappedKinds, RankKinds, BitKinds
    <2>3. A!ClosedAt(e) \in occ
      BY <2>1, <2>2, RangeDraw DEF IterInv, Borrowed
    <2> QED
      BY <1>1, <2>1, <2>2, <2>3 DEF SlotDraw, ElementDrawn, SlotCursor
  <1> QED
    BY <1>2, <1>3, <1>4, <1>5, <1>6, <1>7, <1>8 DEF A!Draw

LEMMA IteratorInitial == A!Init => IterInv
  <1> SUFFICES ASSUME A!Init PROVE IterInv
    OBVIOUS
  <1>1. A!Count = Total /\ \A S : A!Cardinality(S) = Cardinality(S)
    BY SameBitmaps DEF A!Count, Total
  <1>2. Borrowed
    BY <1>1 DEF A!Init, Borrowed, A!Index, Index
  <1>3. heads = << >> /\ tails = << >>
    BY DEF A!Init
  <1>4. /\ N \in Nat \ {0} /\ Total \in Nat /\ Size \in Nat /\ Total = Cardinality(live)
        /\ IsBitmap(occ) /\ IsBitmap(live)
    BY <1>2, BorrowedFacts DEF Borrowed
  <1>5. Lists
    BY <1>3, <1>4 DEF Lists
  <1>6. ASSUME NEW S \in SUBSET Index, IsBitmap(S)
        PROVE  /\ Rank(S, 0) = 0 /\ Rank(S, N) = Cardinality(S)
               /\ S = Between(S, 0, Cardinality(S))
    <2>1. \A p \in S : p \in 0 .. N - 1
      BY DEF Index
    <2>2. {p \in S : p < 0} = {} /\ {p \in S : p < N} = S
      BY <1>4, <2>1
    <2>3. Rank(S, 0) = 0 /\ Rank(S, N) = Cardinality(S)
      BY <2>2, FS_EmptySet DEF Rank
    <2>4. \A p \in S : Rank(S, p) \in 0 .. Cardinality(S) - 1
      BY <1>6, RankOfMember
    <2>5. Cardinality(S) \in Nat
      BY <1>6, FS_CardinalityType DEF IsBitmap
    <2>6. S = Between(S, 0, Cardinality(S))
      BY <2>4, <2>5 DEF Between
    <2> QED
      BY <2>3, <2>6
  <1>7. First = 0 /\ Past = Total
    <2>1. Len(heads) = 0 /\ Len(tails) = 0
      BY <1>3
    <2>2. Rank(occ, 0) = 0 /\ Rank(occ, N) = Total
      BY <1>2, <1>4, <1>6 DEF Borrowed, Total
    <2> QED
      BY <1>4, <2>1, <2>2 DEF First, Past
  <1>8. Cursors(First, Past)
    <2>1. /\ marks = Between(occ, 0, Total) /\ liveBits = Between(live, 0, Total)
      BY <1>2, <1>4, <1>6 DEF A!Init, A!LiveCursor, Borrowed, Total
    <2>2. frontRank = 0 /\ backConsumed = 0 /\ slice = [from |-> 0, to |-> Total]
      BY <1>1 DEF A!Init, A!DenseCursors
    <2> QED
      BY <1>4, <1>7, <2>1, <2>2 DEF Cursors
  <1>9. RangeAt
    <2>1. low = 0 /\ high = N - 1 /\ spent = FALSE
      BY DEF A!Init, A!Full
    <2>2. ~spent /\ spent \in BOOLEAN
      BY ONLY <2>1, Zenon
    <2> QED
      BY <1>3, <1>4, <2>1, <2>2 DEF RangeAt
  <1> QED
    BY <1>2, <1>5, <1>8, <1>9 DEF IterInv

LEMMA PairsAreInOrder ==
  ASSUME IterInv
  PROVE  A!PairsInOrder
  <1>1. /\ Borrowed /\ Lists /\ Len(heads) \in Nat /\ Len(tails) \in Nat
        /\ Size \in Nat /\ IsBitmap(Covered)
    BY CursorBounds, BorrowedFacts DEF IterInv
  <1> DEFINE E == [k \in 1 .. Size |-> PairAt(k - 1)]
             V == [k \in 1 .. Size |-> PairAt(Size - k)]
  <1>2. A!Expected = E
    <2> DEFINE covered == IF kind \in A!PresentKinds THEN occ ELSE A!Index
    <2>1. covered = Covered
      BY DEF Covered, A!Index, Index
    <2>2. A!Expected = [k \in 1 .. A!Cardinality(Covered) |->
                          <<A!Select(Covered, k - 1), A!Stored(A!Select(Covered, k - 1))>>]
      BY <2>1 DEF A!Expected
    <2>3. A!Cardinality(Covered) = Size
      BY SameBitmaps DEF Size
    <2>4. ASSUME NEW k \in 1 .. Size
          PROVE  <<A!Select(Covered, k - 1), A!Stored(A!Select(Covered, k - 1))>> = PairAt(k - 1)
      <3>1. k - 1 \in 0 .. Cardinality(Covered) - 1
        BY <1>1 DEF Size
      <3>2. A!Select(Covered, k - 1) = Select(Covered, k - 1)
        BY <1>1, <3>1, SameSelect
      <3>3. ASSUME NEW i PROVE A!Stored(i) = Stored(i)
        <4>1. CASE i \in occ
          <5>1. A!Rank(occ, i) = Rank(occ, i)
            BY SameBitmaps
          <5>2. Rank(occ, i) \in 0 .. Cardinality(live) - 1
            BY <1>1, <4>1, RankOfMember, BorrowedFacts DEF Borrowed, Total
          <5>3. A!Select(live, Rank(occ, i)) = Select(live, Rank(occ, i))
            BY <1>1, <5>2, SameSelect, BorrowedFacts
          <5> QED
            BY <4>1, <5>1, <5>3 DEF A!Stored, Stored
        <4>2. CASE i \notin occ
          BY <4>2 DEF A!Stored, Stored, A!NoBit, NoBit
        <4> QED
          BY <4>1, <4>2
      <3> QED
        BY <3>2, <3>3 DEF PairAt
    <2> QED
      BY <2>2, <2>3, <2>4
  <1>3. \A r \in 0 .. Size - 1 : PairAt(r) \in Int \X Int
    BY <1>1, PairType
  <1>4. /\ E \in Seq(Int \X Int) /\ Len(E) = Size
        /\ \A k \in 1 .. Size : E[k] = PairAt(k - 1)
    BY <1>1, <1>3
  <1>5. A!Reverse(E) = V
    <2>1. \A k \in 1 .. Size : (Size - k) + 1 \in 1 .. Size /\ ((Size - k) + 1) - 1 = Size - k
      BY <1>1
    <2> HIDE DEF E
    <2>2. A!Reverse(E) = [k \in 1 .. Size |-> E[(Size - k) + 1]]
      BY <1>4 DEF A!Reverse
    <2> QED
      BY <1>4, <2>1, <2>2
  <1>6. /\ V \in Seq(Int \X Int) /\ Len(V) = Size
        /\ \A k \in 1 .. Size : V[k] = PairAt(Size - k)
    BY <1>1, <1>3
  <1> HIDE DEF E, V
  <1>7. A!IsPrefix(heads, E)
    <2>1. Len(heads) <= Len(E) /\ \A k \in 1 .. Len(heads) : heads[k] = E[k]
      <3>1. \A k \in 1 .. Len(heads) : heads[k] = PairAt(k - 1)
        BY <1>1 DEF Lists
      <3>2. Len(heads) <= Size
        BY <1>1 DEF Lists
      <3>3. \A k \in 1 .. Len(heads) : k \in 1 .. Size
        BY <1>1, <3>2
      <3> QED
        BY <1>4, <3>1, <3>2, <3>3
    <2> QED
      BY <1>1, <1>4, <2>1, PrefixByMembers DEF A!IsPrefix, Lists
  <1>8. A!IsPrefix(tails, V)
    <2>1. Len(tails) <= Len(V) /\ \A k \in 1 .. Len(tails) : tails[k] = V[k]
      <3>1. \A k \in 1 .. Len(tails) : tails[k] = PairAt(Size - k)
        BY <1>1 DEF Lists
      <3>2. Len(tails) <= Size
        BY <1>1 DEF Lists
      <3>3. \A k \in 1 .. Len(tails) : k \in 1 .. Size
        BY <1>1, <3>2
      <3> QED
        BY <1>6, <3>1, <3>2, <3>3
    <2> QED
      BY <1>1, <1>6, <2>1, PrefixByMembers DEF A!IsPrefix, Lists
  <1> QED
    BY <1>1, <1>2, <1>4, <1>5, <1>7, <1>8 DEF A!PairsInOrder, Lists

(* All nine borrowing iterators (packed.rs, gapped.rs, fixed.rs), in every *)
(* layout and however the two ends and fold interleave, give each index    *)
(* once, ascending in front and descending at the back, with the slot that *)
(* `get` would read.                                                       *)
THEOREM IteratorsPairRight == A!Spec => []PairsInOrder
  <1>1. IterInv /\ [A!Next]_(A!vars) => IterInv'
    <2> SUFFICES ASSUME IterInv, [A!Next]_(A!vars) PROVE IterInv'
      OBVIOUS
    <2>1. ASSUME NEW e \in A!EndsOf, A!Draw(e) PROVE IterInv'
      BY <2>1, IteratorSteps, PresentKeeps, SlotKeeps
    <2>2. ASSUME UNCHANGED <<A!array, A!cursor, A!range, heads, tails>> PROVE IterInv'
      <3>1. /\ UNCHANGED <<kind, occ, live, marks, liveBits, frontRank, backConsumed, slice>>
            /\ UNCHANGED <<low, high, spent, heads, tails>>
        BY <2>2 DEF A!array, A!cursor, A!range
      <3> QED
        BY <3>1 DEF IterInv, Borrowed, Lists, Cursors, RangeAt, First, Past, Total, Size, Covered,
          PairAt, Stored
    <2>3. CASE UNCHANGED A!vars
      BY <2>2, <2>3 DEF A!vars
    <2>4. ASSUME NEW e \in A!EndsOf, A!Fold(e) PROVE IterInv'
      BY <2>2, <2>4 DEF A!Fold
    <2> QED
      BY <2>1, <2>3, <2>4 DEF A!Next
  <1> QED
    BY <1>1, IteratorInitial, PairsAreInOrder, PTL DEF A!Spec, PairsInOrder

-----------------------------------------------------------------------------
(* Powers of two and the binary digits of a byte.                          *)

(* A set has twice as many subsets with one more member. *)
LEMMA PowersDouble ==
  ASSUME NEW n \in Nat
  PROVE  2 ^ n \in Nat \ {0} /\ 2 ^ (n + 1) = 2 * 2 ^ n
  <1> DEFINE S == 1 .. n
             x == n + 1
             Old == SUBSET S
             New == {s \cup {x} : s \in Old}
             f == [s \in Old |-> s \cup {x}]
  <1>1. /\ IsFiniteSet(S) /\ Cardinality(S) = n
        /\ IsFiniteSet(1 .. n + 1) /\ Cardinality(1 .. n + 1) = n + 1
    BY FS_Interval
  <1>2. /\ IsFiniteSet(Old) /\ Cardinality(Old) = 2 ^ n /\ 2 ^ n \in Nat
        /\ Cardinality(SUBSET (1 .. n + 1)) = 2 ^ (n + 1)
    BY <1>1, FS_SUBSET, FS_CardinalityType
  <1>3. Old # {}
    OBVIOUS
  <1>4. 2 ^ n # 0
    BY <1>2, <1>3, FS_EmptySet
  <1>5. S \cup {x} = 1 .. n + 1 /\ x \notin S
    OBVIOUS
  <1> HIDE DEF S, x
  <1>6. f \in Bijection(Old, New)
    <2>1. f \in [Old -> New] /\ \A b \in New : \E s \in Old : f[s] = b
      OBVIOUS
    <2>2. \A s, u \in Old : f[s] = f[u] => s = u
      BY <1>5
    <2> QED
      BY <2>1, <2>2 DEF Bijection, Injection, Surjection, IsInjective
  <1>7. IsFiniteSet(New) /\ Cardinality(New) = 2 ^ n
    BY <1>2, <1>6, FS_Bijection DEF ExistsBijection
  <1>8. SUBSET (1 .. n + 1) = Old \cup New
    <2>1. ASSUME NEW u \in SUBSET (S \cup {x}) PROVE u \in Old \cup New
      <3>1. CASE x \in u
        <4>1. u \ {x} \in Old /\ (u \ {x}) \cup {x} = u
          BY <3>1
        <4> QED
          BY <4>1
      <3>2. CASE x \notin u
        BY <3>2
      <3> QED
        BY <3>1, <3>2
    <2>2. Old \cup New \subseteq SUBSET (S \cup {x})
      OBVIOUS
    <2> QED
      BY <1>5, <2>1, <2>2
  <1>9. Old \cap New = {}
    BY <1>5
  <1> HIDE DEF Old, New
  <1> DEFINE k == 2 ^ n
             d == 2 ^ (n + 1)
  <1>10. k \in Nat /\ Cardinality(Old) = k /\ Cardinality(New) = k /\ Cardinality(Old \cup New) = d
    BY <1>2, <1>7, <1>8
  <1>11. k # 0
    BY <1>4
  <1> HIDE DEF k, d
  <1>12. Cardinality(Old \cup New) = k + k - 0
    BY <1>2, <1>7, <1>9, <1>10, FS_Union, FS_EmptySet
  <1>13. k \in Nat \ {0} /\ d = 2 * k
    BY <1>10, <1>11, <1>12
  <1> QED
    BY <1>13, Zenon DEF k, d

LEMMA Quotients ==
  ASSUME NEW v \in Nat, NEW p \in Nat \ {0}
  PROVE  /\ v \div p \in Nat /\ v % p \in 0 .. p - 1
         /\ v = p * (v \div p) + (v % p)
  OBVIOUS

LEMMA QuotientIs ==
  ASSUME NEW v \in Nat, NEW p \in Nat \ {0}, NEW q \in Int, NEW r \in 0 .. p - 1, v = p * q + r
  PROVE  v \div p = q /\ v % p = r
  OBVIOUS

LEMMA HalveQuotient ==
  ASSUME NEW v \in Nat, NEW p \in Nat \ {0}
  PROVE  v \div (2 * p) = (v \div p) \div 2
  <1> DEFINE q == v \div p
             r == v % p
             h == q \div 2
             b == q % 2
  <1>1. q \in Nat /\ r \in 0 .. p - 1 /\ v = p * q + r
    BY Quotients
  <1>2. h \in Nat /\ b \in {0, 1} /\ q = 2 * h + b
    BY <1>1
  <1> HIDE DEF q, r, h, b
  <1>3. p * (2 * h + b) = 2 * p * h + p * b
    BY <1>1, <1>2
  <1>4. p * b + r \in 0 .. 2 * p - 1
    <2>1. p * b \in {0, p}
      BY <1>2
    <2> QED
      BY <1>1, <2>1
  <1>5. v = (2 * p) * h + (p * b + r)
    BY <1>1, <1>2, <1>3, <1>4
  <1>6. 2 * p \in Nat \ {0}
    OBVIOUS
  <1>7. v \div (2 * p) = h
    BY <1>2, <1>4, <1>5, <1>6, QuotientIs
  <1> QED
    BY <1>7 DEF h, q

(* What is left of v above its j lowest digits. *)
Above(v, j) == v \div 2 ^ j

Digit == 0 .. ByteBits - 1

Digits(v) == {j \in Digit : Above(v, j) % 2 = 1}

LEMMA AboveSteps ==
  ASSUME NEW v \in Nat
  PROVE  /\ Above(v, 0) = v
         /\ \A j \in Nat : /\ Above(v, j) \in Nat
                           /\ Above(v, j + 1) = Above(v, j) \div 2
                           /\ Above(v, j) = 2 * Above(v, j + 1) + (Above(v, j) % 2)
                           /\ Above(v, j) % 2 \in {0, 1}
  <1>1. 2 ^ 0 = 1
    OBVIOUS
  <1>2. Above(v, 0) = v
    BY <1>1 DEF Above
  <1>3. ASSUME NEW j \in Nat
        PROVE  Above(v, j) \in Nat /\ Above(v, j + 1) = Above(v, j) \div 2
    <2> DEFINE p == 2 ^ j
               d == 2 ^ (j + 1)
    <2>1. p \in Nat \ {0} /\ d = 2 * p
      BY PowersDouble
    <2> HIDE DEF p, d
    <2>2. v \div p \in Nat /\ v \div d = (v \div p) \div 2
      BY <2>1, Quotients, HalveQuotient
    <2> QED
      BY <2>2, Zenon DEF p, d, Above
  <1>4. \A a \in Nat : a = 2 * (a \div 2) + (a % 2) /\ a % 2 \in {0, 1}
    OBVIOUS
  <1>5. ASSUME NEW j \in Nat
        PROVE  /\ Above(v, j) = 2 * Above(v, j + 1) + (Above(v, j) % 2)
               /\ Above(v, j) % 2 \in {0, 1}
    BY <1>3, <1>4
  <1> QED
    BY <1>2, <1>3, <1>5

LEMMA NothingAbove ==
  ASSUME NEW v \in Nat, NEW m \in Nat
  PROVE  v < 2 ^ m <=> Above(v, m) = 0
  <1> DEFINE p == 2 ^ m
  <1>1. p \in Nat \ {0}
    BY PowersDouble
  <1> HIDE DEF p
  <1>2. v < p <=> v \div p = 0
    BY <1>1
  <1> QED
    BY <1>2, Zenon DEF p, Above

(* A byte is known by its digits, *)
LEMMA DigitsTellApart ==
  ASSUME NEW u \in W!WireByte, NEW v \in W!WireByte, Digits(u) = Digits(v)
  PROVE  u = v
  <1> DEFINE Differ == {j \in 0 .. ByteBits : Above(u, j) # Above(v, j)}
  <1>1. ByteBits \in Nat /\ u \in Nat /\ v \in Nat
    BY BytesAssumption DEF W!WireByte
  <1>2. Above(u, ByteBits) = Above(v, ByteBits)
    <2>1. 2 ^ ByteBits \in Nat
      BY <1>1, PowersDouble
    <2>2. u < 2 ^ ByteBits /\ v < 2 ^ ByteBits
      BY <2>1 DEF W!WireByte
    <2> QED
      BY <1>1, <2>2, NothingAbove
  <1>3. Differ = {}
    <2> SUFFICES ASSUME Differ # {} PROVE FALSE
      OBVIOUS
    <2>1. IsBitmap(Differ)
      <3>1. IsFiniteSet(0 .. ByteBits) /\ 0 .. ByteBits \subseteq Nat
        BY <1>1, FS_Interval
      <3>2. Differ \in SUBSET (0 .. ByteBits)
        OBVIOUS
      <3> HIDE DEF Differ
      <3> QED
        BY <3>1, <3>2, FS_Subset DEF IsBitmap
    <2> DEFINE j == Highest(Differ)
    <2>2. j \in Differ /\ \A k \in Differ : k <= j
      BY <2>1, HighestMember
    <2> HIDE DEF j
    <2>3. j \in Digit /\ j \in Nat /\ j + 1 \in 0 .. ByteBits /\ j + 1 \notin Differ
      BY <1>1, <1>2, <2>2 DEF Digit
    <2>4. Above(u, j + 1) = Above(v, j + 1)
      BY <2>3
    <2>5. Above(u, j) % 2 = Above(v, j) % 2
      <3>1. Above(u, j) % 2 = 1 <=> Above(v, j) % 2 = 1
        BY <2>3 DEF Digits
      <3>2. Above(u, j) % 2 \in {0, 1} /\ Above(v, j) % 2 \in {0, 1}
        BY <1>1, <2>3, AboveSteps
      <3> QED
        BY <3>1, <3>2
    <2>6. Above(u, j) = Above(v, j)
      BY <1>1, <2>3, <2>4, <2>5, AboveSteps
    <2> QED
      BY <2>2, <2>6
  <1>4. Above(u, 0) = Above(v, 0)
    BY <1>1, <1>3
  <1> QED
    BY <1>1, <1>4, AboveSteps

(* and there is one for each set of digits. *)
LEMMA DigitsAll ==
  ASSUME NEW D \in SUBSET Digit
  PROVE  \E v \in W!WireByte : Digits(v) = D
  <1> DEFINE p == 2 ^ ByteBits
             f == [v \in W!WireByte |-> Digits(v)]
             S == SUBSET Digit
  <1>1. ByteBits \in Nat \ {0} /\ p \in Nat \ {0}
    BY BytesAssumption, PowersDouble
  <1>2. W!WireByte = 0 .. p - 1
    BY DEF W!WireByte
  <1>3. IsFiniteSet(Digit) /\ Cardinality(Digit) = ByteBits
    BY <1>1, FS_Interval DEF Digit
  <1>4. IsFiniteSet(S) /\ Cardinality(S) = p
    BY <1>3, FS_SUBSET
  <1> HIDE DEF p, S
  <1>5. IsFiniteSet(W!WireByte) /\ Cardinality(W!WireByte) = p
    BY <1>1, <1>2, FS_Interval
  <1>6. f \in Injection(W!WireByte, S)
    <2>1. f \in [W!WireByte -> S]
      BY DEF Digits, S
    <2>2. \A u, v \in W!WireByte : f[u] = f[v] => u = v
      BY DigitsTellApart
    <2> QED
      BY <2>1, <2>2 DEF Injection, IsInjective
  <1>7. f \in Surjection(W!WireByte, S)
    BY <1>4, <1>5, <1>6, FS_Injection
  <1> QED
    BY <1>7 DEF Surjection, S

(* A digit more is a power of two more. *)
LEMMA DigitAdded ==
  ASSUME NEW u \in W!WireByte, NEW x \in Digit \ Digits(u)
  PROVE  u + 2 ^ x \in W!WireByte /\ Digits(u + 2 ^ x) = Digits(u) \cup {x}
  <1> DEFINE p(k) == 2 ^ k
             w == u + p(x)
  <1>1. /\ ByteBits \in Nat /\ u \in Nat /\ x \in Nat /\ x < ByteBits
        /\ \A j \in Digit : j \in Nat /\ j < ByteBits
    BY BytesAssumption DEF W!WireByte, Digit
  <1>2. p(0) = 1 /\ \A k \in Nat : p(k) \in Nat \ {0} /\ p(k + 1) = 2 * p(k)
    BY PowersDouble
  <1>3. /\ W!WireByte = 0 .. p(ByteBits) - 1
        /\ \A v \in Nat : v < p(ByteBits) <=> Above(v, ByteBits) = 0
    BY <1>1, NothingAbove DEF W!WireByte
  <1> HIDE DEF p
  <1>4. w \in Nat
    BY <1>1, <1>2
  <1> HIDE DEF w
  <1>5. \A j \in 0 .. x : Above(w, j) = Above(u, j) + p(x - j)
    <2> DEFINE Bad == {j \in 0 .. x : Above(w, j) # Above(u, j) + p(x - j)}
               j == Lowest(Bad)
    <2> SUFFICES ASSUME Bad # {} PROVE FALSE
      OBVIOUS
    <2>1. IsBitmap(Bad)
      <3>1. IsFiniteSet(0 .. x) /\ 0 .. x \subseteq Nat
        BY <1>1, FS_Interval
      <3>2. Bad \in SUBSET (0 .. x)
        OBVIOUS
      <3> HIDE DEF Bad
      <3> QED
        BY <3>1, <3>2, FS_Subset DEF IsBitmap
    <2>2. j \in Bad /\ \A k \in Bad : j <= k
      BY <2>1, LowestMember
    <2> HIDE DEF j
    <2>3. j \in 0 .. x /\ Above(w, j) # Above(u, j) + p(x - j)
      BY <2>2
    <2>4. j # 0
      <3>1. Above(w, 0) = u + p(x) /\ Above(u, 0) = u /\ x - 0 = x
        BY <1>1, <1>4, AboveSteps DEF w
      <3> QED
        BY <2>3, <3>1
    <2>5. j - 1 \in 0 .. x /\ j - 1 \notin Bad /\ j - 1 \in Nat
      BY <1>1, <2>2, <2>3, <2>4
    <2> DEFINE a == Above(u, j - 1)
               q == p(x - j)
    <2>6. Above(w, j - 1) = a + 2 * q
      <3>1. x - j \in Nat /\ x - (j - 1) = (x - j) + 1
        BY <1>1, <2>3
      <3> QED
        BY <1>2, <2>5, <3>1
    <2>7. /\ a \in Nat /\ q \in Nat /\ (j - 1) + 1 = j
          /\ Above(u, j) = a \div 2 /\ Above(w, j) = Above(w, j - 1) \div 2
      <3>1. x - j \in Nat /\ (j - 1) + 1 = j
        BY <1>1, <2>3
      <3> QED
        BY <1>1, <1>2, <1>4, <2>5, <3>1, AboveSteps
    <2> HIDE DEF a, q
    <2>8. (a + 2 * q) \div 2 = (a \div 2) + q
      BY <2>7
    <2> QED
      BY <2>3, <2>6, <2>7, <2>8 DEF q
  <1>6. Above(w, x) = Above(u, x) + 1 /\ Above(u, x) % 2 = 0 /\ Above(u, x) \in Nat
    <2>1. x \in 0 .. x /\ x - x = 0
      BY <1>1
    <2>2. Above(u, x) % 2 \in {0, 1} /\ Above(u, x) % 2 # 1 /\ Above(u, x) \in Nat
      BY <1>1, AboveSteps DEF Digits
    <2> QED
      BY <1>2, <1>5, <2>1, <2>2
  <1>7. \A j \in x + 1 .. ByteBits : Above(w, j) = Above(u, j)
    <2> DEFINE Bad == {j \in x + 1 .. ByteBits : Above(w, j) # Above(u, j)}
               j == Lowest(Bad)
    <2> SUFFICES ASSUME Bad # {} PROVE FALSE
      OBVIOUS
    <2>1. IsBitmap(Bad)
      <3>1. IsFiniteSet(x + 1 .. ByteBits) /\ x + 1 .. ByteBits \subseteq Nat
        BY <1>1, FS_Interval
      <3>2. Bad \in SUBSET (x + 1 .. ByteBits)
        OBVIOUS
      <3> HIDE DEF Bad
      <3> QED
        BY <3>1, <3>2, FS_Subset DEF IsBitmap
    <2>2. j \in Bad /\ \A k \in Bad : j <= k
      BY <2>1, LowestMember
    <2> HIDE DEF j
    <2>3. /\ j \in x + 1 .. ByteBits /\ Above(w, j) # Above(u, j)
          /\ j - 1 \in Nat /\ (j - 1) + 1 = j
      BY <1>1, <2>2
    <2>4. /\ Above(u, j) = Above(u, j - 1) \div 2 /\ Above(w, j) = Above(w, j - 1) \div 2
          /\ Above(u, j - 1) \in Nat
      <3>1. \A v \in Nat : Above(v, j - 1) \in Nat /\ Above(v, (j - 1) + 1) = Above(v, j - 1) \div 2
        BY <2>3, AboveSteps
      <3> QED
        BY <1>1, <1>4, <2>3, <3>1
    <2>5. CASE j = x + 1
      <3>1. j - 1 = x
        BY <1>1, <2>5
      <3> QED
        BY <1>6, <2>3, <2>4, <3>1
    <2>6. CASE j # x + 1
      <3>1. j - 1 \in x + 1 .. ByteBits /\ j - 1 \notin Bad
        BY <1>1, <2>2, <2>3, <2>6
      <3> QED
        BY <2>3, <2>4, <3>1
    <2> QED
      BY <2>5, <2>6
  <1>8. w \in W!WireByte
    <2>1. ByteBits \in x + 1 .. ByteBits /\ p(ByteBits) \in Nat
      BY <1>1, <1>2
    <2>2. u < p(ByteBits)
      BY <1>3, <2>1
    <2>3. Above(w, ByteBits) = 0
      BY <1>1, <1>3, <1>7, <2>1, <2>2
    <2> QED
      BY <1>3, <1>4, <2>1, <2>3
  <1>9. \A j \in Digit : Above(w, j) % 2 = 1 <=> (Above(u, j) % 2 = 1 \/ j = x)
    <2> TAKE j \in Digit
    <2>1. CASE j < x
      <3> DEFINE a == Above(u, j)
                 q == p(x - (j + 1))
      <3>1. j \in 0 .. x /\ x - (j + 1) \in Nat /\ x - j = (x - (j + 1)) + 1
        BY <1>1, <2>1
      <3>2. a \in Nat /\ q \in Nat /\ Above(w, j) = a + 2 * q
        BY <1>1, <1>2, <1>5, <3>1, AboveSteps
      <3> HIDE DEF a, q
      <3>3. (a + 2 * q) % 2 = a % 2
        BY <3>2
      <3> QED
        BY <2>1, <3>1, <3>2, <3>3 DEF a
    <2>2. CASE j = x
      BY <1>6, <2>2
    <2>3. CASE x < j
      <3>1. j \in x + 1 .. ByteBits /\ j # x
        BY <1>1, <2>3
      <3> QED
        BY <1>7, <3>1
    <2> QED
      BY <1>1, <2>1, <2>2, <2>3
  <1>10. Digits(w) = Digits(u) \cup {x}
    BY <1>9 DEF Digits
  <1> QED
    BY <1>8, <1>10, Zenon DEF w, p

(* The sum of a byte's bits, one after the other; any order would do. *)
Sums(T) ==
  CHOOSE f : f = [s \in SUBSET T |->
                    IF s = {} THEN 0
                    ELSE LET x == CHOOSE x \in s : TRUE
                         IN  2 ^ (x % ByteBits) + f[s \ {x}]]

Residues(s) == {i % ByteBits : i \in s}

LEMMA ResiduesSplit ==
  ASSUME NEW s, s \subseteq Nat, NEW x \in s,
         \A i, j \in s : i % ByteBits = j % ByteBits => i = j
  PROVE  /\ x % ByteBits \in Digit
         /\ x % ByteBits \notin Residues(s \ {x})
         /\ Residues(s) = Residues(s \ {x}) \cup {x % ByteBits}
         /\ Residues(s) \subseteq Digit
  <1>1. \A i \in s : i % ByteBits \in Digit
    BY BytesAssumption DEF Digit
  <1> QED
    BY <1>1 DEF Residues

(* A byte sums to the value whose digits are its bits. *)
LEMMA ByteSum ==
  ASSUME NEW T, IsBitmap(T),
         \A i, j \in T : i % ByteBits = j % ByteBits => i = j
  PROVE  /\ Sums(T)[T] \in W!WireByte
         /\ Digits(Sums(T)[T]) = Residues(T)
  <1> DEFINE byte(s) == CHOOSE v \in W!WireByte : Digits(v) = Residues(s)
             h == [s \in SUBSET T |-> byte(s)]
             body(f, s) == IF s = {} THEN 0
                           ELSE LET x == CHOOSE x \in s : TRUE
                                IN  2 ^ (x % ByteBits) + f[s \ {x}]
             f == Sums(T)
  <1>1. ASSUME NEW s \in SUBSET T
        PROVE  byte(s) \in W!WireByte /\ Digits(byte(s)) = Residues(s)
    <2>1. Residues(s) \in SUBSET Digit
      <3>1. \A i \in s : i \in Nat /\ i % ByteBits \in Digit
        BY BytesAssumption DEF Digit, IsBitmap
      <3> QED
        BY <3>1 DEF Residues
    <2> QED
      BY <2>1, DigitsAll
  <1> HIDE DEF byte
  <1>2. byte({}) = 0
    <2>1. 0 \in W!WireByte /\ Digits(0) = {}
      <3>1. ByteBits \in Nat /\ 2 ^ ByteBits \in Nat \ {0}
        BY BytesAssumption, PowersDouble
      <3>2. \A j \in Digit : Above(0, j) = 0
        <4>1. \A p \in Nat \ {0} : 0 \div p = 0
          OBVIOUS
        <4>2. \A j \in Digit : 2 ^ j \in Nat \ {0}
          BY PowersDouble DEF Digit
        <4> QED
          BY <4>1, <4>2 DEF Above
      <3>3. Digits(0) = {}
        BY <3>2 DEF Digits
      <3> QED
        BY <3>1, <3>3 DEF W!WireByte
    <2>2. Residues({}) = {}
      BY DEF Residues
    <2> QED
      BY <1>1, <2>1, <2>2, DigitsTellApart
  <1>3. ASSUME NEW s \in SUBSET T, NEW x \in s
        PROVE  byte(s) = 2 ^ (x % ByteBits) + byte(s \ {x})
    <2> DEFINE d == x % ByteBits
               u == byte(s \ {x})
    <2>1. u \in W!WireByte /\ Digits(u) = Residues(s \ {x})
      BY <1>1
    <2>2. d \in Digit \ Digits(u) /\ Residues(s) = Digits(u) \cup {d}
      <3>1. s \subseteq Nat /\ \A i, j \in s : i % ByteBits = j % ByteBits => i = j
        BY DEF IsBitmap
      <3>2. d \in Digit /\ d \notin Residues(s \ {x}) /\ Residues(s) = Residues(s \ {x}) \cup {d}
        BY <3>1, ResiduesSplit
      <3> HIDE DEF d, u
      <3> QED
        BY <2>1, <3>2
    <2> HIDE DEF d, u
    <2>3. u + 2 ^ d \in W!WireByte /\ Digits(u + 2 ^ d) = Residues(s)
      BY <2>1, <2>2, DigitAdded
    <2>4. byte(s) = u + 2 ^ d
      BY <1>1, <2>3, DigitsTellApart
    <2>5. u \in Nat /\ 2 ^ d \in Nat
      BY <2>1, <2>2, PowersDouble DEF W!WireByte, Digit
    <2> QED
      BY <2>4, <2>5 DEF d, u
  <1>4. h = [s \in SUBSET T |-> body(h, s)]
    <2>1. ASSUME NEW s \in SUBSET T PROVE h[s] = body(h, s)
      <3>1. CASE s = {}
        BY <1>2, <3>1
      <3>2. CASE s # {}
        <4> DEFINE x == CHOOSE x \in s : TRUE
        <4>1. x \in s
          BY <3>2
        <4> HIDE DEF x
        <4>2. h[s] = 2 ^ (x % ByteBits) + h[s \ {x}]
          BY <1>3, <4>1
        <4> QED
          BY <3>2, <4>2, Zenon DEF x
      <3> QED
        BY <3>1, <3>2
    <2> QED
      BY <2>1
  <1>5. f = [s \in SUBSET T |-> body(f, s)]
    BY <1>4, Zenon DEF Sums
  <1> HIDE DEF f
  <1>6. f = h
    <2> DEFINE Bad == {s \in SUBSET T : f[s] # h[s]}
               Sizes == {Cardinality(s) : s \in Bad}
    <2>1. Bad = {}
      <3> SUFFICES ASSUME Bad # {} PROVE FALSE
        OBVIOUS
      <3>1. ASSUME NEW s \in SUBSET T
            PROVE  IsFiniteSet(s) /\ Cardinality(s) \in 0 .. Cardinality(T)
        <4>1. IsFiniteSet(s) /\ Cardinality(s) <= Cardinality(T)
          BY FS_Subset DEF IsBitmap
        <4> QED
          BY <4>1, FS_CardinalityType DEF IsBitmap
      <3>2. IsBitmap(Sizes)
        <4>1. IsFiniteSet(0 .. Cardinality(T)) /\ 0 .. Cardinality(T) \subseteq Nat
          BY FS_CardinalityType, FS_Interval DEF IsBitmap
        <4>2. Sizes \in SUBSET (0 .. Cardinality(T))
          BY <3>1
        <4> HIDE DEF Sizes
        <4> QED
          BY <4>1, <4>2, FS_Subset DEF IsBitmap
      <3>3. Sizes # {}
        <4> PICK s \in Bad : TRUE
          OBVIOUS
        <4>1. Cardinality(s) \in Sizes
          OBVIOUS
        <4> QED
          BY <4>1
      <3>4. Lowest(Sizes) \in Sizes /\ \A n \in Sizes : Lowest(Sizes) <= n
        BY <3>2, <3>3, LowestMember
      <3>5. PICK s \in Bad : Cardinality(s) = Lowest(Sizes)
        BY <3>4
      <3>6. s # {}
        BY <1>2, <1>5, <3>5
      <3> DEFINE x == CHOOSE x \in s : TRUE
      <3>7. x \in s
        BY <3>6
      <3>8. f[s] = 2 ^ (x % ByteBits) + f[s \ {x}]
        BY <1>5, <3>5, <3>6, Zenon
      <3> HIDE DEF x
      <3>9. h[s] = 2 ^ (x % ByteBits) + h[s \ {x}]
        BY <1>3, <3>5, <3>7
      <3>10. s \ {x} \in Bad
        BY <3>5, <3>8, <3>9
      <3>11. Cardinality(s \ {x}) = Cardinality(s) - 1 /\ Cardinality(s) \in Nat
        BY <3>1, <3>5, <3>7, FS_RemoveElement
      <3>12. Cardinality(s \ {x}) \in Sizes
        BY <3>10
      <3> HIDE DEF Sizes
      <3> QED
        BY <3>4, <3>5, <3>11, <3>12
    <2>2. \A s \in SUBSET T : f[s] = h[s]
      BY <2>1
    <2> HIDE DEF h, Bad
    <2>3. DOMAIN h = SUBSET T /\ h = [s \in SUBSET T |-> h[s]]
      BY DEF h
    <2>4. f = [s \in SUBSET T |-> f[s]]
      <3>1. DOMAIN f = SUBSET T
        BY <1>5, Zenon
      <3> QED
        BY <1>5, <3>1, Zenon
    <2> QED
      BY <2>2, <2>3, <2>4
  <1> QED
    BY <1>1, <1>6, Zenon DEF f

-----------------------------------------------------------------------------
(* The bytes of a bitmap.                                                  *)

(* Index i is bit i % ByteBits of byte i \div ByteBits. *)
LEMMA Places ==
  /\ W!Bytes \in Nat
  /\ \A i \in Index : /\ i \div ByteBits \in 0 .. W!Bytes - 1 /\ i % ByteBits \in Digit
                      /\ i = ByteBits * (i \div ByteBits) + (i % ByteBits)
  /\ \A k \in 0 .. W!Bytes - 1, d \in Digit :
       \E i \in Index : i \div ByteBits = k /\ i % ByteBits = d
  <1> DEFINE b == ByteBits
             m == W!Bytes
  <1>1. b \in Nat \ {0} /\ N \in Nat /\ N % b = 0 /\ m = N \div b
    BY BytesAssumption, ArityAssumption DEF W!Bytes
  <1> HIDE DEF b, m
  <1>2. m \in Nat /\ N = b * m
    BY <1>1, Quotients
  <1>3. ASSUME NEW i \in Index
        PROVE  i \div b \in 0 .. m - 1 /\ i % b \in 0 .. b - 1 /\ i = b * (i \div b) + (i % b)
    <2> DEFINE q == i \div b
               r == i % b
    <2>1. i \in Nat /\ i < N
      BY <1>1 DEF Index
    <2>2. q \in Nat /\ r \in 0 .. b - 1 /\ i = b * q + r
      BY <1>1, <2>1, Quotients
    <2> HIDE DEF q, r
    <2>3. q < m
      <3> SUFFICES ASSUME m <= q PROVE FALSE
        BY <1>2, <2>2
      <3>1. q = m + (q - m) /\ q - m \in Nat
        BY <1>2, <2>2
      <3>2. b * q = b * m + b * (q - m)
        BY <1>1, <1>2, <2>2, <3>1
      <3>3. b * (q - m) \in Nat
        BY <1>1, <3>1
      <3> QED
        BY <1>1, <1>2, <2>1, <2>2, <3>2, <3>3
    <2> QED
      BY <1>2, <2>2, <2>3 DEF q, r
  <1>4. ASSUME NEW k \in 0 .. m - 1, NEW d \in 0 .. b - 1
        PROVE  \E i \in Index : i \div b = k /\ i % b = d
    <2> DEFINE i == b * k + d
    <2>1. k \in Nat /\ d \in Nat /\ b * k \in Nat
      BY <1>1, <1>2
    <2>2. i \in Nat
      BY <2>1
    <2>3. i < N
      <3>1. b * m = b * (k + 1) + b * (m - (k + 1)) /\ b * (k + 1) = b * k + b
        BY <1>1, <1>2, <2>1
      <3>2. m - (k + 1) \in Nat
        BY <1>2
      <3>3. b * (m - (k + 1)) \in Nat
        BY <1>1, <3>2
      <3> QED
        BY <1>1, <1>2, <2>1, <3>1, <3>3
    <2>4. i \div b = k /\ i % b = d
      BY <1>1, <2>1, <2>2, QuotientIs
    <2>5. i \in Index
      BY <1>1, <2>2, <2>3 DEF Index
    <2> HIDE DEF i
    <2> QED
      BY <2>4, <2>5
  <1> QED
    BY <1>2, <1>3, <1>4 DEF b, m, Digit

LEMMA BitmapOfIndices ==
  ASSUME NEW B \in SUBSET Index
  PROVE  IsBitmap(B)
  <1>1. IsFiniteSet(Index) /\ Index \subseteq Nat
    BY ArityAssumption, FS_Interval DEF Index
  <1> QED
    BY <1>1, FS_Subset DEF IsBitmap

(* The bits of B in byte k. *)
InByte(B, k) == {i \in B : i \div ByteBits = k - 1}

LEMMA ToBytesDigits ==
  ASSUME NEW B \in SUBSET Index
  PROVE  /\ W!ToBytes(B) \in [1 .. W!Bytes -> W!WireByte]
         /\ \A k \in 1 .. W!Bytes : Digits(W!ToBytes(B)[k]) = Residues(InByte(B, k))
  <1>1. W!ToBytes(B) = [k \in 1 .. W!Bytes |-> Sums(InByte(B, k))[InByte(B, k)]]
    <2>1. ASSUME NEW T
          PROVE  W!MapThenSumSet(LAMBDA i : 2 ^ (i % ByteBits), T) = Sums(T)[T]
      BY DEF W!MapThenSumSet, W!MapThenFoldSet, Sums
    <2>2. W!ToBytes(B) =
            [k \in 1 .. W!Bytes |-> W!MapThenSumSet(LAMBDA i : 2 ^ (i % ByteBits), InByte(B, k))]
      BY DEF W!ToBytes, InByte
    <2> QED
      BY <2>1, <2>2
  <1>2. ASSUME NEW k \in 1 .. W!Bytes
        PROVE  /\ Sums(InByte(B, k))[InByte(B, k)] \in W!WireByte
               /\ Digits(Sums(InByte(B, k))[InByte(B, k)]) = Residues(InByte(B, k))
    <2> DEFINE T == InByte(B, k)
    <2>1. T \in SUBSET Index /\ \A i \in T : i \div ByteBits = k - 1
      BY DEF InByte
    <2> HIDE DEF T
    <2>2. \A i, j \in T : i % ByteBits = j % ByteBits => i = j
      BY <2>1, Places
    <2> QED
      BY <2>1, <2>2, BitmapOfIndices, ByteSum DEF T
  <1> QED
    BY <1>1, <1>2

LEMMA TryFromBytesDigits ==
  ASSUME NEW bytes \in [1 .. W!Bytes -> W!WireByte]
  PROVE  /\ W!TryFromBytes(bytes) = {i \in Index : i % ByteBits \in Digits(bytes[(i \div ByteBits) + 1])}
         /\ W!TryFromBytes(bytes) # W!NoBitmap
         /\ Len(bytes) = W!Bytes
  <1>1. W!Bytes \in Nat
    BY Places
  <1>2. Len(bytes) = W!Bytes
    BY <1>1
  <1>3. ASSUME NEW i \in Index
        PROVE  (bytes[(i \div ByteBits) + 1] \div 2 ^ (i % ByteBits)) % 2 = 1
                 <=> i % ByteBits \in Digits(bytes[(i \div ByteBits) + 1])
    BY Places DEF Digits, Above
  <1>4. W!TryFromBytes(bytes) = {i \in Index : i % ByteBits \in Digits(bytes[(i \div ByteBits) + 1])}
    <2>1. W!TryFromBytes(bytes) =
            {i \in Index : (bytes[(i \div ByteBits) + 1] \div 2 ^ (i % ByteBits)) % 2 = 1}
      BY <1>2, Zenon DEF W!TryFromBytes, W!Index, Index
    <2> QED
      BY <1>3, <2>1
  <1>5. W!NoBitmap \notin SUBSET Index
    BY DEF W!NoBitmap, W!NoIndex, W!NoBit, Index
  <1> QED
    BY <1>2, <1>4, <1>5

(* The bytes of a bitmap read back as that bitmap, *)
LEMMA BytesReadBack ==
  ASSUME NEW B \in SUBSET Index
  PROVE  W!TryFromBytes(W!ToBytes(B)) = B
  <1>1. ASSUME NEW i \in Index
        PROVE  i % ByteBits \in Digits(W!ToBytes(B)[(i \div ByteBits) + 1]) <=> i \in B
    <2> DEFINE k == (i \div ByteBits) + 1
    <2>1. k \in 1 .. W!Bytes /\ k - 1 = i \div ByteBits
      BY Places
    <2> HIDE DEF k
    <2>2. Digits(W!ToBytes(B)[k]) = Residues(InByte(B, k))
      BY <2>1, ToBytesDigits
    <2>3. i % ByteBits \in Residues(InByte(B, k)) <=> i \in B
      <3>1. ASSUME NEW j \in InByte(B, k), i % ByteBits = j % ByteBits PROVE i = j
        BY <2>1, <3>1, Places DEF InByte
      <3>2. i \in B => i \in InByte(B, k)
        BY <2>1 DEF InByte
      <3>3. InByte(B, k) \subseteq B
        BY DEF InByte
      <3> QED
        BY <3>1, <3>2, <3>3 DEF Residues
    <2> QED
      BY <2>2, <2>3 DEF k
  <1>2. W!TryFromBytes(W!ToBytes(B)) =
          {i \in Index : i % ByteBits \in Digits(W!ToBytes(B)[(i \div ByteBits) + 1])}
    BY ToBytesDigits, TryFromBytesDigits
  <1> QED
    BY <1>1, <1>2

(* and as many bytes as a bitmap has are those of the bitmap they read as. *)
LEMMA BytesWriteBack ==
  ASSUME NEW bytes \in [1 .. W!Bytes -> W!WireByte]
  PROVE  W!ToBytes(W!TryFromBytes(bytes)) = bytes
  <1> DEFINE B == W!TryFromBytes(bytes)
             again == W!ToBytes(B)
  <1>1. B = {i \in Index : i % ByteBits \in Digits(bytes[(i \div ByteBits) + 1])}
    BY TryFromBytesDigits
  <1> HIDE DEF B
  <1>2. /\ again \in [1 .. W!Bytes -> W!WireByte]
        /\ \A k \in 1 .. W!Bytes : Digits(again[k]) = Residues(InByte(B, k))
    BY <1>1, ToBytesDigits
  <1> HIDE DEF again
  <1>3. ASSUME NEW k \in 1 .. W!Bytes PROVE again[k] = bytes[k]
    <2>1. ASSUME NEW d \in Digits(bytes[k]) PROVE d \in Residues(InByte(B, k))
      <3>1. k - 1 \in 0 .. W!Bytes - 1 /\ (k - 1) + 1 = k /\ d \in Digit
        BY Places DEF Digits
      <3>2. PICK i \in Index : i \div ByteBits = k - 1 /\ i % ByteBits = d
        BY <3>1, Places
      <3>3. i \in InByte(B, k)
        BY <1>1, <3>1, <3>2 DEF InByte
      <3> QED
        BY <3>2, <3>3 DEF Residues
    <2>2. ASSUME NEW i \in InByte(B, k) PROVE i % ByteBits \in Digits(bytes[k])
      <3>1. i \in B /\ (i \div ByteBits) + 1 = k
        BY Places DEF InByte
      <3> QED
        BY <1>1, <3>1
    <2>3. Residues(InByte(B, k)) = Digits(bytes[k])
      BY <2>1, <2>2 DEF Residues
    <2>4. again[k] \in W!WireByte /\ bytes[k] \in W!WireByte
      BY <1>2
    <2> QED
      BY <1>2, <2>3, <2>4, DigitsTellApart
  <1>4. again = bytes
    <2>1. /\ again = [k \in 1 .. W!Bytes |-> again[k]]
          /\ bytes = [k \in 1 .. W!Bytes |-> bytes[k]]
      BY <1>2
    <2>2. \A k \in 1 .. W!Bytes : again[k] = bytes[k]
      BY <1>3
    <2> QED
      BY <2>1, <2>2, Zenon
  <1> QED
    BY <1>4, Zenon DEF again, B

-----------------------------------------------------------------------------
(* The pairs of an array.                                                  *)

LEMMA WireNames ==
  /\ W!Index = Index /\ W!NoIndex = NoIndex
  /\ \A i : W!TryNew(i) = TryNew(i)
  /\ \A S : W!Cardinality(S) = Cardinality(S)
  /\ \A S, i : W!Rank(S, i) = Rank(S, i)
  <1>1. W!Index = Index /\ W!NoIndex = NoIndex /\ \A i : W!TryNew(i) = TryNew(i)
    BY DEF W!Index, Index, W!NoIndex, NoIndex, W!NoBit, NoBit, W!TryNew, TryNew
  <1>2. \A S : W!Cardinality(S) = Cardinality(S)
    BY DEF W!Cardinality, Cardinality
  <1> QED
    BY <1>1, <1>2 DEF W!Rank, Rank

LEMMA WireSelect ==
  ASSUME NEW S, IsBitmap(S), NEW r \in 0 .. Cardinality(S) - 1
  PROVE  W!Select(S, r) = Select(S, r)
  <1>1. Select(S, r) \in S /\ Rank(S, Select(S, r)) = r
    BY SelectMember
  <1>2. W!Select(S, r) = CHOOSE p \in S : W!Rank(S, p) = r
    BY <1>1, WireNames DEF W!Select
  <1>3. W!Select(S, r) \in S /\ Rank(S, W!Select(S, r)) = r
    BY <1>1, <1>2, WireNames
  <1> QED
    BY <1>1, <1>3, RankOrders

LEMMA PairsOf ==
  ASSUME NEW a \in W!Arrays
  PROVE  /\ W!BitmapOf(a) \in SUBSET Index /\ IsBitmap(W!BitmapOf(a))
         /\ Cardinality(W!BitmapOf(a)) \in Nat
         /\ \A i \in Index : i \in W!BitmapOf(a) <=> a[i] # Absent
         /\ Len(W!IterPresent(a)) = Cardinality(W!BitmapOf(a))
         /\ W!IterPresent(a) =
              [k \in 1 .. Cardinality(W!BitmapOf(a)) |->
                 <<Select(W!BitmapOf(a), k - 1), a[Select(W!BitmapOf(a), k - 1)]>>]
         /\ \A k \in 1 .. Cardinality(W!BitmapOf(a)) : Select(W!BitmapOf(a), k - 1) \in W!BitmapOf(a)
  <1> DEFINE B == W!BitmapOf(a)
             n == Cardinality(B)
  <1>1. B \in SUBSET Index /\ \A i \in Index : i \in B <=> a[i] # Absent
    BY WireNames DEF W!BitmapOf
  <1> HIDE DEF B
  <1>2. IsBitmap(B)
    BY <1>1, BitmapOfIndices
  <1>3. n \in Nat
    BY <1>2, FS_CardinalityType DEF IsBitmap
  <1>4. W!IterPresent(a) = [k \in 1 .. n |-> <<Select(B, k - 1), a[Select(B, k - 1)]>>]
    <2>1. \A k \in 1 .. n : W!Select(B, k - 1) = Select(B, k - 1)
      <3>1. \A k \in 1 .. n : k - 1 \in 0 .. n - 1
        BY <1>3
      <3> QED
        BY <1>2, <3>1, WireSelect
    <2>2. W!Cardinality(B) = n
      BY WireNames
    <2>3. W!IterPresent(a) =
            [k \in 1 .. W!Cardinality(B) |-> <<W!Select(B, k - 1), a[W!Select(B, k - 1)]>>]
      BY DEF W!IterPresent, B
    <2> HIDE DEF n
    <2> QED
      BY <2>1, <2>2, <2>3
  <1> HIDE DEF n
  <1>5. Len(W!IterPresent(a)) = n
    BY <1>3, <1>4
  <1>6. \A k \in 1 .. n : Select(B, k - 1) \in B
    <2>1. \A k \in 1 .. n : k - 1 \in 0 .. n - 1
      BY <1>3
    <2> QED
      BY <1>2, <2>1, SelectMember DEF n
  <1> QED
    BY <1>1, <1>2, <1>3, <1>4, <1>5, <1>6 DEF B, n

(* Two arrays with the same pairs have the same values. *)
LEMMA PairsAgree ==
  ASSUME NEW a \in W!Arrays, NEW c \in W!Arrays, W!IterPresent(a) = W!IterPresent(c),
         NEW i \in W!BitmapOf(a)
  PROVE  i \in W!BitmapOf(c) /\ a[i] = c[i]
  <1> DEFINE A1 == W!BitmapOf(a)
             C1 == W!BitmapOf(c)
             n == Cardinality(A1)
             k == Rank(A1, i) + 1
  <1>1. IsBitmap(A1) /\ n \in Nat /\ Cardinality(C1) = n
    BY PairsOf
  <1>2. Rank(A1, i) \in 0 .. n - 1 /\ Select(A1, Rank(A1, i)) = i
    BY <1>1, RankOfMember, SelectOfRank
  <1>3. k \in 1 .. n /\ k - 1 = Rank(A1, i)
    BY <1>1, <1>2
  <1> HIDE DEF A1, C1, n, k
  <1>4. W!IterPresent(a)[k] = <<Select(A1, k - 1), a[Select(A1, k - 1)]>>
    BY <1>3, PairsOf DEF A1, n
  <1>5. W!IterPresent(c)[k] = <<Select(C1, k - 1), c[Select(C1, k - 1)]>> /\ Select(C1, k - 1) \in C1
    BY <1>1, <1>3, PairsOf DEF C1
  <1>6. i = Select(C1, k - 1) /\ a[i] = c[i]
    BY <1>2, <1>3, <1>4, <1>5
  <1> QED
    BY <1>5, <1>6 DEF C1

(* An array is known by its pairs. *)
LEMMA PairsTellApart ==
  ASSUME NEW a \in W!Arrays, NEW c \in W!Arrays, W!IterPresent(a) = W!IterPresent(c)
  PROVE  a = c
  <1>1. ASSUME NEW i \in Index PROVE a[i] = c[i]
    <2>1. i \in W!BitmapOf(a) \/ i \in W!BitmapOf(c) => a[i] = c[i]
      BY PairsAgree
    <2>2. /\ i \in W!BitmapOf(a) <=> a[i] # Absent
          /\ i \in W!BitmapOf(c) <=> c[i] # Absent
      BY PairsOf
    <2> QED
      BY <2>1, <2>2
  <1>2. a \in [Index -> Value \cup {Absent}] /\ c \in [Index -> Value \cup {Absent}]
    BY WireNames DEF W!Arrays
  <1> QED
    BY <1>1, <1>2

LEMMA ValuesOf ==
  ASSUME NEW a \in W!Arrays
  PROVE  /\ Len(W!Values(a)) = Cardinality(W!BitmapOf(a))
         /\ W!Values(a) =
              [k \in 1 .. Cardinality(W!BitmapOf(a)) |-> a[Select(W!BitmapOf(a), k - 1)]]
  <1> DEFINE B == W!BitmapOf(a)
             n == Cardinality(B)
  <1>1. n \in Nat /\ W!IterPresent(a) = [k \in 1 .. n |-> <<Select(B, k - 1), a[Select(B, k - 1)]>>]
    BY PairsOf
  <1> HIDE DEF B, n
  <1>2. W!Values(a) = [k \in 1 .. n |-> a[Select(B, k - 1)]]
    BY <1>1 DEF W!Values
  <1>3. Len(W!Values(a)) = n
    BY <1>1, <1>2
  <1> QED
    BY <1>2, <1>3 DEF B, n

(* Equality and hash tell arrays apart. *)
LEMMA EqualityAndHash ==
  ASSUME NEW a \in W!Arrays, NEW c \in W!Arrays
  PROVE  (W!Eq(a, c) <=> a = c) /\ (W!HashInput(a) = W!HashInput(c) <=> a = c)
  <1>1. ASSUME W!Eq(a, c) PROVE a = c
    <2> DEFINE A1 == W!BitmapOf(a)
               n == Cardinality(A1)
    <2>1. A1 = W!BitmapOf(c) /\ W!Values(a) = W!Values(c)
      BY <1>1 DEF W!Eq
    <2>2. /\ n \in Nat
          /\ W!Values(a) = [k \in 1 .. n |-> a[Select(A1, k - 1)]]
          /\ W!Values(c) = [k \in 1 .. n |-> c[Select(A1, k - 1)]]
      BY <2>1, PairsOf, ValuesOf
    <2>3. /\ W!IterPresent(a) = [k \in 1 .. n |-> <<Select(A1, k - 1), a[Select(A1, k - 1)]>>]
          /\ W!IterPresent(c) = [k \in 1 .. n |-> <<Select(A1, k - 1), c[Select(A1, k - 1)]>>]
      BY <2>1, PairsOf
    <2> HIDE DEF A1, n
    <2>4. \A k \in 1 .. n : a[Select(A1, k - 1)] = c[Select(A1, k - 1)]
      <3>1. \A k \in 1 .. n : W!Values(a)[k] = W!Values(c)[k]
        BY <2>1
      <3> QED
        BY <2>2, <3>1
    <2>5. W!IterPresent(a) = W!IterPresent(c)
      BY <2>3, <2>4
    <2> QED
      BY <2>5, PairsTellApart
  <1>2. ASSUME W!HashInput(a) = W!HashInput(c) PROVE a = c
    <2>1. W!IterPresent(a) = W!IterPresent(c)
      BY <1>2 DEF W!HashInput
    <2> QED
      BY <2>1, PairsTellApart
  <1> QED
    BY <1>1, <1>2 DEF W!Eq

-----------------------------------------------------------------------------
(* The decoders.  After c pairs of the logical form the array holds those  *)
(* and nothing else, and their indices rose; it is the whole input when    *)
(* the decoder accepts, and the next pair breaks the rule when it rejects. *)
PairsIn == Len(wire) - Len(unread)

Rising(w, c) ==
  /\ \A k \in 1 .. c : w[k][1] \in Index
  /\ \A j, k \in 1 .. c : j < k => w[j][1] < w[k][1]

Holds(a, w, c) ==
  /\ \A k \in 1 .. c : a[w[k][1]] = w[k][2]
  /\ \A i \in W!BitmapOf(a) : \E k \in 1 .. c : w[k][1] = i

LogicalInv ==
  /\ wire \in Seq(W!WireIndex \X Value) /\ unread \in Seq(W!WireIndex \X Value)
  /\ PairsIn \in Nat
  /\ \A k \in 1 .. Len(unread) : unread[k] = wire[PairsIn + k]
  /\ out \in W!Arrays
  /\ Rising(wire, PairsIn) /\ Holds(out, wire, PairsIn)
  /\ last = IF PairsIn = 0 THEN NoIndex ELSE wire[PairsIn][1]
  /\ verdict = "accepted" => PairsIn = Len(wire)
  /\ verdict = "rejected" => PairsIn < Len(wire) /\ ~Rising(wire, PairsIn + 1)

(* The compact form is accepted or rejected in one step. *)
CompactInv ==
  /\ wire \in [bitmap : Seq(W!WireByte), values : Seq(Value)]
  /\ verdict = "accepted" => out \in W!Arrays /\ W!Compact(out) = wire
  /\ verdict = "rejected" =>
       LET B == W!TryFromBytes(wire.bitmap)
       IN  B = W!NoBitmap \/ Cardinality(B) # Len(wire.values)

DecoderInv ==
  /\ wireForm \in {"logical", "compact"}
  /\ wireForm = "logical" => LogicalInv
  /\ wireForm = "compact" => CompactInv

(* The pairs of an array rise. *)
LEMMA PairsRise ==
  ASSUME NEW a \in W!Arrays, NEW w, W!IterPresent(a) = w
  PROVE  Rising(w, Len(w)) /\ Len(w) \in Nat
  <1> DEFINE B == W!BitmapOf(a)
             n == Cardinality(B)
  <1>1. /\ B \in SUBSET Index /\ IsBitmap(B) /\ n \in Nat /\ Len(w) = n
        /\ w = [k \in 1 .. n |-> <<Select(B, k - 1), a[Select(B, k - 1)]>>]
        /\ \A k \in 1 .. n : Select(B, k - 1) \in B
    BY PairsOf
  <1> HIDE DEF B
  <1>2. \A k \in 1 .. n : w[k][1] = Select(B, k - 1) /\ w[k][1] \in Index
    BY <1>1
  <1>3. ASSUME NEW j \in 1 .. n, NEW k \in 1 .. n, j < k PROVE Select(B, j - 1) < Select(B, k - 1)
    <2>1. j - 1 \in 0 .. n - 1 /\ k - 1 \in 0 .. n - 1 /\ j - 1 < k - 1
      BY <1>1, <1>3
    <2> QED
      BY <1>1, <2>1, SelectIncreases
  <1> QED
    BY <1>1, <1>2, <1>3 DEF Rising

(* An array that holds just these rising pairs encodes as them. *)
LEMMA HeldIsEncoded ==
  ASSUME NEW w \in Seq(W!WireIndex \X Value), NEW a \in W!Arrays,
         Rising(w, Len(w)), Holds(a, w, Len(w))
  PROVE  W!IterPresent(a) = w
  <1> DEFINE n == Len(w)
             S == 1 .. n
             B == W!BitmapOf(a)
             f == [k \in S |-> w[k][1]]
  <1>1. n \in Nat /\ IsBitmap(S) /\ Cardinality(S) = n
    <2>1. n \in Nat
      OBVIOUS
    <2> QED
      BY <2>1, FS_Interval DEF IsBitmap
  <1>2. /\ B \in SUBSET Index /\ IsBitmap(B)
        /\ \A i \in Index : i \in B <=> a[i] # Absent
        /\ W!IterPresent(a) =
             [k \in 1 .. Cardinality(B) |-> <<Select(B, k - 1), a[Select(B, k - 1)]>>]
    BY PairsOf
  <1>3. \A k \in S : w[k] = <<w[k][1], w[k][2]>> /\ w[k][2] \in Value
    OBVIOUS
  <1> HIDE DEF B
  <1>4. \A k \in S : w[k][1] \in B /\ a[w[k][1]] = w[k][2]
    BY <1>2, <1>3, AbsentAssumption DEF Rising, Holds
  <1>5. \A i \in B : \E k \in S : w[k][1] = i
    BY DEF Holds, B
  <1>6. \A j, k \in S : j < k => w[j][1] < w[k][1]
    BY DEF Rising
  <1>7. \A j, k \in S : w[j][1] = w[k][1] => j = k
    <2>1. \A k \in S : k \in Int /\ w[k][1] \in Int
      <3>1. B \subseteq Int /\ S \subseteq Int
        BY <1>1, <1>2 DEF IsBitmap
      <3> HIDE DEF S
      <3> QED
        BY <1>4, <3>1
    <2> HIDE DEF S
    <2> QED
      BY <1>6, <2>1
  <1> HIDE DEF S
  <1>8. f \in [S -> B] /\ \A j, k \in S : j < k => f[j] < f[k]
    BY <1>4, <1>6
  <1>9. Cardinality(B) = n
    <2>1. f \in Bijection(S, B)
      BY <1>4, <1>5, <1>7 DEF Bijection, Injection, Surjection, IsInjective
    <2> QED
      BY <1>1, <2>1, FS_Bijection DEF ExistsBijection, IsBitmap
  <1>10. ASSUME NEW k \in S PROVE Select(B, k - 1) = w[k][1]
    <2>1. Rank(S, k) = k - 1
      <3>1. k \in 1 .. n /\ 1 \in Int
        BY DEF S
      <3>2. Rank(S, k) = Rank(S, 1) + (k - 1)
        <4>1. 1 .. k - 1 \subseteq S /\ 1 <= k /\ k \in Int
          BY <1>1, <3>1 DEF S
        <4> QED
          BY <1>1, <3>1, <4>1, RankSpan
      <3>3. Rank(S, 1) = 0
        <4>1. {j \in S : j < 1} = {}
          BY DEF S
        <4> QED
          BY <4>1, FS_EmptySet DEF Rank
      <3> QED
        BY <3>1, <3>2, <3>3
    <2> HIDE DEF f
    <2>2. Select(B, Rank(S, k)) = f[k]
      BY <1>1, <1>2, <1>8, <1>9, OrderPairsRanks
    <2> QED
      BY <2>1, <2>2 DEF f
  <1>11. W!IterPresent(a) = [k \in S |-> w[k]]
    <2>1. \A k \in S : <<Select(B, k - 1), a[Select(B, k - 1)]>> = w[k]
      BY <1>3, <1>4, <1>10
    <2>2. W!IterPresent(a) = [k \in S |-> <<Select(B, k - 1), a[Select(B, k - 1)]>>]
      BY <1>2, <1>9 DEF S
    <2> QED
      BY <2>1, <2>2
  <1> QED
    BY <1>1, <1>11 DEF S

LEMMA DecoderInitial == W!Init => DecoderInv
  <1> SUFFICES ASSUME W!Init PROVE DecoderInv
    OBVIOUS
  <1>1. out \in W!Arrays /\ W!BitmapOf(out) = {}
    BY DEF W!Init, W!Empty, W!Arrays, W!BitmapOf
  <1>2. CASE /\ wireForm = "logical"
             /\ wire \in UNION {[1 .. n -> W!WireIndex \X Value] : n \in 0 .. MaxPairs}
             /\ unread = wire
    <2>1. PICK n \in Nat : wire \in [1 .. n -> W!WireIndex \X Value]
      <3>1. PICK n \in 0 .. MaxPairs : wire \in [1 .. n -> W!WireIndex \X Value]
        BY <1>2
      <3>2. n \in Nat
        BY PairsAssumption
      <3> QED
        BY <3>1, <3>2
    <2>2. wire \in Seq(W!WireIndex \X Value) /\ unread = wire /\ Len(wire) \in Nat
      BY <1>2, <2>1
    <2>3. PairsIn = 0
      BY <2>2 DEF PairsIn
    <2>4. Rising(wire, 0) /\ Holds(out, wire, 0)
      BY <1>1 DEF Rising, Holds
    <2>5. \A k \in 1 .. Len(unread) : 0 + k = k
      BY <2>2
    <2>6. last = NoIndex /\ verdict = "reading"
      BY WireNames DEF W!Init
    <2> QED
      BY <1>1, <1>2, <2>2, <2>3, <2>4, <2>5, <2>6 DEF DecoderInv, LogicalInv
  <1>3. CASE /\ wireForm = "compact"
             /\ wire \in [bitmap : UNION {[1 .. n -> W!WireByte] : n \in 0 .. W!Bytes + 1},
                          values : UNION {[1 .. n -> Value] : n \in 0 .. N}]
    <2>1. /\ wire = [bitmap |-> wire.bitmap, values |-> wire.values]
          /\ wire.bitmap \in UNION {[1 .. n -> W!WireByte] : n \in 0 .. W!Bytes + 1}
          /\ wire.values \in UNION {[1 .. n -> Value] : n \in 0 .. N}
      BY <1>3
    <2>2. wire.bitmap \in Seq(W!WireByte)
      <3>1. PICK n \in 0 .. W!Bytes + 1 : wire.bitmap \in [1 .. n -> W!WireByte]
        BY <2>1
      <3>2. n \in Nat
        BY Places
      <3> QED
        BY <3>1, <3>2
    <2>3. wire.values \in Seq(Value)
      <3>1. PICK n \in 0 .. N : wire.values \in [1 .. n -> Value]
        BY <2>1
      <3>2. n \in Nat
        BY ArityAssumption
      <3> QED
        BY <3>1, <3>2
    <2>4. verdict = "reading"
      BY DEF W!Init
    <2>5. wire \in [bitmap : Seq(W!WireByte), values : Seq(Value)]
      BY <2>1, <2>2, <2>3
    <2> QED
      BY <1>3, <2>4, <2>5 DEF DecoderInv, CompactInv
  <1> QED
    BY <1>2, <1>3 DEF W!Init

LEMMA BadPairKeepsInv ==
  DecoderInv /\ verdict = "reading" /\ W!BadPair /\ UNCHANGED W!given => DecoderInv'
  <1> SUFFICES ASSUME DecoderInv, verdict = "reading", W!BadPair, UNCHANGED W!given
               PROVE  DecoderInv'
    OBVIOUS
  <1> DEFINE c == PairsIn
             i == Head(unread)[1]
  <1>1. LogicalInv /\ wireForm = "logical"
    BY DEF DecoderInv, W!BadPair
  <1>2. /\ unread # <<>> /\ verdict' = "rejected"
        /\ wireForm' = wireForm /\ wire' = wire /\ unread' = unread /\ out' = out /\ last' = last
        /\ LET t == TryNew(i) IN t = NoIndex \/ W!OutOfOrder(t)
    BY WireNames DEF W!BadPair, W!Reject, W!given
  <1>3. c \in Nat /\ Len(wire) \in Nat /\ Len(unread) \in Nat \ {0} /\ c + Len(unread) = Len(wire)
    BY <1>1, <1>2 DEF LogicalInv, PairsIn
  <1>4. unread[1] = wire[c + 1] /\ Head(unread) = unread[1]
    BY <1>1, <1>2, <1>3 DEF LogicalInv
  <1>5. c' = c
    BY <1>2 DEF PairsIn
  <1> HIDE DEF c
  <1>6. ~Rising(wire, c + 1)
    <2> SUFFICES ASSUME Rising(wire, c + 1) PROVE FALSE
      OBVIOUS
    <2>1. i \in Index /\ i = wire[c + 1][1]
      BY <1>3, <1>4 DEF Rising
    <2>2. TryNew(i) = i /\ i # NoIndex
      BY <2>1, ArityAssumption DEF TryNew, Index, NoIndex, NoBit
    <2>3. last # NoIndex /\ i <= last
      BY <1>2, <2>2, WireNames DEF W!OutOfOrder
    <2>4. c # 0 /\ last = wire[c][1]
      BY <1>1, <2>3 DEF LogicalInv, c
    <2>5. c \in 1 .. c + 1 /\ c + 1 \in 1 .. c + 1 /\ c < c + 1
      BY <1>3, <2>4
    <2>6. wire[c][1] < wire[c + 1][1] /\ wire[c][1] \in Index /\ wire[c + 1][1] \in Index
      BY <2>5 DEF Rising
    <2> QED
      BY <2>1, <2>3, <2>4, <2>6, ArityAssumption DEF Index
  <1>7. c < Len(wire)
    BY <1>3
  <1>8. LogicalInv'
    BY <1>1, <1>2, <1>5, <1>6, <1>7 DEF LogicalInv, c
  <1> QED
    BY <1>1, <1>2, <1>8 DEF DecoderInv

LEMMA ReadPairKeepsInv ==
  DecoderInv /\ verdict = "reading" /\ W!ReadPair /\ UNCHANGED W!given => DecoderInv'
  <1> SUFFICES ASSUME DecoderInv, verdict = "reading", W!ReadPair, UNCHANGED W!given
               PROVE  DecoderInv'
    OBVIOUS
  <1> DEFINE c == PairsIn
             i == Head(unread)[1]
             v == Head(unread)[2]
  <1>1. LogicalInv /\ wireForm = "logical"
    BY DEF DecoderInv, W!ReadPair
  <1>2. /\ unread # <<>> /\ verdict' = verdict
        /\ wireForm' = wireForm /\ wire' = wire /\ unread' = Tail(unread)
        /\ TryNew(i) # NoIndex /\ ~W!OutOfOrder(TryNew(i))
        /\ last' = TryNew(i) /\ out' = [out EXCEPT ![TryNew(i)] = v]
    BY WireNames DEF W!ReadPair, W!given
  <1>3. c \in Nat /\ Len(wire) \in Nat /\ Len(unread) \in Nat \ {0} /\ c + Len(unread) = Len(wire)
    BY <1>1, <1>2 DEF LogicalInv, PairsIn
  <1>4. Head(unread) = unread[1] /\ unread[1] = wire[c + 1]
    BY <1>1, <1>2, <1>3 DEF LogicalInv
  <1>5. unread[1] \in W!WireIndex \X Value
    BY <1>1, <1>3 DEF LogicalInv
  <1>6. i \in Index /\ TryNew(i) = i /\ v \in Value
    BY <1>2, <1>4, <1>5, ArityAssumption DEF TryNew, W!WireIndex, Index
  <1>7. i = wire[c + 1][1] /\ v = wire[c + 1][2]
    BY <1>4
  <1>8. /\ Len(unread') = Len(unread) - 1
        /\ \A k \in 1 .. Len(unread') : unread'[k] = unread[k + 1]
        /\ unread' \in Seq(W!WireIndex \X Value)
    BY <1>1, <1>2, <1>3 DEF LogicalInv
  <1>9. PairsIn' = c + 1
    BY <1>2, <1>3, <1>8 DEF PairsIn
  <1>10. \A k \in 1 .. Len(unread') : unread'[k] = wire'[PairsIn' + k]
    <2> TAKE k \in 1 .. Len(unread')
    <2>1. k + 1 \in 1 .. Len(unread) /\ c + (k + 1) = (c + 1) + k
      BY <1>3, <1>8
    <2>2. unread[k + 1] = wire[c + (k + 1)]
      BY <1>1, <2>1 DEF LogicalInv
    <2> QED
      BY <1>2, <1>8, <1>9, <2>1, <2>2
  <1> HIDE DEF c, i, v
  <1>11. \A k \in 1 .. c : wire[k][1] \in Index /\ wire[k][1] < i
    <2>1. Rising(wire, c)
      BY <1>1 DEF LogicalInv, c
    <2> SUFFICES ASSUME NEW k \in 1 .. c
                 PROVE  wire[k][1] \in Index /\ wire[k][1] < i
      OBVIOUS
    <2>2. c \in 1 .. c /\ c # 0 /\ wire[k][1] \in Index /\ wire[c][1] \in Index
      BY <1>3, <2>1 DEF Rising
    <2>3. last = wire[c][1]
      BY <1>1, <2>2 DEF LogicalInv, c
    <2>4. last < i
      <3>1. last # NoIndex
        BY <2>2, <2>3, ArityAssumption DEF Index, NoIndex, NoBit
      <3>2. ~(i <= last)
        BY <1>2, <1>6, <3>1, WireNames DEF W!OutOfOrder
      <3> QED
        BY <1>6, <2>2, <2>3, <3>2, ArityAssumption DEF Index
    <2>5. wire[k][1] <= wire[c][1]
      <3>1. CASE k = c
        BY <2>2, <3>1, ArityAssumption DEF Index
      <3>2. CASE k < c
        BY <2>1, <2>2, <3>2, ArityAssumption DEF Rising, Index
      <3> QED
        BY <1>3, <3>1, <3>2
    <2> QED
      BY <1>6, <2>2, <2>3, <2>4, <2>5, ArityAssumption DEF Index
  <1>12. \A k \in 1 .. c + 1 : k \in 1 .. c \/ k = c + 1
    BY <1>3
  <1>13. Rising(wire, c + 1)
    <2>1. Rising(wire, c)
      BY <1>1 DEF LogicalInv, c
    <2>2. \A k \in 1 .. c + 1 : wire[k][1] \in Index
      BY <1>6, <1>7, <1>11, <1>12
    <2>3. ASSUME NEW j \in 1 .. c + 1, NEW k \in 1 .. c + 1, j < k PROVE wire[j][1] < wire[k][1]
      <3>1. j \in 1 .. c
        BY <1>3, <2>3
      <3>2. CASE k = c + 1
        BY <1>7, <1>11, <3>1, <3>2
      <3>3. CASE k \in 1 .. c
        BY <2>1, <2>3, <3>1, <3>3 DEF Rising
      <3> QED
        BY <1>12, <3>2, <3>3
    <2> QED
      BY <2>2, <2>3 DEF Rising
  <1>14. out \in W!Arrays /\ out' \in W!Arrays /\ out'[i] = v /\ \A j \in Index : j # i => out'[j] = out[j]
    <2>1. out \in [Index -> Value \cup {Absent}]
      BY <1>1, WireNames DEF LogicalInv, W!Arrays
    <2>2. out' = [out EXCEPT ![i] = v]
      BY <1>2, <1>6
    <2> QED
      BY <1>6, <2>1, <2>2, WireNames DEF W!Arrays
  <1>15. Holds(out', wire, c + 1)
    <2>1. Holds(out, wire, c)
      BY <1>1 DEF LogicalInv, c
    <2>2. ASSUME NEW k \in 1 .. c + 1 PROVE out'[wire[k][1]] = wire[k][2]
      <3>1. CASE k = c + 1
        BY <1>7, <1>14, <3>1
      <3>2. CASE k \in 1 .. c
        <4>1. wire[k][1] \in Index /\ wire[k][1] # i
          BY <1>6, <1>11, <3>2, ArityAssumption DEF Index
        <4> QED
          BY <1>14, <2>1, <3>2, <4>1 DEF Holds
      <3> QED
        BY <1>12, <3>1, <3>2
    <2>3. ASSUME NEW j \in W!BitmapOf(out') PROVE \E k \in 1 .. c + 1 : wire[k][1] = j
      <3>1. j \in Index /\ out'[j] # Absent
        BY WireNames DEF W!BitmapOf
      <3>2. CASE j = i
        <4>1. c + 1 \in 1 .. c + 1
          BY <1>3
        <4> QED
          BY <1>7, <3>2, <4>1
      <3>3. CASE j # i
        <4>1. j \in W!BitmapOf(out)
          BY <1>14, <3>1, <3>3, WireNames DEF W!BitmapOf
        <4>2. PICK k \in 1 .. c : wire[k][1] = j
          BY <2>1, <4>1 DEF Holds
        <4>3. k \in 1 .. c + 1
          BY <1>3
        <4> QED
          BY <4>2, <4>3
      <3> QED
        BY <3>2, <3>3
    <2> QED
      BY <2>2, <2>3 DEF Holds
  <1>16. LogicalInv'
    <2>1. PairsIn' \in Nat /\ PairsIn' # 0
      BY <1>3, <1>9
    <2>2. last' = wire'[PairsIn'][1]
      BY <1>2, <1>6, <1>7, <1>9
    <2>3. wire' \in Seq(W!WireIndex \X Value)
      BY <1>1, <1>2 DEF LogicalInv
    <2>4. Rising(wire', PairsIn') /\ Holds(out', wire', PairsIn')
      BY <1>2, <1>9, <1>13, <1>15
    <2> QED
      BY <1>2, <1>8, <1>10, <1>14, <2>1, <2>2, <2>3, <2>4 DEF LogicalInv
  <1> QED
    BY <1>1, <1>2, <1>16 DEF DecoderInv

LEMMA EndOfPairsKeepsInv ==
  DecoderInv /\ verdict = "reading" /\ W!EndOfPairs /\ UNCHANGED W!given => DecoderInv'
  <1> SUFFICES ASSUME DecoderInv, verdict = "reading", W!EndOfPairs, UNCHANGED W!given
               PROVE  DecoderInv'
    OBVIOUS
  <1>1. LogicalInv /\ wireForm = "logical"
    BY DEF DecoderInv, W!EndOfPairs
  <1>2. /\ unread = <<>> /\ verdict' = "accepted"
        /\ wireForm' = wireForm /\ wire' = wire /\ unread' = unread /\ out' = out /\ last' = last
    BY DEF W!EndOfPairs, W!given
  <1>3. PairsIn' = PairsIn /\ PairsIn = Len(wire)
    <2>1. Len(unread) = 0 /\ Len(wire) \in Nat
      BY <1>1, <1>2 DEF LogicalInv
    <2> QED
      BY <1>2, <2>1 DEF PairsIn
  <1>4. LogicalInv'
    BY <1>1, <1>2, <1>3 DEF LogicalInv
  <1> QED
    BY <1>1, <1>2, <1>4 DEF DecoderInv

LEMMA BadBitmapKeepsInv ==
  DecoderInv /\ verdict = "reading" /\ W!BadBitmap /\ UNCHANGED W!given => DecoderInv'
  <1> SUFFICES ASSUME DecoderInv, verdict = "reading", W!BadBitmap, UNCHANGED W!given
               PROVE  DecoderInv'
    OBVIOUS
  <1>1. CompactInv /\ wireForm = "compact"
    BY DEF DecoderInv, W!BadBitmap
  <1>2. verdict' = "rejected" /\ wireForm' = wireForm /\ wire' = wire
    BY DEF W!BadBitmap, W!Reject, W!given
  <1>3. LET B == W!TryFromBytes(wire.bitmap)
        IN  B = W!NoBitmap \/ Cardinality(B) # Len(wire.values)
    BY WireNames DEF W!BadBitmap
  <1>4. CompactInv'
    BY <1>1, <1>2, <1>3 DEF CompactInv
  <1> QED
    BY <1>1, <1>2, <1>4 DEF DecoderInv

(* Only as many bytes as a bitmap has read as one. *)
LEMMA BytesOfBitmap ==
  ASSUME NEW bytes \in Seq(W!WireByte), W!TryFromBytes(bytes) # W!NoBitmap
  PROVE  bytes \in [1 .. W!Bytes -> W!WireByte] /\ W!TryFromBytes(bytes) \in SUBSET Index
  <1>1. Len(bytes) = W!Bytes
    BY DEF W!TryFromBytes
  <1>2. bytes \in [1 .. W!Bytes -> W!WireByte]
    BY <1>1
  <1> QED
    BY <1>2, TryFromBytesDigits

LEMMA ReadCompactKeepsInv ==
  DecoderInv /\ verdict = "reading" /\ W!ReadCompact /\ UNCHANGED W!given => DecoderInv'
  <1> SUFFICES ASSUME DecoderInv, verdict = "reading", W!ReadCompact, UNCHANGED W!given
               PROVE  DecoderInv'
    OBVIOUS
  <1> DEFINE bytes == wire.bitmap
             vs == wire.values
             B == W!TryFromBytes(bytes)
             n == Cardinality(B)
  <1>1. /\ wireForm = "compact" /\ bytes \in Seq(W!WireByte) /\ vs \in Seq(Value)
        /\ wire = [bitmap |-> bytes, values |-> vs]
        /\ wire \in [bitmap : Seq(W!WireByte), values : Seq(Value)]
    BY DEF DecoderInv, CompactInv, W!ReadCompact
  <1>2. /\ B # W!NoBitmap /\ n = Len(vs) /\ verdict' = "accepted"
        /\ wireForm' = wireForm /\ wire' = wire
        /\ out' = [i \in Index |-> IF i \in B THEN vs[Rank(B, i) + 1] ELSE Absent]
    BY WireNames DEF W!ReadCompact, W!given
  <1>3. B \in SUBSET Index /\ W!ToBytes(B) = bytes
    BY <1>1, <1>2, BytesOfBitmap, BytesWriteBack
  <1> HIDE DEF bytes, vs, B
  <1>4. IsBitmap(B) /\ n \in Nat
    BY <1>3, BitmapOfIndices, FS_CardinalityType DEF IsBitmap
  <1>5. \A i \in B : Rank(B, i) + 1 \in 1 .. n /\ vs[Rank(B, i) + 1] \in Value
    <2> SUFFICES ASSUME NEW i \in B
                 PROVE  Rank(B, i) + 1 \in 1 .. n /\ vs[Rank(B, i) + 1] \in Value
      OBVIOUS
    <2>1. Rank(B, i) \in 0 .. n - 1
      BY <1>4, RankOfMember
    <2> QED
      BY <1>1, <1>2, <1>4, <2>1
  <1>6. out' \in W!Arrays
    BY <1>2, <1>5, WireNames DEF W!Arrays
  <1>7. W!BitmapOf(out') = B
    <2>1. \A i \in Index : out'[i] # Absent <=> i \in B
      BY <1>2, <1>5, AbsentAssumption
    <2> QED
      BY <1>3, <2>1, WireNames DEF W!BitmapOf
  <1>8. W!Values(out') = vs
    <2>1. W!Values(out') = [k \in 1 .. n |-> out'[Select(B, k - 1)]]
      BY <1>6, <1>7, ValuesOf
    <2>2. ASSUME NEW k \in 1 .. n PROVE out'[Select(B, k - 1)] = vs[k]
      <3>1. k - 1 \in 0 .. n - 1 /\ (k - 1) + 1 = k
        BY <1>4
      <3>2. Select(B, k - 1) \in B /\ Rank(B, Select(B, k - 1)) = k - 1
        BY <1>4, <3>1, SelectMember
      <3> QED
        BY <1>2, <1>3, <3>1, <3>2
    <2>3. vs = [k \in 1 .. n |-> vs[k]]
      BY <1>1, <1>2
    <2> QED
      BY <2>1, <2>2, <2>3
  <1>9. W!Compact(out') = wire
    BY <1>1, <1>3, <1>7, <1>8 DEF W!Compact
  <1>10. CompactInv'
    BY <1>1, <1>2, <1>6, <1>9 DEF CompactInv
  <1> QED
    BY <1>1, <1>2, <1>10 DEF DecoderInv

LEMMA DecoderStep == DecoderInv /\ [W!Next]_(W!vars) => DecoderInv'
  <1> SUFFICES ASSUME DecoderInv, [W!Next]_(W!vars) PROVE DecoderInv'
    OBVIOUS
  <1>1. CASE W!Next
    <2>1. verdict = "reading" /\ UNCHANGED W!given
      BY <1>1 DEF W!Next
    <2> QED
      BY <1>1, <2>1, BadPairKeepsInv, ReadPairKeepsInv, EndOfPairsKeepsInv, BadBitmapKeepsInv,
         ReadCompactKeepsInv DEF W!Next
  <1>2. CASE UNCHANGED W!vars
    <2>1. /\ wireForm' = wireForm /\ wire' = wire /\ unread' = unread
          /\ out' = out /\ last' = last /\ verdict' = verdict
      BY <1>2 DEF W!vars, W!given
    <2>2. PairsIn' = PairsIn
      BY <2>1 DEF PairsIn
    <2> QED
      BY <2>1, <2>2 DEF DecoderInv, LogicalInv, CompactInv
  <1> QED
    BY <1>1, <1>2

LEMMA AcceptedIsEncoded == DecoderInv /\ verdict = "accepted" => out \in W!Arrays /\ W!Encoded(out) = wire
  <1> SUFFICES ASSUME DecoderInv, verdict = "accepted"
               PROVE  out \in W!Arrays /\ W!Encoded(out) = wire
    OBVIOUS
  <1>1. CASE wireForm = "logical"
    <2>1. /\ out \in W!Arrays /\ wire \in Seq(W!WireIndex \X Value)
          /\ Rising(wire, Len(wire)) /\ Holds(out, wire, Len(wire))
      BY <1>1 DEF DecoderInv, LogicalInv
    <2> QED
      BY <1>1, <2>1, HeldIsEncoded DEF W!Encoded, W!Logical
  <1>2. CASE wireForm = "compact"
    BY <1>2 DEF DecoderInv, CompactInv, W!Encoded
  <1> QED
    BY <1>1, <1>2 DEF DecoderInv

LEMMA RejectedIsNoArray ==
  ASSUME DecoderInv, verdict = "rejected", NEW a \in W!Arrays
  PROVE  W!Encoded(a) # wire
  <1> SUFFICES ASSUME W!Encoded(a) = wire PROVE FALSE
    OBVIOUS
  <1>1. CASE wireForm = "logical"
    <2>1. PairsIn \in Nat /\ PairsIn < Len(wire) /\ ~Rising(wire, PairsIn + 1)
      BY <1>1 DEF DecoderInv, LogicalInv
    <2>2. W!IterPresent(a) = wire
      BY <1>1 DEF W!Encoded, W!Logical
    <2>3. Rising(wire, Len(wire)) /\ Len(wire) \in Nat
      BY <2>2, PairsRise
    <2>4. \A k \in 1 .. PairsIn + 1 : k \in 1 .. Len(wire)
      BY <2>1, <2>3
    <2> QED
      BY <2>1, <2>3, <2>4 DEF Rising
  <1>2. CASE wireForm = "compact"
    <2> DEFINE B == W!TryFromBytes(wire.bitmap)
    <2>1. B = W!NoBitmap \/ Cardinality(B) # Len(wire.values)
      BY <1>2 DEF DecoderInv, CompactInv
    <2>2. wire.bitmap = W!ToBytes(W!BitmapOf(a)) /\ wire.values = W!Values(a)
      BY <1>2 DEF W!Encoded, W!Compact
    <2>3. W!BitmapOf(a) \in SUBSET Index /\ Len(W!Values(a)) = Cardinality(W!BitmapOf(a))
      BY PairsOf, ValuesOf
    <2>4. B = W!BitmapOf(a)
      BY <2>2, <2>3, BytesReadBack
    <2>5. B # W!NoBitmap
      <3>1. W!ToBytes(W!BitmapOf(a)) \in [1 .. W!Bytes -> W!WireByte]
        BY <2>3, ToBytesDigits
      <3> QED
        BY <2>2, <3>1, TryFromBytesDigits
    <2> HIDE DEF B
    <2> QED
      BY <2>1, <2>2, <2>3, <2>4, <2>5
  <1> QED
    BY <1>1, <1>2 DEF DecoderInv

LEMMA DecoderGives == DecoderInv => WireIsCanonical
  <1> SUFFICES ASSUME DecoderInv PROVE WireIsCanonical
    OBVIOUS
  <1>1. verdict = "accepted" => out \in W!Arrays /\ W!Encoded(out) = wire
    BY AcceptedIsEncoded
  <1>2. ASSUME verdict = "accepted", NEW a \in W!Arrays
        PROVE  (W!Eq(a, out) <=> a = out) /\ (W!HashInput(a) = W!HashInput(out) <=> a = out)
    BY <1>1, <1>2, EqualityAndHash
  <1>3. ASSUME verdict = "rejected", NEW a \in W!Arrays PROVE W!Encoded(a) # wire
    BY <1>3, RejectedIsNoArray
  <1> QED
    BY <1>1, <1>2, <1>3 DEF WireIsCanonical, W!WireIsCanonical

(* The decoders of both wire forms (macros.rs, compact.rs) accept exactly  *)
(* the encodings of arrays and give back the array encoded, for every      *)
(* arity, byte width, kind of value and length of the input; and equality  *)
(* and hash of the dense arrays tell any two apart.                        *)
THEOREM DecodersCanonical == W!Spec => []WireIsCanonical
  <1>1. W!Spec => []DecoderInv
    BY DecoderInitial, DecoderStep, PTL DEF W!Spec
  <1> QED
    BY <1>1, DecoderGives, PTL

=============================================================================
