--------------------------- MODULE TrieWalkProofs ---------------------------
(***************************************************************************)
(* What the reads of a trie give and what they hold, in any trie, whichever*)
(* read fails and whichever destructor or visitor panics (TrieWalk).       *)
(*                                                                         *)
(* First, no frame and no handle outlives what it borrows from.  A frame   *)
(* dangles when it and the handles lose step, so the invariant counts: the *)
(* frames are the root's and one for each handle, in the same order, at    *)
(* every point where user code may unwind.                                 *)
(*                                                                         *)
(* Then, the walk gives every key at or after its start, in order, and     *)
(* lookup and validation answer exactly.  What is left to visit is what    *)
(* lies below the children the frames have still to enter, the innermost   *)
(* frame's first: all of it comes after the node at hand, and what was     *)
(* given and what is left make up what was asked for.                      *)
(***************************************************************************)
EXTENDS TrieWalk, TrieTheorems

(* The node the n-th handle was read from; the n-th frame's own node. *)
Holder(n) == IF n = 1 THEN Root ELSE handles[n - 1]

Frame == [slot : DOMAIN t, len : Nat, remaining : SUBSET Index]

(* Every handle was read from the edge of the node its predecessor holds. *)
Chained ==
  /\ handles \in Seq(DOMAIN t)
  /\ \A n \in DOMAIN handles : Full(t, Holder(n)) = Front(handles[n])

(* The frames are the root's and those of the handles. *)
InStep ==
  /\ frames \in Seq(Frame)
  /\ \A n \in DOMAIN frames : /\ frames[n].slot = Holder(n)
                              /\ frames[n].remaining \subseteq Kids(t, frames[n].slot)
  /\ \/ frames = << >> /\ handles = << >>
     \/ Len(frames) = Len(handles) + 1

Looping == {"idle", "advance", "seek", "step", "visitor"}

IInv ==
  /\ call \in Calls
  /\ pc \in Looping \cup {"get", "found", "drop"}
  /\ Chained
  /\ pc \in Looping => InStep
  /\ pc \in Looping /\ state = "fresh" => frames = << >>
  /\ pc = "seek" => frames # << >>
  /\ pc \in {"get", "found"} => frames = << >> /\ call.op = "get"

-----------------------------------------------------------------------------
(* Holders and frames.                                                     *)

LEMMA HolderIsNode ==
  ASSUME IsTrie(t), Chained, t # EmptyTrie, NEW n \in 1 .. Len(handles) + 1
  PROVE  Holder(n) \in DOMAIN t
  <1>1. Root \in DOMAIN t
    BY DEF IsTrie
  <1>2. CASE n # 1
    <2>1. n - 1 \in 1 .. Len(handles)
      BY <1>2
    <2> QED
      BY <1>2, <2>1 DEF Holder, Chained
  <1> QED
    BY <1>1, <1>2 DEF Holder

(* The top frame is that of the last handle. *)
LEMMA TopFrame ==
  ASSUME Chained, InStep, frames # << >>
  PROVE  /\ Len(frames) \in Nat \ {0} /\ Len(frames) = Len(handles) + 1
         /\ Len(handles) \in Nat
         /\ Last(frames) \in Frame /\ Last(frames).slot \in DOMAIN t
         /\ Last(frames).slot = Holder(Len(frames))
         /\ Last(frames).remaining \subseteq Kids(t, Last(frames).slot)
  <1>1. frames \in Seq(Frame) /\ Len(frames) \in Nat \ {0} /\ Len(frames) = Len(handles) + 1
    BY DEF InStep
  <1>2. Len(frames) \in DOMAIN frames /\ frames[Len(frames)] \in Frame
    BY <1>1
  <1>3. Len(handles) \in Nat
    BY DEF Chained
  <1> QED
    BY <1>1, <1>2, <1>3 DEF InStep, Last, Frame

(* A finished frame goes together with its handle. *)
LEMMA PopKeepsStep ==
  ASSUME Chained, InStep, frames # << >>, call' = call,
         frames' = Front(frames),
         handles' = IF Len(frames) = 1 THEN handles ELSE Popped
  PROVE  Chained' /\ InStep'
  <1>1. /\ Len(frames) \in Nat \ {0} /\ Len(frames) = Len(handles) + 1
        /\ Len(handles) \in Nat /\ handles \in Seq(DOMAIN t) /\ frames \in Seq(Frame)
    BY TopFrame DEF Chained, InStep
  <1>2. t' = t /\ Frame' = Frame
    BY DEF t, Frame
  <1>3. /\ frames' \in Seq(Frame) /\ Len(frames') = Len(frames) - 1
        /\ \A n \in 1 .. Len(frames) - 1 : frames'[n] = frames[n]
    BY <1>1, FrontType
  <1>4. CASE handles = << >>
    <2>1. handles' = << >> /\ Len(frames') = 0
      BY <1>1, <1>3, <1>4 DEF Popped
    <2>2. frames' = << >>
      BY <1>3, <2>1
    <2> QED
      BY <1>2, <1>3, <1>4, <2>1, <2>2 DEF Chained, InStep
  <1>5. CASE handles # << >>
    <2>1. Len(handles) # 0 /\ handles' = Front(handles)
      BY <1>1, <1>5 DEF Popped
    <2>2. /\ handles' \in Seq(DOMAIN t) /\ Len(handles') = Len(handles) - 1
          /\ \A n \in 1 .. Len(handles) - 1 : handles'[n] = handles[n]
      BY <1>1, <1>5, <2>1, FrontType
    <2>3. \A n \in 1 .. Len(handles) : Holder(n)' = Holder(n)
      BY <1>1, <2>2 DEF Holder
    <2>4. Chained'
      <3>1. DOMAIN handles' = 1 .. Len(handles) - 1 /\ DOMAIN handles = 1 .. Len(handles)
        BY <1>1, <2>2
      <3>2. ASSUME NEW n \in 1 .. Len(handles) - 1
            PROVE  Full(t, Holder(n)') = Front(handles'[n])
        <4>1. n \in DOMAIN handles /\ Holder(n)' = Holder(n) /\ handles'[n] = handles[n]
          <5>1. n \in 1 .. Len(handles)
            BY <1>1, <3>2
          <5> QED
            BY <2>2, <2>3, <3>1, <3>2, <5>1
        <4> QED
          BY <4>1 DEF Chained
      <3> QED
        BY <1>2, <2>2, <3>1, <3>2 DEF Chained
    <2>5. InStep'
      <3>1. DOMAIN frames' = 1 .. Len(handles) /\ DOMAIN frames = 1 .. Len(frames)
        BY <1>1, <1>3
      <3>2. ASSUME NEW n \in DOMAIN frames'
            PROVE  /\ frames'[n].slot = Holder(n)'
                   /\ frames'[n].remaining \subseteq Kids(t', frames'[n].slot)
        <4>1. n \in DOMAIN frames /\ frames'[n] = frames[n] /\ Holder(n)' = Holder(n)
          BY <1>1, <1>3, <2>3, <3>1, <3>2
        <4> QED
          BY <1>2, <4>1 DEF InStep
      <3> QED
        BY <1>1, <1>2, <1>3, <2>2, <3>2 DEF InStep
    <2> QED
      BY <2>4, <2>5
  <1> QED
    BY <1>4, <1>5

(* Children may be struck off the top frame's list. *)
LEMMA PruneKeepsStep ==
  ASSUME Chained, InStep, frames # << >>, call' = call, handles' = handles,
         NEW R, R \subseteq Last(frames).remaining,
         frames' = [frames EXCEPT ![Len(frames)].remaining = R]
  PROVE  Chained' /\ InStep' /\ frames' # << >>
  <1>1. /\ Len(frames) \in Nat \ {0} /\ frames \in Seq(Frame)
        /\ DOMAIN frames = 1 .. Len(frames)
    BY TopFrame DEF InStep
  <1>2. t' = t /\ Frame' = Frame
    BY DEF t, Frame
  <1>3. \A n \in DOMAIN frames :
          /\ frames'[n] \in Frame /\ frames'[n].slot = frames[n].slot
          /\ frames'[n].remaining \subseteq frames[n].remaining
    <2>1. ASSUME NEW n \in DOMAIN frames
          PROVE  frames[n] \in [slot : DOMAIN t, len : Nat, remaining : SUBSET Index]
      <3>1. frames[n] \in Frame
        BY <1>1, <2>1, ElementOfSeq
      <3> QED
        BY <3>1 DEF Frame
    <2>2. \A n \in DOMAIN frames :
            frames'[n] = IF n = Len(frames) THEN [frames[n] EXCEPT !.remaining = R]
                                            ELSE frames[n]
      BY <1>1
    <2>3. R \subseteq frames[Len(frames)].remaining
      BY DEF Last
    <2> QED
      BY <1>1, <2>1, <2>2, <2>3 DEF Frame
  <1>4. DOMAIN frames' = DOMAIN frames
    OBVIOUS
  <1>5. frames' \in Seq(Frame) /\ Len(frames') = Len(frames) /\ frames' # << >>
    BY <1>1, <1>3, <1>4
  <1>6. Chained'
    BY <1>2 DEF Chained, Holder
  <1>7. \A n \in DOMAIN frames' : Holder(n)' = Holder(n)
    BY DEF Holder
  <1>8. ASSUME NEW n \in DOMAIN frames'
        PROVE  /\ frames'[n].slot = Holder(n)'
               /\ frames'[n].remaining \subseteq Kids(t', frames'[n].slot)
    <2>1. /\ frames[n].slot = Holder(n)
          /\ frames[n].remaining \subseteq Kids(t, frames[n].slot)
      BY <1>4, <1>8 DEF InStep
    <2> QED
      BY <1>2, <1>3, <1>4, <1>7, <1>8, <2>1
  <1>9. Len(frames) = Len(handles) + 1
    BY TopFrame
  <1> QED
    BY <1>2, <1>5, <1>6, <1>8, <1>9 DEF InStep

(* A child read is pushed as a handle and as a frame. *)
LEMMA ReadKeepsStep ==
  ASSUME IsTrie(t), Chained, InStep, frames # << >>, call' = call,
         NEW R, R \subseteq Last(frames).remaining, NEW i \in R,
         ReadChild(i, R)
  PROVE  Chained' /\ InStep' /\ frames' # << >>
  <1> DEFINE s == Last(frames).slot
             c == Child(t, s, i)
             g == [frames EXCEPT ![Len(frames)].remaining = R \ {i}]
  <1>1. /\ Len(frames) \in Nat \ {0} /\ Len(frames) = Len(handles) + 1
        /\ Len(handles) \in Nat /\ handles \in Seq(DOMAIN t) /\ frames \in Seq(Frame)
        /\ s \in DOMAIN t /\ s = Holder(Len(frames)) /\ i \in Kids(t, s)
    BY TopFrame DEF Chained, InStep
  <1>2. t' = t /\ Frame' = Frame
    BY DEF t, Frame
  <1>3. c \in DOMAIN t /\ Front(c) = Full(t, s)
    BY <1>1, ChildHangs
  <1>4. handles' = Append(handles, c) /\ frames' = Append(g, FrameOf(c))
    BY DEF ReadChild, Push
  <1> HIDE DEF c, s
  <1>5. /\ g \in Seq(Frame) /\ Len(g) = Len(frames)
        /\ \A n \in 1 .. Len(frames) : /\ g[n].slot = frames[n].slot
                                       /\ g[n].remaining \subseteq frames[n].remaining
    <2>1. \A n \in 1 .. Len(frames) :
            frames[n] \in [slot : DOMAIN t, len : Nat, remaining : SUBSET Index]
      <3>1. \A n \in 1 .. Len(frames) : frames[n] \in Frame
        BY <1>1, ElementOfSeq
      <3> QED
        BY <3>1 DEF Frame
    <2>2. /\ DOMAIN g = 1 .. Len(frames)
          /\ \A n \in 1 .. Len(frames) :
               g[n] = IF n = Len(frames) THEN [frames[n] EXCEPT !.remaining = R \ {i}]
                                         ELSE frames[n]
      <3>1. DOMAIN frames = 1 .. Len(frames)
        BY <1>1
      <3> QED
        BY <3>1
    <2>3. R \ {i} \subseteq frames[Len(frames)].remaining
      BY DEF Last
    <2> HIDE DEF g
    <2>4. \A n \in 1 .. Len(frames) :
            /\ g[n] \in Frame /\ g[n].slot = frames[n].slot
            /\ g[n].remaining \subseteq frames[n].remaining
      BY <1>1, <2>1, <2>2, <2>3 DEF Frame
    <2> QED
      <3>1. g = [n \in 1 .. Len(frames) |-> g[n]]
        BY <1>1, <2>2 DEF g
      <3>2. g \in Seq(Frame) /\ Len(g) = Len(frames)
        BY <1>1, <2>4, <3>1
      <3> QED
        BY <2>4, <3>2
  <1> HIDE DEF g
  <1>6. FrameOf(c) \in Frame /\ FrameOf(c).slot = c /\ FrameOf(c).remaining = Kids(t, c)
    <2>1. Len(Full(t, c)) \in Nat
      BY <1>3, FullType
    <2> QED
      BY <1>3, <2>1 DEF FrameOf, Frame, Kids
  <1>7. /\ handles' \in Seq(DOMAIN t) /\ Len(handles') = Len(handles) + 1
        /\ handles'[Len(handles) + 1] = c
        /\ \A n \in 1 .. Len(handles) : handles'[n] = handles[n]
    BY <1>1, <1>3, <1>4, AppendProperties
  <1>8. /\ frames' \in Seq(Frame) /\ Len(frames') = Len(frames) + 1 /\ frames' # << >>
        /\ frames'[Len(frames) + 1] = FrameOf(c)
        /\ \A n \in 1 .. Len(frames) : frames'[n] = g[n]
    BY <1>4, <1>5, <1>6, AppendProperties
  <1>9. /\ \A n \in 1 .. Len(handles) + 1 : Holder(n)' = Holder(n)
        /\ \A n \in Nat : n = Len(frames) + 1 => Holder(n)' = c
    <2>1. ASSUME NEW n \in 1 .. Len(handles) + 1 PROVE Holder(n)' = Holder(n)
      <3>1. n = 1 \/ n - 1 \in 1 .. Len(handles)
        BY <1>1
      <3> QED
        BY <1>7, <3>1 DEF Holder
    <2>2. ASSUME NEW n \in Nat, n = Len(frames) + 1 PROVE Holder(n)' = c
      <3>1. n # 1 /\ n - 1 = Len(handles) + 1
        BY <1>1, <2>2
      <3> QED
        BY <1>7, <3>1 DEF Holder
    <2> QED
      BY <2>1, <2>2
  <1>10. Chained'
    <2>1. DOMAIN handles' = 1 .. Len(handles) + 1 /\ DOMAIN handles = 1 .. Len(handles)
      BY <1>1, <1>7
    <2>2. ASSUME NEW n \in 1 .. Len(handles) + 1
          PROVE  Full(t, Holder(n)) = Front(handles'[n])
      <3>1. CASE n \in 1 .. Len(handles)
        BY <1>7, <2>1, <3>1 DEF Chained
      <3>2. CASE n = Len(handles) + 1
        BY <1>1, <1>3, <1>7, <3>2
      <3> QED
        BY <1>1, <3>1, <3>2
    <2> QED
      BY <1>2, <1>7, <1>9, <2>1, <2>2 DEF Chained
  <1>11. InStep'
    <2>1. DOMAIN frames' = 1 .. Len(frames) + 1 /\ DOMAIN frames = 1 .. Len(frames)
      BY <1>1, <1>8
    <2>2. ASSUME NEW n \in 1 .. Len(frames) + 1
          PROVE  /\ frames'[n].slot = Holder(n)'
                 /\ frames'[n].remaining \subseteq Kids(t, frames'[n].slot)
      <3>1. CASE n \in 1 .. Len(frames)
        <4>1. /\ frames[n].slot = Holder(n)
              /\ frames[n].remaining \subseteq Kids(t, frames[n].slot)
          BY <2>1, <3>1 DEF InStep
        <4>2. Holder(n)' = Holder(n)
          BY <1>1, <1>9, <3>1
        <4> QED
          BY <1>5, <1>8, <3>1, <4>1, <4>2
      <3>2. CASE n = Len(frames) + 1
        <4>1. n \in Nat
          BY <1>1, <3>2
        <4> QED
          BY <1>6, <1>8, <1>9, <3>2, <4>1
      <3> QED
        BY <1>1, <3>1, <3>2
    <2> QED
      BY <1>1, <1>2, <1>7, <1>8, <2>1, <2>2 DEF InStep
  <1> QED
    BY <1>8, <1>10, <1>11

-----------------------------------------------------------------------------
(* Where a call goes after each kind of step.                              *)

LEMMA FinishGoes ==
  ASSUME NEW result, NEW cleanup, Finish(result, cleanup)
  PROVE  pc' = IF call.op = "iter" THEN "idle" ELSE "drop"
  BY DEF Finish

LEMMA ReceiveGoes ==
  ASSUME NEW s, NEW path, Receive(s, path)
  PROVE  pc' \in {"idle", "drop", "advance", "visitor"}
  BY FinishGoes DEF Receive

LEMMA PopGoes ==
  ASSUME PopFrame
  PROVE  pc' \in {"idle", "drop", "step"}
  BY DEF PopFrame, Unwind

(* Between two turns of the loops, whatever the frames were left at. *)
LEMMA LoopStep ==
  ASSUME IInv, call' = call, pc' \in Looping \cup {"drop"}, Chained', InStep',
         state' = "fresh" => frames' = << >>,
         pc' = "seek" => frames' # << >>
  PROVE  IInv'
  BY DEF IInv, Looping

LEMMA IterNextStep == IInv /\ IterNext => IInv'
  <1> SUFFICES ASSUME IInv, IterNext PROVE IInv'
    OBVIOUS
  <1>1. call' = call /\ Chained /\ InStep /\ pc' = "advance"
    BY DEF IInv, IterNext, Looping
  <1>2. Chained' /\ InStep'
    BY <1>1 DEF IterNext, Chained, InStep, Holder, Frame, t
  <1> QED
    BY <1>1, <1>2, LoopStep DEF IInv, IterNext, Looping

LEMMA VisitorStep == IInv /\ Visitor => IInv'
  <1> SUFFICES ASSUME IInv, Visitor PROVE IInv'
    OBVIOUS
  <1>1. call' = call /\ Chained /\ InStep /\ pc' \in {"advance", "idle", "drop"}
    BY FinishGoes DEF IInv, Visitor, Looping
  <1>2. Chained' /\ InStep'
    BY <1>1 DEF Visitor, Chained, InStep, Holder, Frame, t
  <1> QED
    BY <1>1, <1>2, LoopStep DEF IInv, Visitor, Looping

LEMMA AdvanceStep == IInv /\ Advance => IInv'
  <1> SUFFICES ASSUME IInv, Advance PROVE IInv'
    OBVIOUS
  <1>1. call' = call /\ Chained /\ InStep /\ handles' = handles /\ IsTrie(t)
    BY CallsAssumption DEF IInv, Advance, Looping, t
  <1>2. t' = t /\ Frame' = Frame
    BY <1>1 DEF t, Frame
  <1>3. CASE frames' = frames
    <2>1. Chained' /\ InStep'
      BY <1>1, <1>2, <1>3 DEF Chained, InStep, Holder
    <2>2. pc' \in {"idle", "drop", "step"} /\ (state' = "fresh" => state = "fresh")
      <3>1. CASE ReachEnd
        BY <3>1, FinishGoes DEF ReachEnd
      <3>2. CASE state = "walking" /\ pc' = "step" /\ UNCHANGED <<state, frames, buf, out, release>>
        BY <3>2
      <3>3. CASE /\ state = "fresh" /\ frames' = <<FrameOf(Root)>>
        <4>1. frames # << >>
          BY <1>3, <3>3
        <4> QED
          BY <3>3, <4>1 DEF IInv, Advance, Looping
      <3> QED
        BY <3>1, <3>2, <3>3 DEF Advance
    <2> QED
      BY <1>1, <1>3, <2>1, <2>2, LoopStep DEF IInv, Looping, Advance
  <1>4. CASE /\ state = "fresh" /\ t # EmptyTrie /\ frames' = <<FrameOf(Root)>>
             /\ state' \in {"walking", "seeking"}
             /\ pc' = "seek" \/ Receive(Root, buf')
    <2>1. frames = << >> /\ handles = << >>
      BY <1>4 DEF IInv, InStep, Advance, Looping
    <2>2. /\ FrameOf(Root) \in Frame /\ FrameOf(Root).slot = Root
          /\ FrameOf(Root).remaining = Kids(t, Root)
      <3>1. Root \in DOMAIN t
        BY <1>1, <1>4 DEF IsTrie
      <3>2. Len(Full(t, Root)) \in Nat
        BY <1>1, <3>1, FullType
      <3> QED
        BY <3>1, <3>2 DEF FrameOf, Frame, Kids
    <2>3. Chained'
      BY <1>1, <1>2, <2>1 DEF Chained
    <2>4. InStep'
      <3>1. /\ frames' \in Seq(Frame) /\ Len(frames') = 1 /\ DOMAIN frames' = {1}
            /\ frames'[1] = FrameOf(Root)
        BY <1>4, <2>2
      <3>2. \A n \in {1} : Holder(n)' = Root
        BY DEF Holder
      <3>3. Len(handles') = 0
        BY <1>1, <2>1
      <3> QED
        BY <1>2, <2>2, <3>1, <3>2, <3>3 DEF InStep
    <2>5. pc' \in Looping \cup {"drop"} /\ frames' # << >>
      BY <1>4, ReceiveGoes DEF Looping
    <2> QED
      BY <1>1, <1>4, <2>3, <2>4, <2>5, LoopStep
  <1> QED
    BY <1>3, <1>4 DEF Advance

LEMMA StepStep == IInv /\ Step => IInv'
  <1> SUFFICES ASSUME IInv, Step PROVE IInv'
    OBVIOUS
  <1>1. call' = call /\ Chained /\ InStep /\ IsTrie(t)
    BY CallsAssumption DEF IInv, Step, Looping, t
  <1>2. t' = t /\ Frame' = Frame
    BY <1>1 DEF t, Frame
  <1>3. CASE frames = << >> /\ ReachEnd /\ UNCHANGED <<frames, buf, handles>>
    <2>1. Chained' /\ InStep'
      BY <1>1, <1>2, <1>3 DEF Chained, InStep, Holder
    <2>2. pc' \in {"idle", "drop"} /\ state' # "fresh"
      BY <1>3, FinishGoes DEF ReachEnd
    <2> QED
      BY <1>1, <2>1, <2>2, LoopStep DEF Looping
  <1>4. CASE frames # << >> /\ PopFrame /\ UNCHANGED state
    <2>1. Chained' /\ InStep'
      BY <1>1, <1>4, PopKeepsStep DEF PopFrame
    <2>2. pc' \in {"idle", "drop", "step"} /\ state' # "fresh"
      BY <1>4, PopGoes DEF IInv, Step, Looping
    <2> QED
      BY <1>1, <2>1, <2>2, LoopStep DEF Looping
  <1>5. ASSUME frames # << >>, Last(frames).remaining # {},
               NEW i, NEW R, R = Last(frames).remaining, i = Least(R),
               \/ /\ ReadChild(i, R)
                  /\ Receive(Child(t, Last(frames).slot, i), buf')
                  /\ UNCHANGED state
               \/ ReadFails(i, R)
        PROVE  IInv'
    <2>1. R \in SUBSET Index /\ i \in R
      <3>1. R \in SUBSET Index
        BY <1>1, <1>5, TopFrame DEF Frame
      <3> QED
        BY <1>5, <3>1, LowestKid DEF Least
    <2>2. CASE /\ ReadChild(i, R) /\ UNCHANGED state
               /\ Receive(Child(t, Last(frames).slot, i), buf')
      <3>1. Chained' /\ InStep' /\ frames' # << >>
        BY <1>1, <1>5, <2>1, <2>2, ReadKeepsStep
      <3>2. pc' \in {"idle", "drop", "advance", "visitor"} /\ state' # "fresh"
        BY <1>5, <2>2, ReceiveGoes DEF IInv, Step, Looping
      <3> QED
        BY <1>1, <3>1, <3>2, LoopStep DEF Looping
    <2>3. CASE ReadFails(i, R)
      <3>1. Chained' /\ InStep'
        <4>1. /\ frames' = [frames EXCEPT ![Len(frames)].remaining = R \ {i}]
              /\ handles' = handles /\ R \ {i} \subseteq Last(frames).remaining
          BY <1>5, <2>3 DEF ReadFails
        <4>2. Chained /\ InStep /\ frames # << >> /\ call' = call
          BY <1>1, <1>5
        <4> QED
          BY <4>1, <4>2, PruneKeepsStep
      <3>2. pc' \in {"idle", "drop"} /\ state' # "fresh"
        BY <2>3, FinishGoes DEF ReadFails
      <3> QED
        BY <1>1, <3>1, <3>2, LoopStep DEF Looping
    <2> QED
      BY <1>5, <2>2, <2>3
  <1> QED
    BY <1>3, <1>4, <1>5 DEF Step

LEMMA SeekStep == IInv /\ Seek => IInv'
  <1> SUFFICES ASSUME IInv, Seek PROVE IInv'
    OBVIOUS
  <1>1. /\ call' = call /\ Chained /\ InStep /\ IsTrie(t)
        /\ frames # << >> /\ state # "fresh"
    BY CallsAssumption DEF IInv, Seek, Looping, t
  <1>2. t' = t /\ Frame' = Frame
    BY <1>1 DEF t, Frame
  <1>3. CASE SeekEnds
    <2>1. state' # "fresh"
      BY <1>3 DEF SeekEnds
    <2>2. CASE UNCHANGED <<frames, handles>> /\ Receive(Last(frames).slot, buf)
      <3>1. Chained' /\ InStep'
        BY <1>1, <1>2, <2>2 DEF Chained, InStep, Holder
      <3> QED
        BY <1>1, <2>1, <2>2, <3>1, ReceiveGoes, LoopStep DEF Looping
    <2>3. CASE PopFrame
      <3>1. Chained' /\ InStep'
        BY <1>1, <2>3, PopKeepsStep DEF PopFrame
      <3> QED
        BY <1>1, <2>1, <2>3, <3>1, PopGoes, LoopStep DEF Looping
    <2>4. ASSUME NEW j, pc' = "step", handles' = handles,
                 frames' = [frames EXCEPT ![Len(frames)].remaining =
                              AtOrAfter(Last(frames).remaining, j)]
          PROVE  IInv'
      <3>1. Chained' /\ InStep'
        BY <1>1, <2>4, PruneKeepsStep DEF AtOrAfter
      <3> QED
        BY <1>1, <2>1, <2>4, <3>1, LoopStep DEF Looping
    <2> QED
      BY <1>3, <2>2, <2>3, <2>4 DEF SeekEnds
  <1>4. ASSUME NEW j \in Last(frames).remaining, NEW K, NEW i,
               K = AtOrAfter(Last(frames).remaining, j), i = Least(K),
               \/ ReadChild(i, K) /\ UNCHANGED <<state, pc>>
               \/ ReadFails(i, K)
        PROVE  IInv'
    <2>1. K \in SUBSET Last(frames).remaining /\ i \in K
      <3>1. Last(frames).remaining \in SUBSET Index
        BY <1>1, TopFrame DEF Frame
      <3>2. j \in Int
        <4>1. j \in Index
          BY <3>1
        <4> QED
          BY <4>1, IndexAssumption
      <3>3. K \in SUBSET Index /\ j \in K
        BY <1>4, <3>1, <3>2 DEF AtOrAfter
      <3> QED
        BY <1>4, <3>3, LowestKid DEF Least, AtOrAfter
    <2>2. CASE ReadChild(i, K) /\ UNCHANGED <<state, pc>>
      <3>1. Chained' /\ InStep' /\ frames' # << >>
        BY <1>1, <2>1, <2>2, ReadKeepsStep
      <3> QED
        BY <1>1, <2>2, <3>1, LoopStep DEF Seek, Looping
    <2>3. CASE ReadFails(i, K)
      <3>1. Chained' /\ InStep'
        BY <1>1, <2>1, <2>3, PruneKeepsStep DEF ReadFails
      <3>2. pc' \in {"idle", "drop"} /\ state' # "fresh"
        BY <2>3, FinishGoes DEF ReadFails
      <3> QED
        BY <1>1, <3>1, <3>2, LoopStep DEF Looping
    <2> QED
      BY <1>4, <2>2, <2>3
  <1>5. CASE SeekDescends
    BY <1>4, <1>5 DEF SeekDescends
  <1> QED
    BY <1>3, <1>5 DEF Seek

(* The lookup pushes the child of the node it stands at. *)
LEMMA GetStep == IInv /\ Get => IInv'
  <1> SUFFICES ASSUME IInv, Get PROVE IInv'
    OBVIOUS
  <1>1. /\ call' = call /\ call \in Calls /\ Chained /\ IsTrie(t)
        /\ frames' = << >> /\ call.op = "get" /\ pc = "get"
    BY CallsAssumption DEF IInv, Get, Looping, t
  <1>2. t' = t
    BY <1>1 DEF t
  <1>3. CASE handles' = handles
    <2>1. pc' \in {"get", "found", "drop"}
      BY <1>1, FinishGoes DEF Get
    <2>2. Chained'
      BY <1>1, <1>2, <1>3 DEF Chained, Holder
    <2> QED
      BY <1>1, <2>1, <2>2 DEF IInv, Looping
  <1>4. ASSUME NEW i \in Kids(t, Cur), t # EmptyTrie, Push(Child(t, Cur, i)), pc' = pc
        PROVE  IInv'
    <2> DEFINE c == Child(t, Cur, i)
    <2>1. handles \in Seq(DOMAIN t) /\ Len(handles) \in Nat
      BY <1>1 DEF Chained
    <2>2. Cur \in DOMAIN t /\ \A n \in Nat : n = Len(handles) + 1 => Cur = Holder(n)
      <3>1. Cur = Holder(Len(handles) + 1)
        <4>1. (handles = << >>) <=> (Len(handles) = 0)
          BY <2>1
        <4>2. Len(handles) + 1 - 1 = Len(handles)
          BY <2>1
        <4>3. (Len(handles) + 1 = 1) <=> (Len(handles) = 0)
          BY <2>1
        <4> QED
          BY <4>1, <4>2, <4>3 DEF Cur, Holder, Last
      <3>2. Len(handles) + 1 \in 1 .. Len(handles) + 1
        BY <2>1
      <3> QED
        BY <1>1, <1>4, <3>1, <3>2, HolderIsNode
    <2>3. c \in DOMAIN t /\ Front(c) = Full(t, Cur)
      BY <1>1, <2>2, ChildHangs
    <2>4. handles' = Append(handles, c)
      BY <1>4 DEF Push
    <2> HIDE DEF c
    <2>5. /\ handles' \in Seq(DOMAIN t) /\ Len(handles') = Len(handles) + 1
          /\ handles'[Len(handles) + 1] = c
          /\ \A n \in 1 .. Len(handles) : handles'[n] = handles[n]
      BY <2>1, <2>3, <2>4, AppendProperties
    <2>6. ASSUME NEW n \in 1 .. Len(handles) + 1
          PROVE  Full(t, Holder(n)') = Front(handles'[n])
      <3>1. n = 1 \/ n - 1 \in 1 .. Len(handles)
        BY <2>1
      <3>2. Holder(n)' = Holder(n)
        BY <2>5, <3>1 DEF Holder
      <3>3. CASE n \in 1 .. Len(handles)
        <4>1. n \in DOMAIN handles
          BY <2>1, <3>3
        <4> QED
          BY <2>5, <3>2, <3>3, <4>1 DEF Chained, IInv
      <3>4. CASE n = Len(handles) + 1
        BY <2>1, <2>2, <2>3, <2>5, <3>2, <3>4
      <3> QED
        BY <2>1, <3>3, <3>4
    <2>7. DOMAIN handles' = 1 .. Len(handles) + 1
      BY <2>1, <2>5
    <2>8. Chained'
      BY <1>2, <2>5, <2>6, <2>7 DEF Chained
    <2> QED
      BY <1>1, <1>4, <2>8 DEF IInv, Looping
  <1>5. CASE handles' # handles
    <2>1. ~Missing
      BY <1>5 DEF Get, chain
    <2> DEFINE o == CommonPrefix(Beyond(call.key, Len(Cur)), t[Cur].partial)
    <2>2. o.a # << >> /\ Push(Child(t, Cur, o.a[1])) /\ pc' = pc
      BY <1>5 DEF Get, chain
    <2>3. t # EmptyTrie /\ o.a[1] \in Kids(t, Cur)
      BY <2>1, <2>2 DEF Missing
    <2> HIDE DEF o
    <2> QED
      BY <1>4, <2>2, <2>3
  <1> QED
    BY <1>3, <1>5

LEMMA DropByCallerStep == IInv /\ DropByCaller => IInv'
  <1> SUFFICES ASSUME IInv, DropByCaller PROVE IInv'
    OBVIOUS
  <1>1. call' = call /\ handles' = handles /\ pc' = "drop" /\ call \in Calls /\ Chained
    BY DEF IInv, DropByCaller
  <1>2. Chained'
    BY <1>1 DEF Chained, Holder, t
  <1> QED
    BY <1>1, <1>2 DEF IInv, Looping

(* Handles go from the last to the first. *)
LEMMA DropStepKeeps == IInv /\ Drop => IInv'
  <1> SUFFICES ASSUME IInv, Drop PROVE IInv'
    OBVIOUS
  <1>1. call' = call /\ pc' = "drop" /\ call \in Calls /\ Chained /\ t' = t
    BY DEF IInv, Drop, t
  <1>2. CASE handles' = handles
    <2>1. Chained'
      BY <1>1, <1>2 DEF Chained, Holder
    <2> QED
      BY <1>1, <2>1 DEF IInv, Looping
  <1>3. CASE handles # << >> /\ handles' = Front(handles)
    <2>1. handles \in Seq(DOMAIN t) /\ Len(handles) \in Nat \ {0}
      BY <1>1, <1>3 DEF Chained
    <2>2. /\ handles' \in Seq(DOMAIN t) /\ Len(handles') = Len(handles) - 1
          /\ \A n \in 1 .. Len(handles) - 1 : handles'[n] = handles[n]
      BY <1>3, <2>1, FrontType
    <2>3. DOMAIN handles' = 1 .. Len(handles) - 1 /\ DOMAIN handles = 1 .. Len(handles)
      BY <2>1, <2>2
    <2>4. ASSUME NEW n \in 1 .. Len(handles) - 1
          PROVE  Full(t, Holder(n)') = Front(handles'[n])
      <3>1. n \in 1 .. Len(handles) /\ (n = 1 \/ n - 1 \in 1 .. Len(handles) - 1)
        BY <2>1, <2>4
      <3>2. Holder(n)' = Holder(n)
        BY <2>2, <3>1 DEF Holder
      <3> QED
        BY <1>1, <2>2, <2>3, <3>1, <3>2 DEF Chained
    <2>5. Chained'
      BY <1>1, <2>2, <2>3, <2>4 DEF Chained
    <2> QED
      BY <1>1, <2>5 DEF IInv, Looping
  <1> QED
    BY <1>2, <1>3 DEF Drop, DropStep, ReleaseLast, FreeBuffer, Popped

LEMMA InitHolds == Init => IInv
  <1> SUFFICES ASSUME Init PROVE IInv
    OBVIOUS
  <1>1. call \in Calls /\ frames = << >> /\ handles = << >>
    BY DEF Init, ChainInit
  <1>2. pc \in {"idle", "get", "advance"} /\ (pc = "get" => call.op = "get")
    BY DEF Init
  <1>3. Chained /\ InStep
    BY <1>1 DEF Chained, InStep
  <1> QED
    BY <1>1, <1>2, <1>3 DEF IInv, Looping

LEMMA NextKeeps == IInv /\ [Next]_vars => IInv'
  <1>1. IInv /\ UNCHANGED vars => IInv'
    BY DEF IInv, vars, Chained, InStep, Holder, Frame, t
  <1> QED
    BY <1>1, IterNextStep, VisitorStep, AdvanceStep, StepStep, SeekStep, GetStep,
       DropByCallerStep, DropStepKeeps DEF Next, Run

(* What NothingDangles says follows from the frames and handles in step.   *)
LEMMA InvSuffices == IInv => NothingDangles
  <1> SUFFICES ASSUME IInv PROVE NothingDangles
    OBVIOUS
  <1> DEFINE alive == {Root} \cup Range(handles)
  <1>1. handles \in Seq(DOMAIN t) /\ DOMAIN handles = 1 .. Len(handles) /\ Len(handles) \in Nat
    BY DEF IInv, Chained
  <1>2. ASSUME NEW n \in 1 .. Len(handles) + 1 PROVE Holder(n) \in alive
    <2>1. n = 1 \/ n - 1 \in DOMAIN handles
      BY <1>1
    <2> QED
      BY <2>1 DEF Holder, Range
  <1>3. ASSUME pc # "drop", NEW n \in DOMAIN frames PROVE frames[n].slot \in alive
    <2>1. CASE pc \in Looping
      <3>1. InStep /\ frames # << >>
        BY <1>3, <2>1 DEF IInv
      <3>2. n \in 1 .. Len(handles) + 1
        BY <1>3, <3>1 DEF InStep
      <3>3. frames[n].slot = Holder(n)
        BY <1>3, <3>1 DEF InStep
      <3> QED
        BY <1>2, <3>2, <3>3
    <2>2. CASE pc \in {"get", "found"}
      BY <1>3, <2>2 DEF IInv
    <2> QED
      BY <1>3, <2>1, <2>2 DEF IInv
  <1>4. ASSUME NEW h \in Range(handles) PROVE \E p \in alive : Full(t, p) = Front(h)
    <2>1. PICK n \in DOMAIN handles : h = handles[n]
      BY DEF Range
    <2>2. Full(t, Holder(n)) = Front(h) /\ n \in 1 .. Len(handles) + 1
      BY <1>1, <2>1 DEF IInv, Chained
    <2> QED
      BY <1>2, <2>2
  <1> QED
    BY <1>3, <1>4 DEF NothingDangles

(* Memory safety of reading, for every arity, trie and call: whatever      *)
(* fails or panics where, a frame's node is the root or behind a live      *)
(* handle, and a live handle borrows from the root or from a live handle.  *)
THEOREM NoUseAfterRelease == Spec => []NothingDangles
  <1> QED
    BY InitHolds, NextKeeps, InvSuffices, PTL DEF Spec
-----------------------------------------------------------------------------
(* The order of paths.                                                     *)

(* The paths agree up to n, where p is the smaller.                        *)
PartsAt(p, q, n) ==
  /\ n \in 1 .. Len(p) /\ n <= Len(q)
  /\ \A k \in 1 .. n - 1 : p[k] = q[k]
  /\ p[n] < q[n]

LEMMA InitialsAgree ==
  ASSUME NEW p \in Seq(Index), NEW q \in Seq(Index),
         NEW n \in Nat, n <= Len(p), n <= Len(q)
  PROVE  SubSeq(p, 1, n) = SubSeq(q, 1, n) <=> \A k \in 1 .. n : p[k] = q[k]
  <1> DEFINE a == SubSeq(p, 1, n)
             b == SubSeq(q, 1, n)
  <1>1. n \in 0 .. Len(p) /\ n \in 0 .. Len(q)
    OBVIOUS
  <1>2. a \in Seq(Index) /\ Len(a) = n /\ \A k \in 1 .. n : a[k] = p[k]
    BY <1>1, Initial
  <1>3. b \in Seq(Index) /\ Len(b) = n /\ \A k \in 1 .. n : b[k] = q[k]
    BY <1>1, Initial
  <1> HIDE DEF a, b
  <1>4. ASSUME \A k \in 1 .. n : p[k] = q[k] PROVE a = b
    <2>1. IsPrefix(a, b)
      BY <1>2, <1>3, <1>4, PrefixByIndex
    <2> QED
      BY <1>2, <1>3, <2>1, PrefixOrder
  <1>5. ASSUME a = b, NEW k \in 1 .. n PROVE p[k] = q[k]
    BY <1>2, <1>3, <1>5
  <1> QED
    BY <1>4, <1>5 DEF a, b

LEMMA LessByIndex ==
  ASSUME NEW p \in Seq(Index), NEW q \in Seq(Index)
  PROVE  PathLess(p, q) <=> (IsPrefix(p, q) /\ p # q) \/ \E n \in Nat : PartsAt(p, q, n)
  <1>1. ASSUME NEW n \in DOMAIN p \cap DOMAIN q
        PROVE  /\ n \in Nat
               /\ SubSeq(p, 1, n - 1) = SubSeq(q, 1, n - 1) /\ p[n] < q[n]
                    <=> PartsAt(p, q, n)
    <2>1. n \in 1 .. Len(p) /\ n \in 1 .. Len(q)
      OBVIOUS
    <2>2. n - 1 \in Nat /\ n - 1 <= Len(p) /\ n - 1 <= Len(q) /\ n \in Nat
      BY <2>1
    <2>3. SubSeq(p, 1, n - 1) = SubSeq(q, 1, n - 1) <=> \A k \in 1 .. n - 1 : p[k] = q[k]
      BY <2>2, InitialsAgree
    <2> QED
      BY <2>1, <2>2, <2>3 DEF PartsAt
  <1>2. ASSUME NEW n \in Nat, PartsAt(p, q, n) PROVE n \in DOMAIN p \cap DOMAIN q
    BY <1>2 DEF PartsAt
  <1> QED
    BY <1>1, <1>2 DEF PathLess, IsStrictPrefix

LEMMA PathElements ==
  ASSUME NEW p \in Seq(Index)
  PROVE  Len(p) \in Nat /\ \A k \in 1 .. Len(p) : p[k] \in Nat
  <1>1. Len(p) \in Nat /\ \A k \in 1 .. Len(p) : p[k] \in Index
    OBVIOUS
  <1>2. \A i : i \in Index => i \in Nat
    BY IndexAssumption
  <1> QED
    BY <1>1, <1>2, Zenon

LEMMA LessIsStrict ==
  ASSUME NEW p \in Seq(Index), NEW q \in Seq(Index), PathLess(p, q)
  PROVE  p # q /\ ~PathLess(q, p)
  <1>1. /\ Len(p) \in Nat /\ \A k \in 1 .. Len(p) : p[k] \in Nat
        /\ Len(q) \in Nat /\ \A k \in 1 .. Len(q) : q[k] \in Nat
    BY PathElements
  <1>2. CASE IsPrefix(p, q) /\ p # q
    <2>1. ~IsPrefix(q, p)
      BY <1>1, <1>2, PrefixOrder
    <2>2. ASSUME NEW n \in Nat, PartsAt(q, p, n) PROVE FALSE
      <3>1. \A k \in 1 .. Len(p) : p[k] = q[k]
        BY <1>2, PrefixByIndex
      <3> QED
        BY <1>1, <2>2, <3>1 DEF PartsAt
    <2> QED
      BY <1>2, <2>1, <2>2, LessByIndex
  <1>3. ASSUME NEW n \in Nat, PartsAt(p, q, n) PROVE p # q /\ ~PathLess(q, p)
    <2>1. p # q
      BY <1>1, <1>3 DEF PartsAt
    <2>2. ~IsPrefix(q, p)
      <3>1. IsPrefix(q, p) => \A k \in 1 .. Len(q) : q[k] = p[k]
        BY PrefixByIndex
      <3> QED
        BY <1>1, <1>3, <3>1 DEF PartsAt
    <2>3. ASSUME NEW m \in Nat, PartsAt(q, p, m) PROVE FALSE
      BY <1>1, <1>3, <2>3 DEF PartsAt
    <2> QED
      BY <2>1, <2>2, <2>3, LessByIndex
  <1> QED
    BY <1>2, <1>3, LessByIndex

(* What extends a path that is not before q is not before q either.        *)
LEMMA NotLessExtends ==
  ASSUME NEW p \in Seq(Index), NEW q \in Seq(Index), NEW r \in Seq(Index),
         ~PathLess(p, q), IsPrefix(p, r)
  PROVE  ~PathLess(r, q)
  <1>1. /\ Len(p) \in Nat /\ \A k \in 1 .. Len(p) : p[k] \in Nat
        /\ Len(q) \in Nat /\ Len(r) \in Nat
        /\ Len(p) <= Len(r) /\ \A k \in 1 .. Len(p) : p[k] = r[k]
    BY PathElements, PrefixByIndex
  <1>2. ~(IsPrefix(p, q) /\ p # q) /\ \A n \in Nat : ~PartsAt(p, q, n)
    BY LessByIndex
  <1>3. ASSUME IsPrefix(r, q), r # q PROVE FALSE
    <2>1. IsPrefix(p, q)
      BY <1>3, PrefixTransitive
    <2>2. p = q
      BY <1>2, <2>1
    <2> QED
      BY <1>1, <1>3, <2>2, PrefixOrder
  <1>4. ASSUME NEW n \in Nat, PartsAt(r, q, n) PROVE FALSE
    <2>1. CASE n <= Len(p)
      <3>1. PartsAt(p, q, n)
        BY <1>1, <1>4, <2>1 DEF PartsAt
      <3> QED
        BY <1>2, <3>1
    <2>2. CASE n > Len(p)
      <3>1. Len(p) < Len(q) /\ \A k \in 1 .. Len(p) : p[k] = q[k]
        BY <1>1, <1>4, <2>2 DEF PartsAt
      <3>2. IsPrefix(p, q)
        BY <1>1, <3>1, PrefixByIndex
      <3> QED
        BY <1>1, <1>2, <3>1, <3>2
    <2> QED
      BY <1>1, <2>1, <2>2
  <1> QED
    BY <1>3, <1>4, LessByIndex

(* What lies under a smaller child comes first.                            *)
LEMMA SiblingsLess ==
  ASSUME NEW f \in Seq(Index), NEW i \in Index, NEW j \in Index, i < j,
         NEW p \in Seq(Index), NEW q \in Seq(Index),
         IsPrefix(Append(f, i), p), IsPrefix(Append(f, j), q)
  PROVE  PathLess(p, q)
  <1> DEFINE n == Len(f) + 1
             x == Append(f, i)
             y == Append(f, j)
  <1>1. /\ x \in Seq(Index) /\ y \in Seq(Index)
        /\ Len(x) = n /\ Len(y) = n
        /\ \A k \in 1 .. Len(f) : x[k] = f[k] /\ y[k] = f[k]
        /\ x[n] = i /\ y[n] = j
        /\ n \in Nat \ {0} /\ Len(f) = n - 1
        /\ IsPrefix(x, p) /\ IsPrefix(y, q)
    OBVIOUS
  <1> HIDE DEF n, x, y
  <1>2. /\ n <= Len(p) /\ \A k \in 1 .. n : x[k] = p[k]
        /\ n <= Len(q) /\ \A k \in 1 .. n : y[k] = q[k]
    <2>1. Len(x) <= Len(p) /\ \A k \in 1 .. Len(x) : x[k] = p[k]
      <3>1. x \in Seq(Index) /\ IsPrefix(x, p)
        BY <1>1
      <3> QED
        BY <3>1, PrefixByIndex
    <2>2. Len(y) <= Len(q) /\ \A k \in 1 .. Len(y) : y[k] = q[k]
      <3>1. y \in Seq(Index) /\ IsPrefix(y, q)
        BY <1>1
      <3> QED
        BY <3>1, PrefixByIndex
    <2> QED
      BY <1>1, <2>1, <2>2
  <1>3. PartsAt(p, q, n)
    <2>1. Len(p) \in Nat /\ Len(q) \in Nat
      OBVIOUS
    <2>2. p[n] = i /\ q[n] = j
      BY <1>1, <1>2
    <2>3. \A k \in 1 .. n - 1 : p[k] = q[k]
      BY <1>1, <1>2
    <2> QED
      BY <1>1, <1>2, <2>1, <2>2, <2>3 DEF PartsAt
  <1> QED
    BY <1>1, <1>3, LessByIndex

(* What CommonPrefix leaves tells the order.                               *)
LEMMA CommonPrefixTells ==
  ASSUME NEW a \in Seq(Index), NEW b \in Seq(Index)
  PROVE  LET o == CommonPrefix(a, b)
         IN  /\ o.a = << >> <=> IsPrefix(a, b)
             /\ o.b = << >> <=> IsPrefix(b, a)
             /\ o.a = << >> /\ o.b # << >> =>
                  o.b[1] \in Index /\ IsPrefix(Append(a, o.b[1]), b)
             /\ o.b = << >> /\ o.a # << >> =>
                  o.a[1] \in Index /\ IsPrefix(Append(b, o.a[1]), a)
             /\ o.a # << >> /\ o.b # << >> =>
                  /\ o.a[1] \in Index /\ o.b[1] \in Index /\ o.a[1] # o.b[1]
                  /\ \E f \in Seq(Index) : /\ IsPrefix(Append(f, o.a[1]), a)
                                           /\ IsPrefix(Append(f, o.b[1]), b)
  <1> DEFINE Ok(m) == /\ m \in 0 .. Len(a) /\ m <= Len(b)
                      /\ SubSeq(a, 1, m) = SubSeq(b, 1, m)
                      /\ m < Len(a) /\ m < Len(b) => a[m + 1] # b[m + 1]
             n == CHOOSE m \in 0 .. Len(a) :
                    /\ m <= Len(b) /\ SubSeq(a, 1, m) = SubSeq(b, 1, m)
                    /\ m < Len(a) /\ m < Len(b) => a[m + 1] # b[m + 1]
             o == CommonPrefix(a, b)
  <1>1. Len(a) \in Nat /\ Len(b) \in Nat
    OBVIOUS
  <1>2. \E m : Ok(m)
    <2>1. CASE IsPrefix(a, b)
      <3>1. Len(a) <= Len(b) /\ \A k \in 1 .. Len(a) : a[k] = b[k]
        BY <2>1, PrefixByIndex
      <3>2. SubSeq(a, 1, Len(a)) = SubSeq(b, 1, Len(a))
        BY <1>1, <3>1, InitialsAgree
      <3>3. Ok(Len(a))
        BY <1>1, <3>1, <3>2
      <3> HIDE DEF Ok
      <3> QED
        BY <3>3
    <2>2. CASE IsPrefix(b, a)
      <3>1. Len(b) <= Len(a) /\ \A k \in 1 .. Len(b) : b[k] = a[k]
        BY <2>2, PrefixByIndex
      <3>2. SubSeq(b, 1, Len(b)) = SubSeq(a, 1, Len(b))
        BY <1>1, <3>1, InitialsAgree
      <3>3. Ok(Len(b))
        BY <1>1, <3>1, <3>2
      <3> HIDE DEF Ok
      <3> QED
        BY <3>3
    <2>3. CASE ~IsPrefix(a, b) /\ ~IsPrefix(b, a)
      <3> DEFINE l == Len(LongestCommonPrefix({a, b}))
      <3>1. l \in Nat /\ l < Len(a) /\ l < Len(b) /\ SubSeq(a, 1, l) = SubSeq(b, 1, l)
            /\ a[l + 1] # b[l + 1]
        BY <2>3, PathsPart
      <3> HIDE DEF l
      <3>2. Ok(l)
        BY <1>1, <3>1
      <3> HIDE DEF Ok
      <3> QED
        BY <3>2
    <2> QED
      BY <2>1, <2>2, <2>3
  <1>3. Ok(n)
    BY <1>2
  <1>4. o = [a |-> Beyond(a, n), b |-> Beyond(b, n)]
    BY DEF CommonPrefix
  <1> HIDE DEF n
  <1>5. n \in Nat /\ n <= Len(a) /\ n <= Len(b) /\ SubSeq(a, 1, n) = SubSeq(b, 1, n)
        /\ (n < Len(a) /\ n < Len(b) => a[n + 1] # b[n + 1])
    BY <1>1, <1>3
  <1> HIDE DEF o, Ok
  <1> DEFINE f == SubSeq(a, 1, n)
  <1>6. n \in 0 .. Len(a) /\ n \in 0 .. Len(b)
    BY <1>1, <1>5
  <1>7. f \in Seq(Index) /\ Len(f) = n /\ IsPrefix(f, a) /\ IsPrefix(f, b)
    BY <1>5, <1>6, PrefixIsInitial
  <1>8. /\ Len(o.a) = Len(a) - n /\ (n < Len(a) => o.a[1] = a[n + 1])
        /\ Len(o.b) = Len(b) - n /\ (n < Len(b) => o.b[1] = b[n + 1])
    BY <1>1, <1>4, <1>5 DEF Beyond
  <1>9. o.a \in Seq(Index) /\ o.b \in Seq(Index)
    BY <1>4, <1>5 DEF Beyond
  <1>10. (o.a = << >> <=> n = Len(a)) /\ (o.b = << >> <=> n = Len(b))
    BY <1>1, <1>5, <1>8, <1>9
  <1>11. n = Len(a) => f = a
    BY <1>7, PrefixOrder
  <1>12. n = Len(b) => f = b
    BY <1>7, PrefixOrder
  <1> HIDE DEF f
  <1>13. n < Len(a) => /\ o.a[1] \in Index /\ IsPrefix(Append(f, o.a[1]), a)
                       /\ o.a[1] = a[n + 1]
    BY <1>7, <1>8, PrefixContinues
  <1>14. n < Len(b) => /\ o.b[1] \in Index /\ IsPrefix(Append(f, o.b[1]), b)
                       /\ o.b[1] = b[n + 1]
    BY <1>7, <1>8, PrefixContinues
  <1>15. IsPrefix(a, b) => n = Len(a)
    <2>1. IsPrefix(a, b) => Len(a) <= Len(b) /\ \A k \in 1 .. Len(a) : a[k] = b[k]
      BY PrefixByIndex
    <2> QED
      BY <1>1, <1>5, <2>1
  <1>16. IsPrefix(b, a) => n = Len(b)
    <2>1. IsPrefix(b, a) => Len(b) <= Len(a) /\ \A k \in 1 .. Len(b) : b[k] = a[k]
      BY PrefixByIndex
    <2> QED
      BY <1>1, <1>5, <2>1
  <1>17. o.a = << >> <=> IsPrefix(a, b)
    BY <1>7, <1>10, <1>11, <1>15
  <1>18. o.b = << >> <=> IsPrefix(b, a)
    BY <1>7, <1>10, <1>12, <1>16
  <1>19. (o.a # << >> => n < Len(a)) /\ (o.b # << >> => n < Len(b))
    BY <1>1, <1>5, <1>10
  <1>20. o.a = << >> /\ o.b # << >> => o.b[1] \in Index /\ IsPrefix(Append(a, o.b[1]), b)
    BY <1>10, <1>11, <1>14, <1>19
  <1>21. o.b = << >> /\ o.a # << >> => o.a[1] \in Index /\ IsPrefix(Append(b, o.a[1]), a)
    BY <1>10, <1>12, <1>13, <1>19
  <1>22. o.a # << >> /\ o.b # << >> =>
           /\ o.a[1] \in Index /\ o.b[1] \in Index /\ o.a[1] # o.b[1]
           /\ \E g \in Seq(Index) : /\ IsPrefix(Append(g, o.a[1]), a)
                                    /\ IsPrefix(Append(g, o.b[1]), b)
    BY <1>5, <1>7, <1>13, <1>14, <1>19
  <1> QED
    BY <1>17, <1>18, <1>20, <1>21, <1>22 DEF o
-----------------------------------------------------------------------------
(* What a walk has passed and what is still ahead of it.                   *)

(* The nodes at and below a path; those below some children of a node.     *)
From(p) == {x \in DOMAIN t : IsPrefix(p, x)}
Under(s, R) == {x \in DOMAIN t : \E i \in R : IsPrefix(Child(t, s, i), x)}

(* The nodes that the frames have still to enter. *)
Ahead(f) == {x \in DOMAIN t : \E n \in DOMAIN f : x \in Under(f[n].slot, f[n].remaining)}

(* A frame lies below a child smaller than those left to the frames before *)
(* it, and knows where the path of its node ends.                          *)
Nested(f) ==
  /\ \A n \in DOMAIN f : f[n].len = Len(Full(t, f[n].slot))
  /\ \A n, m \in DOMAIN f : n < m =>
       \A i \in f[n].remaining :
         \E j \in Index : j < i /\ IsPrefix(Child(t, f[n].slot, j), f[m].slot)

(* While it seeks, the node at hand is still to be judged. *)
Todo ==
  IF state = "fresh" THEN DOMAIN t
  ELSE Ahead(frames) \cup IF pc = "seek" THEN {Last(frames).slot} ELSE {}

Listing == call.op \in {"iter", "visit"}

Goal == IF Listing THEN call.key ELSE None

(* The nodes that iter and visit are to give. *)
Wanted(x) == Goal = None \/ ~PathLess(Full(t, x), Goal)
ToGive(x) == t[x].value # None /\ Wanted(x)

Here(x) == Item(x, Full(t, x))

(* With T still to do, the walk has said o. *)
Covers(T, o) ==
  /\ \A x \in DOMAIN t \ T, y \in T : PathLess(Full(t, x), Full(t, y))
  /\ \A n \in DOMAIN o : \E x \in DOMAIN t \ T : ToGive(x) /\ o[n] = Here(x)
  /\ IF Listing
       THEN \A x \in DOMAIN t \ T : ToGive(x) => \E n \in DOMAIN o : o[n] = Here(x)
       ELSE o = << >> /\ \A x \in DOMAIN t \ T : ~Violation(x)

(* The n-th thing said is a node to give, after all those before it. *)
Placed(o, n) ==
  \E x \in DOMAIN t :
    /\ ToGive(x) /\ o[n] = Here(x)
    /\ \A y \in DOMAIN t : ToGive(y) =>
         (PathLess(Full(t, y), Full(t, x)) <=> \E m \in 1 .. n - 1 : o[m] = Here(y))

(* The n-th thing said is the first node that breaks the invariant. *)
Blamed(o, n) ==
  \E x \in DOMAIN t :
    /\ Violation(x) /\ o[n] = [path |-> Full(t, x), value |-> None]
    /\ \A y \in DOMAIN t : Violation(y) => y = x \/ PathLess(Full(t, x), Full(t, y))

(* What was said is right, however the walk goes on. *)
Right(o) ==
  IF Listing
    THEN /\ \A n \in DOMAIN o : o[n] \in Ends => n = Len(o)
         /\ \A n \in DOMAIN o : o[n] \notin Ends => Placed(o, n)
         /\ o # << >> /\ Last(o) = End =>
              \A x \in DOMAIN t : ToGive(x) => \E n \in DOMAIN o : o[n] = Here(x)
    ELSE /\ Len(o) <= 1
         /\ o # << >> /\ Last(o) = End => \A x \in DOMAIN t : ~Violation(x)
         /\ \A n \in DOMAIN o : o[n] \notin Ends => Blamed(o, n)

Live == pc \in Looping /\ state # "done"

(* All that a call can say. *)
Values == {None} \cup {t[y].value : y \in DOMAIN t}
                 \cup {t[y].value.data : y \in {z \in DOMAIN t : t[z].value # None}}
Answers == Ends \cup {[path |-> Full(t, x), value |-> v] : x \in DOMAIN t, v \in Values}

Control ==
  /\ state \in {"fresh", "seeking", "walking", "done"}
  /\ call.op \in {"iter", "visit", "validate"}
  /\ pc = "idle" => call.op = "iter"
  /\ pc = "visitor" => call.op = "visit"
  /\ pc # "drop" => (pc = "seek" <=> state = "seeking")
  /\ state = "fresh" => pc \in {"idle", "advance", "drop"}
  /\ pc \in {"step", "visitor"} => state = "walking"
  /\ state = "fresh" => start = Goal /\ out = << >>
  /\ pc = "seek" => start = Goal /\ Goal # None /\ out = << >>

(* The buffer starts with the path of the top frame's node. *)
BufferHolds ==
  frames # << >> =>
    /\ buf \in Seq(Index)
    /\ IsPrefix(Full(t, Last(frames).slot), buf)
    /\ pc = "seek" => buf = Full(t, Last(frames).slot)

Sought ==
  /\ state = "walking" => \A x \in Todo : Wanted(x)
  /\ pc = "seek" => /\ \A x \in Ahead(Front(frames)) : Wanted(x)
                    /\ IsPrefix(Last(frames).slot, Goal)

Walk ==
  /\ Control
  /\ out \in Seq(Answers)
  /\ Right(out)
  /\ Live => Nested(frames) /\ BufferHolds /\ Sought /\ Covers(Todo, out)

(* A lookup stands on the way to its key, and what it said is right.       *)
Lookups ==
  /\ call.op = "get" /\ pc \in {"get", "found", "drop"}
  /\ pc \in {"get", "found"} /\ t # EmptyTrie => IsPrefix(Cur, call.key)
  /\ pc = "get" => out = << >>
  /\ \/ out \in {<< >>, <<End>>, <<Err>>}
     \/ \E x \in DOMAIN t : /\ Full(t, x) = call.key
                            /\ out = <<[path |-> call.key, value |-> t[x].value]>>
  /\ out = <<End>> => \A x \in DOMAIN t : Full(t, x) # call.key

Reads == IF call.op = "get" THEN Lookups ELSE Walk
-----------------------------------------------------------------------------
(* Nodes below children, in order.                                         *)

LEMMA FromExtends ==
  ASSUME IsTree(t), NEW p \in Seq(Index), NEW x \in From(p)
  PROVE  x \in DOMAIN t /\ Full(t, x) \in Seq(Index) /\ IsPrefix(p, Full(t, x))
  <1>1. x \in DOMAIN t /\ IsPrefix(p, x)
    BY DEF From
  <1>2. x \in Seq(Index) /\ Full(t, x) \in Seq(Index) /\ IsPrefix(x, Full(t, x))
    BY <1>1, FullExtends DEF IsTree
  <1> QED
    BY <1>1, <1>2, PrefixTransitive

LEMMA ChildOrder ==
  ASSUME IsTree(t), NEW s \in DOMAIN t, NEW i \in Index, NEW j \in Index, i < j,
         NEW p \in Seq(Index), NEW q \in Seq(Index),
         IsPrefix(Child(t, s, i), p), IsPrefix(Child(t, s, j), q)
  PROVE  PathLess(p, q)
  <1>1. Full(t, s) \in Seq(Index)
    BY FullExtends DEF IsTree
  <1> DEFINE f == Full(t, s)
  <1>2. IsPrefix(Append(f, i), p) /\ IsPrefix(Append(f, j), q)
    BY DEF Child
  <1> HIDE DEF f
  <1> QED
    BY <1>1, <1>2, SiblingsLess DEF f

LEMMA AboveFirst ==
  ASSUME IsTree(t), NEW s \in DOMAIN t, NEW i \in Index, NEW x \in From(Child(t, s, i))
  PROVE  PathLess(Full(t, s), Full(t, x)) /\ IsPrefix(s, x)
  <1>1. /\ Child(t, s, i) \in Seq(Index) /\ Full(t, s) \in Seq(Index) /\ s \in Seq(Index)
        /\ Len(Child(t, s, i)) = Len(Full(t, s)) + 1
        /\ IsPrefix(Full(t, s), Child(t, s, i)) /\ IsPrefix(s, Child(t, s, i))
    BY ChildType, FullExtends DEF IsTree
  <1> DEFINE c == Child(t, s, i)
             f == Full(t, s)
             g == Full(t, x)
  <1>2. x \in DOMAIN t /\ g \in Seq(Index) /\ IsPrefix(c, g) /\ IsPrefix(c, x)
        /\ x \in Seq(Index)
    BY <1>1, FromExtends, FullExtends DEF From, IsTree
  <1>3. c \in Seq(Index) /\ f \in Seq(Index) /\ Len(c) = Len(f) + 1 /\ IsPrefix(f, c)
        /\ IsPrefix(s, c)
    BY <1>1
  <1> HIDE DEF c, f, g
  <1>4. IsPrefix(f, g) /\ IsPrefix(s, x)
    BY <1>1, <1>2, <1>3, PrefixTransitive
  <1>5. Len(c) <= Len(g) /\ Len(f) \in Nat
    BY <1>2, <1>3, PrefixOrder
  <1>6. f # g
    BY <1>2, <1>3, <1>5
  <1> QED
    BY <1>2, <1>3, <1>4, <1>6, LessByIndex DEF f, g

(* A subtree is its node and what lies below the node's children.          *)
LEMMA SubtreeSplits ==
  ASSUME IsTree(t), NEW s \in DOMAIN t
  PROVE  From(s) = {s} \cup Under(s, Kids(t, s))
  <1>1. s \in Seq(Index) /\ IsPrefix(s, s)
    BY FullExtends, PrefixOrder DEF IsTree
  <1>2. ASSUME NEW x \in From(s), x # s PROVE x \in Under(s, Kids(t, s))
    <2>1. x \in DOMAIN t /\ IsPrefix(s, x)
      BY DEF From
    <2>2. \E i \in Kids(t, s) : IsPrefix(Child(t, s, i), x)
      BY <1>2, <2>1, BelowAChild
    <2> QED
      BY <2>1, <2>2 DEF Under
  <1>3. ASSUME NEW x \in Under(s, Kids(t, s)) PROVE x \in From(s)
    <2>1. PICK i \in Kids(t, s) : x \in From(Child(t, s, i))
      BY DEF Under, From
    <2>2. i \in Index /\ x \in DOMAIN t
      BY <2>1 DEF Kids, From
    <2> QED
      BY <2>1, <2>2, AboveFirst DEF From
  <1> QED
    BY <1>1, <1>2, <1>3 DEF From

LEMMA UnderSplits ==
  ASSUME NEW s, NEW R, NEW S \in SUBSET R
  PROVE  Under(s, R) = Under(s, S) \cup Under(s, R \ S)
  BY DEF Under

LEMMA UnderOne ==
  ASSUME NEW s, NEW i
  PROVE  Under(s, {i}) = From(Child(t, s, i))
  BY DEF Under, From

(* What lies under the smaller children comes before the rest.             *)
LEMMA UnderOrder ==
  ASSUME IsTree(t), NEW s \in DOMAIN t, NEW R \in SUBSET Index, NEW S \in SUBSET Index,
         \A i \in R, j \in S : i < j,
         NEW x \in Under(s, R), NEW y \in Under(s, S)
  PROVE  PathLess(Full(t, x), Full(t, y))
  <1>1. PICK i \in R : x \in From(Child(t, s, i))
    BY DEF Under, From
  <1>2. PICK j \in S : y \in From(Child(t, s, j))
    BY DEF Under, From
  <1>3. Child(t, s, i) \in Seq(Index) /\ Child(t, s, j) \in Seq(Index)
    BY ChildType DEF IsTree
  <1>4. /\ Full(t, x) \in Seq(Index) /\ IsPrefix(Child(t, s, i), Full(t, x))
        /\ Full(t, y) \in Seq(Index) /\ IsPrefix(Child(t, s, j), Full(t, y))
    BY <1>1, <1>2, <1>3, FromExtends
  <1>5. i < j
    OBVIOUS
  <1> QED
    BY <1>4, <1>5, ChildOrder

-----------------------------------------------------------------------------
(* Frames.                                                                 *)

FramesOf(f) == f \in Seq(Frame) /\ \A n \in DOMAIN f : f[n].remaining \subseteq Kids(t, f[n].slot)

LEMMA FrameFields ==
  ASSUME NEW r \in Frame
  PROVE  r.slot \in DOMAIN t /\ r.len \in Nat /\ r.remaining \in SUBSET Index
  BY DEF Frame

(* The top frame's subtree comes before all that the frames beneath it     *)
(* have left.                                                              *)
LEMMA TopFirst ==
  ASSUME IsTree(t), NEW f, f \in Seq(Frame), f # << >>, Nested(f),
         NEW x \in From(Last(f).slot), NEW y \in Ahead(Front(f))
  PROVE  PathLess(Full(t, x), Full(t, y))
  <1>1. /\ Front(f) \in Seq(Frame) /\ Last(f) \in Frame /\ Len(f) \in Nat \ {0}
        /\ Len(Front(f)) = Len(f) - 1
        /\ \A n \in 1 .. Len(f) - 1 : Front(f)[n] = f[n]
        /\ Last(f) = f[Len(f)]
    BY FrontType DEF Last
  <1>2. PICK n \in DOMAIN Front(f) : y \in Under(Front(f)[n].slot, Front(f)[n].remaining)
    BY DEF Ahead
  <1>3. n \in 1 .. Len(f) - 1 /\ Front(f)[n] = f[n]
    <2>1. DOMAIN Front(f) = 1 .. Len(f) - 1
      BY <1>1
    <2> QED
      BY <1>1, <1>2, <2>1
  <1>4. PICK i \in f[n].remaining : y \in From(Child(t, f[n].slot, i))
    BY <1>2, <1>3 DEF Under, From
  <1>5. n \in DOMAIN f /\ Len(f) \in DOMAIN f /\ n < Len(f)
    BY <1>1, <1>3
  <1>6. PICK j \in Index : j < i /\ IsPrefix(Child(t, f[n].slot, j), f[Len(f)].slot)
    BY <1>4, <1>5 DEF Nested
  <1>7. f[n].slot \in DOMAIN t /\ i \in Index /\ Last(f).slot \in DOMAIN t
    <2>1. f[n] \in Frame
      BY <1>5, ElementOfSeq
    <2> QED
      BY <1>1, <1>4, <2>1, FrameFields
  <1> DEFINE a == Child(t, f[n].slot, j)
             b == Child(t, f[n].slot, i)
             s == Last(f).slot
  <1>8. a \in Seq(Index) /\ b \in Seq(Index) /\ s \in Seq(Index)
    BY <1>6, <1>7, ChildType, FullExtends DEF IsTree
  <1>9. IsPrefix(a, s)
    BY <1>1, <1>6
  <1>10. /\ Full(t, x) \in Seq(Index) /\ IsPrefix(s, Full(t, x))
         /\ Full(t, y) \in Seq(Index) /\ IsPrefix(b, Full(t, y))
    BY <1>4, <1>8, FromExtends
  <1>11. IsPrefix(a, Full(t, x))
    <2> HIDE DEF a, b, s
    <2> QED
      BY <1>8, <1>9, <1>10, PrefixTransitive
  <1> QED
    BY <1>6, <1>7, <1>10, <1>11, ChildOrder

LEMMA AheadSplits ==
  ASSUME NEW f, f \in Seq(Frame), f # << >>
  PROVE  Ahead(f) = Ahead(Front(f)) \cup Under(Last(f).slot, Last(f).remaining)
  <1>1. /\ Front(f) \in Seq(Frame) /\ Len(f) \in Nat \ {0}
        /\ Len(Front(f)) = Len(f) - 1
        /\ \A n \in 1 .. Len(f) - 1 : Front(f)[n] = f[n]
        /\ Last(f) = f[Len(f)]
    BY FrontType DEF Last
  <1>2. DOMAIN f = 1 .. Len(f) /\ DOMAIN Front(f) = 1 .. Len(f) - 1
    BY <1>1
  <1> DEFINE h == Front(f)
             l == Last(f)
  <1>3. \A n \in DOMAIN f : n \in DOMAIN h \/ n = Len(f)
    BY <1>1, <1>2
  <1>4. \A n \in DOMAIN h : n \in DOMAIN f /\ h[n] = f[n]
    BY <1>1, <1>2
  <1>5. Len(f) \in DOMAIN f /\ l = f[Len(f)]
    BY <1>1, <1>2
  <1> HIDE DEF h, l
  <1> QED
    BY <1>3, <1>4, <1>5 DEF Ahead, Under, h, l

LEMMA NestedFront ==
  ASSUME NEW f, f \in Seq(Frame), f # << >>, Nested(f)
  PROVE  Nested(Front(f)) /\ Front(f) \in Seq(Frame)
  <1>1. /\ Front(f) \in Seq(Frame) /\ Len(f) \in Nat \ {0}
        /\ Len(Front(f)) = Len(f) - 1
        /\ \A n \in 1 .. Len(f) - 1 : Front(f)[n] = f[n]
    BY FrontType
  <1> DEFINE h == Front(f)
  <1>2. \A n \in DOMAIN h : n \in DOMAIN f /\ h[n] = f[n]
    <2>1. DOMAIN f = 1 .. Len(f) /\ DOMAIN Front(f) = 1 .. Len(f) - 1
      BY <1>1
    <2> QED
      BY <1>1, <2>1
  <1> HIDE DEF h
  <1>3. Nested(h)
    BY <1>2 DEF Nested
  <1> QED
    BY <1>1, <1>3 DEF h

(* Children struck off the top frame's list.                               *)
Pruned(f, R) == [f EXCEPT ![Len(f)].remaining = R]

LEMMA PrunedFrames ==
  ASSUME NEW f, f \in Seq(Frame), f # << >>, NEW R, R \subseteq Last(f).remaining
  PROVE  /\ Pruned(f, R) \in Seq(Frame) /\ Pruned(f, R) # << >>
         /\ Len(Pruned(f, R)) = Len(f)
         /\ Front(Pruned(f, R)) = Front(f)
         /\ Last(Pruned(f, R)).slot = Last(f).slot
         /\ Last(Pruned(f, R)).len = Last(f).len
         /\ Last(Pruned(f, R)).remaining = R
         /\ Nested(f) => Nested(Pruned(f, R))
  <1> DEFINE g == Pruned(f, R)
  <1>1. Len(f) \in Nat \ {0} /\ DOMAIN f = 1 .. Len(f) /\ Last(f) = f[Len(f)]
    BY DEF Last
  <1>2. g = [f EXCEPT ![Len(f)].remaining = R]
    BY DEF Pruned
  <1>3. \A n \in DOMAIN f : f[n] \in [slot : DOMAIN t, len : Nat, remaining : SUBSET Index]
    <2>1. \A n \in DOMAIN f : f[n] \in Frame
      BY ElementOfSeq
    <2> QED
      BY <2>1 DEF Frame
  <1>4. /\ DOMAIN g = 1 .. Len(f)
        /\ \A n \in DOMAIN f :
             g[n] = IF n = Len(f) THEN [f[n] EXCEPT !.remaining = R] ELSE f[n]
    BY <1>1, <1>2
  <1> HIDE DEF g
  <1>5. \A n \in DOMAIN f :
          /\ g[n] \in Frame /\ g[n].slot = f[n].slot /\ g[n].len = f[n].len
          /\ g[n].remaining \subseteq f[n].remaining
          /\ n = Len(f) => g[n].remaining = R
          /\ n # Len(f) => g[n] = f[n]
    BY <1>1, <1>3, <1>4 DEF Frame
  <1>6. g \in Seq(Frame) /\ Len(g) = Len(f) /\ g # << >>
    <2>1. g = [n \in 1 .. Len(f) |-> g[n]]
      BY <1>1, <1>2, <1>4
    <2> QED
      BY <1>1, <1>5, <2>1
  <1>7. Last(g) = g[Len(f)]
    BY <1>6 DEF Last
  <1>8. Front(g) = Front(f)
    <2>1. /\ Front(g) \in Seq(Frame) /\ Len(Front(g)) = Len(f) - 1
          /\ \A n \in 1 .. Len(f) - 1 : Front(g)[n] = g[n]
      BY <1>6, FrontType
    <2>2. /\ Front(f) \in Seq(Frame) /\ Len(Front(f)) = Len(f) - 1
          /\ \A n \in 1 .. Len(f) - 1 : Front(f)[n] = f[n]
      BY FrontType
    <2>3. \A n \in 1 .. Len(f) - 1 : g[n] = f[n]
      BY <1>1, <1>5
    <2> DEFINE a == Front(g)
               b == Front(f)
    <2>4. Len(a) = Len(b) /\ \A n \in 1 .. Len(a) : a[n] = b[n]
      BY <2>1, <2>2, <2>3
    <2>5. a \in Seq(Frame) /\ b \in Seq(Frame)
      BY <2>1, <2>2
    <2> HIDE DEF a, b
    <2>6. a = b
      BY <2>4, <2>5
    <2> QED
      BY <2>6 DEF a, b
  <1>9. ASSUME Nested(f) PROVE Nested(g)
    BY <1>1, <1>4, <1>5, <1>9 DEF Nested
  <1> QED
    BY <1>1, <1>5, <1>6, <1>7, <1>8, <1>9 DEF g

(* The smallest child left is entered.                                     *)
LEMMA EnteredFrames ==
  ASSUME IsTree(t), NEW f, f \in Seq(Frame), f # << >>, Nested(f),
         NEW R, R \subseteq Last(f).remaining, NEW i \in R, i \in Kids(t, Last(f).slot),
         \A j \in R : i <= j
  PROVE  LET c == Child(t, Last(f).slot, i)
             g == Pruned(f, R \ {i})
             h == Append(g, FrameOf(c))
         IN  /\ h \in Seq(Frame) /\ h # << >> /\ Front(h) = g /\ Last(h) = FrameOf(c)
             /\ c \in DOMAIN t /\ Nested(h)
  <1> DEFINE s == Last(f).slot
             c == Child(t, s, i)
             g == Pruned(f, R \ {i})
             e == FrameOf(c)
             h == Append(g, e)
  <1>1. /\ g \in Seq(Frame) /\ g # << >> /\ Len(g) = Len(f) /\ Last(g).slot = s
        /\ Last(g).remaining = R \ {i} /\ Nested(g)
    BY PrunedFrames
  <1>2. Last(f) \in Frame /\ s \in DOMAIN t /\ Last(f).remaining \in SUBSET Index
    <2>1. Last(f) \in Frame
      BY FrontType
    <2> QED
      BY <2>1, FrameFields
  <1>3. c \in DOMAIN t /\ i \in Index /\ c \in Seq(Index)
    BY <1>2, ChildType DEF Kids, IsTree
  <1>4. e \in Frame /\ e.slot = c /\ e.len = Len(Full(t, c)) /\ e.remaining = Kids(t, c)
    <2>1. Len(Full(t, c)) \in Nat /\ c \in DOMAIN t
      BY <1>3, FullExtends DEF IsTree
    <2> HIDE DEF c
    <2> QED
      BY <2>1 DEF FrameOf, Frame, Kids
  <1>5. IsPrefix(c, c)
    BY <1>3, PrefixOrder
  <1> HIDE DEF c, g, e
  <1>6. /\ h \in Seq(Frame) /\ Len(h) = Len(g) + 1 /\ h # << >> /\ h[Len(g) + 1] = e
        /\ \A n \in 1 .. Len(g) : h[n] = g[n]
    BY <1>1, <1>4, AppendProperties
  <1>7. Front(h) = g /\ Last(h) = e
    BY <1>1, <1>4, FrontAppend
  <1>8. Len(g) \in Nat \ {0} /\ Last(g) = g[Len(g)] /\ DOMAIN g = 1 .. Len(g)
        /\ DOMAIN h = 1 .. Len(g) + 1
    BY <1>1, <1>6 DEF Last
  <1> HIDE DEF h
  <1>9. \A n \in DOMAIN h : n \in DOMAIN g \/ n = Len(g) + 1
    BY <1>8
  <1>10. ASSUME NEW n \in DOMAIN h PROVE h[n].len = Len(Full(t, h[n].slot))
    BY <1>1, <1>4, <1>6, <1>8, <1>9 DEF Nested
  <1>11. ASSUME NEW n \in DOMAIN g, NEW k \in g[n].remaining
         PROVE  \E j \in Index : j < k /\ IsPrefix(Child(t, g[n].slot, j), c)
    <2>1. CASE n = Len(g)
      <3>1. k \in R \ {i} /\ g[n].slot = s
        BY <1>1, <1>8, <1>11, <2>1
      <3>2. k \in Index
        BY <1>2, <3>1
      <3>3. k \in Nat /\ i \in Nat
        <4>1. \A m : m \in Index => m \in Nat
          BY IndexAssumption
        <4> QED
          BY <1>3, <3>2, <4>1
      <3>4. i < k
        BY <3>1, <3>3
      <3> QED
        BY <1>3, <1>5, <3>1, <3>4 DEF c
    <2>2. CASE n # Len(g)
      <3>1. n < Len(g) /\ Len(g) \in DOMAIN g
        BY <1>8, <2>2
      <3>2. PICK j \in Index : j < k /\ IsPrefix(Child(t, g[n].slot, j), g[Len(g)].slot)
        BY <1>1, <1>11, <3>1 DEF Nested
      <3>3. IsPrefix(Child(t, g[n].slot, j), s)
        BY <1>1, <1>8, <3>2
      <3>4. g[n].slot \in DOMAIN t
        <4>1. g[n] \in Frame
          BY <1>1, ElementOfSeq
        <4> QED
          BY <4>1, FrameFields
      <3>5. Child(t, g[n].slot, j) \in Seq(Index) /\ s \in Seq(Index) /\ IsPrefix(s, c)
        BY <1>2, <1>3, <3>4, ChildType, FullExtends DEF IsTree, c
      <3> HIDE DEF s
      <3>6. IsPrefix(Child(t, g[n].slot, j), c)
        BY <1>3, <3>3, <3>5, PrefixTransitive
      <3> QED
        BY <3>2, <3>6
    <2> QED
      BY <2>1, <2>2
  <1>12. ASSUME NEW n \in DOMAIN h, NEW m \in DOMAIN h, n < m, NEW k \in h[n].remaining
         PROVE  \E j \in Index : j < k /\ IsPrefix(Child(t, h[n].slot, j), h[m].slot)
    <2>1. n \in DOMAIN g /\ h[n] = g[n]
      BY <1>6, <1>8, <1>12
    <2>2. CASE m = Len(g) + 1
      BY <1>4, <1>6, <1>11, <1>12, <2>1, <2>2
    <2>3. CASE m \in DOMAIN g
      BY <1>1, <1>6, <1>8, <1>12, <2>1, <2>3 DEF Nested
    <2> QED
      BY <1>9, <2>2, <2>3
  <1>13. Nested(h)
    BY <1>10, <1>12 DEF Nested
  <1> QED
    BY <1>3, <1>6, <1>7, <1>13 DEF c, g, e, h
-----------------------------------------------------------------------------
(* What a walk says.                                                       *)

LEMMA Appended ==
  ASSUME NEW S, NEW o \in Seq(S), NEW e \in S
  PROVE  /\ Append(o, e) \in Seq(S) /\ Append(o, e) # << >>
         /\ Len(o) \in Nat /\ DOMAIN o = 1 .. Len(o)
         /\ Len(Append(o, e)) = Len(o) + 1
         /\ DOMAIN Append(o, e) = 1 .. Len(o) + 1
         /\ Append(o, e)[Len(o) + 1] = e /\ Last(Append(o, e)) = e
         /\ \A n \in 1 .. Len(o) : Append(o, e)[n] = o[n]
  BY FrontAppend, AppendProperties

LEMMA HereIsAnswer ==
  ASSUME call \in Calls, NEW x \in DOMAIN t
  PROVE  /\ [path |-> Full(t, x), value |-> None] \in Answers
         /\ [path |-> Full(t, x), value |-> None] \notin Ends \cup {None}
         /\ [path |-> Full(t, x), value |-> t[x].value] \in Answers
         /\ [path |-> Full(t, x), value |-> t[x].value] \notin Ends \cup {None}
         /\ t[x].value # None => Here(x) \in Answers /\ Here(x) \notin Ends \cup {None}
  <1> DEFINE v == t[x].value
             said(w) == [path |-> Full(t, x), value |-> w]
             mine == {None, v} \cup {u.data : u \in {v} \ {None}}
  <1>1. \A w \in mine : said(w) \notin {None, End, Err, Break}
    BY ResultsAssumption DEF t
  <1>2. None \in mine /\ v \in mine /\ (v # None => v.data \in mine)
    OBVIOUS
  <1>3. said(None) \in Answers /\ said(v) \in Answers /\ (v # None => said(v.data) \in Answers)
    <2>1. None \in Values /\ v \in Values /\ (v # None => v.data \in Values)
      BY DEF Values
    <2>2. \A w \in Values : said(w) \in Answers
      BY DEF Answers
    <2> QED
      BY <2>1, <2>2
  <1>4. Here(x) = said(v.data)
    BY DEF Here, Item
  <1> HIDE DEF mine, said
  <1>5. \A w \in mine : said(w) \notin Ends \cup {None}
    BY <1>1 DEF Ends
  <1> QED
    BY <1>2, <1>3, <1>4, <1>5 DEF said

LEMMA HereIsUnique ==
  ASSUME IsTree(t), NEW x \in DOMAIN t, NEW y \in DOMAIN t, Here(x) = Here(y)
  PROVE  x = y
  <1>1. Here(x).path = Full(t, x) /\ Here(y).path = Full(t, y)
    BY DEF Here, Item
  <1> QED
    BY <1>1, FullIsUnique

LEMMA FullPath ==
  ASSUME IsTree(t), NEW x \in DOMAIN t
  PROVE  Full(t, x) \in Seq(Index)
  BY FullExtends DEF IsTree

LEMMA NoEndsYet ==
  ASSUME call \in Calls, NEW T \in SUBSET DOMAIN t, NEW o \in Seq(Answers), Covers(T, o)
  PROVE  \A n \in DOMAIN o : o[n] \notin Ends
  BY HereIsAnswer DEF Covers, ToGive

(* The walk gives the node s, the first of those ahead.                    *)
LEMMA GiveOne ==
  ASSUME IsTree(t), call \in Calls, Listing,
         NEW T \in SUBSET DOMAIN t, NEW o \in Seq(Answers), Covers(T, o), Right(o),
         NEW s \in T, ToGive(s), \A y \in T \ {s} : PathLess(Full(t, s), Full(t, y))
  PROVE  Covers(T \ {s}, Append(o, Here(s))) /\ Right(Append(o, Here(s)))
  <1> DEFINE q == Append(o, Here(s))
             l == Len(o) + 1
  <1>1. Here(s) \in Answers /\ Here(s) \notin Ends /\ s \in DOMAIN t
    BY HereIsAnswer DEF ToGive
  <1>2. /\ q \in Seq(Answers) /\ q # << >> /\ Len(o) \in Nat /\ DOMAIN o = 1 .. Len(o)
        /\ Len(q) = l /\ DOMAIN q = 1 .. l /\ q[l] = Here(s) /\ Last(q) = Here(s)
        /\ \A n \in 1 .. Len(o) : q[n] = o[n]
    BY <1>1, Appended
  <1> HIDE DEF q
  <1>3. \A n \in DOMAIN o : o[n] \notin Ends
    BY NoEndsYet
  <1>4. \A x \in DOMAIN t \ T, y \in T : PathLess(Full(t, x), Full(t, y))
    BY DEF Covers
  <1>5. \A n \in DOMAIN o : \E x \in DOMAIN t \ T : ToGive(x) /\ o[n] = Here(x)
    BY DEF Covers
  <1>6. \A x \in DOMAIN t \ T : ToGive(x) => \E n \in DOMAIN o : o[n] = Here(x)
    BY DEF Covers
  <1>7. \A n \in DOMAIN q : n \in DOMAIN o \/ n = l
    BY <1>2
  <1>8. \A n \in DOMAIN o : n \in DOMAIN q /\ q[n] = o[n]
    BY <1>2
  <1>9. l \in DOMAIN q
    BY <1>2
  <1>10. Covers(T \ {s}, q)
    <2>1. DOMAIN t \ (T \ {s}) = (DOMAIN t \ T) \cup {s}
      BY <1>1
    <2>2. \A x \in DOMAIN t \ (T \ {s}), y \in T \ {s} : PathLess(Full(t, x), Full(t, y))
      BY <1>4, <2>1
    <2>3. \A n \in DOMAIN q : \E x \in DOMAIN t \ (T \ {s}) : ToGive(x) /\ q[n] = Here(x)
      BY <1>2, <1>5, <1>7, <1>8, <2>1
    <2>4. \A x \in DOMAIN t \ (T \ {s}) : ToGive(x) => \E n \in DOMAIN q : q[n] = Here(x)
      BY <1>2, <1>6, <1>8, <1>9, <2>1
    <2> QED
      BY <2>2, <2>3, <2>4 DEF Covers
  <1>11. ASSUME NEW y \in DOMAIN t, ToGive(y)
         PROVE  PathLess(Full(t, y), Full(t, s)) <=> \E m \in DOMAIN o : o[m] = Here(y)
    <2>1. ASSUME PathLess(Full(t, y), Full(t, s)) PROVE \E m \in DOMAIN o : o[m] = Here(y)
      <3>1. y # s /\ ~PathLess(Full(t, s), Full(t, y))
        BY <1>1, <2>1, FullPath, LessIsStrict
      <3>2. y \in DOMAIN t \ T
        BY <3>1
      <3> QED
        BY <1>6, <1>11, <3>2
    <2>2. ASSUME NEW m \in DOMAIN o, o[m] = Here(y) PROVE PathLess(Full(t, y), Full(t, s))
      <3>1. PICK x \in DOMAIN t \ T : o[m] = Here(x)
        BY <1>5
      <3>2. x = y
        BY <2>2, <3>1, HereIsUnique
      <3> QED
        BY <1>4, <3>1, <3>2
    <2> QED
      BY <2>1, <2>2
  <1>12. Right(q)
    <2>1. \A n \in DOMAIN q : q[n] \notin Ends
      BY <1>1, <1>2, <1>3, <1>7, <1>8
    <2>2. Last(q) # End
      BY <1>1, <1>2 DEF Ends
    <2>3. ASSUME NEW n \in DOMAIN q
          PROVE  \E x \in DOMAIN t :
                   /\ ToGive(x) /\ q[n] = Here(x)
                   /\ \A y \in DOMAIN t : ToGive(y) =>
                        (PathLess(Full(t, y), Full(t, x))
                           <=> \E m \in 1 .. n - 1 : q[m] = Here(y))
      <3>1. CASE n = l
        <4>1. 1 .. n - 1 = DOMAIN o
          BY <1>2, <3>1
        <4> QED
          BY <1>1, <1>2, <1>8, <1>11, <3>1, <4>1
      <3>2. CASE n \in DOMAIN o
        <4>1. q[n] = o[n] /\ o[n] \notin Ends
          BY <1>3, <1>8, <3>2
        <4>2. PICK x \in DOMAIN t :
                /\ ToGive(x) /\ o[n] = Here(x)
                /\ \A y \in DOMAIN t : ToGive(y) =>
                     (PathLess(Full(t, y), Full(t, x))
                        <=> \E m \in 1 .. n - 1 : o[m] = Here(y))
          BY <3>2, <4>1 DEF Right, Placed
        <4>3. \A m \in 1 .. n - 1 : q[m] = o[m]
          <5>1. \A m \in 1 .. n - 1 : m \in 1 .. Len(o)
            BY <1>2, <3>2
          <5> QED
            BY <1>2, <5>1
        <4> QED
          BY <4>1, <4>2, <4>3
      <3> QED
        BY <1>7, <3>1, <3>2
    <2> QED
      BY <2>1, <2>2, <2>3 DEF Right, Placed
  <1> QED
    BY <1>10, <1>12 DEF q

(* The walk leaves nodes behind of which there is nothing to say.          *)
LEMMA PassSome ==
  ASSUME NEW T \in SUBSET DOMAIN t, NEW o, Covers(T, o),
         NEW Z \in SUBSET T, \A x \in Z, y \in T \ Z : PathLess(Full(t, x), Full(t, y)),
         IF Listing THEN \A x \in Z : ~ToGive(x) ELSE \A x \in Z : ~Violation(x)
  PROVE  Covers(T \ Z, o)
  <1>1. DOMAIN t \ (T \ Z) = (DOMAIN t \ T) \cup Z
    OBVIOUS
  <1>2. \A x \in DOMAIN t \ (T \ Z), y \in T \ Z : PathLess(Full(t, x), Full(t, y))
    BY <1>1 DEF Covers
  <1>3. \A n \in DOMAIN o : \E x \in DOMAIN t \ (T \ Z) : ToGive(x) /\ o[n] = Here(x)
    BY <1>1 DEF Covers
  <1>4. IF Listing
          THEN \A x \in DOMAIN t \ (T \ Z) : ToGive(x) => \E n \in DOMAIN o : o[n] = Here(x)
          ELSE o = << >> /\ \A x \in DOMAIN t \ (T \ Z) : ~Violation(x)
    BY <1>1 DEF Covers
  <1> QED
    BY <1>2, <1>3, <1>4 DEF Covers

(* The call ends, and says how.                                            *)
LEMMA EndSaid ==
  ASSUME call \in Calls, NEW T \in SUBSET DOMAIN t, NEW o \in Seq(Answers),
         Covers(T, o), Right(o), NEW e \in Ends, e = End => T = {}
  PROVE  Append(o, e) \in Seq(Answers) /\ Right(Append(o, e))
  <1> DEFINE q == Append(o, e)
             l == Len(o) + 1
  <1>1. e \in Answers
    BY DEF Answers
  <1>2. /\ q \in Seq(Answers) /\ q # << >> /\ Len(o) \in Nat /\ DOMAIN o = 1 .. Len(o)
        /\ Len(q) = l /\ DOMAIN q = 1 .. l /\ q[l] = e /\ Last(q) = e
        /\ \A n \in 1 .. Len(o) : q[n] = o[n]
    BY <1>1, Appended
  <1> HIDE DEF q
  <1>3. \A n \in DOMAIN o : o[n] \notin Ends
    BY NoEndsYet
  <1>4. \A n \in DOMAIN q : (n \in DOMAIN o /\ q[n] = o[n]) \/ n = Len(q)
    BY <1>2
  <1>5. \A n \in DOMAIN o : n \in DOMAIN q /\ q[n] = o[n]
    BY <1>2
  <1>6. ASSUME Listing PROVE Right(q)
    <2>1. \A n \in DOMAIN q : q[n] \in Ends => n = Len(q)
      BY <1>3, <1>4
    <2>2. ASSUME NEW n \in DOMAIN q, q[n] \notin Ends
          PROVE  \E x \in DOMAIN t :
                   /\ ToGive(x) /\ q[n] = Here(x)
                   /\ \A y \in DOMAIN t : ToGive(y) =>
                        (PathLess(Full(t, y), Full(t, x))
                           <=> \E m \in 1 .. n - 1 : q[m] = Here(y))
      <3>1. n \in DOMAIN o /\ q[n] = o[n]
        BY <1>2, <1>4, <2>2
      <3>2. PICK x \in DOMAIN t :
              /\ ToGive(x) /\ o[n] = Here(x)
              /\ \A y \in DOMAIN t : ToGive(y) =>
                   (PathLess(Full(t, y), Full(t, x))
                      <=> \E m \in 1 .. n - 1 : o[m] = Here(y))
        BY <1>3, <1>6, <3>1 DEF Right, Placed
      <3>3. \A m \in 1 .. n - 1 : q[m] = o[m]
        <4>1. \A m \in 1 .. n - 1 : m \in 1 .. Len(o)
          BY <1>2, <3>1
        <4> QED
          BY <1>2, <4>1
      <3> QED
        BY <3>1, <3>2, <3>3
    <2>3. ASSUME Last(q) = End, NEW x \in DOMAIN t, ToGive(x)
          PROVE  \E n \in DOMAIN q : q[n] = Here(x)
      <3>1. x \in DOMAIN t \ T
        BY <1>2, <2>3
      <3>2. \E n \in DOMAIN o : o[n] = Here(x)
        BY <1>6, <2>3, <3>1 DEF Covers
      <3> QED
        BY <1>5, <3>2
    <2> QED
      BY <1>2, <1>6, <2>1, <2>2, <2>3 DEF Right, Placed
  <1>7. ASSUME ~Listing PROVE Right(q)
    <2>1. o = << >> /\ \A x \in DOMAIN t \ T : ~Violation(x)
      BY <1>7 DEF Covers
    <2>2. \A n \in DOMAIN q : q[n] \in Ends
      BY <1>2, <1>4, <2>1
    <2>3. ASSUME Last(q) = End, NEW x \in DOMAIN t PROVE ~Violation(x)
      BY <1>2, <2>1, <2>3
    <2>4. Len(q) <= 1
      BY <1>2, <2>1
    <2> QED
      BY <1>7, <2>2, <2>3, <2>4 DEF Right
  <1>8. q \in Seq(Answers) /\ Right(q)
    BY <1>2, <1>6, <1>7
  <1> QED
    BY <1>8 DEF q

(* The walk comes to the node s, the first of those ahead.                 *)
LEMMA Received ==
  ASSUME IsTree(t), call \in Calls, call.op \in {"iter", "visit", "validate"},
         NEW T \in SUBSET DOMAIN t, out \in Seq(Answers), Covers(T, out), Right(out),
         NEW s \in T, Wanted(s), \A y \in T \ {s} : PathLess(Full(t, s), Full(t, y)),
         Receive(s, Full(t, s))
  PROVE  /\ out' \in Seq(Answers) /\ Right(out')
         /\ pc' # "drop" => Covers(T \ {s}, out')
         /\ pc' \in {"advance", "idle", "visitor", "drop"}
         /\ pc' = "idle" => call.op = "iter"
         /\ pc' = "visitor" => call.op = "visit"
  <1>1. s \in DOMAIN t
    OBVIOUS
  <1>2. \A x \in {s}, y \in T \ {s} : PathLess(Full(t, x), Full(t, y))
    OBVIOUS
  <1>3. CASE call.op = "validate"
    <2>1. ~Listing
      BY <1>3 DEF Listing
    <2>2. CASE ~Violation(s)
      <3>1. pc' = "advance" /\ out' = out
        BY <1>3, <2>2 DEF Receive
      <3>2. {s} \in SUBSET T /\ out \in Seq(Answers)
        OBVIOUS
      <3>3. IF Listing THEN \A x \in {s} : ~ToGive(x) ELSE \A x \in {s} : ~Violation(x)
        BY <2>1, <2>2
      <3>4. Covers(T \ {s}, out)
        BY <1>2, <3>2, <3>3, PassSome
      <3> QED
        BY <3>1, <3>4
    <2>3. CASE Violation(s)
      <3> DEFINE e == [path |-> Full(t, s), value |-> None]
      <3>1. e \in Answers /\ e \notin Ends /\ e # None
        BY <1>1, HereIsAnswer
      <3>2. Finish(e, FALSE)
        BY <1>3, <2>3 DEF Receive
      <3>3. out' = Append(out, e) /\ pc' = "drop"
        <4> HIDE DEF e
        <4> QED
          BY <1>3, <3>1, <3>2 DEF Finish
      <3>4. out = << >> /\ \A x \in DOMAIN t \ T : ~Violation(x)
        BY <2>1 DEF Covers
      <3> HIDE DEF e
      <3>5. /\ out' \in Seq(Answers) /\ DOMAIN out' = {1} /\ out'[1] = e
            /\ Last(out') = e /\ Len(out') <= 1
        <4>1. out' = <<e>>
          BY <3>3, <3>4
        <4> QED
          BY <3>1, <4>1 DEF Last
      <3>6. \A y \in DOMAIN t : Violation(y) => y = s \/ PathLess(Full(t, s), Full(t, y))
        BY <3>4
      <3>7. Last(out') # End
        BY <3>1, <3>5 DEF Ends
      <3>8. \A n \in DOMAIN out' : out'[n] = e
        BY <3>5
      <3> QED
        BY <1>1, <2>1, <2>3, <3>3, <3>5, <3>6, <3>7, <3>8 DEF Right, Blamed, e
    <2> QED
      BY <2>2, <2>3
  <1>4. CASE call.op # "validate" /\ t[s].value = None
    <2>1. Listing /\ ~ToGive(s)
      BY <1>4 DEF Listing, ToGive
    <2>2. pc' = "advance" /\ out' = out
      BY <1>4 DEF Receive
    <2>3. IF Listing THEN \A x \in {s} : ~ToGive(x) ELSE \A x \in {s} : ~Violation(x)
      BY <2>1
    <2>4. {s} \in SUBSET T /\ out \in Seq(Answers)
      OBVIOUS
    <2>5. Covers(T \ {s}, out)
      BY <1>2, <2>3, <2>4, PassSome
    <2> QED
      BY <2>2, <2>5
  <1>5. CASE call.op # "validate" /\ t[s].value # None
    <2>1. Listing /\ ToGive(s)
      BY <1>5 DEF Listing, ToGive
    <2>2. Here(s) \in Answers /\ Here(s) # None
      BY <1>1, <1>5, HereIsAnswer
    <2>3. /\ out' = Append(out, Here(s))
          /\ pc' = IF call.op = "iter" THEN "idle" ELSE "visitor"
      <3>1. CASE call.op = "iter"
        <4>1. Finish(Here(s), FALSE)
          BY <1>5, <3>1 DEF Receive, Here
        <4> QED
          BY <2>2, <3>1, <4>1 DEF Finish
      <3>2. CASE call.op # "iter"
        BY <1>5, <3>2 DEF Receive, Here
      <3> QED
        BY <3>1, <3>2
    <2>4. Covers(T \ {s}, out') /\ Right(out')
      BY <2>1, <2>3, GiveOne
    <2>5. out' \in Seq(Answers)
      BY <2>2, <2>3, Appended
    <2> QED
      BY <1>5, <2>3, <2>4, <2>5
  <1> QED
    BY <1>3, <1>4, <1>5
-----------------------------------------------------------------------------
(* The steps of a walk.                                                    *)

(* What only the call decides stays while it runs.                         *)
LEMMA SameCall ==
  ASSUME call' = call
  PROVE  /\ t' = t /\ Goal' = Goal /\ Answers' = Answers /\ Frame' = Frame
         /\ Listing' <=> Listing
         /\ \A x : ToGive(x)' <=> ToGive(x)
         /\ \A x : Violation(x)' <=> Violation(x)
         /\ \A x : Wanted(x)' <=> Wanted(x)
         /\ \A x : Here(x)' = Here(x)
  <1>1. t' = t /\ Goal' = Goal /\ (Listing' <=> Listing)
    BY DEF t, Goal, Listing
  <1>2. Answers' = Answers /\ Frame' = Frame
    BY <1>1 DEF Answers, Values, Frame
  <1>3. \A x : Wanted(x)' <=> Wanted(x)
    BY <1>1 DEF Wanted
  <1>4. \A x : ToGive(x)' <=> ToGive(x)
    BY <1>1, <1>3 DEF ToGive
  <1>5. \A x : Violation(x)' <=> Violation(x)
    BY <1>1 DEF Violation
  <1>6. \A x : Here(x)' = Here(x)
    BY <1>1 DEF Here, Item
  <1> QED
    BY <1>1, <1>2, <1>3, <1>4, <1>5, <1>6

LEMMA SameRight ==
  ASSUME call' = call
  PROVE  Right(out)' <=> Right(out')
  <1>1. \A n : Placed(out, n)' <=> Placed(out', n)
    BY SameCall DEF Placed
  <1>2. \A n : Blamed(out, n)' <=> Blamed(out', n)
    BY SameCall DEF Blamed
  <1> QED
    BY <1>1, <1>2, SameCall DEF Right

LEMMA SameCovers ==
  ASSUME call' = call
  PROVE  Covers(Todo, out)' <=> Covers(Todo', out')
  BY SameCall DEF Covers

LEMMA SameFrames ==
  ASSUME call' = call
  PROVE  /\ Ahead(frames)' = Ahead(frames')
         /\ Ahead(Front(frames))' = Ahead(Front(frames'))
         /\ Nested(frames)' <=> Nested(frames')
         /\ BufferHolds' <=>
              (frames' # << >> =>
                 /\ buf' \in Seq(Index)
                 /\ IsPrefix(Full(t, Last(frames').slot), buf')
                 /\ pc' = "seek" => buf' = Full(t, Last(frames').slot))
  <1>1. t' = t
    BY SameCall
  <1>2. Ahead(frames)' = Ahead(frames')
    BY <1>1 DEF Ahead, Under
  <1>3. Ahead(Front(frames))' = Ahead(Front(frames'))
    BY <1>1 DEF Ahead, Under
  <1>4. Nested(frames)' <=> Nested(frames')
    BY <1>1 DEF Nested
  <1> QED
    BY <1>1, <1>2, <1>3, <1>4 DEF BufferHolds

LEMMA WalkAssembles ==
  ASSUME call' = call, Control', out' \in Seq(Answers), Right(out'),
         Live' =>
           /\ Nested(frames') /\ BufferHolds' /\ Covers(Todo', out')
           /\ state' = "walking" => \A x \in Todo' : Wanted(x)
           /\ pc' = "seek" => /\ \A x \in Ahead(Front(frames')) : Wanted(x)
                              /\ IsPrefix(Last(frames').slot, Goal)
  PROVE  Walk'
  <1>1. Answers' = Answers /\ Goal' = Goal /\ \A x : Wanted(x)' <=> Wanted(x)
    BY SameCall
  <1>2. Right(out)'
    BY <1>1, SameRight
  <1>3. Live' => Nested(frames)' /\ Covers(Todo, out)'
    BY SameFrames, SameCovers
  <1>4. Live' => Sought'
    BY <1>1, SameFrames DEF Sought
  <1> QED
    BY <1>1, <1>2, <1>3, <1>4 DEF Walk

LEMMA WalkBasics ==
  ASSUME IInv, Walk, pc \in Looping
  PROVE  /\ call \in Calls /\ IsTree(t) /\ Chained /\ InStep /\ frames \in Seq(Frame)
         /\ out \in Seq(Answers) /\ Right(out) /\ Control
         /\ frames # << >> =>
              /\ Last(frames) \in Frame /\ Last(frames).slot \in DOMAIN t
              /\ Last(frames).remaining \in SUBSET Index
              /\ Last(frames).remaining \subseteq Kids(t, Last(frames).slot)
         /\ Goal # None => Goal \in Seq(Index) /\ Listing
  <1>1. /\ call \in Calls /\ IsTree(t) /\ Chained /\ InStep
        /\ out \in Seq(Answers) /\ Right(out) /\ Control
    BY CallsAssumption DEF IInv, Walk, IsTree, t
  <1>2. Goal # None => Goal \in Seq(Index) /\ Listing
    BY <1>1, CallsAssumption DEF Goal, Listing
  <1>3. frames # << >> =>
          /\ Last(frames) \in Frame /\ Last(frames).slot \in DOMAIN t
          /\ Last(frames).remaining \in SUBSET Index
          /\ Last(frames).remaining \subseteq Kids(t, Last(frames).slot)
    BY <1>1, TopFrame, FrameFields
  <1> QED
    BY <1>1, <1>2, <1>3 DEF InStep

(* What is ahead of the frames are nodes of the trie.                      *)
LEMMA TodoNodes ==
  ASSUME IInv, Walk, Live
  PROVE  Todo \in SUBSET DOMAIN t
  <1>1. Ahead(frames) \in SUBSET DOMAIN t
    BY DEF Ahead, Under
  <1>2. pc = "seek" => Last(frames).slot \in DOMAIN t
    BY WalkBasics DEF IInv, Live
  <1> QED
    BY <1>1, <1>2 DEF Todo

LEMMA TodoNext ==
  ASSUME call' = call
  PROVE  Todo' = IF state' = "fresh" THEN DOMAIN t
                 ELSE Ahead(frames') \cup IF pc' = "seek" THEN {Last(frames').slot} ELSE {}
  <1>1. t' = t /\ Ahead(frames)' = Ahead(frames')
    BY SameCall, SameFrames
  <1> QED
    BY <1>1 DEF Todo

(* The frames and what was said stay, or the walk is over.                 *)
LEMMA QuietStep ==
  ASSUME IInv, Walk, pc \in Looping \cup {"drop"}, call' = call, Control', out' = out,
         Live' => Live /\ UNCHANGED <<state, frames, buf>> /\ pc # "seek" /\ pc' # "seek"
  PROVE  Walk'
  <1>1. out' \in Seq(Answers) /\ Right(out')
    BY DEF Walk
  <1>2. ASSUME Live'
        PROVE  /\ Nested(frames') /\ BufferHolds' /\ Covers(Todo', out')
               /\ state' = "walking" => \A x \in Todo' : Wanted(x)
    <2>1. /\ Live /\ state' = state /\ frames' = frames /\ buf' = buf
          /\ pc # "seek" /\ pc' # "seek"
      BY <1>2
    <2>2. Nested(frames) /\ BufferHolds /\ Sought /\ Covers(Todo, out)
      BY <2>1 DEF Walk
    <2>3. Todo' = Todo
      BY <2>1, TodoNext DEF Todo
    <2>4. Nested(frames') /\ BufferHolds'
      BY <2>1, <2>2, SameFrames DEF BufferHolds
    <2>5. Covers(Todo', out')
      BY <2>2, <2>3
    <2>6. state' = "walking" => \A x \in Todo' : Wanted(x)
      BY <2>1, <2>2, <2>3 DEF Sought
    <2> QED
      BY <2>4, <2>5, <2>6
  <1>3. Live' => pc' # "seek"
    OBVIOUS
  <1> QED
    BY <1>1, <1>2, <1>3, WalkAssembles

(* The walk ends and says how.                                             *)
LEMMA EndStep ==
  ASSUME IInv, Walk, Live, call' = call, Control', ~Live',
         NEW e \in Ends, out' = Append(out, e), e = End => Todo = {}
  PROVE  Walk'
  <1>1. call \in Calls /\ out \in Seq(Answers) /\ Right(out) /\ Covers(Todo, out)
    BY WalkBasics DEF Walk, Live
  <1>2. Todo \in SUBSET DOMAIN t
    BY TodoNodes
  <1>3. out' \in Seq(Answers) /\ Right(out')
    BY <1>1, <1>2, EndSaid
  <1> QED
    BY <1>3, WalkAssembles

(* The walk enters a node, the first of those to do.                       *)
LEMMA EnterStep ==
  ASSUME IInv, Walk, Live, call' = call, state' = "walking",
         NEW T \in SUBSET DOMAIN t, Covers(T, out), \A x \in T : Wanted(x),
         NEW s \in T, \A y \in T \ {s} : PathLess(Full(t, s), Full(t, y)),
         Receive(s, Full(t, s)),
         frames' # << >>, Nested(frames'), Ahead(frames') = T \ {s},
         buf' = Full(t, s), Last(frames').slot = s
  PROVE  Walk'
  <1>1. /\ call \in Calls /\ out \in Seq(Answers) /\ Right(out) /\ IsTree(t)
        /\ Control /\ call.op \in {"iter", "visit", "validate"}
    BY WalkBasics DEF Live, Control
  <1>2. /\ out' \in Seq(Answers) /\ Right(out')
        /\ pc' # "drop" => Covers(T \ {s}, out')
        /\ pc' \in {"advance", "idle", "visitor", "drop"}
        /\ pc' = "idle" => call.op = "iter"
        /\ pc' = "visitor" => call.op = "visit"
    BY <1>1, Received
  <1>3. Control'
    BY <1>1, <1>2 DEF Control
  <1>4. Todo' = T \ {s}
    BY <1>2, TodoNext
  <1>5. BufferHolds'
    <2>1. Full(t, s) \in Seq(Index) /\ IsPrefix(Full(t, s), Full(t, s))
      <3>1. Full(t, s) \in Seq(Index)
        BY <1>1, FullPath
      <3> DEFINE f == Full(t, s)
      <3> HIDE DEF f
      <3>2. f \in Seq(Index) => IsPrefix(f, f)
        BY PrefixOrder
      <3> QED
        BY <3>1, <3>2 DEF f
    <2> QED
      BY <2>1, SameFrames
  <1>6. Live' => Covers(Todo', out')
    BY <1>2, <1>4 DEF Live, Looping
  <1>7. pc' # "seek" /\ \A x \in Todo' : Wanted(x)
    BY <1>2, <1>4
  <1> QED
    BY <1>2, <1>3, <1>5, <1>6, <1>7, WalkAssembles

(* A node comes before all that lies below its children.                   *)
LEMMA HeadFirst ==
  ASSUME IsTree(t), NEW s \in DOMAIN t, NEW R \in SUBSET Index, NEW y \in Under(s, R)
  PROVE  PathLess(Full(t, s), Full(t, y)) /\ y \in From(s) /\ y # s
  <1>1. PICK i \in R : y \in From(Child(t, s, i))
    BY DEF Under, From
  <1>2. i \in Index
    OBVIOUS
  <1>3. PathLess(Full(t, s), Full(t, y)) /\ IsPrefix(s, y)
    BY <1>1, <1>2, AboveFirst
  <1>4. y \in DOMAIN t
    BY DEF Under
  <1>5. y # s
    BY <1>3, <1>4, FullPath, LessIsStrict
  <1> QED
    BY <1>3, <1>4, <1>5 DEF From

LEMMA RootFrame ==
  ASSUME IsTree(t), t # EmptyTrie
  PROVE  LET f == <<FrameOf(Root)>>
         IN  /\ Root \in DOMAIN t /\ f # << >> /\ Nested(f) /\ Last(f) = FrameOf(Root)
             /\ Front(f) = << >> /\ Ahead(Front(f)) = {}
             /\ DOMAIN t = {Root} \cup Ahead(f)
             /\ \A y \in Ahead(f) : PathLess(Full(t, Root), Full(t, y)) /\ y # Root
             /\ Full(t, Root) = t[Root].partial
  <1> DEFINE e == FrameOf(Root)
             f == <<e>>
  <1>1. Root \in DOMAIN t
    BY DEF IsTree, IsTrie
  <1>2. /\ e.slot = Root /\ e.len = Len(Full(t, Root)) /\ e.remaining = Kids(t, Root)
    BY DEF FrameOf
  <1>3. Kids(t, Root) \in SUBSET Index
    BY DEF Kids
  <1> HIDE DEF e
  <1>4. /\ f # << >> /\ Last(f) = e /\ Front(f) = << >> /\ DOMAIN f = {1} /\ f[1] = e
    <2>1. f \in Seq({e})
      OBVIOUS
    <2>2. f # << >> /\ Len(f) = 1 /\ DOMAIN f = {1} /\ f[1] = e
      OBVIOUS
    <2> HIDE DEF f
    <2>3. Front(f) \in Seq({e}) /\ Len(Front(f)) = 0
      BY <2>1, <2>2, FrontType
    <2> DEFINE g == Front(f)
    <2>4. g \in Seq({e}) /\ Len(g) = 0
      BY <2>3
    <2> HIDE DEF g
    <2>5. g = << >>
      BY <2>4
    <2> QED
      BY <2>2, <2>5 DEF Last, g
  <1> HIDE DEF f
  <1>5. Nested(f)
    BY <1>2, <1>4 DEF Nested
  <1>6. Ahead(f) = Under(Root, Kids(t, Root)) /\ Ahead(<< >>) = {}
    BY <1>2, <1>4 DEF Ahead, Under
  <1>7. \A x \in DOMAIN t : x \in Seq(Index) /\ IsPrefix(Root, x)
    <2>1. ASSUME NEW x \in DOMAIN t PROVE x \in Seq(Index) /\ IsPrefix(Root, x)
      <3>1. x \in Seq(Index)
        BY FullExtends DEF IsTree
      <3> QED
        BY <3>1, PrefixOrder DEF Root
    <2> QED
      BY <2>1
  <1>8. DOMAIN t = From(Root)
    BY <1>7 DEF From
  <1>9. DOMAIN t = {Root} \cup Ahead(f)
    BY <1>1, <1>6, <1>8, SubtreeSplits
  <1>10. \A y \in Ahead(f) : PathLess(Full(t, Root), Full(t, y)) /\ y # Root
    BY <1>1, <1>3, <1>6, HeadFirst
  <1>11. Full(t, Root) = t[Root].partial
    <2>1. t[Root].partial \in Seq(Index)
      BY <1>1, FullType DEF IsTree
    <2> DEFINE p == t[Root].partial
    <2> HIDE DEF p
    <2>2. p \in Seq(Index) => << >> \o p = p
      OBVIOUS
    <2> QED
      BY <2>1, <2>2 DEF p, Full, Root
  <1> QED
    BY <1>1, <1>4, <1>5, <1>6, <1>9, <1>10, <1>11 DEF e, f

(* The child entered at i is the first of what was ahead of the frames f,  *)
(* when the last has R to visit.                                           *)
Opened(f, R, i) ==
  LET s == Last(f).slot
      c == Child(t, s, i)
      g == Pruned(f, R \ {i})
      h == Append(g, FrameOf(c))
  IN  /\ h \in Seq(Frame) /\ h # << >> /\ Nested(h) /\ Last(h) = FrameOf(c)
      /\ c \in DOMAIN t
      /\ Front(h) = g /\ Ahead(g) = Ahead(Front(f)) \cup Under(s, R \ {i})
      /\ Ahead(Front(f)) \cup Under(s, R) = {c} \cup Ahead(h)
      /\ \A y \in Ahead(h) : PathLess(Full(t, c), Full(t, y)) /\ y # c

LEMMA ChildFirst ==
  ASSUME IsTree(t), NEW f, f \in Seq(Frame), f # << >>, Nested(f),
         NEW R, R \subseteq Last(f).remaining, R \subseteq Kids(t, Last(f).slot),
         NEW i \in R, \A j \in R : i <= j
  PROVE  Opened(f, R, i)
  <1> DEFINE s == Last(f).slot
             c == Child(t, s, i)
             g == Pruned(f, R \ {i})
             e == FrameOf(c)
             h == Append(g, e)
  <1>1. /\ h \in Seq(Frame) /\ h # << >> /\ Front(h) = g /\ Last(h) = e
        /\ c \in DOMAIN t /\ Nested(h)
    BY EnteredFrames
  <1>2. /\ g \in Seq(Frame) /\ g # << >> /\ Front(g) = Front(f)
        /\ Last(g).slot = s /\ Last(g).remaining = R \ {i}
    BY PrunedFrames
  <1>3. s \in DOMAIN t /\ R \in SUBSET Index /\ i \in Index
    <2>1. Last(f) \in Frame
      BY FrontType
    <2> QED
      BY <2>1, FrameFields
  <1>4. e.slot = c /\ e.remaining = Kids(t, c)
    BY DEF FrameOf
  <1>5. Kids(t, c) \in SUBSET Index
    BY DEF Kids
  <1>6. From(c) = Under(s, {i})
    BY UnderOne
  <1> HIDE DEF c, g, e, h
  <1>7. Ahead(g) = Ahead(Front(f)) \cup Under(s, R \ {i})
    BY <1>2, AheadSplits
  <1>8. Ahead(h) = Ahead(g) \cup Under(c, Kids(t, c))
    BY <1>1, <1>4, AheadSplits
  <1>9. Under(s, R) = From(c) \cup Under(s, R \ {i})
    <2>1. {i} \in SUBSET R
      OBVIOUS
    <2> QED
      BY <1>6, <2>1, UnderSplits
  <1>10. From(c) = {c} \cup Under(c, Kids(t, c))
    BY <1>1, SubtreeSplits
  <1>11. Ahead(Front(f)) \cup Under(s, R) = {c} \cup Ahead(h)
    BY <1>7, <1>8, <1>9, <1>10
  <1>12. c \in Under(s, {i}) /\ c \in From(s)
    <2>1. c \in Under(s, {i})
      BY <1>6, <1>10
    <2> QED
      BY <1>3, <2>1, HeadFirst
  <1>13. ASSUME NEW y \in Ahead(h) PROVE PathLess(Full(t, c), Full(t, y))
    <2>1. CASE y \in Under(c, Kids(t, c))
      BY <1>1, <1>5, <2>1, HeadFirst
    <2>2. CASE y \in Under(s, R \ {i})
      <3>1. \A j, k : j \in {i} /\ k \in R \ {i} => j < k
        <4>1. \A k \in R \ {i} : k \in Nat /\ i \in Nat /\ i <= k /\ i # k
          <5>1. \A m : m \in Index => m \in Nat
            BY IndexAssumption
          <5> QED
            BY <1>3, <5>1
        <4>2. \A k \in R \ {i} : i < k
          BY <4>1
        <4> QED
          BY <4>2
      <3>2. {i} \in SUBSET Index /\ R \ {i} \in SUBSET Index
        BY <1>3
      <3> QED
        BY <1>3, <1>12, <2>2, <3>1, <3>2, UnderOrder
    <2>3. CASE y \in Ahead(Front(f))
      BY <1>12, <2>3, TopFirst
    <2> QED
      BY <1>7, <1>8, <2>1, <2>2, <2>3
  <1>14. ASSUME NEW y \in Ahead(h) PROVE y # c
    <2>1. Full(t, c) \in Seq(Index)
      BY <1>1, FullPath
    <2>2. PathLess(Full(t, c), Full(t, y))
      BY <1>13
    <2>3. ~PathLess(Full(t, c), Full(t, c))
      BY <2>1, LessIsStrict
    <2> QED
      BY <2>2, <2>3
  <1> QED
    BY <1>1, <1>7, <1>11, <1>13, <1>14 DEF c, g, e, h, Opened

(* Cut back to its parent's path, the buffer grows into the child's.       *)
LEMMA ChildPath ==
  ASSUME IsTree(t), NEW s \in DOMAIN t, NEW i \in Kids(t, s),
         NEW b, b \in Seq(Index), IsPrefix(Full(t, s), b)
  PROVE  LET c == Child(t, s, i)
         IN  Append(SubSeq(b, 1, Len(Full(t, s))), i) \o t[c].partial = Full(t, c)
  <1> DEFINE f == Full(t, s)
  <1>1. f \in Seq(Index)
    BY FullPath
  <1>2. Child(t, s, i) = Append(f, i)
    BY DEF Child
  <1> HIDE DEF f
  <1>3. Len(f) \in 0 .. Len(b)
    BY <1>1, PrefixOrder DEF f
  <1>4. f = SubSeq(b, 1, Len(f))
    BY <1>1, <1>3, PrefixIsInitial DEF f
  <1> QED
    BY <1>2, <1>4 DEF f, Full

LEMMA FinishSays ==
  ASSUME NEW result, NEW cleanup, Finish(result, cleanup)
  PROVE  /\ result = None => out' = out
         /\ result # None => out' = Append(out, result)
         /\ pc' = IF call.op = "iter" THEN "idle" ELSE "drop"
  BY DEF Finish

LEMMA EndsDiffer == None \notin Ends /\ {End, Err, Break} = Ends /\ End # Err /\ End # Break
  BY ResultsAssumption DEF Ends

LEMMA WalkIterNext == IInv /\ Walk /\ IterNext => Walk'
  <1> SUFFICES ASSUME IInv, Walk, IterNext PROVE Walk'
    OBVIOUS
  <1>1. /\ pc = "idle" /\ pc' = "advance"
        /\ UNCHANGED <<call, state, start, frames, buf, out>>
    BY DEF IterNext
  <1>2. Control'
    BY <1>1, SameCall DEF Walk, Control
  <1> QED
    BY <1>1, <1>2, QuietStep DEF Live, Looping

LEMMA WalkVisitor == IInv /\ Walk /\ Visitor => Walk'
  <1> SUFFICES ASSUME IInv, Walk, Visitor PROVE Walk'
    OBVIOUS
  <1>1. pc = "visitor" /\ UNCHANGED <<call, state, start, frames, buf>>
    BY DEF Visitor
  <1>2. state = "walking" /\ call.op = "visit" /\ Live /\ pc \in Looping
    BY <1>1 DEF Walk, Control, Live, Looping
  <1>3. CASE pc' = "advance" /\ out' = out
    <2>1. Control'
      BY <1>1, <1>2, <1>3 DEF Walk, Control
    <2> QED
      BY <1>1, <1>2, <1>3, <2>1, QuietStep
  <1>4. CASE Finish(Break, FALSE)
    <2>1. out' = Append(out, Break) /\ pc' = "drop"
      BY <1>2, <1>4, FinishSays, EndsDiffer
    <2>2. Control' /\ ~Live'
      BY <1>1, <1>2, <2>1 DEF Walk, Control, Live, Looping
    <2> QED
      BY <1>1, <1>2, <2>1, <2>2, EndsDiffer, EndStep
  <1>5. CASE Finish(None, TRUE)
    <2>1. out' = out /\ pc' = "drop"
      BY <1>2, <1>5, FinishSays
    <2>2. Control' /\ ~Live'
      BY <1>1, <1>2, <2>1 DEF Walk, Control, Live, Looping
    <2> QED
      BY <1>1, <1>2, <2>1, <2>2, QuietStep
  <1> QED
    BY <1>3, <1>4, <1>5 DEF Visitor

LEMMA WalkDrops == IInv /\ Walk /\ (DropByCaller \/ Drop) => Walk'
  <1> SUFFICES ASSUME IInv, Walk, DropByCaller \/ Drop PROVE Walk'
    OBVIOUS
  <1>1. pc' = "drop" /\ UNCHANGED <<call, state, start, frames, buf, out>>
    BY DEF DropByCaller, Drop
  <1>2. pc \in Looping \cup {"drop"}
    BY DEF IInv, Walk, Control
  <1>3. Control' /\ ~Live'
    BY <1>1, SameCall DEF Walk, Control, Live, Looping
  <1> QED
    BY <1>1, <1>2, <1>3, QuietStep

(* The end is said once, when nothing is ahead.                            *)
LEMMA WalkEnds ==
  ASSUME IInv, Walk, pc \in {"advance", "step"}, call' = call, ReachEnd,
         state # "done" => Todo = {}
  PROVE  Walk'
  <1>1. /\ state' = "done" /\ pc' = IF call.op = "iter" THEN "idle" ELSE "drop"
        /\ state = "done" => out' = out
        /\ state # "done" => out' = Append(out, End)
    BY FinishSays, EndsDiffer DEF ReachEnd
  <1>2. Control' /\ ~Live'
    BY <1>1, SameCall DEF Walk, Control, Live
  <1>3. CASE state = "done"
    BY <1>1, <1>2, <1>3, QuietStep DEF Looping
  <1>4. CASE state # "done"
    BY <1>1, <1>2, <1>4, EndStep, EndsDiffer DEF Live, Looping
  <1> QED
    BY <1>3, <1>4

LEMMA WalkAdvance == IInv /\ Walk /\ Advance => Walk'
  <1> SUFFICES ASSUME IInv, Walk, Advance PROVE Walk'
    OBVIOUS
  <1>1. pc = "advance" /\ call' = call /\ pc \in Looping /\ start' = start
    BY DEF Advance, Looping
  <1>2. call \in Calls /\ IsTree(t) /\ Control /\ (Goal # None => Goal \in Seq(Index))
    BY <1>1, WalkBasics
  <1>3. CASE (state = "done" \/ (state = "fresh" /\ t = EmptyTrie)) /\ ReachEnd
    <2>1. state # "done" => Todo = {}
      BY <1>3 DEF Todo, EmptyTrie
    <2> QED
      BY <1>1, <1>3, <2>1, WalkEnds
  <1>4. CASE state = "walking" /\ pc' = "step" /\ UNCHANGED <<state, frames, buf, out>>
    <2>1. Control'
      BY <1>1, <1>2, <1>4, SameCall DEF Control
    <2> QED
      BY <1>1, <1>4, <2>1, QuietStep DEF Live, Looping
  <1>5. ASSUME state = "fresh", t # EmptyTrie, buf' = t[Root].partial,
               frames' = <<FrameOf(Root)>>
        PROVE  /\ Live /\ start = Goal /\ out = << >> /\ Todo = DOMAIN t
               /\ Covers(DOMAIN t, out)
               /\ Root \in DOMAIN t /\ frames' # << >> /\ Nested(frames')
               /\ Last(frames').slot = Root
               /\ Ahead(Front(frames')) = {}
               /\ Ahead(frames') = DOMAIN t \ {Root}
               /\ \A y \in DOMAIN t \ {Root} : PathLess(Full(t, Root), Full(t, y))
               /\ buf' = Full(t, Root)
    <2>1. /\ Root \in DOMAIN t /\ frames' # << >> /\ Nested(frames')
          /\ Last(frames') = FrameOf(Root)
          /\ Ahead(Front(frames')) = {}
          /\ DOMAIN t = {Root} \cup Ahead(frames')
          /\ \A y \in Ahead(frames') : PathLess(Full(t, Root), Full(t, y)) /\ y # Root
          /\ Full(t, Root) = t[Root].partial
      BY <1>2, <1>5, RootFrame
    <2>2. Live /\ start = Goal /\ out = << >> /\ Todo = DOMAIN t
      BY <1>1, <1>2, <1>5 DEF Live, Control, Todo
    <2>3. Covers(DOMAIN t, out)
      BY <2>2 DEF Walk
    <2>4. Last(frames').slot = Root
      BY <2>1 DEF FrameOf
    <2> QED
      BY <1>5, <2>1, <2>2, <2>3, <2>4
  <1>6. CASE /\ state = "fresh" /\ t # EmptyTrie /\ buf' = t[Root].partial
             /\ frames' = <<FrameOf(Root)>> /\ start = None
             /\ state' = "walking" /\ Receive(Root, buf')
    <2>1. \A x \in DOMAIN t : Wanted(x)
      BY <1>5, <1>6 DEF Wanted
    <2>2. Receive(Root, Full(t, Root))
      BY <1>5, <1>6
    <2>3. DOMAIN t \in SUBSET DOMAIN t
      OBVIOUS
    <2> QED
      BY <1>1, <1>5, <1>6, <2>1, <2>2, <2>3, EnterStep
  <1>7. CASE /\ state = "fresh" /\ t # EmptyTrie /\ buf' = t[Root].partial
             /\ frames' = <<FrameOf(Root)>> /\ start # None
             /\ state' = "seeking" /\ pc' = "seek" /\ out' = out
    <2>1. Control'
      BY <1>1, <1>2, <1>5, <1>7, SameCall DEF Control
    <2>2. Todo' = DOMAIN t
      BY <1>1, <1>5, <1>7, TodoNext
    <2>3. Full(t, Root) \in Seq(Index)
      BY <1>2, <1>5, <1>7, FullPath
    <2>4. IsPrefix(Full(t, Root), Full(t, Root)) /\ IsPrefix(Root, Goal)
      <3> DEFINE f == Full(t, Root)
      <3>1. f \in Seq(Index) /\ Goal \in Seq(Index)
        BY <1>2, <1>5, <1>7, <2>3
      <3> HIDE DEF f
      <3>2. IsPrefix(f, f) /\ IsPrefix(<< >>, Goal)
        BY <3>1, PrefixOrder
      <3> QED
        BY <3>2 DEF f, Root
    <2>5. BufferHolds'
      BY <1>1, <1>5, <1>7, <2>3, <2>4, SameFrames
    <2>6. out' \in Seq(Answers) /\ Right(out') /\ Covers(Todo', out')
      BY <1>5, <1>7, <2>2 DEF Walk
    <2>7. /\ state' = "walking" => \A x \in Todo' : Wanted(x)
          /\ pc' = "seek" => /\ \A x \in Ahead(Front(frames')) : Wanted(x)
                             /\ IsPrefix(Last(frames').slot, Goal)
      BY <1>5, <1>7, <2>4
    <2> QED
      BY <1>1, <1>5, <1>7, <2>1, <2>5, <2>6, <2>7, WalkAssembles
  <1> QED
    BY <1>3, <1>4, <1>6, <1>7 DEF Advance

(* The frame beneath the top one stands higher on the same path.           *)
LEMMA BeneathTop ==
  ASSUME IsTree(t), Chained, InStep, frames # << >>, Front(frames) # << >>
  PROVE  IsPrefix(Full(t, Last(Front(frames)).slot), Full(t, Last(frames).slot))
  <1> DEFINE n == Len(frames) - 1
             h == handles[n]
  <1>1. /\ frames \in Seq(Frame) /\ Len(frames) \in Nat \ {0}
        /\ Len(frames) = Len(handles) + 1 /\ Len(handles) \in Nat
        /\ handles \in Seq(DOMAIN t) /\ DOMAIN handles = 1 .. Len(handles)
        /\ DOMAIN frames = 1 .. Len(frames)
    BY TopFrame DEF InStep, Chained
  <1>2. /\ Front(frames) \in Seq(Frame) /\ Len(Front(frames)) = n
        /\ \A k \in 1 .. n : Front(frames)[k] = frames[k]
    BY <1>1, FrontType
  <1>3. n \in 1 .. Len(handles) /\ n = Len(handles)
    <2> DEFINE g == Front(frames)
    <2>1. g \in Seq(Frame) /\ g # << >>
      BY <1>2
    <2> HIDE DEF g
    <2>2. Len(g) \in Nat \ {0}
      BY <2>1
    <2> QED
      BY <1>1, <1>2, <2>2 DEF g
  <1>4. Last(Front(frames)) = frames[n]
    BY <1>2, <1>3 DEF Last
  <1>5. n \in DOMAIN frames /\ n + 1 \in DOMAIN frames /\ n + 1 = Len(frames)
    BY <1>1, <1>3
  <1>6. frames[n].slot = Holder(n) /\ frames[n + 1].slot = h
    <2>1. frames[n].slot = Holder(n) /\ frames[n + 1].slot = Holder(n + 1)
      BY <1>5 DEF InStep
    <2>2. n + 1 # 1 /\ n + 1 - 1 = n
      BY <1>3
    <2> QED
      BY <2>1, <2>2 DEF Holder
  <1>7. Last(frames).slot = h
    BY <1>5, <1>6 DEF Last
  <1>8. h \in DOMAIN t /\ Full(t, Holder(n)) = Front(h)
    BY <1>1, <1>3 DEF Chained
  <1> HIDE DEF h, n
  <1>9. /\ h \in Seq(Index) /\ Full(t, h) \in Seq(Index) /\ IsPrefix(h, Full(t, h))
    BY <1>8, FullExtends DEF IsTree
  <1>10. Front(h) \in Seq(Index) /\ IsPrefix(Front(h), h)
    <2>1. CASE h = << >>
      <3>1. Front(h) = << >>
        BY <2>1 DEF Front
      <3> QED
        BY <1>9, <3>1, PrefixOrder
    <2>2. CASE h # << >>
      <3>1. /\ Front(h) \in Seq(Index) /\ Len(h) \in Nat \ {0}
            /\ Len(Front(h)) = Len(h) - 1
            /\ \A k \in 1 .. Len(h) - 1 : Front(h)[k] = h[k]
        BY <1>9, <2>2, FrontType
      <3>2. Len(Front(h)) <= Len(h) /\ \A k \in 1 .. Len(Front(h)) : Front(h)[k] = h[k]
        BY <3>1
      <3>3. IsPrefix(Front(h), h)
        BY <1>9, <3>1, <3>2, PrefixByIndex
      <3> QED
        BY <3>1, <3>3
    <2> QED
      BY <2>1, <2>2
  <1>11. IsPrefix(Front(h), Full(t, h))
    BY <1>9, <1>10, PrefixTransitive
  <1> QED
    BY <1>4, <1>6, <1>7, <1>8, <1>11

(* A frame with nothing ahead is given up.                                 *)
LEMMA PopStep ==
  ASSUME IInv, Walk, Live, frames # << >>, call' = call, PopFrame,
         state' = "walking", Covers(Ahead(Front(frames)), out),
         \A x \in Ahead(Front(frames)) : Wanted(x)
  PROVE  Walk'
  <1>1. /\ IsTree(t) /\ Chained /\ InStep /\ Control /\ frames \in Seq(Frame)
        /\ out \in Seq(Answers) /\ Right(out)
    BY WalkBasics DEF Live
  <1>2. /\ frames' = Front(frames) /\ buf' = buf /\ out' = out
        /\ pc' \in {"step", "idle", "drop"}
        /\ pc' = "idle" => call.op = "iter"
    BY DEF PopFrame, Unwind
  <1>3. Control'
    BY <1>1, <1>2 DEF Control
  <1>4. Nested(frames) /\ BufferHolds
    BY DEF Walk
  <1>5. Nested(frames')
    BY <1>1, <1>2, <1>4, NestedFront
  <1>6. Todo' = Ahead(frames')
    BY <1>2, TodoNext
  <1>7. BufferHolds'
    <2>1. ASSUME frames' # << >>
          PROVE  buf' \in Seq(Index) /\ IsPrefix(Full(t, Last(frames').slot), buf')
      <3> DEFINE l == Last(frames').slot
                 s == Last(frames).slot
      <3>1. IsPrefix(Full(t, l), Full(t, s))
        BY <1>1, <1>2, <2>1, BeneathTop
      <3>2. l \in DOMAIN t /\ s \in DOMAIN t
        <4>1. frames' \in Seq(Frame)
          BY <1>1, <1>2, FrontType
        <4>2. Last(frames') \in Frame /\ Last(frames) \in Frame
          BY <1>1, <2>1, <4>1, FrontType
        <4> QED
          BY <4>2, FrameFields
      <3>3. Full(t, l) \in Seq(Index) /\ Full(t, s) \in Seq(Index)
        BY <1>1, <3>2, FullPath
      <3>4. buf \in Seq(Index) /\ IsPrefix(Full(t, s), buf)
        BY <1>4 DEF BufferHolds
      <3> HIDE DEF l, s
      <3>5. IsPrefix(Full(t, l), buf)
        BY <3>1, <3>3, <3>4, PrefixTransitive
      <3> QED
        BY <1>2, <3>4, <3>5 DEF l
    <2> QED
      BY <1>2, <2>1, SameFrames
  <1>8. Covers(Todo', out') /\ (\A x \in Todo' : Wanted(x)) /\ pc' # "seek"
    BY <1>2, <1>6
  <1> QED
    BY <1>1, <1>2, <1>3, <1>5, <1>7, <1>8, WalkAssembles

(* The store fails.                                                        *)
LEMMA FailStep ==
  ASSUME IInv, Walk, Live, call' = call, NEW i, NEW R, ReadFails(i, R)
  PROVE  Walk'
  <1>1. Control /\ call.op \in {"iter", "visit", "validate"}
    BY WalkBasics DEF Live, Control
  <1>2. /\ out' = Append(out, Err) /\ state' = "done"
        /\ pc' = IF call.op = "iter" THEN "idle" ELSE "drop"
    BY FinishSays, EndsDiffer DEF ReadFails
  <1>3. Control' /\ ~Live'
    BY <1>1, <1>2 DEF Control, Live
  <1> QED
    BY <1>2, <1>3, EndsDiffer, EndStep

LEMMA LeastOf ==
  ASSUME NEW R \in SUBSET Index, R # {}
  PROVE  Least(R) \in R /\ \A j \in R : Least(R) <= j
  <1>1. IsBitmap(R)
    BY IndexAssumption, FS_Subset DEF IsBitmap
  <1> QED
    BY <1>1, LowestMember DEF Lowest, IsBitmap, Least

LEMMA WalkStep == IInv /\ Walk /\ Step => Walk'
  <1> SUFFICES ASSUME IInv, Walk, Step PROVE Walk'
    OBVIOUS
  <1>1. pc = "step" /\ call' = call /\ pc \in Looping
    BY DEF Step, Looping
  <1>2. /\ call \in Calls /\ IsTree(t) /\ Control /\ frames \in Seq(Frame)
        /\ frames # << >> =>
             /\ Last(frames).slot \in DOMAIN t
             /\ Last(frames).remaining \in SUBSET Index
             /\ Last(frames).remaining \subseteq Kids(t, Last(frames).slot)
    BY <1>1, WalkBasics
  <1>3. state = "walking" /\ Live
    BY <1>1, <1>2 DEF Control, Live
  <1>4. Nested(frames) /\ BufferHolds /\ Covers(Todo, out) /\ Todo = Ahead(frames)
        /\ \A x \in Todo : Wanted(x)
    BY <1>1, <1>3 DEF Walk, Sought, Todo
  <1>5. CASE frames = << >> /\ ReachEnd
    <2>1. Ahead(<< >>) = {}
      BY DEF Ahead
    <2> QED
      BY <1>1, <1>4, <1>5, <2>1, WalkEnds
  <1>6. CASE frames # << >> /\ Last(frames).remaining = {} /\ PopFrame /\ UNCHANGED state
    <2>1. Under(Last(frames).slot, {}) = {}
      BY DEF Under
    <2>2. Ahead(frames) = Ahead(Front(frames))
      BY <1>2, <1>6, <2>1, AheadSplits
    <2> QED
      BY <1>1, <1>3, <1>4, <1>6, <2>2, PopStep
  <1>7. ASSUME frames # << >>, Last(frames).remaining # {},
               NEW R, R = Last(frames).remaining, NEW i, i = Least(R),
               ReadChild(i, R), Receive(Child(t, Last(frames).slot, i), buf'),
               UNCHANGED state
        PROVE  Walk'
    <2> DEFINE s == Last(frames).slot
               c == Child(t, s, i)
    <2>1. i \in R /\ \A j \in R : i <= j
      BY <1>2, <1>7, LeastOf
    <2>2. frames' = Append(Pruned(frames, R \ {i}), FrameOf(c))
      BY <1>7 DEF ReadChild, Pruned
    <2>3. /\ frames' # << >> /\ Nested(frames') /\ Last(frames') = FrameOf(c)
          /\ c \in DOMAIN t
          /\ Ahead(Front(frames)) \cup Under(s, R) = {c} \cup Ahead(frames')
          /\ \A y \in Ahead(frames') : PathLess(Full(t, c), Full(t, y)) /\ y # c
      <3> DEFINE h == Append(Pruned(frames, R \ {i}), FrameOf(c))
      <3>1. /\ IsTree(t) /\ frames \in Seq(Frame) /\ frames # << >> /\ Nested(frames)
            /\ R \subseteq Last(frames).remaining /\ R \subseteq Kids(t, Last(frames).slot)
            /\ i \in R /\ \A j \in R : i <= j
        BY <1>2, <1>4, <1>7, <2>1
      <3>2. /\ h # << >> /\ Nested(h) /\ Last(h) = FrameOf(c) /\ c \in DOMAIN t
            /\ Ahead(Front(frames)) \cup Under(s, R) = {c} \cup Ahead(h)
            /\ \A y \in Ahead(h) : PathLess(Full(t, c), Full(t, y)) /\ y # c
        <4>1. Opened(frames, R, i)
          BY <3>1, ChildFirst
        <4> QED
          BY <4>1 DEF Opened
      <3>3. frames' = h
        BY <2>2
      <3> HIDE DEF h, c
      <3> QED
        BY <3>2, <3>3
    <2>4. Todo = {c} \cup Ahead(frames')
      BY <1>2, <1>4, <1>7, <2>3, AheadSplits
    <2>5. buf' = Full(t, c)
      <3>1. Last(frames).len = Len(Full(t, s))
        <4>1. Len(frames) \in DOMAIN frames /\ Last(frames) = frames[Len(frames)]
          BY <1>2, <1>7 DEF Last
        <4> QED
          BY <1>4, <4>1 DEF Nested
      <3>2. buf' = Append(SubSeq(buf, 1, Last(frames).len), i) \o t[c].partial
        BY <1>7 DEF ReadChild
      <3>3. buf \in Seq(Index) /\ IsPrefix(Full(t, s), buf)
        BY <1>4, <1>7 DEF BufferHolds
      <3>4. i \in Kids(t, s)
        BY <1>2, <1>7, <2>1
      <3> QED
        BY <1>2, <1>7, <3>1, <3>2, <3>3, <3>4, ChildPath
    <2>6. Receive(c, Full(t, c)) /\ Last(frames').slot = c
      BY <1>7, <2>3, <2>5 DEF FrameOf
    <2>7. Todo \in SUBSET DOMAIN t /\ c \in Todo /\ Ahead(frames') = Todo \ {c}
      BY <1>3, <2>3, <2>4, TodoNodes
    <2>8. \A y \in Todo \ {c} : PathLess(Full(t, c), Full(t, y))
      BY <2>3, <2>7
    <2> HIDE DEF c
    <2> QED
      BY <1>1, <1>3, <1>4, <1>7, <2>3, <2>5, <2>6, <2>7, <2>8, EnterStep
  <1>8. ASSUME NEW R, NEW i, ReadFails(i, R) PROVE Walk'
    BY <1>1, <1>3, <1>8, FailStep
  <1> QED
    BY <1>5, <1>6, <1>7, <1>8 DEF Step

(* What a seek stands at.                                                  *)
LEMMA SeekStands ==
  ASSUME IInv, Walk, pc = "seek"
  PROVE  LET s == Last(frames).slot
             R == Last(frames).remaining
         IN  /\ IsTree(t) /\ Live /\ Control /\ frames \in Seq(Frame) /\ frames # << >>
             /\ start = Goal /\ Goal \in Seq(Index) /\ Listing /\ out = << >>
             /\ s \in DOMAIN t /\ R \in SUBSET Index /\ R \subseteq Kids(t, s)
             /\ Full(t, s) \in Seq(Index) /\ buf = Full(t, s) /\ Nested(frames)
             /\ Covers(Todo, out) /\ Todo \in SUBSET DOMAIN t
             /\ Todo = Ahead(Front(frames)) \cup {s} \cup Under(s, R)
             /\ \A x \in Ahead(Front(frames)) : Wanted(x)
             /\ \A x \in {s} \cup Under(s, R) :
                  /\ x \in DOMAIN t /\ x \in From(s) /\ Full(t, x) \in Seq(Index)
                  /\ IsPrefix(Full(t, s), Full(t, x))
  <1> DEFINE s == Last(frames).slot
             R == Last(frames).remaining
  <1>1. pc \in Looping /\ frames # << >>
    BY DEF Looping, IInv
  <1>2. /\ IsTree(t) /\ Control /\ frames \in Seq(Frame)
        /\ s \in DOMAIN t /\ R \in SUBSET Index /\ R \subseteq Kids(t, s)
        /\ Goal # None => Goal \in Seq(Index) /\ Listing
    BY <1>1, WalkBasics
  <1>3. state = "seeking" /\ start = Goal /\ Goal # None /\ out = << >> /\ Live
    BY <1>1, <1>2 DEF Control, Live
  <1>4. /\ Nested(frames) /\ buf = Full(t, s) /\ Covers(Todo, out)
        /\ \A x \in Ahead(Front(frames)) : Wanted(x)
    BY <1>1, <1>3 DEF Walk, BufferHolds, Sought
  <1>5. Todo = Ahead(frames) \cup {s}
    BY <1>3 DEF Todo
  <1>6. Ahead(frames) = Ahead(Front(frames)) \cup Under(s, R)
    BY <1>1, <1>2, AheadSplits
  <1>7. Full(t, s) \in Seq(Index) /\ Todo \in SUBSET DOMAIN t
    BY <1>2, <1>3, FullPath, TodoNodes
  <1>8. ASSUME NEW x \in {s} \cup Under(s, R)
        PROVE  /\ x \in DOMAIN t /\ x \in From(s) /\ Full(t, x) \in Seq(Index)
               /\ IsPrefix(Full(t, s), Full(t, x))
    <2>1. x \in DOMAIN t /\ Full(t, x) \in Seq(Index)
      BY <1>2, FullPath DEF Under
    <2>2. CASE x = s
      <3> DEFINE f == Full(t, s)
      <3>1. s \in Seq(Index) /\ f \in Seq(Index)
        BY <1>2, <1>7, FullExtends DEF IsTree
      <3> HIDE DEF f, s
      <3>2. IsPrefix(s, s) /\ IsPrefix(f, f)
        BY <3>1, PrefixOrder
      <3> QED
        BY <2>1, <2>2, <3>2 DEF f, From
    <2>3. CASE x \in Under(s, R)
      <3>1. PICK i \in R : x \in From(Child(t, s, i))
        BY <2>3 DEF Under, From
      <3>2. i \in Index
        BY <1>2
      <3> DEFINE c == Child(t, s, i)
                 f == Full(t, s)
                 g == Full(t, x)
      <3>3. c \in Seq(Index) /\ IsPrefix(f, c)
        BY <1>2, <3>2, ChildType DEF IsTree
      <3>4. IsPrefix(c, g) /\ IsPrefix(s, x)
        BY <1>2, <3>1, <3>2, <3>3, FromExtends, AboveFirst
      <3>5. f \in Seq(Index) /\ g \in Seq(Index)
        BY <1>7, <2>1
      <3> HIDE DEF c, f, g
      <3>6. IsPrefix(f, g)
        BY <3>3, <3>4, <3>5, PrefixTransitive
      <3> QED
        BY <2>1, <3>4, <3>6 DEF f, g, From
    <2> QED
      BY <2>1, <2>2, <2>3
  <1>9. Todo = Ahead(Front(frames)) \cup {s} \cup Under(s, R)
    BY <1>5, <1>6
  <1> HIDE DEF s, R
  <1> QED
    BY <1>1, <1>2, <1>3, <1>4, <1>7, <1>8, <1>9 DEF s, R

(* A seek passes the node at hand and the children before K.               *)
LEMMA SeekPasses ==
  ASSUME IInv, Walk, pc = "seek",
         NEW K, K \subseteq Last(frames).remaining,
         \A j \in Last(frames).remaining \ K, k \in K : j < k,
         \A x \in {Last(frames).slot}
                    \cup Under(Last(frames).slot, Last(frames).remaining \ K) : ~Wanted(x)
  PROVE  Covers(Ahead(Front(frames)) \cup Under(Last(frames).slot, K), out)
  <1> DEFINE s == Last(frames).slot
             R == Last(frames).remaining
             Z == {s} \cup Under(s, R \ K)
             rest == Ahead(Front(frames)) \cup Under(s, K)
  <1>1. /\ IsTree(t) /\ frames \in Seq(Frame) /\ frames # << >>
        /\ Listing /\ s \in DOMAIN t /\ R \in SUBSET Index
        /\ Nested(frames)
        /\ Covers(Todo, out) /\ Todo \in SUBSET DOMAIN t
        /\ Todo = Ahead(Front(frames)) \cup {s} \cup Under(s, R)
        /\ \A x \in {s} \cup Under(s, R) : x \in DOMAIN t /\ x \in From(s)
    BY SeekStands
  <1>2. Under(s, R) = Under(s, K) \cup Under(s, R \ K)
    BY UnderSplits
  <1>3. Todo = Z \cup rest /\ Z \subseteq {s} \cup Under(s, R)
    BY <1>1, <1>2
  <1>4. ASSUME NEW z \in Z, NEW y \in rest PROVE PathLess(Full(t, z), Full(t, y))
    <2>1. CASE y \in Ahead(Front(frames))
      BY <1>1, <1>3, <2>1, TopFirst
    <2>2. CASE y \in Under(s, K) /\ z = s
      <3>1. K \in SUBSET Index
        BY <1>1
      <3> QED
        BY <1>1, <2>2, <3>1, HeadFirst
    <2>3. CASE y \in Under(s, K) /\ z \in Under(s, R \ K)
      <3>1. K \in SUBSET Index /\ R \ K \in SUBSET Index
        BY <1>1
      <3>2. \A j \in R \ K, k \in K : j < k
        OBVIOUS
      <3> HIDE DEF R, s
      <3> QED
        BY <1>1, <2>3, <3>1, <3>2, UnderOrder
    <2> QED
      BY <1>4, <2>1, <2>2, <2>3
  <1>5. \A z \in Z, y \in rest : z # y
    <2>1. ASSUME NEW z \in Z, z \in rest PROVE FALSE
      <3>1. z \in DOMAIN t
        BY <1>1, <1>3
      <3>2. Full(t, z) \in Seq(Index)
        BY <1>1, <3>1, FullPath
      <3>3. PathLess(Full(t, z), Full(t, z))
        BY <1>4, <2>1
      <3> QED
        BY <3>2, <3>3, LessIsStrict
    <2> QED
      BY <2>1
  <1>6. Todo \ Z = rest /\ Z \in SUBSET Todo
    BY <1>3, <1>5
  <1>7. \A x \in Z, y \in Todo \ Z : PathLess(Full(t, x), Full(t, y))
    BY <1>4, <1>6
  <1>8. IF Listing THEN \A x \in Z : ~ToGive(x) ELSE \A x \in Z : ~Violation(x)
    BY <1>1 DEF ToGive
  <1> HIDE DEF Z, rest
  <1>9. Covers(Todo \ Z, out)
    BY <1>1, <1>6, <1>7, <1>8, PassSome
  <1> QED
    BY <1>6, <1>9 DEF rest

(* The path of the node at hand lies before the start and parts from it.   *)
LEMMA SeekBefore ==
  ASSUME IInv, Walk, pc = "seek",
         NEW f \in Seq(Index), NEW i \in Index, NEW j \in Index, i < j,
         IsPrefix(Append(f, i), buf), IsPrefix(Append(f, j), Goal)
  PROVE  \A x \in {Last(frames).slot}
                    \cup Under(Last(frames).slot, Last(frames).remaining) : ~Wanted(x)
  <1> DEFINE s == Last(frames).slot
             R == Last(frames).remaining
             a == Append(f, i)
  <1>1. /\ Goal \in Seq(Index) /\ buf \in Seq(Index) /\ buf = Full(t, s)
        /\ \A x \in {s} \cup Under(s, R) :
             Full(t, x) \in Seq(Index) /\ IsPrefix(buf, Full(t, x))
    BY SeekStands
  <1>2. ASSUME NEW x \in {s} \cup Under(s, R) PROVE ~Wanted(x)
    <2> DEFINE g == Full(t, x)
    <2>1. g \in Seq(Index) /\ IsPrefix(buf, g) /\ a \in Seq(Index) /\ IsPrefix(a, buf)
      BY <1>1
    <2> HIDE DEF g, a
    <2>2. IsPrefix(a, g)
      BY <1>1, <2>1, PrefixTransitive
    <2>3. PathLess(g, Goal)
      BY <1>1, <2>1, <2>2, SiblingsLess DEF a
    <2>4. Goal # None
      BY <2>3, SeekStands DEF Goal, Control
    <2> QED
      BY <2>3, <2>4 DEF Wanted, g
  <1> QED
    BY <1>2

(* The start lies below the child i of the node at hand: what sorts before *)
(* that child is passed, what sorts after it is to give.                   *)
LEMMA SeekPrunes ==
  ASSUME IInv, Walk, pc = "seek", NEW i \in Index, IsPrefix(Append(buf, i), Goal)
  PROVE  LET s == Last(frames).slot
             K == AtOrAfter(Last(frames).remaining, i)
         IN  /\ K \subseteq Last(frames).remaining /\ i \in Nat
             /\ \A j \in K : i <= j
             /\ Covers(Ahead(Front(frames)) \cup Under(s, K), out)
             /\ \A x \in Under(s, K \ {i}) : Wanted(x)
  <1> DEFINE s == Last(frames).slot
             R == Last(frames).remaining
             K == AtOrAfter(R, i)
             f == Full(t, s)
  <1>1. /\ IsTree(t) /\ s \in DOMAIN t /\ R \in SUBSET Index
        /\ Goal \in Seq(Index) /\ buf = f /\ f \in Seq(Index) /\ Goal # None
        /\ \A x \in {s} \cup Under(s, R) : Full(t, x) \in Seq(Index)
    BY SeekStands DEF Control
  <1>2. K \subseteq R /\ \A j \in R : j \in Nat /\ i \in Nat /\ (j \in K <=> i <= j)
    <2>1. \A m : m \in Index => m \in Nat
      BY IndexAssumption
    <2> QED
      BY <1>1, <2>1 DEF AtOrAfter
  <1>3. i \in Nat
    BY IndexAssumption
  <1>4. \A x, j : x \in From(Child(t, s, j)) => IsPrefix(Append(f, j), x)
    BY DEF From, Child
  <1>5. ASSUME NEW T \in SUBSET R, NEW x \in Under(s, T)
        PROVE  /\ Full(t, x) \in Seq(Index)
               /\ \E j \in T : j \in Index /\ IsPrefix(Append(f, j), Full(t, x))
    <2>1. PICK j \in T : x \in From(Child(t, s, j))
      BY DEF Under, From
    <2>2. j \in Index
      BY <1>1
    <2>3. Child(t, s, j) \in Seq(Index)
      BY <1>1, <2>2, ChildType DEF IsTree
    <2>4. Full(t, x) \in Seq(Index) /\ IsPrefix(Child(t, s, j), Full(t, x))
      BY <1>1, <2>1, <2>3, FromExtends
    <2> QED
      BY <2>2, <2>4 DEF Child
  <1>6. ~Wanted(s)
    <2> DEFINE a == Append(f, i)
    <2>1. /\ a \in Seq(Index) /\ Len(a) = Len(f) + 1 /\ IsPrefix(a, Goal)
          /\ \A k \in 1 .. Len(f) : f[k] = a[k]
      BY <1>1
    <2> HIDE DEF a, f
    <2>2. IsPrefix(f, a)
      BY <1>1, <2>1, PrefixByIndex
    <2>3. IsPrefix(f, Goal) /\ Len(a) <= Len(Goal) /\ Len(f) \in Nat
      BY <1>1, <2>1, <2>2, PrefixTransitive, PrefixOrder
    <2>4. f # Goal
      BY <2>1, <2>3
    <2>5. PathLess(f, Goal)
      BY <1>1, <2>3, <2>4, LessByIndex
    <2> QED
      BY <1>1, <2>5 DEF Wanted, f
  <1>7. ASSUME NEW x \in Under(s, R \ K) PROVE ~Wanted(x)
    <2>1. R \ K \in SUBSET R
      OBVIOUS
    <2>2. /\ Full(t, x) \in Seq(Index)
          /\ \E j \in R \ K : j \in Index /\ IsPrefix(Append(f, j), Full(t, x))
      BY <1>5, <2>1
    <2>3. PICK j \in R \ K : j \in Index /\ IsPrefix(Append(f, j), Full(t, x))
      BY <2>2
    <2>4. j < i
      BY <1>2, <2>3
    <2>5. IsPrefix(Append(f, i), Goal)
      BY <1>1
    <2> HIDE DEF f
    <2>6. PathLess(Full(t, x), Goal)
      BY <1>1, <2>2, <2>3, <2>4, <2>5, SiblingsLess
    <2> QED
      BY <1>1, <2>6 DEF Wanted
  <1>8. ASSUME NEW x \in Under(s, K \ {i}) PROVE Wanted(x)
    <2>1. K \ {i} \in SUBSET R
      BY <1>2
    <2>2. /\ Full(t, x) \in Seq(Index)
          /\ \E j \in K \ {i} : j \in Index /\ IsPrefix(Append(f, j), Full(t, x))
      BY <1>5, <2>1
    <2>3. PICK j \in K \ {i} : j \in Index /\ IsPrefix(Append(f, j), Full(t, x))
      BY <2>2
    <2>4. i < j
      BY <1>2, <2>3
    <2>5. IsPrefix(Append(f, i), Goal)
      BY <1>1
    <2> HIDE DEF f
    <2>6. PathLess(Goal, Full(t, x))
      BY <1>1, <2>2, <2>3, <2>4, <2>5, SiblingsLess
    <2> QED
      BY <1>1, <2>2, <2>6, LessIsStrict DEF Wanted
  <1>9. \A j \in R \ K, k \in K : j < k
    BY <1>2, <1>3
  <1>10. \A x \in {s} \cup Under(s, R \ K) : ~Wanted(x)
    BY <1>6, <1>7
  <1>11. \A j \in K : i <= j
    BY <1>2
  <1> HIDE DEF K
  <1>12. Covers(Ahead(Front(frames)) \cup Under(s, K), out)
    BY <1>2, <1>9, <1>10, SeekPasses
  <1> QED
    BY <1>2, <1>3, <1>8, <1>11, <1>12 DEF K

(* The path of the node at hand is at or after the start.                  *)
LEMMA SeekArrives ==
  ASSUME IInv, Walk, pc = "seek", call' = call, state' = "walking",
         ~PathLess(buf, Goal), Receive(Last(frames).slot, buf),
         UNCHANGED <<frames, buf>>
  PROVE  Walk'
  <1> DEFINE s == Last(frames).slot
             R == Last(frames).remaining
  <1>1. /\ IsTree(t) /\ Live /\ frames \in Seq(Frame) /\ frames # << >>
        /\ Goal \in Seq(Index) /\ s \in DOMAIN t /\ R \in SUBSET Index
        /\ Full(t, s) \in Seq(Index) /\ buf = Full(t, s) /\ Nested(frames)
        /\ Covers(Todo, out) /\ Todo \in SUBSET DOMAIN t
        /\ Todo = Ahead(Front(frames)) \cup {s} \cup Under(s, R)
        /\ \A x \in Ahead(Front(frames)) : Wanted(x)
        /\ \A x \in {s} \cup Under(s, R) :
             /\ x \in DOMAIN t /\ x \in From(s) /\ Full(t, x) \in Seq(Index)
             /\ IsPrefix(Full(t, s), Full(t, x))
    BY SeekStands
  <1>2. ASSUME NEW x \in {s} \cup Under(s, R) PROVE Wanted(x)
    <2>1. buf \in Seq(Index) /\ Full(t, x) \in Seq(Index) /\ IsPrefix(buf, Full(t, x))
      BY <1>1
    <2>2. ~PathLess(Full(t, x), Goal)
      BY <1>1, <2>1, NotLessExtends
    <2> QED
      BY <2>2 DEF Wanted
  <1>3. \A x \in Todo : Wanted(x)
    BY <1>1, <1>2
  <1>4. Ahead(frames) = Ahead(Front(frames)) \cup Under(s, R)
    BY <1>1, AheadSplits
  <1>5. ASSUME NEW y \in Ahead(frames) PROVE PathLess(Full(t, s), Full(t, y)) /\ y # s
    <2>1. s \in From(s)
      BY <1>1
    <2>2. CASE y \in Under(s, R)
      BY <1>1, <2>2, HeadFirst
    <2>3. CASE y \in Ahead(Front(frames))
      <3>1. PathLess(Full(t, s), Full(t, y))
        BY <1>1, <2>1, <2>3, TopFirst
      <3>2. ~PathLess(Full(t, s), Full(t, s))
        BY <1>1, LessIsStrict
      <3> QED
        BY <3>1, <3>2
    <2> QED
      BY <1>4, <2>2, <2>3
  <1>6. s \in Todo /\ Ahead(frames') = Todo \ {s}
    BY <1>1, <1>4, <1>5
  <1>7. \A y \in Todo \ {s} : PathLess(Full(t, s), Full(t, y))
    BY <1>5, <1>6
  <1>8. /\ frames' # << >> /\ Nested(frames') /\ buf' = Full(t, s)
        /\ Last(frames').slot = s /\ Receive(s, Full(t, s))
    BY <1>1
  <1> HIDE DEF s
  <1> QED
    BY <1>1, <1>3, <1>6, <1>7, <1>8, EnterStep

(* The whole subtree of the node at hand lies before the start.            *)
LEMMA SeekPops ==
  ASSUME IInv, Walk, pc = "seek", call' = call, state' = "walking", PopFrame,
         NEW f \in Seq(Index), NEW i \in Index, NEW j \in Index, i < j,
         IsPrefix(Append(f, i), buf), IsPrefix(Append(f, j), Goal)
  PROVE  Walk'
  <1> DEFINE s == Last(frames).slot
             R == Last(frames).remaining
  <1>1. \A x \in {s} \cup Under(s, R) : ~Wanted(x)
    BY SeekBefore
  <1>2. {} \subseteq R /\ R \ {} = R /\ Under(s, {}) = {}
    BY DEF Under
  <1>3. \A n \in R \ {}, k \in {} : n < k
    OBVIOUS
  <1>4. Covers(Ahead(Front(frames)) \cup Under(s, {}), out)
    BY <1>1, <1>2, <1>3, SeekPasses
  <1>5. Covers(Ahead(Front(frames)), out)
    BY <1>2, <1>4
  <1>6. Live /\ frames # << >> /\ \A x \in Ahead(Front(frames)) : Wanted(x)
    BY SeekStands
  <1> QED
    BY <1>5, <1>6, PopStep

(* The child towards the start is not there.                               *)
LEMMA SeekCuts ==
  ASSUME IInv, Walk, pc = "seek", call' = call, state' = "walking", pc' = "step",
         UNCHANGED <<buf, out>>,
         NEW i \in Index, IsPrefix(Append(buf, i), Goal),
         i \notin Last(frames).remaining,
         frames' = Pruned(frames, AtOrAfter(Last(frames).remaining, i))
  PROVE  Walk'
  <1> DEFINE s == Last(frames).slot
             K == AtOrAfter(Last(frames).remaining, i)
  <1>1. /\ IsTree(t) /\ Live /\ Control /\ frames \in Seq(Frame) /\ frames # << >>
        /\ Full(t, s) \in Seq(Index) /\ buf = Full(t, s) /\ Nested(frames)
        /\ \A x \in Ahead(Front(frames)) : Wanted(x)
    BY SeekStands
  <1>2. /\ K \subseteq Last(frames).remaining
        /\ Covers(Ahead(Front(frames)) \cup Under(s, K), out)
        /\ \A x \in Under(s, K \ {i}) : Wanted(x)
    BY SeekPrunes
  <1>3. K \ {i} = K
    BY <1>2
  <1> HIDE DEF K
  <1>4. /\ frames' \in Seq(Frame) /\ frames' # << >> /\ Front(frames') = Front(frames)
        /\ Last(frames').slot = s /\ Last(frames').remaining = K /\ Nested(frames')
    BY <1>1, <1>2, PrunedFrames DEF K
  <1>5. Ahead(frames') = Ahead(Front(frames)) \cup Under(s, K)
    BY <1>4, AheadSplits
  <1>6. Todo' = Ahead(frames')
    BY TodoNext
  <1>7. BufferHolds'
    <2> DEFINE f == Full(t, s)
    <2>1. f \in Seq(Index)
      BY <1>1
    <2> HIDE DEF f
    <2>2. IsPrefix(f, f)
      BY <2>1, PrefixOrder
    <2> QED
      BY <1>1, <1>4, <2>1, <2>2, SameFrames DEF f
  <1>8. Control'
    BY <1>1 DEF Control
  <1>9. out' \in Seq(Answers) /\ Right(out')
    BY DEF Walk
  <1>10. Covers(Todo', out') /\ (\A x \in Todo' : Wanted(x)) /\ pc' # "seek"
    BY <1>1, <1>2, <1>3, <1>5, <1>6
  <1> QED
    BY <1>4, <1>7, <1>8, <1>9, <1>10, WalkAssembles

(* The seek goes down to the child towards the start.                      *)
LEMMA SeekGoesDown ==
  ASSUME IInv, Walk, pc = "seek", UNCHANGED <<call, state, start, pc, out>>,
         NEW i \in Last(frames).remaining, IsPrefix(Append(buf, i), Goal),
         NEW K, K = AtOrAfter(Last(frames).remaining, i), ReadChild(i, K)
  PROVE  Walk'
  <1> DEFINE s == Last(frames).slot
             c == Child(t, s, i)
             h == Append(Pruned(frames, K \ {i}), FrameOf(c))
  <1>1. /\ IsTree(t) /\ Live /\ Control /\ frames \in Seq(Frame) /\ frames # << >>
        /\ s \in DOMAIN t /\ Last(frames).remaining \subseteq Kids(t, s)
        /\ Last(frames).remaining \in SUBSET Index
        /\ Full(t, s) \in Seq(Index) /\ buf = Full(t, s) /\ Nested(frames)
        /\ \A x \in Ahead(Front(frames)) : Wanted(x)
    BY SeekStands
  <1>2. i \in Index
    BY <1>1
  <1>3. /\ K \subseteq Last(frames).remaining /\ i \in Nat
        /\ \A j \in K : i <= j
        /\ Covers(Ahead(Front(frames)) \cup Under(s, K), out)
        /\ \A x \in Under(s, K \ {i}) : Wanted(x)
    BY <1>2, SeekPrunes
  <1>4. i \in K
    BY <1>3 DEF AtOrAfter
  <1>5. /\ IsTree(t) /\ frames \in Seq(Frame) /\ frames # << >> /\ Nested(frames)
        /\ K \subseteq Last(frames).remaining /\ K \subseteq Kids(t, Last(frames).slot)
        /\ i \in K /\ \A j \in K : i <= j
    BY <1>1, <1>3, <1>4
  <1>6. /\ h # << >> /\ Nested(h) /\ Last(h) = FrameOf(c) /\ c \in DOMAIN t
        /\ Front(h) = Pruned(frames, K \ {i})
        /\ Ahead(Pruned(frames, K \ {i}))
             = Ahead(Front(frames)) \cup Under(s, K \ {i})
        /\ Ahead(Front(frames)) \cup Under(s, K) = {c} \cup Ahead(h)
    <2>1. /\ h # << >> /\ Nested(h) /\ Last(h) = FrameOf(c) /\ c \in DOMAIN t
          /\ Ahead(Front(frames)) \cup Under(s, K) = {c} \cup Ahead(h)
          /\ \A y \in Ahead(h) : PathLess(Full(t, c), Full(t, y)) /\ y # c
      <3>1. Opened(frames, K, i)
        BY <1>5, ChildFirst
      <3> QED
        BY <3>1 DEF Opened
    <2> DEFINE g == Pruned(frames, K \ {i})
               e == FrameOf(c)
    <2>2. /\ g \in Seq(Frame) /\ g # << >> /\ Front(g) = Front(frames)
          /\ Last(g).slot = s /\ Last(g).remaining = K \ {i}
      <3>1. K \ {i} \subseteq Last(frames).remaining
        BY <1>5
      <3> QED
        BY <1>5, <3>1, PrunedFrames
    <2> HIDE DEF g, e
    <2>3. Ahead(g) = Ahead(Front(frames)) \cup Under(s, K \ {i})
      BY <2>2, AheadSplits
    <2>4. Front(Append(g, e)) = g
      <3>1. g \in Seq(Frame \cup {e}) /\ e \in Frame \cup {e}
        BY <2>2
      <3> QED
        BY <3>1, FrontAppend
    <2> QED
      BY <2>1, <2>3, <2>4 DEF g, e
  <1>7. frames' = h
    BY DEF ReadChild, Pruned
  <1>8. i \in Kids(t, s)
    BY <1>1
  <1>9. buf' = Full(t, c)
    <2>1. Last(frames).len = Len(Full(t, s))
      <3>1. Len(frames) \in DOMAIN frames /\ Last(frames) = frames[Len(frames)]
        BY <1>1 DEF Last
      <3> QED
        BY <1>1, <3>1 DEF Nested
    <2>2. buf' = Append(SubSeq(buf, 1, Last(frames).len), i) \o t[c].partial
      BY DEF ReadChild
    <2> DEFINE f == Full(t, s)
    <2>3. buf \in Seq(Index) /\ f \in Seq(Index) /\ buf = f
      BY <1>1
    <2> HIDE DEF f
    <2>4. IsPrefix(f, buf)
      BY <2>3, PrefixOrder
    <2> QED
      BY <1>1, <1>8, <2>1, <2>2, <2>3, <2>4, ChildPath DEF f
  <1>10. IsPrefix(c, Goal)
    BY <1>1 DEF Child
  <1> HIDE DEF h, c
  <1>11. Last(frames').slot = c /\ frames' # << >> /\ Nested(frames')
    BY <1>6, <1>7 DEF FrameOf
  <1>12. \A x \in Ahead(Front(frames')) : Wanted(x)
    BY <1>1, <1>3, <1>6, <1>7
  <1>13. Todo' = Ahead(Front(frames)) \cup Under(s, K)
    <2>1. state' # "fresh"
      BY <1>1 DEF Control
    <2> QED
      BY <1>6, <1>7, <1>11, <2>1, TodoNext
  <1>14. BufferHolds'
    <2> DEFINE g == Full(t, c)
    <2>1. g \in Seq(Index)
      BY <1>1, <1>6, FullPath
    <2> HIDE DEF g
    <2>2. IsPrefix(g, g)
      BY <2>1, PrefixOrder
    <2> QED
      BY <1>9, <1>11, <2>1, <2>2, SameFrames DEF g
  <1>15. Control' /\ state' # "walking"
    BY <1>1, SameCall DEF Control
  <1>16. out' \in Seq(Answers) /\ Right(out') /\ Covers(Todo', out')
    BY <1>3, <1>13 DEF Walk
  <1> QED
    BY <1>10, <1>11, <1>12, <1>14, <1>15, <1>16, WalkAssembles

LEMMA WalkSeek == IInv /\ Walk /\ Seek => Walk'
  <1> SUFFICES ASSUME IInv, Walk, Seek PROVE Walk'
    OBVIOUS
  <1> DEFINE o == CommonPrefix(buf, start)
             R == Last(frames).remaining
  <1>1. pc = "seek" /\ call' = call
    BY DEF Seek
  <1>2. /\ IsTree(t) /\ Live /\ Control /\ frames \in Seq(Frame) /\ frames # << >>
        /\ start = Goal /\ Goal \in Seq(Index) /\ buf \in Seq(Index)
        /\ R \in SUBSET Index
    BY <1>1, SeekStands
  <1>3. /\ o.a = << >> <=> IsPrefix(buf, Goal)
        /\ o.b = << >> <=> IsPrefix(Goal, buf)
        /\ o.a = << >> /\ o.b # << >> =>
             o.b[1] \in Index /\ IsPrefix(Append(buf, o.b[1]), Goal)
        /\ o.a # << >> /\ o.b # << >> =>
             /\ o.a[1] \in Index /\ o.b[1] \in Index /\ o.a[1] # o.b[1]
             /\ \E f \in Seq(Index) : /\ IsPrefix(Append(f, o.a[1]), buf)
                                      /\ IsPrefix(Append(f, o.b[1]), Goal)
    BY <1>2, CommonPrefixTells
  <1>4. CASE SeekEnds
    <2>1. state' = "walking"
      BY <1>4 DEF SeekEnds
    <2>2. CASE /\ o.b # << >> => o.a # << >> /\ o.a[1] > o.b[1]
               /\ Receive(Last(frames).slot, buf)
               /\ UNCHANGED <<frames, buf, handles>>
      <3>1. ~PathLess(buf, Goal)
        <4>1. CASE o.b = << >>
          <5>1. IsPrefix(Goal, buf)
            BY <1>3, <4>1
          <5>2. Goal = buf \/ PathLess(Goal, buf)
            BY <1>2, <5>1, LessByIndex
          <5> QED
            BY <1>2, <5>2, LessIsStrict
        <4>2. CASE o.b # << >>
          <5>1. o.a # << >> /\ o.a[1] > o.b[1]
            BY <2>2, <4>2
          <5>2. o.a[1] \in Index /\ o.b[1] \in Index
            BY <1>3, <4>2, <5>1
          <5>3. PICK f \in Seq(Index) : /\ IsPrefix(Append(f, o.a[1]), buf)
                                        /\ IsPrefix(Append(f, o.b[1]), Goal)
            BY <1>3, <4>2, <5>1
          <5>4. o.b[1] < o.a[1]
            <6>1. \A m : m \in Index => m \in Nat
              BY IndexAssumption
            <6> QED
              BY <5>1, <5>2, <6>1
          <5> HIDE DEF o
          <5>5. PathLess(Goal, buf)
            BY <1>2, <5>2, <5>3, <5>4, SiblingsLess
          <5> QED
            BY <1>2, <5>5, LessIsStrict
        <4> QED
          BY <4>1, <4>2
      <3> QED
        BY <1>1, <2>1, <2>2, <3>1, SeekArrives
    <2>3. CASE o.a # << >> /\ o.b # << >> /\ o.a[1] < o.b[1] /\ PopFrame
      <3>1. PICK f \in Seq(Index) : /\ IsPrefix(Append(f, o.a[1]), buf)
                                    /\ IsPrefix(Append(f, o.b[1]), Goal)
        BY <1>3, <2>3
      <3>2. o.a[1] \in Index /\ o.b[1] \in Index
        BY <1>3, <2>3
      <3> HIDE DEF o
      <3> QED
        BY <1>1, <2>1, <2>3, <3>1, <3>2, SeekPops
    <2>4. CASE /\ o.a = << >> /\ o.b # << >> /\ o.b[1] \notin R
               /\ frames' = [frames EXCEPT ![Len(frames)].remaining = AtOrAfter(R, o.b[1])]
               /\ pc' = "step"
               /\ UNCHANGED <<buf, handles, out, release>>
      <3>1. o.b[1] \in Index /\ IsPrefix(Append(buf, o.b[1]), Goal)
        BY <1>3, <2>4
      <3>2. frames' = Pruned(frames, AtOrAfter(R, o.b[1]))
        BY <2>4 DEF Pruned
      <3> HIDE DEF o
      <3> QED
        BY <1>1, <2>1, <2>4, <3>1, <3>2, SeekCuts
    <2> QED
      BY <1>4, <2>2, <2>3, <2>4 DEF SeekEnds
  <1>5. CASE SeekDescends
    <2> DEFINE K == AtOrAfter(R, o.b[1])
    <2>1. o.a = << >> /\ o.b # << >> /\ o.b[1] \in R
      BY <1>5 DEF SeekDescends
    <2>2. o.b[1] \in Index /\ IsPrefix(Append(buf, o.b[1]), Goal)
      BY <1>3, <2>1
    <2>3. Least(K) = o.b[1]
      <3>1. /\ K \subseteq R /\ o.b[1] \in Nat /\ \A j \in K : o.b[1] <= j
        <4> DEFINE i == o.b[1]
        <4>1. i \in Index /\ IsPrefix(Append(buf, i), Goal)
          BY <2>2
        <4> HIDE DEF i
        <4>2. LET S == AtOrAfter(Last(frames).remaining, i)
              IN  S \subseteq Last(frames).remaining /\ i \in Nat /\ \A j \in S : i <= j
          BY <1>1, <4>1, SeekPrunes
        <4> QED
          BY <4>2 DEF i
      <3>2. o.b[1] \in K
        BY <2>1, <3>1 DEF AtOrAfter
      <3> HIDE DEF K, o
      <3>3. K \in SUBSET Index /\ K # {}
        BY <1>2, <3>1, <3>2
      <3>4. Least(K) \in K /\ \A j \in K : Least(K) <= j
        BY <3>3, LeastOf
      <3>5. Least(K) \in Nat /\ Least(K) <= o.b[1] /\ o.b[1] <= Least(K)
        <4>1. \A m : m \in Index => m \in Nat
          BY IndexAssumption
        <4>2. Least(K) \in Nat
          BY <3>3, <3>4, <4>1
        <4> QED
          BY <3>1, <3>2, <3>4, <4>2
      <3> QED
        BY <3>1, <3>5
    <2>4. CASE ReadChild(Least(K), K) /\ UNCHANGED <<state, start, pc, out>>
      <3>1. ReadChild(o.b[1], K)
        BY <2>3, <2>4
      <3> HIDE DEF o
      <3> QED
        BY <1>1, <2>1, <2>2, <2>4, <3>1, SeekGoesDown
    <2>5. CASE ReadFails(Least(K), K)
      BY <1>1, <1>2, <2>5, FailStep
    <2> QED
      BY <1>5, <2>4, <2>5 DEF SeekDescends
  <1> QED
    BY <1>4, <1>5 DEF Seek
-----------------------------------------------------------------------------
(* The lookup.                                                             *)

LEMMA BeyondPrefix ==
  ASSUME NEW s \in Seq(Index), NEW p \in Seq(Index), NEW k \in Seq(Index), IsPrefix(s, k)
  PROVE  /\ Beyond(k, Len(s)) \in Seq(Index)
         /\ IsPrefix(p, Beyond(k, Len(s))) <=> IsPrefix(s \o p, k)
         /\ Beyond(k, Len(s)) = p <=> k = s \o p
  <1> DEFINE b == Beyond(k, Len(s))
             l == Len(s)
             q == s \o p
  <1>1. l \in Nat /\ Len(k) \in Nat /\ Len(p) \in Nat
    OBVIOUS
  <1>2. l <= Len(k) /\ \A n \in 1 .. l : s[n] = k[n]
    BY PrefixByIndex
  <1>3. b \in Seq(Index) /\ Len(b) = Len(k) - l /\ \A n \in 1 .. Len(k) - l : b[n] = k[n + l]
    BY <1>1, <1>2 DEF Beyond
  <1>4. q \in Seq(Index) /\ Len(q) = l + Len(p)
        /\ \A n \in 1 .. l + Len(p) : q[n] = IF n <= l THEN s[n] ELSE p[n - l]
    BY ConcatProperties
  <1> HIDE DEF b, l, q
  <1>5. IsPrefix(p, b) <=> Len(p) <= Len(b) /\ \A n \in 1 .. Len(p) : p[n] = b[n]
    BY <1>3, PrefixByIndex
  <1>6. IsPrefix(q, k) <=> Len(q) <= Len(k) /\ \A n \in 1 .. Len(q) : q[n] = k[n]
    BY <1>4, PrefixByIndex
  <1>7. ASSUME Len(p) <= Len(b), \A n \in 1 .. Len(p) : p[n] = b[n]
        PROVE  IsPrefix(q, k)
    <2>1. ASSUME NEW n \in 1 .. Len(q) PROVE q[n] = k[n]
      <3>1. CASE n <= l
        BY <1>1, <1>2, <1>4, <3>1
      <3>2. CASE n > l
        <4>1. n - l \in 1 .. Len(p) /\ n - l \in 1 .. Len(k) - l /\ n - l + l = n
          BY <1>1, <1>3, <1>4, <1>7, <3>2
        <4>2. p[n - l] = b[n - l] /\ b[n - l] = k[n - l + l]
          BY <1>3, <1>7, <4>1
        <4> QED
          BY <1>1, <1>4, <3>2, <4>1, <4>2
      <3> QED
        BY <1>1, <3>1, <3>2
    <2>2. Len(q) <= Len(k)
      BY <1>1, <1>3, <1>4, <1>7
    <2> QED
      BY <1>6, <2>1, <2>2
  <1>8. ASSUME IsPrefix(q, k) PROVE IsPrefix(p, b)
    <2>1. ASSUME NEW n \in 1 .. Len(p) PROVE p[n] = b[n]
      <3>1. n + l \in 1 .. Len(q) /\ ~(n + l <= l) /\ n + l - l = n /\ Len(q) <= Len(k)
        BY <1>1, <1>4, <1>6, <1>8
      <3>2. q[n + l] = k[n + l] /\ q[n + l] = p[n]
        <4> DEFINE m == n + l
        <4>1. m \in 1 .. Len(q) /\ m \in 1 .. l + Len(p) /\ ~(m <= l) /\ m - l = n
          BY <1>1, <1>4, <3>1
        <4> HIDE DEF m
        <4>2. q[m] = k[m]
          BY <1>6, <1>8, <4>1
        <4>3. q[m] = p[m - l]
          BY <1>4, <4>1
        <4> QED
          BY <4>1, <4>2, <4>3 DEF m
      <3>3. n \in 1 .. Len(k) - l
        BY <1>1, <1>4, <3>1
      <3> QED
        BY <1>3, <3>2, <3>3
    <2>2. Len(p) <= Len(b)
      BY <1>1, <1>3, <1>4, <1>6, <1>8
    <2> QED
      BY <1>5, <2>1, <2>2
  <1>9. IsPrefix(p, b) <=> IsPrefix(q, k)
    BY <1>5, <1>7, <1>8
  <1>10. b = p <=> IsPrefix(p, b) /\ Len(b) = Len(p)
    <2>1. IsPrefix(p, p)
      BY PrefixOrder
    <2>2. IsPrefix(p, b) /\ Len(b) = Len(p) => p = b
      BY <1>1, <1>3, PrefixOrder
    <2> QED
      BY <2>1, <2>2
  <1>11. k = q <=> IsPrefix(q, k) /\ Len(k) = Len(q)
    <2>1. IsPrefix(k, k)
      BY PrefixOrder
    <2>2. IsPrefix(q, k) /\ Len(k) = Len(q) => q = k
      BY <1>1, <1>4, PrefixOrder
    <2> QED
      BY <2>1, <2>2
  <1>12. Len(b) = Len(p) <=> Len(k) = Len(q)
    BY <1>1, <1>3, <1>4
  <1> QED
    BY <1>3, <1>9, <1>10, <1>11, <1>12 DEF b, l, q

(* What the comparison at a node on the way tells a lookup.                *)
LEMMA LookupSees ==
  ASSUME IsTree(t), NEW s \in DOMAIN t, NEW k \in Seq(Index), IsPrefix(s, k)
  PROVE  LET o == CommonPrefix(Beyond(k, Len(s)), t[s].partial)
         IN  /\ o.b = << >> <=> IsPrefix(Full(t, s), k)
             /\ o.a = << >> /\ o.b = << >> <=> k = Full(t, s)
             /\ o.b = << >> /\ o.a # << >> =>
                  o.a[1] \in Index /\ IsPrefix(Child(t, s, o.a[1]), k)
  <1> DEFINE p == t[s].partial
             b == Beyond(k, Len(s))
             o == CommonPrefix(b, p)
             f == Full(t, s)
  <1>1. s \in Seq(Index) /\ p \in Seq(Index) /\ f \in Seq(Index) /\ f = s \o p
    BY FullType DEF IsTree, Full
  <1> HIDE DEF p, f
  <1>2. /\ b \in Seq(Index)
        /\ IsPrefix(p, b) <=> IsPrefix(f, k)
        /\ b = p <=> k = f
    BY <1>1, BeyondPrefix
  <1>3. \A i \in Index : Append(p, i) \in Seq(Index) /\ s \o Append(p, i) = Append(f, i)
    BY <1>1
  <1>4. ASSUME NEW i \in Index, IsPrefix(Append(p, i), b) PROVE IsPrefix(Append(f, i), k)
    <2> DEFINE a == Append(p, i)
    <2>1. a \in Seq(Index) /\ s \o a = Append(f, i) /\ IsPrefix(a, b)
      BY <1>3, <1>4
    <2> HIDE DEF a
    <2>2. IsPrefix(a, b) <=> IsPrefix(s \o a, k)
      BY <1>1, <2>1, BeyondPrefix
    <2> QED
      BY <2>1, <2>2
  <1> HIDE DEF b
  <1>5. /\ o.a = << >> <=> IsPrefix(b, p)
        /\ o.b = << >> <=> IsPrefix(p, b)
        /\ o.b = << >> /\ o.a # << >> =>
             o.a[1] \in Index /\ IsPrefix(Append(p, o.a[1]), b)
    BY <1>1, <1>2, CommonPrefixTells
  <1>6. IsPrefix(b, p) /\ IsPrefix(p, b) <=> b = p
    BY <1>1, <1>2, PrefixOrder
  <1> HIDE DEF o
  <1>7. o.b = << >> /\ o.a # << >> => o.a[1] \in Index /\ IsPrefix(Append(f, o.a[1]), k)
    BY <1>4, <1>5
  <1> QED
    BY <1>2, <1>5, <1>6, <1>7 DEF o, b, p, f, Child

(* A lookup gives up only where no node has the key.                       *)
LEMMA MissingIsAbsent ==
  ASSUME IsTree(t), t # EmptyTrie, Cur \in DOMAIN t, call.key \in Seq(Index),
         IsPrefix(Cur, call.key), Missing,
         NEW x \in DOMAIN t, Full(t, x) = call.key
  PROVE  FALSE
  <1> DEFINE k == call.key
             o == CommonPrefix(Beyond(k, Len(Cur)), t[Cur].partial)
  <1>1. /\ o.b = << >> <=> IsPrefix(Full(t, Cur), k)
        /\ o.a = << >> /\ o.b = << >> <=> k = Full(t, Cur)
        /\ o.b = << >> /\ o.a # << >> =>
             o.a[1] \in Index /\ IsPrefix(Child(t, Cur, o.a[1]), k)
    BY LookupSees
  <1>2. o.b # << >> \/ (o.a # << >> /\ o.a[1] \notin Kids(t, Cur))
    BY DEF Missing
  <1> HIDE DEF o
  <1>3. x # Cur
    BY <1>1, <1>2
  <1>4. IsPrefix(Cur, x) /\ IsPrefix(Full(t, Cur), x) /\ Len(Full(t, Cur)) < Len(x)
    BY <1>3, OnTheWay
  <1>5. PICK i \in Kids(t, Cur) : IsPrefix(Child(t, Cur, i), x)
    BY <1>3, <1>4, BelowAChild
  <1>6. i \in Index
    BY <1>5 DEF Kids
  <1>7. Child(t, Cur, i) \in Seq(Index)
    BY <1>6, ChildType DEF IsTree
  <1>8. x \in Seq(Index) /\ IsPrefix(x, k)
    BY FullExtends DEF IsTree
  <1>9. IsPrefix(Child(t, Cur, i), k) /\ IsPrefix(Full(t, Cur), k)
    <2> DEFINE c == Child(t, Cur, i)
               f == Full(t, Cur)
    <2>1. f \in Seq(Index) /\ c \in Seq(Index) /\ IsPrefix(c, x) /\ IsPrefix(f, x)
      BY <1>4, <1>5, <1>7, FullPath
    <2> HIDE DEF c, f, k
    <2>2. k \in Seq(Index)
      BY DEF k
    <2> QED
      BY <1>8, <2>1, <2>2, PrefixTransitive DEF c, f
  <1>10. o.b = << >> /\ o.a # << >> /\ o.a[1] \notin Kids(t, Cur)
    BY <1>1, <1>2, <1>9
  <1>11. o.a[1] \in Index /\ IsPrefix(Child(t, Cur, o.a[1]), k)
    BY <1>1, <1>10
  <1>12. o.a[1] = i
    <2> DEFINE f == Full(t, Cur)
               j == o.a[1]
    <2>1. /\ f \in Seq(Index) /\ IsPrefix(Append(f, i), k) /\ IsPrefix(Append(f, j), k)
          /\ j \in Index
      BY <1>9, <1>11, FullPath DEF Child
    <2> HIDE DEF f, j, k
    <2>2. k \in Seq(Index)
      BY DEF k
    <2>3. ASSUME NEW e \in Index, IsPrefix(Append(f, e), k) PROVE k[Len(f) + 1] = e
      <3> DEFINE a == Append(f, e)
      <3>1. /\ a \in Seq(Index) /\ Len(a) = Len(f) + 1 /\ a[Len(f) + 1] = e
            /\ Len(f) + 1 \in 1 .. Len(a) /\ IsPrefix(a, k)
        BY <2>1, <2>3
      <3> HIDE DEF a
      <3>2. \A n \in 1 .. Len(a) : a[n] = k[n]
        BY <2>2, <3>1, PrefixByIndex
      <3> QED
        BY <3>1, <3>2
    <2>4. i = j
      BY <1>6, <2>1, <2>3
    <2> QED
      BY <2>4 DEF j
  <1> QED
    BY <1>5, <1>10, <1>12

LEMMA CurIsNode ==
  ASSUME IsTrie(t), t # EmptyTrie, Chained
  PROVE  Cur \in DOMAIN t
  <1>1. Root \in DOMAIN t
    BY DEF IsTrie
  <1>2. handles \in Seq(DOMAIN t)
    BY DEF Chained
  <1>3. handles # << >> => Last(handles) \in DOMAIN t
    BY <1>2, FrontType
  <1> QED
    BY <1>1, <1>3 DEF Cur

LEMMA LookupBasics ==
  ASSUME IInv, Lookups
  PROVE  call \in Calls /\ IsTree(t) /\ Chained /\ call.key \in Seq(Index)
  BY CallsAssumption DEF IInv, Lookups, IsTree, t

LEMMA LookupGet == IInv /\ Lookups /\ Get => Lookups'
  <1> SUFFICES ASSUME IInv, Lookups, Get PROVE Lookups'
    OBVIOUS
  <1> DEFINE k == call.key
             o == CommonPrefix(Beyond(k, Len(Cur)), t[Cur].partial)
  <1>1. /\ IsTree(t) /\ Chained /\ k \in Seq(Index) /\ call' = call /\ t' = t
        /\ pc = "get" /\ out = << >> /\ call.op = "get"
        /\ t # EmptyTrie => IsPrefix(Cur, k)
    BY LookupBasics, SameCall DEF Lookups, Get
  <1>2. t # EmptyTrie => Cur \in DOMAIN t
    BY <1>1, CurIsNode DEF IsTree
  <1>3. CASE Missing /\ Finish(End, FALSE)
    <2>1. out' = <<End>> /\ pc' = "drop"
      <3>1. End # None
        BY EndsDiffer
      <3>2. out' = Append(out, End) /\ pc' = "drop"
        BY <1>1, <1>3, <3>1, FinishSays
      <3> QED
        BY <1>1, <3>2
    <2>2. \A x \in DOMAIN t : Full(t, x) # k
      <3>1. t = EmptyTrie => DOMAIN t = {}
        BY DEF EmptyTrie
      <3> QED
        BY <1>1, <1>2, <1>3, <3>1, MissingIsAbsent
    <2> QED
      BY <1>1, <2>1, <2>2 DEF Lookups
  <1>4. ASSUME t # EmptyTrie
        PROVE  /\ Cur \in DOMAIN t
               /\ o.b = << >> <=> IsPrefix(Full(t, Cur), k)
               /\ o.a = << >> /\ o.b = << >> <=> k = Full(t, Cur)
               /\ o.b = << >> /\ o.a # << >> =>
                    o.a[1] \in Index /\ IsPrefix(Child(t, Cur, o.a[1]), k)
    <2>1. Cur \in DOMAIN t /\ IsPrefix(Cur, k)
      BY <1>1, <1>2, <1>4
    <2> QED
      BY <1>1, <2>1, LookupSees
  <1>5. ~Missing => t # EmptyTrie /\ o.b = << >>
    BY DEF Missing
  <1>6. CASE /\ ~Missing /\ o.a = << >>
             /\ out' = <<[path |-> Full(t, Cur), value |-> t[Cur].value]>>
             /\ pc' = "found" /\ UNCHANGED chain
    <2> HIDE DEF o
    <2>1. k = Full(t, Cur) /\ Cur \in DOMAIN t
      BY <1>4, <1>5, <1>6
    <2>2. Cur' = Cur
      BY <1>6 DEF chain, Cur
    <2>3. out' # <<End>>
      <3> DEFINE e == [path |-> Full(t, Cur), value |-> t[Cur].value]
      <3>1. e \notin Ends
        BY <1>1, <2>1, LookupBasics, HereIsAnswer
      <3>2. out' = <<e>>
        BY <1>6
      <3> HIDE DEF e
      <3>3. e # End
        BY <3>1 DEF Ends
      <3> QED
        BY <3>2, <3>3
    <2>4. \E x \in DOMAIN t : /\ Full(t, x) = k
                              /\ out' = <<[path |-> k, value |-> t[x].value]>>
      BY <1>6, <2>1
    <2> QED
      BY <1>1, <1>6, <2>2, <2>3, <2>4 DEF Lookups
  <1>7. CASE ~Missing /\ o.a # << >> /\ Push(Child(t, Cur, o.a[1])) /\ UNCHANGED <<pc, out>>
    <2> DEFINE c == Child(t, Cur, o.a[1])
    <2>1. IsPrefix(c, k)
      BY <1>4, <1>5, <1>7
    <2>2. handles' = Append(handles, c) /\ handles \in Seq(DOMAIN t)
      BY <1>1, <1>7 DEF Push, Chained
    <2> HIDE DEF c, o
    <2>3. handles' # << >> /\ Last(handles') = c
      <3>1. handles \in Seq(DOMAIN t \cup {c}) /\ c \in DOMAIN t \cup {c}
        BY <2>2
      <3> QED
        BY <2>2, <3>1, Appended
    <2>4. Cur' = c
      BY <2>3 DEF Cur
    <2>5. out' # <<End>>
      BY <1>1, <1>7
    <2> QED
      BY <1>1, <1>7, <2>1, <2>4, <2>5 DEF Lookups
  <1>8. CASE Finish(Err, FALSE)
    <2>1. out' = <<Err>> /\ pc' = "drop"
      <3>1. Err # None
        BY EndsDiffer
      <3>2. out' = Append(out, Err) /\ pc' = "drop"
        BY <1>1, <1>8, <3>1, FinishSays
      <3> QED
        BY <1>1, <3>2
    <2>2. out' # <<End>>
      BY <2>1, EndsDiffer
    <2> QED
      BY <1>1, <2>1, <2>2 DEF Lookups
  <1> QED
    BY <1>3, <1>6, <1>7, <1>8 DEF Get

LEMMA LookupDrops == IInv /\ Lookups /\ (DropByCaller \/ Drop) => Lookups'
  <1> SUFFICES ASSUME IInv, Lookups, DropByCaller \/ Drop PROVE Lookups'
    OBVIOUS
  <1>1. pc' = "drop" /\ call' = call /\ out' = out /\ t' = t
    BY SameCall DEF DropByCaller, Drop
  <1> QED
    BY <1>1 DEF Lookups
-----------------------------------------------------------------------------
(* What reads say is right.                                                *)

LEMMA ReadsInit == Init => Reads
  <1> SUFFICES ASSUME Init PROVE Reads
    OBVIOUS
  <1>1. /\ call \in Calls /\ IsTrie(t) /\ call.op \in Ops
        /\ state = "fresh" /\ frames = << >> /\ buf = << >> /\ out = << >>
        /\ handles = << >>
    BY CallsAssumption DEF Init, ChainInit, t
  <1>2. CASE call.op = "get"
    <2>1. pc = "get" /\ call.key \in Seq(Index)
      BY <1>1, <1>2, CallsAssumption DEF Init
    <2>2. IsPrefix(Cur, call.key)
      BY <1>1, <2>1, PrefixOrder DEF Cur, Root
    <2> QED
      BY <1>1, <1>2, <2>1, <2>2 DEF Reads, Lookups
  <1>3. CASE call.op # "get"
    <2>1. Control
      <3>1. start = Goal
        BY DEF Init, Goal, Listing
      <3> QED
        BY <1>1, <1>3, <3>1 DEF Init, Control, Ops
    <2>2. out \in Seq(Answers) /\ DOMAIN out = {}
      BY <1>1
    <2>3. Right(out)
      BY <1>1, <2>2 DEF Right
    <2>4. Todo = DOMAIN t
      BY <1>1 DEF Todo
    <2>5. Covers(DOMAIN t, out)
      BY <1>1, <2>2 DEF Covers
    <2>6. Nested(frames) /\ BufferHolds
      BY <1>1 DEF Nested, BufferHolds
    <2>7. Sought
      BY <1>1, <2>1 DEF Sought, Control
    <2> QED
      BY <1>3, <2>1, <2>2, <2>3, <2>4, <2>5, <2>6, <2>7 DEF Reads, Walk
  <1> QED
    BY <1>2, <1>3

LEMMA ReadsNext == IInv /\ Reads /\ [Next]_vars => Reads'
  <1> SUFFICES ASSUME IInv, Reads, [Next]_vars PROVE Reads'
    OBVIOUS
  <1>1. call' = call
    BY DEF vars, Next, Run, IterNext, DropByCaller, Advance, Seek, Step, Visitor, Get, Drop
  <1>2. CASE call.op = "get"
    <2>1. Lookups /\ pc \in {"get", "found", "drop"}
      BY <1>2 DEF Reads, Lookups
    <2>2. CASE UNCHANGED vars
      <3>1. Lookups'
        BY <2>1, <2>2 DEF vars, Lookups, Cur, t
      <3> QED
        BY <1>1, <1>2, <3>1 DEF Reads
    <2>3. CASE Next
      <3>1. Get \/ DropByCaller \/ Drop
        BY <2>1, <2>3 DEF Next, Run, IterNext, Advance, Seek, Step, Visitor
      <3>2. Lookups'
        BY <2>1, <3>1, LookupGet, LookupDrops
      <3> QED
        BY <1>1, <1>2, <3>2 DEF Reads
    <2> QED
      BY <2>2, <2>3
  <1>3. CASE call.op # "get"
    <2>1. Walk /\ pc \notin {"get", "found"}
      BY <1>3 DEF Reads, IInv
    <2>2. CASE UNCHANGED vars
      <3>1. Control'
        BY <1>1, <2>1, <2>2, SameCall DEF Walk, Control, vars
      <3>2. pc \in Looping \cup {"drop"}
        BY <2>1 DEF IInv
      <3>3. CASE pc # "seek"
        <4>1. Walk'
          BY <1>1, <2>1, <2>2, <3>1, <3>2, <3>3, QuietStep DEF vars, Live
        <4> QED
          BY <1>1, <1>3, <4>1 DEF Reads
      <3>4. CASE pc = "seek"
        <4>1. Live /\ Nested(frames) /\ BufferHolds /\ Sought /\ Covers(Todo, out)
              /\ out \in Seq(Answers) /\ Right(out)
          BY <2>1, <3>4 DEF Walk, Control, Live, Looping
        <4>2. Todo' = Todo
          BY <1>1, <2>2, TodoNext DEF Todo, vars
        <4>3. BufferHolds' /\ frames' = frames /\ out' = out /\ state' = state /\ pc' = pc
          BY <1>1, <2>2, <4>1, SameFrames DEF BufferHolds, vars
        <4>4. Walk'
          BY <1>1, <3>1, <3>4, <4>1, <4>2, <4>3, WalkAssembles DEF Sought
        <4> QED
          BY <1>1, <1>3, <4>4 DEF Reads
      <3> QED
        BY <3>3, <3>4
    <2>3. CASE Next
      <3>1. IterNext \/ DropByCaller \/ Advance \/ Seek \/ Step \/ Visitor \/ Drop
        BY <2>1, <2>3 DEF Next, Run, Get
      <3>2. Walk'
        BY <2>1, <3>1, WalkIterNext, WalkVisitor, WalkDrops, WalkAdvance, WalkStep, WalkSeek
      <3> QED
        BY <1>1, <1>3, <3>2 DEF Reads
    <2> QED
      BY <2>2, <2>3
  <1> QED
    BY <1>2, <1>3

LEMMA WalkSuffices ==
  ASSUME call \in Calls, IsTree(t), Walk
  PROVE  WalkInOrder
  <1> SUFFICES ASSUME call.op \in {"iter", "visit"} PROVE WalkInOrder
    BY DEF WalkInOrder
  <1> DEFINE keys == {Full(t, s) : s \in {u \in DOMAIN t : t[u].value # None}}
             wanted == {k \in keys : call.key = None \/ ~PathLess(k, call.key)}
  <1>1. Listing /\ Goal = call.key
    BY DEF Listing, Goal
  <1>2. out \in Seq(Answers) /\ Right(out)
    BY DEF Walk
  <1>3. ASSUME NEW k \in wanted PROVE \E y \in DOMAIN t : ToGive(y) /\ k = Full(t, y)
    BY <1>1 DEF ToGive, Wanted
  <1>4. ASSUME NEW y \in DOMAIN t, ToGive(y) PROVE Full(t, y) \in wanted
    BY <1>1, <1>4 DEF ToGive, Wanted
  <1> HIDE DEF wanted
  <1>5. \A n \in DOMAIN out : out[n] \in Ends => n = Len(out)
    BY <1>1, <1>2 DEF Right
  <1>6. ASSUME NEW n \in Given
        PROVE  \E x \in DOMAIN t :
                 /\ ToGive(x) /\ out[n] = Here(x)
                 /\ \A y \in DOMAIN t : ToGive(y) =>
                      (PathLess(Full(t, y), Full(t, x))
                         <=> \E m \in 1 .. n - 1 : out[m] = Here(y))
    <2>1. n \in DOMAIN out /\ out[n] \notin Ends
      BY DEF Given
    <2> QED
      BY <1>1, <1>2, <2>1 DEF Right, Placed
  <1>7. \A x : Here(x).path = Full(t, x) /\ Here(x).value = t[x].value.data
               /\ Here(x) = [path |-> Full(t, x), value |-> t[x].value.data]
    BY DEF Here, Item
  <1>8. ASSUME NEW x \in DOMAIN t, ToGive(x)
        PROVE  Here(x) = [path |-> Here(x).path, value |-> Lookup(t, Here(x).path)]
    <2>1. Full(t, x) \in Seq(Index)
      BY FullPath
    <2>2. Lookup(t, Full(t, x)) = Answer(t[x])
      BY <2>1, LookupFinds
    <2>3. Answer(t[x]) = t[x].value.data
      BY <1>8 DEF Answer, ToGive
    <2> QED
      BY <1>7, <2>2, <2>3
  <1>9. ASSUME NEW n \in Given
        PROVE  /\ out[n].path \in wanted
               /\ out[n] = [path |-> out[n].path, value |-> Lookup(t, out[n].path)]
               /\ \A k \in wanted :
                    PathLess(k, out[n].path) <=> \E m \in 1 .. n - 1 : out[m].path = k
    <2>1. PICK x \in DOMAIN t :
            /\ ToGive(x) /\ out[n] = Here(x)
            /\ \A y \in DOMAIN t : ToGive(y) =>
                 (PathLess(Full(t, y), Full(t, x))
                    <=> \E m \in 1 .. n - 1 : out[m] = Here(y))
      BY <1>6
    <2>2. out[n].path = Full(t, x)
      BY <1>7, <2>1
    <2>3. out[n].path \in wanted
      BY <1>4, <2>1, <2>2
    <2>4. ASSUME NEW k \in wanted
          PROVE  PathLess(k, out[n].path) <=> \E m \in 1 .. n - 1 : out[m].path = k
      <3>1. PICK y \in DOMAIN t : ToGive(y) /\ k = Full(t, y)
        BY <1>3
      <3>2. PathLess(k, out[n].path) <=> \E m \in 1 .. n - 1 : out[m] = Here(y)
        BY <2>1, <2>2, <3>1
      <3>3. ASSUME NEW m \in 1 .. n - 1, out[m].path = k PROVE out[m] = Here(y)
        <4>1. n \in DOMAIN out /\ Len(out) \in Nat /\ DOMAIN out = 1 .. Len(out)
          BY <1>2 DEF Given
        <4>2. m \in DOMAIN out /\ m # Len(out)
          <5> DEFINE l == Len(out)
          <5>1. l \in Nat /\ n \in 1 .. l /\ m \in 1 .. n - 1
            BY <4>1
          <5> HIDE DEF l
          <5>2. m \in 1 .. l /\ m # l
            BY ONLY <5>1
          <5> QED
            BY <4>1, <5>2 DEF l
        <4>3. m \in Given
          BY <1>5, <4>2 DEF Given
        <4>4. PICK z \in DOMAIN t : out[m] = Here(z)
          BY <1>6, <4>3
        <4>5. Full(t, z) = Full(t, y)
          BY <1>7, <3>1, <3>3, <4>4
        <4>6. z = y
          BY <4>5, FullIsUnique
        <4> QED
          BY <4>4, <4>6
      <3>4. ASSUME NEW m \in 1 .. n - 1, out[m] = Here(y) PROVE out[m].path = k
        BY <1>7, <3>1, <3>4
      <3> QED
        BY <3>2, <3>3, <3>4
    <2>5. out[n] = [path |-> out[n].path, value |-> Lookup(t, out[n].path)]
      BY <1>8, <2>1
    <2> QED
      BY <2>3, <2>4, <2>5
  <1>10. ASSUME Ended(End), NEW k \in wanted PROVE \E n \in Given : out[n].path = k
    <2>1. PICK y \in DOMAIN t : ToGive(y) /\ k = Full(t, y)
      BY <1>3
    <2>2. PICK n \in DOMAIN out : out[n] = Here(y)
      BY <1>1, <1>2, <1>10, <2>1 DEF Right, Ended
    <2>3. Here(y) \notin Ends
      BY <2>1, HereIsAnswer DEF ToGive
    <2>4. n \in Given
      BY <2>2, <2>3 DEF Given
    <2> QED
      BY <1>7, <2>1, <2>2, <2>4
  <1> QED
    BY <1>5, <1>9, <1>10 DEF WalkInOrder, wanted

LEMMA ThinIsViolation ==
  ASSUME NEW x \in DOMAIN t
  PROVE  Violation(x)
           <=> t[x].value = None /\ Kids(t, x) \in {{}} \cup {{i} : i \in Index}
  <1> DEFINE K == Kids(t, x)
  <1>1. K \subseteq Index /\ IsFiniteSet(K)
    <2>1. K \subseteq Index
      BY DEF Kids
    <2> QED
      BY <2>1, IndexAssumption, FS_Subset
  <1> HIDE DEF K
  <1>2. Cardinality(K) \in Nat
    BY <1>1, FS_CardinalityType
  <1>3. Cardinality(K) = 0 <=> K = {}
    BY <1>1, FS_EmptySet
  <1>4. Cardinality(K) = 1 <=> \E i : K = {i}
    BY <1>1, FS_Singleton
  <1>5. (\E i : K = {i}) <=> \E i \in Index : K = {i}
    BY <1>1
  <1>6. Cardinality(K) < 2 <=> K \in {{}} \cup {{i} : i \in Index}
    <2>1. Cardinality(K) < 2 <=> Cardinality(K) = 0 \/ Cardinality(K) = 1
      BY <1>2
    <2>2. K \in {{}} \cup {{i} : i \in Index} <=> K = {} \/ \E i \in Index : K = {i}
      OBVIOUS
    <2> QED
      BY <1>3, <1>4, <1>5, <2>1, <2>2
  <1> QED
    BY <1>6 DEF Violation, K

LEMMA ReadsSuffice ==
  ASSUME call \in Calls, IsTree(t), Reads
  PROVE  ReadsExact
  <1> DEFINE thin == {Full(t, s) : s \in {u \in DOMAIN t :
                        t[u].value = None /\ Kids(t, u) \in {{}} \cup {{i} : i \in Index}}}
             nodes == {Full(t, s) : s \in DOMAIN t}
             first(q) == q \in thin /\ \A p \in thin : p = q \/ PathLess(q, p)
  <1>1. \A x \in DOMAIN t : Violation(x) => Full(t, x) \in thin
    BY ThinIsViolation
  <1>2. \A p \in thin : \E x \in DOMAIN t : Violation(x) /\ p = Full(t, x)
    BY ThinIsViolation
  <1> HIDE DEF thin
  <1>3. ASSUME call.op = "validate"
        PROVE  /\ Ended(End) => thin = {}
               /\ Given # {} => first(out[1].path)
    <2>1. out \in Seq(Answers) /\ Right(out) /\ ~Listing
      BY <1>3 DEF Reads, Walk, Listing
    <2>2. ASSUME Ended(End) PROVE thin = {}
      <3>1. \A x \in DOMAIN t : ~Violation(x)
        BY <2>1, <2>2 DEF Right, Ended
      <3> QED
        BY <1>2, <3>1
    <2>3. ASSUME Given # {} PROVE first(out[1].path)
      <3>1. PICK n \in DOMAIN out : out[n] \notin Ends
        BY <2>3 DEF Given
      <3>2. n = 1
        BY <2>1, <3>1 DEF Right
      <3>3. PICK x \in DOMAIN t :
              /\ Violation(x) /\ out[n] = [path |-> Full(t, x), value |-> None]
              /\ \A y \in DOMAIN t :
                   Violation(y) => y = x \/ PathLess(Full(t, x), Full(t, y))
        BY <2>1, <3>1 DEF Right, Blamed
      <3>4. out[1].path = Full(t, x)
        BY <3>2, <3>3
      <3> QED
        BY <1>1, <1>2, <3>3, <3>4
    <2> QED
      BY <2>2, <2>3
  <1>4. ASSUME call.op = "get"
        PROVE  /\ Ended(End) => call.key \notin nodes
               /\ Given # {} => out[1].path = call.key
    <2>1. Lookups
      BY <1>4 DEF Reads
    <2>2. CASE out \in {<< >>, <<End>>, <<Err>>}
      <3>1. Given = {}
        BY <2>2 DEF Given, Ends
      <3>2. Ended(End) => out = <<End>>
        BY <2>2, EndsDiffer DEF Ended, Last
      <3> QED
        BY <2>1, <3>1, <3>2 DEF Lookups
    <2>3. ASSUME NEW x \in DOMAIN t, Full(t, x) = call.key,
                 out = <<[path |-> call.key, value |-> t[x].value]>>
          PROVE  ~Ended(End) /\ out[1].path = call.key
      <3> DEFINE e == [path |-> Full(t, x), value |-> t[x].value]
      <3>1. e \notin Ends
        BY HereIsAnswer
      <3>2. out = <<e>> /\ e.path = call.key
        BY <2>3
      <3> HIDE DEF e
      <3>3. e # End
        BY <3>1 DEF Ends
      <3> QED
        BY <3>2, <3>3 DEF Ended, Last
    <2> QED
      BY <2>1, <2>2, <2>3 DEF Lookups
  <1> QED
    BY <1>3, <1>4 DEF ReadsExact, thin

LEMMA InvReads == IInv /\ Reads => WalkInOrder /\ ReadsExact
  <1> SUFFICES ASSUME IInv, Reads PROVE WalkInOrder /\ ReadsExact
    OBVIOUS
  <1>1. call \in Calls /\ IsTree(t)
    BY CallsAssumption DEF IInv, IsTree, t
  <1>2. ReadsExact
    BY <1>1, ReadsSuffice
  <1>3. WalkInOrder
    <2>1. CASE call.op = "get"
      BY <2>1 DEF WalkInOrder
    <2>2. CASE call.op # "get"
      BY <1>1, <2>2, WalkSuffices DEF Reads
    <2> QED
      BY <2>1, <2>2
  <1> QED
    BY <1>2, <1>3

(* Order and completeness of iteration, for every arity, trie and start:   *)
(* `Iter` and `visit` give the keys at or after the start, each once and   *)
(* ascending, with the values a lookup finds, and all of them when they    *)
(* end; a seek neither skips nor repeats one (iter.rs, `Walk`).            *)
THEOREM ListsInOrder == Spec => []WalkInOrder
  <1> QED
    BY InitHolds, NextKeeps, ReadsInit, ReadsNext, InvReads, PTL DEF Spec

(* Exactness of the other reads: `validate` names the first node that      *)
(* breaks the structural invariant and passes only a trie without one;     *)
(* `get_node` finds the node at its key or there is none.                  *)
THEOREM AnswersExactly == Spec => []ReadsExact
  <1> QED
    BY InitHolds, NextKeeps, ReadsInit, ReadsNext, InvReads, PTL DEF Spec

=============================================================================
