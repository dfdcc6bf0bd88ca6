------------------------- MODULE CollectorProofs --------------------------
(***************************************************************************)
(* The collector leaves no reference behind, for every heap and number of  *)
(* collections: the spaces are always tiled by objects, and, for the       *)
(* programs that keep to what the collector roots, every collection copies *)
(* each object once into a space that has room for it, unless a stray word *)
(* leads to no object; no word of the program, its chains or its objects   *)
(* is left with the old address, the graph of objects the program sees is  *)
(* the one it saw before, and what a collection leaves is what the program *)
(* can reach or strays led to.  Methods may have temporaries, so that the  *)
(* collector reads past its frames.                                        *)
(***************************************************************************)
EXTENDS CollectorInvariants, InductionLemmas, SequenceTheorems

-----------------------------------------------------------------------------
(* Sequences. *)

\* A sequence with another element in one place.
LEMMA Replaced ==
  ASSUME NEW S, NEW q \in Seq(S), NEW i \in 1..Len(q), NEW v \in S, NEW r, r = [q EXCEPT ![i] = v]
  PROVE  /\ r \in Seq(S) /\ Len(r) = Len(q) /\ r[i] = v
         /\ \A j \in 1..Len(q) : j # i => r[j] = q[j]
  OBVIOUS

\* A sequence with one element more.
LEMMA Appended ==
  ASSUME NEW S, NEW q \in Seq(S), NEW v \in S, NEW r, r = Append(q, v)
  PROVE  /\ r \in Seq(S) /\ Len(r) = Len(q) + 1 /\ r[Len(q) + 1] = v
         /\ \A j \in 1..Len(q) : r[j] = q[j]
  OBVIOUS

\* What is left of a sequence when some of its last elements go.
LEMMA Cut ==
  ASSUME NEW S, NEW q \in Seq(S), NEW n \in Nat, n <= Len(q), NEW r, r = SubSeq(q, 1, Len(q) - n)
  PROVE  /\ r \in Seq(S) /\ Len(r) = Len(q) - n
         /\ \A j \in 1..(Len(q) - n) : r[j] = q[j]
  OBVIOUS

\* What is left of a sequence when more goes than there is.
LEMMA CutTyped ==
  ASSUME NEW S, NEW q \in Seq(S), NEW n \in Nat
  PROVE  SubSeq(q, 1, Len(q) - n) \in Seq(S)
  OBVIOUS

\* The elements of a sequence, and of two after each other.
LEMMA Elements ==
  ASSUME NEW S, NEW q \in Seq(S)
  PROVE  Len(q) \in Nat /\ \A j \in 1..Len(q) : q[j] \in S
  OBVIOUS

\* Two sequences after each other.
LEMMA Joined ==
  ASSUME NEW S, NEW p \in Seq(S), NEW q \in Seq(S), NEW r, r = p \o q
  PROVE  /\ r \in Seq(S) /\ Len(r) = Len(p) + Len(q)
         /\ \A j \in 1..Len(p) : r[j] = p[j]
         /\ \A j \in 1..Len(q) : r[Len(p) + j] = q[j]
  OBVIOUS

\* A function on 1..n is a sequence.
LEMMA Listed ==
  ASSUME NEW S, NEW n \in Nat, NEW q \in [1..n -> S]
  PROVE  q \in Seq(S) /\ Len(q) = n
  OBVIOUS

\* A sequence is a function on 1..Len.
LEMMA Lists ==
  ASSUME NEW S, NEW q \in Seq(S)
  PROVE  q \in [1..Len(q) -> S] /\ DOMAIN q = 1..Len(q)
  OBVIOUS

\* A sequence of one element.
LEMMA Single ==
  ASSUME NEW S, NEW v \in S
  PROVE  <<v>> \in Seq(S) /\ Len(<<v>>) = 1 /\ <<v>>[1] = v
  OBVIOUS

\* A sequence of tagged words.
LEMMA TaggedTemps ==
  ASSUME NEW W, Tagged \in W, NEW n \in Nat
  PROVE  [i \in 1..n |-> Tagged] \in Seq(W) /\ Len([i \in 1..n |-> Tagged]) = n
  OBVIOUS

\* Pairs and triples are functions.
LEMMA Tuples ==
  ASSUME NEW W, NEW a \in W, NEW b \in W, NEW c \in W
  PROVE  <<a, b>> \in [1..2 -> W] /\ <<a, b, c>> \in [1..3 -> W] /\ <<a>> \in [1..1 -> W]
  OBVIOUS

\* No fields are the empty sequence.
LEMMA EmptyFields ==
  ASSUME NEW f, f = [i \in 1..0 |-> Tagged]
  PROVE  f = <<>> /\ Len(f) = 0
  OBVIOUS

-----------------------------------------------------------------------------
(* The stacks. *)

Stacks(W) == HeldIn(W) /\ StacksOK

\* The running frame and what it offers.
LEMMA TopFacts ==
  ASSUME NEW W, Stacks(W)
  PROVE  /\ frames \in Seq(FrameIn(W)) /\ Len(frames) \in Nat \ {0} /\ Top \in FrameIn(W)
         /\ Top.slots \in Seq(W) /\ Top.args \in Seq(W) /\ Top.rcv \in W \ {Tagged}
         /\ Top.code \in W /\ Top.ctx \in W /\ Top.ret \in W
         /\ NumTemps \in Nat /\ Len(Top.slots) \in Nat /\ Len(Top.slots) >= NumTemps
         /\ calls \in Seq(CallIn(W)) /\ Len(calls) \in Nat \ {0} /\ Level \in CallIn(W)
<1>1. frames \in Seq(FrameIn(W)) /\ calls \in Seq(CallIn(W)) /\ Len(frames) >= 1 /\ Len(calls) >= 1
  BY DEF Stacks, HeldIn, StacksOK
<1>2. Len(frames) \in Nat \ {0} /\ Len(calls) \in Nat \ {0}
  BY <1>1
<1>3. Top \in FrameIn(W) /\ Level \in CallIn(W)
  BY <1>1, <1>2, Elements DEF Top, Level
<1>4. Len(Top.slots) >= NumTemps
  BY <1>2 DEF Stacks, StacksOK, Top
<1>5. /\ Top.slots \in Seq(W) /\ Top.args \in Seq(W) /\ Top.rcv \in W \ {Tagged}
      /\ Top.code \in W /\ Top.ctx \in W /\ Top.ret \in W
  BY <1>3 DEF FrameIn
<1>6. NumTemps \in Nat /\ Len(Top.slots) \in Nat
  BY <1>5, SpaceAssumption
<1> QED
  BY <1>1, <1>2, <1>3, <1>4, <1>5, <1>6

\* The operands are words of the running frame.
LEMMA OpIn ==
  ASSUME NEW W, Stacks(W), NEW n \in Nat, Operands > n
  PROVE  Op(n) \in W
<1>1. Top.slots \in Seq(W) /\ NumTemps \in Nat /\ Len(Top.slots) \in Nat /\ Len(Top.slots) > NumTemps + n
  BY TopFacts DEF Operands
<1>2. Len(Top.slots) - n \in 1..Len(Top.slots)
  BY <1>1
<1> QED
  BY <1>1, <1>2, Elements DEF Op

\* What is left when operands go.
LEMMA PoppedIn ==
  ASSUME NEW W, Stacks(W), NEW n \in Nat, Operands >= n
  PROVE  Popped(n) \in Seq(W) /\ Len(Popped(n)) = Len(Top.slots) - n /\ Len(Popped(n)) >= NumTemps
<1>1. Top.slots \in Seq(W) /\ NumTemps \in Nat /\ Len(Top.slots) \in Nat /\ Len(Top.slots) >= NumTemps + n
  BY TopFacts DEF Operands
<1>2. Popped(n) \in Seq(W) /\ Len(Popped(n)) = Len(Top.slots) - n
  <2>1. n <= Len(Top.slots)
    BY <1>1
  <2> QED BY <1>1, <2>1, Cut DEF Popped
<1> QED
  BY <1>1, <1>2

\* What the slots are with one word more.
LEMMA PushedIn ==
  ASSUME NEW W, Stacks(W), NEW w \in W
  PROVE  Pushed(w) \in Seq(W) /\ Len(Pushed(w)) = Len(Top.slots) + 1 /\ Len(Pushed(w)) >= NumTemps
<1>1. Top.slots \in Seq(W) /\ NumTemps \in Nat /\ Len(Top.slots) \in Nat /\ Len(Top.slots) >= NumTemps
  BY TopFacts
<1>2. Pushed(w) \in Seq(W) /\ Len(Pushed(w)) = Len(Top.slots) + 1
  BY <1>1, Appended DEF Pushed
<1> QED
  BY <1>1, <1>2

\* The running frame gets other slots.
LEMMA SlotsReplaced ==
  ASSUME NEW W, Stacks(W), NEW ws \in Seq(W), NEW fs, fs = WithSlots(ws)
  PROVE  /\ fs \in Seq(FrameIn(W)) /\ Len(fs) = Len(frames)
         /\ fs[Len(frames)] = [Top EXCEPT !.slots = ws]
         /\ \A f \in 1..Len(frames) : f # Len(frames) => fs[f] = frames[f]
<1>1. frames \in Seq(FrameIn(W)) /\ Len(frames) \in Nat \ {0} /\ Top \in FrameIn(W)
  BY TopFacts
<1>2. PICK v : v = [Top EXCEPT !.slots = ws]
  OBVIOUS
<1>3. v \in FrameIn(W)
  BY <1>1, <1>2 DEF FrameIn
<1>4. fs = [frames EXCEPT ![Len(frames)] = v]
  BY <1>2 DEF WithSlots, Top
<1>5. Len(frames) \in 1..Len(frames)
  BY <1>1
<1> QED
  BY <1>1, <1>2, <1>3, <1>4, <1>5, Replaced

\* Every call begins in a frame that is there, and all but the first above one.
LEMMA DepthBounds ==
  ASSUME NEW W, Stacks(W), NEW k \in 1..Len(calls)
  PROVE  /\ calls[k].depth \in 1..Len(frames) /\ calls[k].depth <= Level.depth
         /\ k # 1 => calls[k].depth - 1 \in 1..(Len(frames) - 1)
<1>1. Len(frames) \in Nat \ {0} /\ Len(calls) \in Nat \ {0} /\ calls \in Seq(CallIn(W))
  BY TopFacts
<1>2. \A j \in 1..Len(calls) : calls[j].depth \in Nat \ {0}
  <2>1. \A j \in 1..Len(calls) : calls[j] \in CallIn(W)
    BY <1>1, Elements
  <2> QED BY <2>1 DEF CallIn
<1>3. /\ calls[1].depth = 1 /\ calls[Len(calls)].depth <= Len(frames)
      /\ \A i, j \in 1..Len(calls) : i < j => calls[i].depth < calls[j].depth
  BY DEF Stacks, StacksOK, Level
<1>4. calls[k].depth <= calls[Len(calls)].depth
  BY <1>1, <1>2, <1>3
<1>5. k # 1 => calls[k].depth > 1
  BY <1>1, <1>2, <1>3
<1> QED
  BY <1>1, <1>2, <1>3, <1>4, <1>5 DEF Level

\* Calls that go on in frames that keep their operands.
LEMMA StacksKept ==
  ASSUME NEW W, Stacks(W), HeldIn(W)',
         Len(calls') = Len(calls),
         \A k \in 1..Len(calls) : calls'[k].kind = calls[k].kind /\ calls'[k].depth = calls[k].depth,
         Len(frames') >= Level.depth,
         \A f \in 1..Len(frames') : Len(frames'[f].slots) >= NumTemps,
         \A f \in 1..(Level.depth - 1) : Len(frames'[f].slots) = Len(frames[f].slots)
  PROVE  Stacks(W)'
<1>1. /\ Len(frames) \in Nat \ {0} /\ Len(calls) \in Nat \ {0} /\ calls \in Seq(CallIn(W))
      /\ Level.depth \in 1..Len(frames) /\ Len(frames') \in Nat
  <2>1. Len(frames) \in Nat \ {0} /\ Len(calls) \in Nat \ {0} /\ calls \in Seq(CallIn(W))
    BY TopFacts
  <2>2. Level.depth \in 1..Len(frames)
    BY <2>1, DepthBounds DEF Level
  <2>3. Len(frames') \in Nat
    BY Elements DEF HeldIn
  <2> QED BY <2>1, <2>2, <2>3
<1>2. Len(frames') >= 1 /\ Len(calls') >= 1
  BY <1>1
<1>3. calls'[1].kind = "host" /\ calls'[1].depth = 1
  BY <1>1 DEF Stacks, StacksOK
<1>4. /\ \A k \in 2..Len(calls) : calls'[k].kind # "host"
      /\ \A j, k \in 1..Len(calls) : j < k => calls'[j].depth < calls'[k].depth
  <2>1. \A k \in 2..Len(calls) : k \in 1..Len(calls) /\ calls[k].kind # "host"
    BY <1>1 DEF Stacks, StacksOK
  <2>2. \A j, k \in 1..Len(calls) : j < k => calls[j].depth < calls[k].depth
    BY DEF Stacks, StacksOK
  <2> QED BY <2>1, <2>2
<1>5. Level'.depth <= Len(frames')
  BY <1>1 DEF Level
<1>6. ASSUME NEW k \in 2..Len(calls), Operated(k)'
      PROVE  Len(frames'[calls'[k].depth - 1].slots) >= NumTemps + 2
  <2>1. k \in 1..Len(calls) /\ Operated(k) /\ calls'[k].depth = calls[k].depth
    <3>1. k \in 1..Len(calls)
      BY <1>1
    <3> QED BY <1>6, <3>1 DEF Operated
  <2>2. Len(frames[calls[k].depth - 1].slots) >= NumTemps + 2
    BY <2>1 DEF Stacks, StacksOK
  <2>3. /\ calls[k].depth \in 1..Len(frames) /\ calls[k].depth <= Level.depth
        /\ calls[k].depth - 1 \in 1..(Len(frames) - 1)
    BY <2>1, DepthBounds
  <2>4. calls[k].depth - 1 \in 1..(Level.depth - 1)
    BY <1>1, <2>3
  <2> QED BY <2>1, <2>2, <2>4
<1>7. StacksOK'
  BY <1>1, <1>2, <1>3, <1>4, <1>5, <1>6 DEF StacksOK
<1> QED
  BY <1>7 DEF Stacks

\* The frames that are left run what they ran.
KeepsFrames ==
  /\ Len(frames') <= Len(frames)
  /\ \A f \in 1..Len(frames') :
       /\ frames'[f].args = frames[f].args
       /\ frames'[f].code = frames[f].code /\ frames'[f].ret = frames[f].ret

\* The running frame gets other slots and nothing else changes but the log.
LEMMA SlotStep ==
  ASSUME NEW W, Stacks(W), NEW ws \in Seq(W), Len(ws) >= NumTemps, frames' = WithSlots(ws),
         UNCHANGED <<calls, handlers, ensures>>, log' \in Seq([1..2 -> W])
  PROVE  Stacks(W)' /\ KeepsFrames /\ Len(frames') = Len(frames)
<1>1. /\ frames' \in Seq(FrameIn(W)) /\ Len(frames') = Len(frames)
      /\ frames'[Len(frames)] = [Top EXCEPT !.slots = ws]
      /\ \A f \in 1..Len(frames) : f # Len(frames) => frames'[f] = frames[f]
  BY SlotsReplaced
<1>2. Len(frames) \in Nat \ {0} /\ Top \in FrameIn(W)
  BY TopFacts
<1>3. HeldIn(W)'
  BY <1>1 DEF Stacks, HeldIn
<1>4. Level.depth \in 1..Len(frames)
  <2>1. Len(calls) \in 1..Len(calls)
    BY TopFacts
  <2> QED BY <2>1, DepthBounds DEF Level
<1>5. frames'[Len(frames)].slots = ws
  BY <1>1, <1>2 DEF FrameIn
<1>6. \A f \in 1..Len(frames) : Len(frames'[f].slots) >= NumTemps
  BY <1>1, <1>5 DEF Stacks, StacksOK
<1>7. \A f \in 1..(Level.depth - 1) : Len(frames'[f].slots) = Len(frames[f].slots)
  BY <1>1, <1>2, <1>4
<1>8. Stacks(W)'
  BY <1>1, <1>3, <1>4, <1>6, <1>7, StacksKept
<1>9. /\ [Top EXCEPT !.slots = ws].args = Top.args /\ [Top EXCEPT !.slots = ws].code = Top.code
      /\ [Top EXCEPT !.slots = ws].ret = Top.ret
  BY <1>2 DEF FrameIn
<1>10. ASSUME NEW f \in 1..Len(frames)
       PROVE  /\ frames'[f].args = frames[f].args
              /\ frames'[f].code = frames[f].code /\ frames'[f].ret = frames[f].ret
  <2>1. CASE f = Len(frames)
    BY <1>1, <1>9, <2>1 DEF Top
  <2>2. CASE f # Len(frames)
    BY <1>1, <2>2
  <2> QED BY <2>1, <2>2
<1> QED
  BY <1>1, <1>2, <1>8, <1>10 DEF KeepsFrames

\* A frame is entered.
Entered(under, rcv, args, ctx) ==
  [rcv |-> rcv, args |-> args, code |-> Top.code, ctx |-> ctx,
   ret |-> Level.ip, slots |-> [i \in 1..NumTemps |-> Tagged]]

\* EnterFrame lays a new frame on what it leaves of the running one.
LEMMA EnterFacts ==
  ASSUME NEW W, Stacks(W), Tagged \in W, NEW under \in Seq(W), Len(under) >= NumTemps,
         NEW rcv \in W \ {Tagged}, NEW args \in Seq(W), NEW ctx \in W, EnterFrame(under, rcv, args, ctx)
  PROVE  /\ frames' \in Seq(FrameIn(W)) /\ Len(frames') = Len(frames) + 1
         /\ frames'[Len(frames) + 1] = Entered(under, rcv, args, ctx)
         /\ frames'[Len(frames)] = [Top EXCEPT !.slots = under]
         /\ \A f \in 1..(Len(frames) - 1) : frames'[f] = frames[f]
         /\ \A f \in 1..(Len(frames) + 1) : Len(frames'[f].slots) >= NumTemps
<1>1. /\ Len(frames) \in Nat \ {0} /\ Top \in FrameIn(W) /\ Level \in CallIn(W) /\ NumTemps \in Nat
      /\ Top.code \in W
  BY TopFacts
<1>2. PICK v : v = Entered(under, rcv, args, ctx)
  OBVIOUS
<1>3. PICK t : t = [i \in 1..NumTemps |-> Tagged]
  OBVIOUS
<1>4. t \in Seq(W) /\ Len(t) = NumTemps
  BY <1>1, <1>3, TaggedTemps
<1>5. Level.ip \in W
  BY <1>1 DEF CallIn
<1>6. v \in FrameIn(W) /\ v.slots = t
  BY <1>1, <1>2, <1>3, <1>4, <1>5 DEF Entered, FrameIn
<1>7. PICK fs : fs = WithSlots(under)
  OBVIOUS
<1>8. /\ fs \in Seq(FrameIn(W)) /\ Len(fs) = Len(frames)
      /\ fs[Len(frames)] = [Top EXCEPT !.slots = under]
      /\ \A f \in 1..Len(frames) : f # Len(frames) => fs[f] = frames[f]
  BY <1>7, SlotsReplaced
<1>9. frames' = Append(fs, v)
  BY <1>2, <1>7 DEF EnterFrame, Entered
<1>10. /\ frames' \in Seq(FrameIn(W)) /\ Len(frames') = Len(frames) + 1
       /\ frames'[Len(frames) + 1] = v /\ \A f \in 1..Len(frames) : frames'[f] = fs[f]
  BY <1>6, <1>8, <1>9, Appended
<1>11. frames'[Len(frames)].slots = under
  <2>1. [Top EXCEPT !.slots = under].slots = under
    BY <1>1 DEF FrameIn
  <2>2. frames'[Len(frames)] = fs[Len(frames)]
    BY <1>1, <1>10
  <2> QED BY <1>8, <2>1, <2>2
<1>12. \A f \in 1..(Len(frames) - 1) : frames'[f] = frames[f]
  BY <1>1, <1>8, <1>10
<1>13. \A f \in 1..Len(frames) : Len(frames[f].slots) >= NumTemps
  BY DEF Stacks, StacksOK
<1>14. ASSUME NEW f \in 1..(Len(frames) + 1) PROVE Len(frames'[f].slots) >= NumTemps
  <2>1. CASE f = Len(frames) + 1
    BY <1>1, <1>4, <1>6, <1>10, <2>1
  <2>2. CASE f = Len(frames)
    BY <1>11, <2>2
  <2>3. CASE f \in 1..(Len(frames) - 1)
    <3>1. f \in 1..Len(frames)
      BY <1>1, <2>3
    <3> QED BY <1>12, <1>13, <2>3, <3>1
  <2>4. f = Len(frames) + 1 \/ f = Len(frames) \/ f \in 1..(Len(frames) - 1)
    BY <1>1
  <2> QED BY <2>1, <2>2, <2>3, <2>4
<1>15. /\ frames'[Len(frames) + 1] = Entered(under, rcv, args, ctx)
       /\ frames'[Len(frames)] = [Top EXCEPT !.slots = under]
  BY <1>1, <1>2, <1>8, <1>10, SMTT(30)
<1> QED
  BY <1>10, <1>12, <1>14, <1>15

\* A primitive runs a block.
LEMMA StacksInvoked ==
  ASSUME NEW W, Stacks(W), Tagged \in W, NEW under \in Seq(W), Len(under) >= NumTemps, NEW b \in W,
         NEW kind \in {"onDo", "ensure", "txn"}, NEW cleanup \in W,
         kind # "onDo" => Len(under) >= NumTemps + 2,
         InvokeBlock(under, b, kind, cleanup, Tagged, calls),
         handlers' \in Seq([1..3 -> W]), ensures' \in Seq([1..2 -> W]), log' \in Seq([1..2 -> W])
  PROVE  Stacks(W)'
<1>1. /\ Len(frames) \in Nat \ {0} /\ Top \in FrameIn(W) /\ Level \in CallIn(W) /\ NumTemps \in Nat
      /\ Top.code \in W /\ Top.rcv \in W \ {Tagged}
      /\ Len(calls) \in Nat \ {0} /\ calls \in Seq(CallIn(W))
  BY TopFacts
<1>2. <<>> \in Seq(W) /\ EnterFrame(under, Top.rcv, <<>>, b)
  BY DEF InvokeBlock
<1>3. /\ frames' \in Seq(FrameIn(W)) /\ Len(frames') = Len(frames) + 1
      /\ frames'[Len(frames)] = [Top EXCEPT !.slots = under]
      /\ \A f \in 1..(Len(frames) - 1) : frames'[f] = frames[f]
      /\ \A f \in 1..(Len(frames) + 1) : Len(frames'[f].slots) >= NumTemps
  BY <1>1, <1>2, EnterFacts
<1>4. PICK c : c = [kind |-> kind, depth |-> Len(frames) + 1, table |-> Level.table,
                    ip |-> Top.code, cleanup |-> cleanup, result |-> Tagged]
  OBVIOUS
<1>5. c \in CallIn(W) /\ c.depth = Len(frames) + 1 /\ c.kind = kind
  BY <1>1, <1>4 DEF CallIn
<1>6. calls' = Append(calls, c)
  BY <1>4 DEF InvokeBlock
<1>7. /\ calls' \in Seq(CallIn(W)) /\ Len(calls') = Len(calls) + 1 /\ calls'[Len(calls) + 1] = c
      /\ \A k \in 1..Len(calls) : calls'[k] = calls[k]
  BY <1>1, <1>5, <1>6, Appended
<1>8. HeldIn(W)'
  BY <1>3, <1>7 DEF HeldIn
<1>9. \A k \in 1..Len(calls) : calls[k].depth \in 1..Len(frames) /\ (k # 1 => calls[k].depth - 1 \in 1..(Len(frames) - 1))
  BY DepthBounds
<1>10. calls'[1].kind = "host" /\ calls'[1].depth = 1
  BY <1>1, <1>7 DEF Stacks, StacksOK
<1>11. ASSUME NEW k \in 2..(Len(calls) + 1) PROVE calls'[k].kind # "host"
  <2>1. CASE k = Len(calls) + 1
    BY <1>5, <1>7, <2>1
  <2>2. CASE k # Len(calls) + 1
    <3>1. k \in 1..Len(calls) /\ k \in 2..Len(calls)
      BY <1>1, <2>2
    <3> QED BY <1>7, <3>1 DEF Stacks, StacksOK
  <2> QED BY <2>1, <2>2
<1>12. ASSUME NEW j \in 1..(Len(calls) + 1), NEW k \in 1..(Len(calls) + 1), j < k
       PROVE  calls'[j].depth < calls'[k].depth
  <2>1. j \in 1..Len(calls)
    BY <1>1, <1>12
  <2>2. CASE k = Len(calls) + 1
    <3>1. calls'[k].depth = Len(frames) + 1
      BY <1>5, <1>7, <2>2
    <3>2. calls'[j].depth \in 1..Len(frames)
      BY <1>7, <1>9, <2>1
    <3> QED BY <1>1, <3>1, <3>2
  <2>3. CASE k # Len(calls) + 1
    <3>1. k \in 1..Len(calls)
      BY <1>1, <2>3
    <3> QED BY <1>7, <1>12, <2>1, <3>1 DEF Stacks, StacksOK
  <2> QED BY <2>2, <2>3
<1>13. Level'.depth <= Len(frames')
  BY <1>1, <1>3, <1>5, <1>7 DEF Level
<1>14. ASSUME NEW k \in 2..(Len(calls) + 1), Operated(k)'
       PROVE  Len(frames'[calls'[k].depth - 1].slots) >= NumTemps + 2
  <2>1. CASE k = Len(calls) + 1
    <3>1. kind # "onDo"
      BY <1>5, <1>7, <1>14, <2>1 DEF Operated
    <3>2. calls'[k].depth - 1 = Len(frames)
      BY <1>1, <1>5, <1>7, <2>1
    <3>3. [Top EXCEPT !.slots = under].slots = under
      BY <1>1 DEF FrameIn
    <3> QED BY <1>3, <3>1, <3>2, <3>3
  <2>2. CASE k # Len(calls) + 1
    <3>1. k \in 1..Len(calls) /\ k \in 2..Len(calls) /\ k # 1
      BY <1>1, <2>2
    <3>2. Operated(k) /\ calls'[k].depth = calls[k].depth
      BY <1>7, <1>14, <3>1 DEF Operated
    <3>3. frames'[calls[k].depth - 1] = frames[calls[k].depth - 1]
      BY <1>3, <1>9, <3>1
    <3> QED BY <3>1, <3>2, <3>3 DEF Stacks, StacksOK
  <2> QED BY <2>1, <2>2
<1>15. Len(frames') >= 1 /\ Len(calls') >= 1
  BY <1>1, <1>3, <1>7
<1>16. StacksOK'
  BY <1>3, <1>7, <1>10, <1>11, <1>12, <1>13, <1>14, <1>15 DEF StacksOK
<1> QED
  BY <1>8, <1>16 DEF Stacks

\* A block's value is handed to the primitive that ran it, and its call ends or
\* goes on with the cleanup block.
LEMMA StacksEnded ==
  ASSUME NEW W, Stacks(W), HeldIn(W)', Len(calls) >= 2, Level.depth = Len(frames),
         \A k \in 1..(Len(calls) - 1) : calls'[k].kind = calls[k].kind /\ calls'[k].depth = calls[k].depth,
         \/ Len(calls') = Len(calls) - 1 /\ Len(frames') = Len(frames) - 1
         \/ /\ Len(calls') = Len(calls) /\ Len(frames') = Len(frames)
            /\ calls'[Len(calls)].kind = "cleanup" /\ calls'[Len(calls)].depth = Len(frames),
         \A f \in 1..Len(frames') : Len(frames'[f].slots) >= NumTemps,
         \A f \in 1..(Len(frames) - 2) : Len(frames'[f].slots) = Len(frames[f].slots)
  PROVE  Stacks(W)'
<1>1. Len(frames) \in Nat \ {0} /\ Len(calls) \in Nat \ {0} /\ calls \in Seq(CallIn(W))
  BY TopFacts
<1>2. \A k \in 1..Len(calls) : calls[k].depth \in 1..Len(frames) /\ (k # 1 => calls[k].depth - 1 \in 1..(Len(frames) - 1))
  BY DepthBounds
<1>3. \A j, k \in 1..Len(calls) : j < k => calls[j].depth < calls[k].depth
  BY DEF Stacks, StacksOK
<1>4. \A k \in 1..(Len(calls) - 1) : calls[k].depth < Len(frames)
  <2> TAKE k \in 1..(Len(calls) - 1)
  <2>1. k \in 1..Len(calls) /\ Len(calls) \in 1..Len(calls) /\ k < Len(calls)
    BY <1>1
  <2>2. calls[k].depth < calls[Len(calls)].depth
    BY <1>3, <2>1
  <2> QED BY <2>2 DEF Level
<1>5. 1 \in 1..(Len(calls) - 1) /\ calls[1].depth = 1 /\ calls[1].kind = "host" /\ Len(frames) >= 2
  <2>1. 1 \in 1..(Len(calls) - 1) /\ calls[1].depth = 1 /\ calls[1].kind = "host"
    BY <1>1 DEF Stacks, StacksOK
  <2> QED BY <1>1, <1>4, <2>1
<1>6. \A k \in 2..(Len(calls) - 1) : calls'[k].kind # "host"
  BY <1>1 DEF Stacks, StacksOK
<1>7. \A k \in 2..Len(calls') : calls'[k].kind # "host"
  BY <1>1, <1>6
<1>8. ASSUME NEW j \in 1..Len(calls'), NEW k \in 1..Len(calls'), j < k
      PROVE  calls'[j].depth < calls'[k].depth
  <2>1. j \in 1..(Len(calls) - 1) /\ j \in 1..Len(calls)
    BY <1>1, <1>8
  <2>2. CASE k \in 1..(Len(calls) - 1)
    <3>1. k \in 1..Len(calls)
      BY <1>1, <2>2
    <3> QED BY <1>3, <1>8, <2>1, <2>2, <3>1
  <2>3. CASE k \notin 1..(Len(calls) - 1)
    <3>1. k = Len(calls) /\ calls'[k].depth = Len(frames)
      BY <1>1, <2>3
    <3> QED BY <1>4, <2>1, <3>1
  <2> QED BY <2>2, <2>3
<1>9. Level'.depth <= Len(frames')
  <2>1. CASE Len(calls') = Len(calls)
    BY <1>1, <2>1 DEF Level
  <2>2. CASE Len(calls') # Len(calls)
    <3>1. /\ Len(calls') = Len(calls) - 1 /\ Len(frames') = Len(frames) - 1
          /\ Len(calls) - 1 \in 1..(Len(calls) - 1) /\ Len(calls) - 1 \in 1..Len(calls)
      BY <1>1, <2>2
    <3>2. calls[Len(calls) - 1].depth < Len(frames) /\ calls[Len(calls) - 1].depth \in Nat
      BY <1>2, <1>4, <3>1
    <3>3. Level'.depth = calls[Len(calls) - 1].depth
      BY <3>1 DEF Level
    <3> QED BY <1>1, <3>1, <3>2, <3>3
  <2> QED BY <2>1, <2>2
<1>10. ASSUME NEW k \in 2..Len(calls'), Operated(k)'
       PROVE  Len(frames'[calls'[k].depth - 1].slots) >= NumTemps + 2
  <2>1. k \in 1..(Len(calls) - 1) /\ k \in 1..Len(calls) /\ k \in 2..Len(calls) /\ k # 1
    BY <1>1, <1>10 DEF Operated
  <2>2. Operated(k) /\ calls'[k].depth = calls[k].depth
    BY <1>10, <2>1 DEF Operated
  <2>3. Len(frames[calls[k].depth - 1].slots) >= NumTemps + 2
    BY <2>1, <2>2 DEF Stacks, StacksOK
  <2>4. calls[k].depth < Len(frames) /\ calls[k].depth \in 1..Len(frames) /\ calls[k].depth - 1 \in 1..(Len(frames) - 1)
    BY <1>2, <1>4, <2>1
  <2>5. calls[k].depth - 1 \in 1..(Len(frames) - 2)
    BY <1>1, <2>4
  <2> QED BY <2>2, <2>3, <2>5
<1>11. Len(frames') >= 1 /\ Len(calls') >= 1
  BY <1>1, <1>5
<1>12. calls'[1].kind = "host" /\ calls'[1].depth = 1
  BY <1>5
<1>13. StacksOK'
  BY <1>7, <1>8, <1>9, <1>10, <1>11, <1>12 DEF StacksOK
<1> QED
  BY <1>13 DEF Stacks

\* The running frame goes, and its caller gets other slots.
TopGone(W, fs, drop, ws) ==
  /\ fs \in Seq(FrameIn(W)) /\ Len(fs) = Len(frames) - 1
  /\ \A f \in 1..(Len(frames) - 2) : fs[f] = frames[f]
  /\ Len(fs[Len(frames) - 1].slots) = Len(Caller.slots) - drop + Len(ws)
  /\ \E s \in Seq(W) : fs[Len(frames) - 1] = [Caller EXCEPT !.slots = s]

\* What WithoutTop leaves.
LEMMA WithoutTopFacts ==
  ASSUME NEW W, Stacks(W), Len(frames) >= 2, NEW drop \in Nat, NEW ws \in Seq(W),
         drop <= Len(Caller.slots)
  PROVE  TopGone(W, WithoutTop(drop, ws), drop, ws)
<1> DEFINE fs == WithoutTop(drop, ws)
<1> HIDE DEF fs
<1>1. frames \in Seq(FrameIn(W)) /\ Len(frames) \in Nat
  BY TopFacts
<1>2. PICK q : q = SubSeq(frames, 1, Len(frames) - 1)
  OBVIOUS
<1>3. /\ q \in Seq(FrameIn(W)) /\ Len(q) = Len(frames) - 1
      /\ \A f \in 1..(Len(frames) - 1) : q[f] = frames[f]
  BY <1>1, <1>2, Cut
<1>4. Len(frames) - 1 \in 1..Len(q) /\ Len(frames) - 1 \in 1..Len(frames) /\ q[Len(frames) - 1] = Caller
  BY <1>1, <1>3 DEF Caller
<1>5. Caller \in FrameIn(W)
  BY <1>1, <1>4, Elements DEF Caller
<1>6. Caller.slots \in Seq(W) /\ Len(Caller.slots) \in Nat
  BY <1>5 DEF FrameIn
<1>7. PICK s : s = SubSeq(Caller.slots, 1, Len(Caller.slots) - drop)
  OBVIOUS
<1>8. s \in Seq(W) /\ Len(s) = Len(Caller.slots) - drop
  BY <1>6, <1>7, Cut
<1>9. PICK t : t = s \o ws
  OBVIOUS
<1>10. t \in Seq(W) /\ Len(t) = Len(Caller.slots) - drop + Len(ws)
  <2>1. s \in Seq(W) /\ ws \in Seq(W)
    BY <1>8
  <2>2. t \in Seq(W) /\ Len(t) = Len(s) + Len(ws)
    BY ONLY <1>9, <2>1
  <2> QED BY <1>8, <2>2
<1>11. PICK v : v = [Caller EXCEPT !.slots = t]
  OBVIOUS
<1>12. v \in FrameIn(W) /\ v.slots = t
  BY <1>5, <1>10, <1>11 DEF FrameIn
<1>13. fs = [q EXCEPT ![Len(frames) - 1] = v]
  BY <1>2, <1>4, <1>7, <1>9, <1>11 DEF WithoutTop, fs
<1>14. /\ fs \in Seq(FrameIn(W)) /\ Len(fs) = Len(q) /\ fs[Len(frames) - 1] = v
       /\ \A j \in 1..Len(q) : j # Len(frames) - 1 => fs[j] = q[j]
  BY <1>3, <1>4, <1>12, <1>13, Replaced
<1>15. \A f \in 1..(Len(frames) - 2) : fs[f] = frames[f]
  <2> TAKE f \in 1..(Len(frames) - 2)
  <2>1. f \in 1..(Len(frames) - 1) /\ f \in 1..Len(q) /\ f # Len(frames) - 1
    BY <1>1, <1>3
  <2> QED BY <1>3, <1>14, <2>1
<1>16. Len(fs[Len(frames) - 1].slots) = Len(Caller.slots) - drop + Len(ws)
  BY <1>10, <1>12, <1>14
<1>17. fs[Len(frames) - 1] = [Caller EXCEPT !.slots = t] /\ t \in Seq(W)
  BY <1>10, <1>11, <1>14
<1>18. TopGone(W, fs, drop, ws)
  BY <1>3, <1>14, <1>15, <1>16, <1>17 DEF TopGone
<1> QED
  BY <1>18 DEF fs

\* The objects that words of W refer to have words of W.
MemIn(W) == \A a \in W \ {Tagged} : mem[a] \in ObjectIn(W)

\* The field an object with fields has first.
LEMMA FirstField ==
  ASSUME NEW W, NEW o \in ObjectIn(W), Len(o.fields) > 0
  PROVE  o.fields[1] \in W
<1>1. o.fields \in FieldsIn(W)
  BY DEF ObjectIn
<1>2. CASE o.fields = <<>>
  BY <1>2
<1>3. CASE o.fields \in [1..1 -> W]
  BY <1>3
<1>4. CASE o.fields \in [1..2 -> W]
  BY <1>4
<1> QED
  BY <1>1, <1>2, <1>3, <1>4 DEF FieldsIn

\* What BC_PUSH_INST_VAR reads is a word of the log or of the heap.
LEMMA FieldValueIn ==
  ASSUME NEW W, Stacks(W), MemIn(W), HasField
  PROVE  FieldValue \in W
<1>1. Top.rcv \in W \ {Tagged} /\ mem[Top.rcv] \in ObjectIn(W)
  BY TopFacts DEF MemIn
<1>2. mem[Top.rcv].fields[1] \in W
  BY <1>1, FirstField DEF HasField
<1> DEFINE entries == {e \in 1..Len(log) : log[e][1] = Top.rcv}
<1>3. ASSUME entries # {} PROVE log[CHOOSE e \in entries : \A d \in entries : d <= e][2] \in W
  <2>1. log \in Seq([1..2 -> W])
    BY DEF Stacks, HeldIn
  <2>2. Len(log) \in Nat /\ entries \in SUBSET (0..Len(log))
    BY <2>1
  <2>3. \E e \in entries : \A d \in entries : d <= e
    <3> HIDE DEF entries
    <3> QED BY <1>3, <2>2, NatMaximum
  <2>4. PICK e : e = CHOOSE x \in entries : \A d \in entries : d <= x
    OBVIOUS
  <2>5. e \in entries
    BY <2>3, <2>4
  <2>6. log[e] \in [1..2 -> W]
    BY <2>1, <2>5
  <2>7. log[e][2] \in W
    BY <2>6
  <2> QED BY <2>4, <2>7
<1> QED
  BY <1>2, <1>3 DEF FieldValue

\* Bytecodes that only push.
LEMMA PushStacks ==
  ASSUME NEW W, Stacks(W), NEW w \in W, PushWord(w)
  PROVE  Stacks(W)' /\ KeepsFrames /\ Len(frames') = Len(frames)
<1>1. Pushed(w) \in Seq(W) /\ Len(Pushed(w)) >= NumTemps
  BY PushedIn
<1>2. frames' = WithSlots(Pushed(w)) /\ UNCHANGED <<calls, handlers, ensures, log>>
  BY DEF PushWord, Quiet, chains
<1>3. log' \in Seq([1..2 -> W])
  BY <1>2 DEF Stacks, HeldIn
<1> QED
  BY <1>1, <1>2, <1>3, SlotStep

\* Each of them pushes a word the program can name.
LEMMA PushesStacks ==
  ASSUME NEW W, Tagged \in W, Stacks(W), MemIn(W),
         PushTemp \/ Duplicate \/ PushArg \/ PushSelf \/ PushLiteral \/ PushField
  PROVE  \E w \in W : PushWord(w) /\ Idle
<1>1. /\ Top.slots \in Seq(W) /\ Top.args \in Seq(W) /\ Top.rcv \in W \ {Tagged}
      /\ NumTemps \in Nat /\ Len(Top.slots) \in Nat /\ Len(Top.slots) >= NumTemps
  BY TopFacts
<1>2. CASE PushTemp
  <2>1. PICK i \in 1..NumTemps : PushWord(Top.slots[i])
    BY <1>2 DEF PushTemp
  <2>2. i \in 1..Len(Top.slots)
    BY <1>1
  <2>3. Top.slots[i] \in W
    BY <1>1, <2>2, Elements
  <2> QED BY <1>2, <2>1, <2>3 DEF PushTemp
<1>3. CASE Duplicate
  <2>1. Op(0) \in W
    BY <1>3, OpIn DEF Duplicate
  <2> QED BY <1>3, <2>1 DEF Duplicate
<1>4. CASE PushArg
  <2>1. PICK i \in 1..Len(Top.args) : PushWord(Top.args[i])
    BY <1>4 DEF PushArg
  <2>2. Top.args[i] \in W
    BY <1>1, Elements
  <2> QED BY <1>4, <2>1, <2>2 DEF PushArg
<1>5. CASE PushSelf
  BY <1>1, <1>5 DEF PushSelf
<1>6. CASE PushLiteral
  BY <1>6 DEF PushLiteral
<1>7. CASE PushField
  <2>1. FieldValue \in W
    BY <1>7, FieldValueIn DEF PushField
  <2> QED BY <1>7, <2>1 DEF PushField
<1> QED
  BY <1>2, <1>3, <1>4, <1>5, <1>6, <1>7

\* Bytecodes that take the top of the stack.
LEMMA PopStacks ==
  ASSUME NEW W, Stacks(W), Pop \/ StoreTemp \/ StoreField
  PROVE  Stacks(W)' /\ KeepsFrames /\ Len(frames') = Len(frames)
<1>1. Operands > 0 /\ Operands >= 1
  <2>1. Operands \in Int
    BY TopFacts DEF Operands
  <2> QED BY <2>1 DEF Pop, StoreTemp, StoreField
<1>2. Op(0) \in W /\ Popped(1) \in Seq(W) /\ Len(Popped(1)) >= NumTemps
  BY <1>1, OpIn, PoppedIn
<1>3. Top.rcv \in W
  BY TopFacts
<1>4. CASE Pop
  <2>1. frames' = WithSlots(Popped(1)) /\ UNCHANGED <<calls, handlers, ensures, log>>
    BY <1>4 DEF Pop, Quiet, chains
  <2>2. log' \in Seq([1..2 -> W])
    BY <2>1 DEF Stacks, HeldIn
  <2> QED BY <1>2, <2>1, <2>2, SlotStep
<1>5. CASE StoreTemp
  <2>1. PICK ws : ws = [Popped(1) EXCEPT ![1] = Op(0)]
    OBVIOUS
  <2>2. NumTemps \in Nat /\ NumTemps > 0 /\ 1 \in 1..Len(Popped(1))
    BY <1>2, <1>5, TopFacts DEF StoreTemp
  <2>3. ws \in Seq(W) /\ Len(ws) = Len(Popped(1))
    BY <1>2, <2>1, <2>2, Replaced
  <2>4. frames' = WithSlots(ws) /\ UNCHANGED <<calls, handlers, ensures, log>>
    BY <1>5, <2>1 DEF StoreTemp, Quiet, chains
  <2>5. log' \in Seq([1..2 -> W])
    BY <2>4 DEF Stacks, HeldIn
  <2> QED BY <1>2, <2>3, <2>4, <2>5, SlotStep
<1>6. CASE StoreField
  <2>1. frames' = WithSlots(Popped(1)) /\ UNCHANGED <<calls, handlers, ensures>>
    BY <1>6 DEF StoreField
  <2>2. log' = log \/ log' = Append(log, <<Top.rcv, Op(0)>>)
    BY <1>6 DEF StoreField
  <2>3. log \in Seq([1..2 -> W]) /\ <<Top.rcv, Op(0)>> \in [1..2 -> W]
    BY <1>2, <1>3, Tuples DEF Stacks, HeldIn
  <2>4. log' \in Seq([1..2 -> W])
    BY <2>2, <2>3, Appended
  <2> QED BY <1>2, <2>1, <2>4, SlotStep
<1> QED
  BY <1>4, <1>5, <1>6

\* A send.
LEMMA SendStacks ==
  ASSUME NEW W, {Tagged, Tenured} \subseteq W, Stacks(W), Send
  PROVE  Stacks(W)' /\ Len(frames') = Len(frames) + 1 /\ Len(calls') = Len(calls)
<1>1. /\ calls \in Seq(CallIn(W)) /\ Len(calls) \in Nat \ {0} /\ Level \in CallIn(W) /\ Top.code \in W
      /\ Len(frames) \in Nat \ {0}
  BY TopFacts
<1>2. \E under \in Seq(W), rcv \in W \ {Tagged}, args \in Seq(W) :
        Len(under) >= NumTemps /\ EnterFrame(under, rcv, args, Tagged)
  <2>0. Operands \in Int
    BY TopFacts DEF Operands
  <2>1. CASE Operands > 0 /\ \E r \in {Op(0), Tenured} : IsPointer(r) /\ EnterFrame(Popped(1), r, <<>>, Tagged)
    <3>1. PICK r \in {Op(0), Tenured} : IsPointer(r) /\ EnterFrame(Popped(1), r, <<>>, Tagged)
      BY <2>1
    <3>2. Op(0) \in W
      BY <2>1, OpIn
    <3>3. r \in W \ {Tagged} /\ <<>> \in Seq(W)
      BY <3>1, <3>2 DEF IsPointer
    <3>4. Popped(1) \in Seq(W) /\ Len(Popped(1)) >= NumTemps
      BY <2>0, <2>1, PoppedIn
    <3> QED BY <3>1, <3>3, <3>4
  <2>2. CASE /\ Operands > 1 /\ IsPointer(Op(1)) /\ MayPass(Op(0))
             /\ EnterFrame(Popped(2), Op(1), <<Op(0)>>, Tagged)
    <3>0. Operands > 0 /\ Operands >= 2
      BY <2>0, <2>2
    <3>1. Op(0) \in W /\ Op(1) \in W
      BY <2>2, <3>0, OpIn
    <3>2. Op(1) \in W \ {Tagged} /\ <<Op(0)>> \in Seq(W)
      BY <2>2, <3>1 DEF IsPointer
    <3>3. Popped(2) \in Seq(W) /\ Len(Popped(2)) >= NumTemps
      BY <3>0, PoppedIn
    <3> QED BY <2>2, <3>2, <3>3
  <2> QED BY <2>1, <2>2 DEF Send
<1>3. PICK under \in Seq(W), rcv \in W \ {Tagged}, args \in Seq(W) :
        Len(under) >= NumTemps /\ EnterFrame(under, rcv, args, Tagged)
  BY <1>2
<1>4. /\ frames' \in Seq(FrameIn(W)) /\ Len(frames') = Len(frames) + 1
      /\ \A f \in 1..(Len(frames) - 1) : frames'[f] = frames[f]
      /\ \A f \in 1..(Len(frames) + 1) : Len(frames'[f].slots) >= NumTemps
  BY <1>3, EnterFacts
<1>5. PICK c : c = [Level EXCEPT !.ip = Top.code]
  OBVIOUS
<1>6. c \in CallIn(W) /\ c.kind = Level.kind /\ c.depth = Level.depth
  BY <1>1, <1>5 DEF CallIn
<1>7. calls' = [calls EXCEPT ![Len(calls)] = c]
  BY <1>5 DEF Send, Level
<1>8. Len(calls) \in 1..Len(calls)
  BY <1>1
<1>9. /\ calls' \in Seq(CallIn(W)) /\ Len(calls') = Len(calls) /\ calls'[Len(calls)] = c
      /\ \A j \in 1..Len(calls) : j # Len(calls) => calls'[j] = calls[j]
  BY <1>1, <1>6, <1>7, <1>8, Replaced
<1>10. \A k \in 1..Len(calls) : calls'[k].kind = calls[k].kind /\ calls'[k].depth = calls[k].depth
  BY <1>6, <1>9 DEF Level
<1>11. HeldIn(W)'
  BY <1>4, <1>9 DEF Send, chains, Stacks, HeldIn
<1>12. Level.depth \in 1..Len(frames)
  BY <1>8, DepthBounds DEF Level
<1>13. /\ Len(frames') >= Level.depth
       /\ \A f \in 1..(Level.depth - 1) : Len(frames'[f].slots) = Len(frames[f].slots)
  <2>1. Len(frames') >= Level.depth
    BY <1>1, <1>4, <1>12
  <2>2. \A f \in 1..(Level.depth - 1) : f \in 1..(Len(frames) - 1)
    BY <1>1, <1>12
  <2> QED BY <1>4, <2>1, <2>2
<1> QED
  BY <1>4, <1>9, <1>10, <1>11, <1>13, StacksKept

\* A primitive is given blocks.
LEMMA BlockStacks ==
  ASSUME NEW W, Tagged \in W, Stacks(W), OnDo \/ Ensure \/ Transaction
  PROVE  Stacks(W)'
<1>1. Operands \in Int
  BY TopFacts DEF Operands
<1>2. /\ handlers \in Seq([1..3 -> W]) /\ ensures \in Seq([1..2 -> W]) /\ log \in Seq([1..2 -> W])
      /\ <<Tagged, Tagged>> \in [1..2 -> W]
  BY Tuples DEF Stacks, HeldIn
<1>3. Append(ensures, <<Tagged, Tagged>>) \in Seq([1..2 -> W])
  BY <1>2, Appended
<1>4. /\ Top.slots \in Seq(W) /\ NumTemps \in Nat /\ Len(Top.slots) \in Nat /\ Len(Top.slots) >= NumTemps
  BY TopFacts
<1>5. CASE OnDo
  <2>1. Operands > 0 /\ Operands > 1 /\ Operands > 2 /\ Operands >= 3
    BY <1>1, <1>5 DEF OnDo
  <2>2. Op(0) \in W /\ Op(1) \in W /\ Op(2) \in W /\ Popped(3) \in Seq(W) /\ Len(Popped(3)) >= NumTemps
    BY <2>1, OpIn, PoppedIn
  <2>3. <<Op(1), Op(0), Tagged>> \in [1..3 -> W]
    BY <2>2, Tuples
  <2>4. handlers' \in Seq([1..3 -> W]) /\ ensures' \in Seq([1..2 -> W]) /\ log' \in Seq([1..2 -> W])
    BY <1>2, <1>5, <2>3, Appended DEF OnDo
  <2>5. InvokeBlock(Popped(3), Op(2), "onDo", Tagged, Tagged, calls)
    BY <1>5 DEF OnDo
  <2> QED BY <2>2, <2>4, <2>5, StacksInvoked
<1>6. CASE Ensure
  <2>1. Operands > 0 /\ Operands > 1 /\ Len(Top.slots) >= NumTemps + 2
    BY <1>1, <1>4, <1>6 DEF Ensure, Operands
  <2>2. Op(0) \in W /\ Op(1) \in W
    BY <2>1, OpIn
  <2>4. handlers' \in Seq([1..3 -> W]) /\ ensures' \in Seq([1..2 -> W]) /\ log' \in Seq([1..2 -> W])
    BY <1>2, <1>3, <1>6 DEF Ensure
  <2>5. InvokeBlock(Top.slots, Op(1), "ensure", Op(0), Tagged, calls)
    BY <1>6 DEF Ensure
  <2> QED BY <1>4, <2>1, <2>2, <2>4, <2>5, StacksInvoked
<1>7. CASE Transaction
  <2>1. Operands > 0 /\ Len(Top.slots) >= NumTemps + 2
    BY <1>1, <1>4, <1>7 DEF Transaction, Operands
  <2>2. Op(0) \in W
    BY <2>1, OpIn
  <2>4. handlers' \in Seq([1..3 -> W]) /\ ensures' \in Seq([1..2 -> W]) /\ log' \in Seq([1..2 -> W])
    BY <1>2, <1>3, <1>7 DEF Transaction
  <2>5. InvokeBlock(Top.slots, Op(0), "txn", Tagged, Tagged, calls)
    BY <1>7 DEF Transaction
  <2> QED BY <1>4, <2>1, <2>2, <2>4, <2>5, StacksInvoked
<1> QED
  BY <1>5, <1>6, <1>7

\* A method returns within one interpret().
LEMMA ReturnStacks ==
  ASSUME NEW W, Stacks(W), Return
  PROVE  /\ Stacks(W)' /\ Len(calls') = Len(calls) /\ Len(frames) >= 2 /\ Len(frames') = Len(frames) - 1
         /\ KeepsFrames
<1>1. /\ calls \in Seq(CallIn(W)) /\ Len(calls) \in Nat \ {0} /\ Level \in CallIn(W) /\ Top.ret \in W
      /\ Len(frames) \in Nat \ {0} /\ NumTemps \in Nat /\ Operands \in Int
  BY TopFacts DEF Operands
<1>2. Op(0) \in W /\ <<Op(0)>> \in Seq(W) /\ Len(<<Op(0)>>) = 1
  BY OpIn DEF Return
<1>3. Len(calls) \in 1..Len(calls) /\ Level.depth \in 1..Len(frames) /\ Len(frames) > Level.depth
  <2>1. Len(calls) \in 1..Len(calls)
    BY <1>1
  <2>2. Level.depth \in 1..Len(frames)
    BY <2>1, DepthBounds DEF Level
  <2> QED BY <2>1, <2>2 DEF Return
<1>4. Len(frames) >= 2
  BY <1>1, <1>3
<1>5. Caller.slots \in Seq(W) /\ Len(Caller.slots) >= NumTemps
  <2>1. Len(frames) - 1 \in 1..Len(frames)
    BY <1>1, <1>4
  <2>2. frames[Len(frames) - 1] \in FrameIn(W)
    BY <2>1, TopFacts, Elements
  <2> QED BY <2>1, <2>2 DEF Caller, Stacks, StacksOK, FrameIn
<1>6. frames' = WithoutTop(0, <<Op(0)>>) /\ 0 \in Nat /\ 0 <= Len(Caller.slots)
  BY <1>5 DEF Return
<1>7. /\ frames' \in Seq(FrameIn(W)) /\ Len(frames') = Len(frames) - 1
      /\ \A f \in 1..(Len(frames) - 2) : frames'[f] = frames[f]
      /\ Len(frames'[Len(frames) - 1].slots) = Len(Caller.slots) - 0 + Len(<<Op(0)>>)
      /\ \E s \in Seq(W) : frames'[Len(frames) - 1] = [Caller EXCEPT !.slots = s]
  <2>1. TopGone(W, WithoutTop(0, <<Op(0)>>), 0, <<Op(0)>>)
    BY <1>2, <1>4, <1>6, WithoutTopFacts
  <2>2. TopGone(W, frames', 0, <<Op(0)>>)
    BY <1>6, <2>1
  <2> QED BY <2>2 DEF TopGone
<1>8. PICK c : c = [Level EXCEPT !.ip = Top.ret]
  OBVIOUS
<1>9. c \in CallIn(W) /\ c.kind = Level.kind /\ c.depth = Level.depth
  BY <1>1, <1>8 DEF CallIn
<1>10. calls' = [calls EXCEPT ![Len(calls)] = c]
  BY <1>8 DEF Return, Level
<1>11. /\ calls' \in Seq(CallIn(W)) /\ Len(calls') = Len(calls) /\ calls'[Len(calls)] = c
       /\ \A j \in 1..Len(calls) : j # Len(calls) => calls'[j] = calls[j]
  BY <1>1, <1>3, <1>9, <1>10, Replaced
<1>12. \A k \in 1..Len(calls) : calls'[k].kind = calls[k].kind /\ calls'[k].depth = calls[k].depth
  BY <1>9, <1>11 DEF Level
<1>13. HeldIn(W)'
  BY <1>7, <1>11 DEF Return, chains, Stacks, HeldIn
<1>14. Len(frames') >= Level.depth
  BY <1>1, <1>3, <1>7
<1>15. ASSUME NEW f \in 1..Len(frames') PROVE Len(frames'[f].slots) >= NumTemps
  <2>1. CASE f = Len(frames) - 1
    <3>1. Len(Caller.slots) \in Nat /\ Len(frames'[f].slots) = Len(Caller.slots) - 0 + 1
      <4>1. Len(Caller.slots) \in Nat
        BY <1>5
      <4>2. Len(frames'[f].slots) = Len(frames'[Len(frames) - 1].slots)
        BY <2>1
      <4>3. Len(frames'[f].slots) = Len(Caller.slots) - 0 + Len(<<Op(0)>>)
        BY <1>7, <4>2
      <4> QED BY <1>2, <4>1, <4>3
    <3> QED BY <1>1, <1>5, <3>1
  <2>2. CASE f # Len(frames) - 1
    <3>1. f \in 1..(Len(frames) - 2) /\ f \in 1..Len(frames)
      BY <1>1, <1>7, <2>2
    <3> QED BY <1>7, <3>1 DEF Stacks, StacksOK
  <2> QED BY <2>1, <2>2
<1>16. \A f \in 1..(Level.depth - 1) : Len(frames'[f].slots) = Len(frames[f].slots)
  <2>1. \A f \in 1..(Level.depth - 1) : f \in 1..(Len(frames) - 2)
    BY <1>1, <1>3
  <2> QED BY <1>7, <2>1
<1>17. Stacks(W)'
  BY <1>11, <1>12, <1>13, <1>14, <1>15, <1>16, StacksKept
<1>18. KeepsFrames
  <2>1. PICK s \in Seq(W) : frames'[Len(frames) - 1] = [Caller EXCEPT !.slots = s]
    BY <1>7
  <2>2. Caller \in FrameIn(W) /\ Caller = frames[Len(frames) - 1]
    <3>1. Len(frames) - 1 \in 1..Len(frames)
      BY <1>1, <1>4
    <3> QED BY <3>1, TopFacts, Elements DEF Caller
  <2>3. /\ [Caller EXCEPT !.slots = s].args = Caller.args /\ [Caller EXCEPT !.slots = s].code = Caller.code
        /\ [Caller EXCEPT !.slots = s].ret = Caller.ret
    BY <2>2 DEF FrameIn
  <2>4. ASSUME NEW f \in 1..(Len(frames) - 1)
        PROVE  /\ frames'[f].args = frames[f].args
               /\ frames'[f].code = frames[f].code /\ frames'[f].ret = frames[f].ret
    <3>1. CASE f = Len(frames) - 1
      BY <2>1, <2>2, <2>3, <3>1
    <3>2. CASE f # Len(frames) - 1
      <4>1. f \in 1..(Len(frames) - 2)
        BY <1>1, <3>2
      <4> QED BY <1>7, <4>1
    <3> QED BY <3>1, <3>2
  <2> QED BY <1>1, <1>7, <2>4 DEF KeepsFrames
<1> QED
  BY <1>4, <1>7, <1>11, <1>17, <1>18

\* What is left of the caller's frame runs what it ran.
LEMMA GoneKeeps ==
  ASSUME NEW W, Stacks(W), Len(frames) >= 2, NEW fs, NEW drop, NEW ws, TopGone(W, fs, drop, ws),
         NEW f \in 1..(Len(frames) - 1)
  PROVE  fs[f].args = frames[f].args /\ fs[f].code = frames[f].code /\ fs[f].ret = frames[f].ret
<1>1. Len(frames) - 1 \in 1..Len(frames) /\ frames \in Seq(FrameIn(W)) /\ Len(frames) \in Nat
  BY TopFacts
<1>2. PICK s \in Seq(W) : fs[Len(frames) - 1] = [Caller EXCEPT !.slots = s]
  BY DEF TopGone
<1>3. Caller \in FrameIn(W) /\ Caller = frames[Len(frames) - 1]
  BY <1>1, Elements DEF Caller
<1>4. /\ [Caller EXCEPT !.slots = s].args = Caller.args /\ [Caller EXCEPT !.slots = s].code = Caller.code
      /\ [Caller EXCEPT !.slots = s].ret = Caller.ret
  BY <1>3 DEF FrameIn
<1>5. CASE f = Len(frames) - 1
  BY <1>2, <1>3, <1>4, <1>5
<1>6. CASE f # Len(frames) - 1
  <2>1. f \in 1..(Len(frames) - 2)
    BY <1>1, <1>6
  <2> QED BY <2>1 DEF TopGone
<1> QED
  BY <1>5, <1>6

\* The call that ends, and the frame its block was called from.
LEMMA AnswerBounds ==
  ASSUME NEW W, Stacks(W), Len(frames) = Level.depth, Level.kind # "host"
  PROVE  /\ Len(calls) >= 2 /\ Len(frames) >= 2
         /\ Caller.slots \in Seq(W) /\ Len(Caller.slots) \in Nat /\ Len(Caller.slots) >= NumTemps
         /\ Level.kind \in {"ensure", "txn"} => Len(Caller.slots) >= NumTemps + 2
<1>1. /\ Len(frames) \in Nat \ {0} /\ Len(calls) \in Nat \ {0} /\ frames \in Seq(FrameIn(W))
      /\ NumTemps \in Nat
  BY TopFacts
<1>2. Len(calls) # 1
  BY DEF Stacks, StacksOK, Level
<1>3. Len(calls) \in 1..Len(calls) /\ Len(calls) \in 2..Len(calls)
  <2>1. \A n \in Nat \ {0} : n # 1 => n \in 1..n /\ n \in 2..n
    OBVIOUS
  <2> QED BY <1>1, <1>2, <2>1
<1>4. calls[Len(calls)].depth - 1 \in 1..(Len(frames) - 1)
  BY <1>2, <1>3, DepthBounds
<1>5. Len(frames) >= 2 /\ Len(frames) - 1 \in 1..Len(frames)
  BY <1>1, <1>4 DEF Level
<1>6. Caller \in FrameIn(W)
  BY <1>1, <1>5, Elements DEF Caller
<1>7. Caller.slots \in Seq(W) /\ Len(Caller.slots) \in Nat
  BY <1>6 DEF FrameIn
<1>8. Len(Caller.slots) >= NumTemps
  BY <1>5 DEF Caller, Stacks, StacksOK
<1>9. ASSUME Level.kind \in {"ensure", "txn"} PROVE Len(Caller.slots) >= NumTemps + 2
  <2>1. Operated(Len(calls)) /\ calls[Len(calls)].depth = Len(frames)
    BY <1>9 DEF Operated, Level
  <2>2. Len(frames[calls[Len(calls)].depth - 1].slots) >= NumTemps + 2
    BY <1>3, <2>1 DEF Stacks, StacksOK
  <2> QED BY <2>1, <2>2 DEF Caller
<1> QED
  BY <1>3, <1>5, <1>7, <1>8, <1>9

\* The call that goes on with the cleanup block.
Cleanup == [Level EXCEPT !.kind = "cleanup", !.cleanup = Tagged,
                         !.result = Op(0), !.table = Outer[Len(Outer)].table]

\* The calls below the one that ends.
LEMMA OuterFacts ==
  ASSUME NEW W, Stacks(W), Len(calls) >= 2
  PROVE  /\ Outer \in Seq(CallIn(W)) /\ Len(Outer) = Len(calls) - 1
         /\ \A k \in 1..(Len(calls) - 1) : Outer[k] = calls[k]
         /\ Outer[Len(Outer)] = calls[Len(calls) - 1] /\ Outer[Len(Outer)] \in CallIn(W)
<1>1. calls \in Seq(CallIn(W)) /\ Len(calls) \in Nat
  BY TopFacts
<1>2. /\ Outer \in Seq(CallIn(W)) /\ Len(Outer) = Len(calls) - 1
      /\ \A k \in 1..(Len(calls) - 1) : Outer[k] = calls[k]
  BY <1>1, Cut DEF Outer
<1>3. Len(Outer) \in 1..Len(Outer) /\ Len(calls) - 1 \in 1..(Len(calls) - 1)
  BY <1>1, <1>2
<1>4. Outer[Len(Outer)] = calls[Len(calls) - 1]
  BY <1>2, <1>3
<1>5. Outer[Len(Outer)] \in CallIn(W)
  BY <1>2, <1>3, Elements
<1> QED
  BY <1>2, <1>4, <1>5

\* What the chains lose is no loss of type.
LEMMA AnswerChains ==
  ASSUME NEW W, Stacks(W), Answer
  PROVE  handlers' \in Seq([1..3 -> W]) /\ ensures' \in Seq([1..2 -> W]) /\ log' \in Seq([1..2 -> W])
<1>1. handlers \in Seq([1..3 -> W]) /\ ensures \in Seq([1..2 -> W]) /\ log \in Seq([1..2 -> W])
  BY DEF Stacks, HeldIn
<1>2. SubSeq(handlers, 1, Len(handlers) - 1) \in Seq([1..3 -> W])
  BY <1>1, CutTyped
<1>3. SubSeq(ensures, 1, Len(ensures) - 1) \in Seq([1..2 -> W])
  BY <1>1, CutTyped
<1>4. <<>> \in Seq([1..2 -> W])
  OBVIOUS
<1> QED
  BY <1>1, <1>2, <1>3, <1>4 DEF Answer

\* The block of an ensure: is done; the cleanup block takes its place.
LEMMA AnswerEnsure ==
  ASSUME NEW W, Tagged \in W, Stacks(W), Answer, Level.kind = "ensure"
  PROVE  /\ Stacks(W)' /\ KeepsFrames /\ Len(frames') = Len(frames)
         /\ calls' = Append(Outer, Cleanup)
<1>1. /\ Len(frames) \in Nat \ {0} /\ Top \in FrameIn(W) /\ Level \in CallIn(W) /\ NumTemps \in Nat
      /\ frames \in Seq(FrameIn(W)) /\ Operands \in Int /\ Len(calls) \in Nat
  BY TopFacts DEF Operands
<1>2. /\ Len(frames) = Level.depth /\ Operands > 0
      /\ frames' = Append(WithoutTop(2, <<>>),
                          [Top EXCEPT !.ctx = Level.cleanup, !.slots = [i \in 1..NumTemps |-> Tagged]])
      /\ calls' = Append(Outer, Cleanup)
  BY DEF Answer, Cleanup
<1>3. /\ Len(calls) >= 2 /\ Len(frames) >= 2 /\ Len(Caller.slots) \in Nat
      /\ Len(Caller.slots) >= NumTemps + 2
  BY <1>2, AnswerBounds
<1>4. Op(0) \in W
  BY <1>2, OpIn
<1>5. PICK fs : fs = WithoutTop(2, <<>>)
  OBVIOUS
<1>6. TopGone(W, fs, 2, <<>>)
  <2>1. <<>> \in Seq(W) /\ 2 <= Len(Caller.slots) /\ 2 \in Nat
    BY <1>1, <1>3
  <2>2. TopGone(W, WithoutTop(2, <<>>), 2, <<>>)
    BY <1>3, <2>1, WithoutTopFacts
  <2> QED BY <1>5, <2>2
<1>7. /\ fs \in Seq(FrameIn(W)) /\ Len(fs) = Len(frames) - 1
      /\ \A f \in 1..(Len(frames) - 2) : fs[f] = frames[f]
      /\ Len(fs[Len(frames) - 1].slots) = Len(Caller.slots) - 2
  <2>1. Len(fs[Len(frames) - 1].slots) = Len(Caller.slots) - 2 + Len(<<>>) /\ Len(<<>>) = 0
    BY <1>6 DEF TopGone
  <2>2. Len(fs[Len(frames) - 1].slots) = Len(Caller.slots) - 2
    BY <1>3, <2>1
  <2> QED BY <1>6, <2>2 DEF TopGone
<1>8. PICK t : t = [i \in 1..NumTemps |-> Tagged]
  OBVIOUS
<1>9. t \in Seq(W) /\ Len(t) = NumTemps
  BY <1>1, <1>8, TaggedTemps
<1>10. PICK v : v = [Top EXCEPT !.ctx = Level.cleanup, !.slots = t]
  OBVIOUS
<1>11. Level.cleanup \in W /\ Level.result \in W
  BY <1>1 DEF CallIn
<1>12. v \in FrameIn(W) /\ v.slots = t /\ v.args = Top.args /\ v.code = Top.code /\ v.ret = Top.ret
  BY <1>1, <1>9, <1>10, <1>11 DEF FrameIn
<1>13. frames' = Append(fs, v)
  BY <1>2, <1>5, <1>8, <1>10
<1>14. /\ frames' \in Seq(FrameIn(W)) /\ Len(frames') = Len(fs) + 1 /\ frames'[Len(fs) + 1] = v
       /\ \A j \in 1..Len(fs) : frames'[j] = fs[j]
  BY <1>7, <1>12, <1>13, Appended
<1>15. Len(frames') = Len(frames) /\ frames'[Len(frames)] = v /\ \A f \in 1..(Len(frames) - 1) : frames'[f] = fs[f]
  BY <1>1, <1>7, <1>14
<1>16. KeepsFrames
  <2>1. ASSUME NEW f \in 1..Len(frames)
        PROVE  /\ frames'[f].args = frames[f].args
               /\ frames'[f].code = frames[f].code /\ frames'[f].ret = frames[f].ret
    <3>1. CASE f = Len(frames)
      BY <1>12, <1>15, <3>1 DEF Top
    <3>2. CASE f # Len(frames)
      <4>1. f \in 1..(Len(frames) - 1)
        BY <1>1, <3>2
      <4> QED BY <1>3, <1>6, <1>15, <4>1, GoneKeeps
    <3> QED BY <3>1, <3>2
  <2> QED BY <1>1, <1>15, <2>1 DEF KeepsFrames
<1>17. /\ Outer \in Seq(CallIn(W)) /\ Len(Outer) = Len(calls) - 1
       /\ \A k \in 1..(Len(calls) - 1) : Outer[k] = calls[k]
       /\ Outer[Len(Outer)] \in CallIn(W)
  BY <1>3, OuterFacts
<1>18. PICK tb \in W : tb = Outer[Len(Outer)].table
  BY <1>17 DEF CallIn
<1>19. Cleanup \in CallIn(W) /\ Cleanup.kind = "cleanup" /\ Cleanup.depth = Level.depth
  <2>1. Cleanup = [Level EXCEPT !.kind = "cleanup", !.cleanup = Tagged, !.result = Op(0), !.table = tb]
    BY <1>18 DEF Cleanup
  <2> QED BY <1>1, <1>4, <2>1 DEF CallIn
<1>20. /\ calls' \in Seq(CallIn(W)) /\ Len(calls') = Len(Outer) + 1 /\ calls'[Len(Outer) + 1] = Cleanup
       /\ \A j \in 1..Len(Outer) : calls'[j] = Outer[j]
  <2> HIDE DEF Cleanup
  <2>1. calls' = Append(Outer, Cleanup)
    BY <1>2
  <2> QED BY <1>17, <1>19, <2>1, Appended
<1>21. /\ Len(calls') = Len(calls) /\ calls'[Len(calls)].kind = "cleanup" /\ calls'[Len(calls)].depth = Len(frames)
       /\ \A k \in 1..(Len(calls) - 1) : calls'[k].kind = calls[k].kind /\ calls'[k].depth = calls[k].depth
  BY <1>1, <1>2, <1>17, <1>19, <1>20
<1>22. HeldIn(W)'
  BY <1>14, <1>20, AnswerChains DEF HeldIn
<1>23. ASSUME NEW f \in 1..Len(frames') PROVE Len(frames'[f].slots) >= NumTemps
  <2>1. CASE f = Len(frames)
    BY <1>1, <1>9, <1>12, <1>15, <2>1
  <2>2. CASE f = Len(frames) - 1
    <3>1. f \in 1..(Len(frames) - 1)
      BY <1>1, <1>3, <2>2
    <3>2. Len(frames'[f].slots) = Len(Caller.slots) - 2
      BY <1>7, <1>15, <2>2, <3>1
    <3> QED BY <1>1, <1>3, <3>2
  <2>3. CASE f \in 1..(Len(frames) - 2)
    <3>1. f \in 1..(Len(frames) - 1) /\ f \in 1..Len(frames)
      BY <1>1, <2>3
    <3> QED BY <1>7, <1>15, <2>3, <3>1 DEF Stacks, StacksOK
  <2>4. f = Len(frames) \/ f = Len(frames) - 1 \/ f \in 1..(Len(frames) - 2)
    BY <1>1, <1>15
  <2> QED BY <2>1, <2>2, <2>3, <2>4
<1>24. \A f \in 1..(Len(frames) - 2) : Len(frames'[f].slots) = Len(frames[f].slots)
  <2>1. \A f \in 1..(Len(frames) - 2) : f \in 1..(Len(frames) - 1)
    BY <1>1
  <2> QED BY <1>7, <1>15, <2>1
<1>25. Stacks(W)'
  BY <1>2, <1>3, <1>15, <1>21, <1>22, <1>23, <1>24, StacksEnded
<1> QED
  BY <1>2, <1>15, <1>16, <1>25

\* Any other block is done; the primitive leaves its caller a value.
LEMMA AnswerOther ==
  ASSUME NEW W, Tagged \in W, Stacks(W), Answer, Level.kind # "ensure"
  PROVE  /\ Stacks(W)' /\ KeepsFrames /\ Len(frames') = Len(frames) - 1 /\ calls' = Outer
<1>1. /\ Len(frames) \in Nat \ {0} /\ Level \in CallIn(W) /\ NumTemps \in Nat
      /\ frames \in Seq(FrameIn(W)) /\ Operands \in Int /\ Len(calls) \in Nat
  BY TopFacts DEF Operands
<1>2. Len(frames) = Level.depth /\ Operands > 0 /\ Level.kind # "host"
  BY DEF Answer
<1>3. Level.kind \in {"onDo", "txn", "cleanup"}
  BY <1>1, <1>2 DEF CallIn
<1>4. /\ Len(calls) >= 2 /\ Len(frames) >= 2 /\ Len(Caller.slots) \in Nat /\ Len(Caller.slots) >= NumTemps
      /\ Level.kind = "txn" => Len(Caller.slots) >= NumTemps + 2
  BY <1>2, AnswerBounds
<1>5. Op(0) \in W /\ Level.result \in W
  BY <1>1, <1>2, OpIn DEF CallIn
<1>6. \E drop \in {0, 2}, w \in W :
        /\ frames' = WithoutTop(drop, <<w>>) /\ calls' = Outer
        /\ drop <= Len(Caller.slots) /\ Len(Caller.slots) - drop >= NumTemps
  <2>1. CASE Level.kind = "cleanup"
    <3>1. frames' = WithoutTop(0, <<Level.result>>) /\ calls' = Outer
      BY <2>1 DEF Answer
    <3>2. 0 <= Len(Caller.slots) /\ Len(Caller.slots) - 0 >= NumTemps
      BY <1>4
    <3> QED BY <1>5, <3>1, <3>2
  <2>2. CASE Level.kind = "onDo"
    <3>1. frames' = WithoutTop(0, <<Op(0)>>) /\ calls' = Outer
      BY <2>2 DEF Answer
    <3>2. 0 <= Len(Caller.slots) /\ Len(Caller.slots) - 0 >= NumTemps
      BY <1>4
    <3> QED BY <1>5, <3>1, <3>2
  <2>3. CASE Level.kind = "txn"
    <3>1. frames' = WithoutTop(2, <<Op(0)>>) /\ calls' = Outer
      BY <2>3 DEF Answer
    <3>2. 2 <= Len(Caller.slots) /\ Len(Caller.slots) - 2 >= NumTemps
      BY <1>1, <1>4, <2>3
    <3> QED BY <1>5, <3>1, <3>2
  <2> QED BY <1>3, <2>1, <2>2, <2>3
<1>7. PICK drop \in {0, 2}, w \in W :
        /\ frames' = WithoutTop(drop, <<w>>) /\ calls' = Outer
        /\ drop <= Len(Caller.slots) /\ Len(Caller.slots) - drop >= NumTemps
  BY <1>6
<1>8. TopGone(W, frames', drop, <<w>>)
  <2>1. <<w>> \in Seq(W) /\ drop \in Nat
    OBVIOUS
  <2>2. TopGone(W, WithoutTop(drop, <<w>>), drop, <<w>>)
    BY <1>4, <1>7, <2>1, WithoutTopFacts
  <2> QED BY <1>7, <2>2
<1>9. /\ frames' \in Seq(FrameIn(W)) /\ Len(frames') = Len(frames) - 1
      /\ \A f \in 1..(Len(frames) - 2) : frames'[f] = frames[f]
      /\ Len(frames'[Len(frames) - 1].slots) >= NumTemps
  <2>1. Len(frames'[Len(frames) - 1].slots) = Len(Caller.slots) - drop + Len(<<w>>) /\ Len(<<w>>) = 1
    BY <1>8 DEF TopGone
  <2>2. Len(frames'[Len(frames) - 1].slots) >= NumTemps
    BY <1>1, <1>4, <1>7, <2>1
  <2> QED BY <1>8, <2>2 DEF TopGone
<1>10. KeepsFrames
  <2>1. \A f \in 1..(Len(frames) - 1) :
          /\ frames'[f].args = frames[f].args
          /\ frames'[f].code = frames[f].code /\ frames'[f].ret = frames[f].ret
    BY <1>4, <1>8, GoneKeeps
  <2>2. \A n, m \in Int : n = m - 1 => n <= m
    OBVIOUS
  <2>3. Len(frames') \in Int
    BY <1>1, <1>9
  <2>4. Len(frames') <= Len(frames)
    BY <1>1, <1>9, <2>2, <2>3
  <2> QED BY <1>9, <2>1, <2>4, Zenon DEF KeepsFrames
<1>11. /\ Outer \in Seq(CallIn(W)) /\ Len(Outer) = Len(calls) - 1
       /\ \A k \in 1..(Len(calls) - 1) : Outer[k] = calls[k]
  BY <1>4, OuterFacts
<1>12. HeldIn(W)'
  BY <1>7, <1>9, <1>11, AnswerChains DEF HeldIn
<1>13. ASSUME NEW f \in 1..Len(frames') PROVE Len(frames'[f].slots) >= NumTemps
  <2>1. CASE f = Len(frames) - 1
    BY <1>9, <2>1
  <2>2. CASE f # Len(frames) - 1
    <3>1. f \in 1..(Len(frames) - 2) /\ f \in 1..Len(frames)
      BY <1>1, <1>9, <2>2
    <3> QED BY <1>9, <3>1 DEF Stacks, StacksOK
  <2> QED BY <2>1, <2>2
<1>14. Stacks(W)'
  BY <1>2, <1>4, <1>7, <1>9, <1>11, <1>12, <1>13, StacksEnded
<1> QED
  BY <1>7, <1>9, <1>10, <1>14

-----------------------------------------------------------------------------
(* The heap. *)

\* What lies where objects of the same sizes lie.
SameSizes(m, n, S) ==
  \A a \in S : (n[a] = NoObj <=> m[a] = NoObj) /\ Len(n[a].fields) = Len(m[a].fields)

\* Stores change fields only.
Stored(m, n) ==
  \A a \in Words :
    /\ n[a] = NoObj <=> m[a] = NoObj
    /\ Len(n[a].fields) = Len(m[a].fields)
    /\ n[a].id = m[a].id /\ n[a].class = m[a].class /\ n[a].fwd = m[a].fwd

\* The spaces are among the words.
LEMMA SpaceFacts ==
         /\ SpaceWords \in Nat /\ SpaceWords >= 2 /\ NumTemps \in Nat /\ Fixed = 2 * SpaceWords /\ Fixed \in Nat
         /\ Space(0) \subseteq Words /\ Space(SpaceWords) \subseteq Words
         /\ \A a \in Words : a \in Space(0) \/ a \in Space(SpaceWords) \/ a > Fixed
         /\ \A a \in Space(0) : a \notin Space(SpaceWords) /\ a <= Fixed /\ a # Tagged
         /\ \A a \in Space(SpaceWords) : a <= Fixed /\ a # Tagged
<1>1. SpaceWords \in Nat /\ NumTemps \in Nat
  BY SpaceAssumption
<1>2. SpaceWords >= IF TRUE \in CodeMoves THEN 4 ELSE 2
  BY BoundsAssumption, Zenon
<1>3. SpaceWords >= 2
  <2>1. SpaceWords >= 4 \/ SpaceWords >= 2
    BY <1>2, Zenon
  <2> QED BY <1>1, <2>1
<1> QED
  BY <1>1, <1>3 DEF Space, Words, Fixed, Tagged

\* Objects are not empty.
LEMMA Sizes ==
  ASSUME NEW W, NEW o \in ObjectIn(W)
  PROVE  Len(o.fields) \in 0..2 /\ Size(o) \in 1..3 /\ o.fields \in Seq(W)
<1>1. o.fields \in FieldsIn(W)
  BY DEF ObjectIn
<1>2. CASE o.fields = <<>>
  BY <1>2 DEF Size
<1>3. CASE o.fields \in [1..1 -> W]
  <2>1. o.fields \in Seq(W) /\ Len(o.fields) = 1
    BY <1>3, Listed
  <2> QED BY <2>1 DEF Size
<1>4. CASE o.fields \in [1..2 -> W]
  <2>1. o.fields \in Seq(W) /\ Len(o.fields) = 2
    BY <1>4, Listed
  <2> QED BY <2>1 DEF Size
<1> QED
  BY <1>1, <1>2, <1>3, <1>4 DEF FieldsIn

\* Objects of the same sizes tile a space the same way.
LEMMA TilesKept ==
  ASSUME NEW W, NEW m \in Heap(W), NEW n, NEW lo \in {0, SpaceWords}, SameSizes(m, n, Space(lo)), NEW hi, Tiles(m, lo, hi)
  PROVE  Tiles(n, lo, hi)
<1>1. Space(lo) \subseteq Words
  BY SpaceFacts
<1>2. \A a \in Space(lo) : (n[a] = NoObj <=> m[a] = NoObj) /\ Size(n[a]) = Size(m[a])
  BY DEF SameSizes, Size
<1>3. hi \in lo..(lo + SpaceWords) /\ SpaceWords \in Nat /\ lo \in Nat
  BY SpaceFacts DEF Tiles
<1>4. lo < hi => lo + 1 \in Space(lo)
  BY <1>3 DEF Space
<1>5. lo < hi => n[lo + 1] # NoObj
  BY <1>2, <1>4 DEF Tiles
<1>6. ASSUME NEW a \in Space(lo), n[a] # NoObj
      PROVE  /\ a + Size(n[a]) <= hi + 1
             /\ a + Size(n[a]) <= hi => n[a + Size(n[a])] # NoObj
             /\ \A b \in Space(lo) : n[b] # NoObj /\ a < b => a + Size(n[a]) <= b
  <2>1. m[a] # NoObj /\ Size(n[a]) = Size(m[a])
    BY <1>2, <1>6
  <2>2. /\ a + Size(m[a]) <= hi + 1
        /\ a + Size(m[a]) <= hi => m[a + Size(m[a])] # NoObj
        /\ \A b \in Space(lo) : m[b] # NoObj /\ a < b => a + Size(m[a]) <= b
    BY <2>1 DEF Tiles
  <2>3. Size(m[a]) \in 1..3
    BY <1>1, Sizes DEF Heap
  <2>4. a + Size(m[a]) <= hi => a + Size(m[a]) \in Space(lo)
    BY <1>3, <2>3 DEF Space
  <2> QED BY <1>2, <2>1, <2>2, <2>4
<1> QED
  BY <1>3, <1>5, <1>6 DEF Tiles

\* An object with another first field, if it has one.
LEMMA ObjectStored ==
  ASSUME NEW W, NEW o \in ObjectIn(W), NEW w \in W, NEW p, p = [o EXCEPT !.fields[1] = w]
  PROVE  /\ p \in ObjectIn(W) /\ Len(p.fields) = Len(o.fields)
         /\ p.id = o.id /\ p.class = o.class /\ p.fwd = o.fwd
         /\ o.fields = <<>> => p = o
         /\ p = NoObj <=> o = NoObj
<1>1. o.fields \in FieldsIn(W)
  BY DEF ObjectIn
<1>2. PICK fs : fs = [o.fields EXCEPT ![1] = w]
  OBVIOUS
<1>3. p = [o EXCEPT !.fields = fs]
  BY <1>2
<1>4. fs \in FieldsIn(W) /\ Len(fs) = Len(o.fields) /\ (o.fields = <<>> => fs = o.fields) /\ (fs = <<>> => o.fields = <<>>)
  <2>1. CASE o.fields = <<>>
    <3>1. fs = <<>>
      BY <1>2, <2>1
    <3> QED BY <1>1, <2>1, <3>1
  <2>2. CASE o.fields \in [1..1 -> W]
    <3>1. fs \in [1..1 -> W]
      BY <1>2, <2>2
    <3>2. Len(fs) = 1 /\ Len(o.fields) = 1
      BY <2>2, <3>1, Listed
    <3> QED BY <3>1, <3>2 DEF FieldsIn
  <2>3. CASE o.fields \in [1..2 -> W]
    <3>1. fs \in [1..2 -> W]
      BY <1>2, <2>3
    <3>2. Len(fs) = 2 /\ Len(o.fields) = 2
      BY <2>3, <3>1, Listed
    <3> QED BY <3>1, <3>2 DEF FieldsIn
  <2> QED BY <1>1, <2>1, <2>2, <2>3 DEF FieldsIn
<1>5. /\ p \in ObjectIn(W) /\ p.fields = fs
      /\ p.id = o.id /\ p.class = o.class /\ p.fwd = o.fwd
  BY <1>3, <1>4 DEF ObjectIn
<1>6. o.fields = <<>> => p = o
  BY <1>3, <1>4 DEF ObjectIn
<1>7. p = NoObj => p.fields = <<>>
  BY DEF NoObj
<1>8. o = NoObj => o.fields = <<>>
  BY DEF NoObj
<1> QED
  BY <1>4, <1>5, <1>6, <1>7, <1>8

\* n is m with w in the first field of r.
StoredAt(W, m, r, w, n) ==
  n \in Heap(W) /\ Stored(m, n) /\ \A a \in Words : a # r => n[a] = m[a]

\* A store into a field gives a heap that differs there only.
LEMMA FieldStored ==
  ASSUME NEW W, NEW m \in Heap(W), NEW r, NEW w \in W, NEW n, n = [m EXCEPT ![r].fields[1] = w]
  PROVE  StoredAt(W, m, r, w, n)
<1>1. PICK p : p = [m[r] EXCEPT !.fields[1] = w]
  OBVIOUS
<1>2. n = [m EXCEPT ![r] = p]
  BY <1>1
<1>3. CASE r \in Words
  <2>1. m[r] \in ObjectIn(W)
    BY <1>3 DEF Heap
  <2>2. /\ p \in ObjectIn(W) /\ Len(p.fields) = Len(m[r].fields)
        /\ p.id = m[r].id /\ p.class = m[r].class /\ p.fwd = m[r].fwd
        /\ p = NoObj <=> m[r] = NoObj
    BY <1>1, <2>1, ObjectStored
  <2>3. n \in Heap(W) /\ n[r] = p /\ \A a \in Words : a # r => n[a] = m[a]
    BY <1>2, <1>3, <2>2 DEF Heap
  <2> QED BY <2>2, <2>3 DEF Stored, StoredAt
<1>4. CASE r \notin Words
  <2>1. n = m
    BY <1>2, <1>4 DEF Heap
  <2> QED BY <2>1 DEF Stored, StoredAt
<1> QED
  BY <1>3, <1>4

\* A store after a store.
LEMMA StoredAfter ==
  ASSUME NEW m, NEW n, NEW q, Stored(m, n), Stored(n, q)
  PROVE  Stored(m, q)
  BY DEF Stored

\* A store leaves the sizes.
LEMMA StoredSizes ==
  ASSUME NEW m, NEW n, Stored(m, n), NEW lo \in {0, SpaceWords}
  PROVE  SameSizes(m, n, Space(lo))
  BY SpaceFacts DEF Stored, SameSizes

\* txn_commit stores words of the log.
LEMMA CommittedFacts ==
  ASSUME NEW W, mem \in Heap(W), log \in Seq([1..2 -> W])
  PROVE  /\ Committed \in Heap(W) /\ Stored(mem, Committed)
         /\ \A a \in Words : mem[a].fields = <<>> => Committed[a] = mem[a]
         /\ mem[Tenured].fields = <<Tagged>> /\ (\A e \in 1..Len(log) : log[e][1] = Tenured => log[e][2] = Tagged)
              => Committed[Tenured] = mem[Tenured]
<1> DEFINE V == {n \in Heap(W) : Stored(mem, n)
                  /\ (\A a \in Words : mem[a].fields = <<>> => n[a] = mem[a])
                  /\ (mem[Tenured].fields = <<Tagged>> /\ (\A e \in 1..Len(log) : log[e][1] = Tenured => log[e][2] = Tagged)
                        => n[Tenured] = mem[Tenured])}
           Step(n, e) == [n EXCEPT ![log[e][1]].fields[1] = log[e][2]]
           F == [p \in (1..Len(log)) \X V |-> Step(p[2], p[1])]
<1>1. mem \in V
  BY DEF Stored
<1>2. Len(log) \in Nat /\ \A e \in 1..Len(log) : log[e][1] \in W /\ log[e][2] \in W
  <2>1. Len(log) \in Nat /\ \A e \in 1..Len(log) : log[e] \in [1..2 -> W]
    BY Elements
  <2> QED BY <2>1
<1>3. ASSUME NEW e \in 1..Len(log), NEW n \in V PROVE Step(n, e) \in V
  <2>1. PICK q : q = Step(n, e)
    OBVIOUS
  <2>2. q \in Heap(W) /\ Stored(n, q) /\ \A a \in Words : a # log[e][1] => q[a] = n[a]
    <3>1. PICK r, w : r = log[e][1] /\ w = log[e][2]
      OBVIOUS
    <3>2. w \in W /\ q = [n EXCEPT ![r].fields[1] = w] /\ n \in Heap(W)
      BY <1>2, <2>1, <3>1
    <3>3. StoredAt(W, n, r, w, q)
      BY <3>2, FieldStored
    <3> QED BY <3>1, <3>3 DEF StoredAt
  <2>3. Stored(mem, q)
    BY <2>2, StoredAfter
  <2>4. ASSUME NEW a \in Words, mem[a].fields = <<>> PROVE q[a] = mem[a]
    <3>1. n[a] = mem[a] /\ n[a] \in ObjectIn(W)
      BY <2>4 DEF Heap
    <3>2. CASE a = log[e][1]
      <4>1. q[a] = [n[a] EXCEPT !.fields[1] = log[e][2]]
        BY <2>1, <3>2 DEF Heap
      <4> QED BY <1>2, <2>4, <3>1, <4>1, ObjectStored, SMTT(30)
    <3> QED BY <2>2, <3>1, <3>2
  <2>5. ASSUME mem[Tenured].fields = <<Tagged>>, \A d \in 1..Len(log) : log[d][1] = Tenured => log[d][2] = Tagged
        PROVE  q[Tenured] = mem[Tenured]
    <3>1. Tenured \in Words
      BY SpaceFacts DEF Tenured, Words
    <3>2. n[Tenured] = mem[Tenured] /\ n[Tenured] \in ObjectIn(W)
      BY <2>5, <3>1 DEF Heap
    <3>3. CASE Tenured = log[e][1]
      <4>1. q[Tenured] = [n[Tenured] EXCEPT !.fields = [n[Tenured].fields EXCEPT ![1] = Tagged]]
        BY <2>1, <2>5, <3>1, <3>3 DEF Heap
      <4>2. [n[Tenured].fields EXCEPT ![1] = Tagged] = n[Tenured].fields
        BY <2>5, <3>2, SMTT(30)
      <4> QED BY <3>2, <4>1, <4>2 DEF ObjectIn
    <3> QED BY <2>2, <3>1, <3>2, <3>3
  <2> QED BY <2>1, <2>2, <2>3, <2>4, <2>5
<1>4. ASSUME NEW e \in 1..Len(log), NEW n \in V PROVE F[<<e, n>>] = Step(n, e)
  OBVIOUS
<1> DEFINE Solves(f) == f = [e \in 0..Len(log) |-> IF e = 0 THEN mem ELSE Step(f[e - 1], e)]
<1>5. \E f : Solves(f)
  <2> HIDE DEF V, F, Step
  <2>0. \A e \in 1..Len(log), n \in V : F[<<e, n>>] \in V
    BY <1>3, <1>4
  <2>1. PICK f \in [0..Len(log) -> V] : f[0] = mem /\ \A e \in 1..Len(log) : f[e] = F[<<e, f[e - 1]>>]
    <3>1. Solvable(Len(log), V, mem, F)
      BY <1>1, <1>2, <2>0, RecursionExists
    <3> QED BY <3>1 DEF Solvable
  <2>2. \A e \in 1..Len(log) : e - 1 \in 0..Len(log)
    BY <1>2
  <2>3. \A e \in 1..Len(log) : f[e] = Step(f[e - 1], e)
    BY <1>4, <2>1, <2>2
  <2>4. \A e \in 0..Len(log) : f[e] = IF e = 0 THEN mem ELSE Step(f[e - 1], e)
    BY <1>2, <2>1, <2>3
  <2>5. f = [e \in 0..Len(log) |-> f[e]]
    BY <2>1
  <2> QED BY <2>4, <2>5
<1>6. PICK f : f = CHOOSE g : Solves(g)
  OBVIOUS
<1>7. Committed = f[Len(log)]
  BY <1>6 DEF Committed
<1>8. Solves(f)
  <2> HIDE DEF Solves
  <2> QED BY <1>5, <1>6
<1>9. f[Len(log)] \in V
  <2> HIDE DEF V, Step
  <2>1. f[0] = mem /\ \A e \in 1..Len(log) : f[e] = Step(f[e - 1], e)
    BY <1>2, <1>8
  <2>2. \A e \in 1..Len(log) : f[e - 1] \in V => f[e] \in V
    BY <1>3, <2>1
  <2>3. \A e \in 0..Len(log) : f[e] \in V
    BY <1>1, <1>2, <2>1, <2>2, RecursionStays
  <2> QED BY <1>2, <2>3
<1> QED
  BY <1>7, <1>9

-----------------------------------------------------------------------------
(* The type invariant: what the program does. *)

\* The words there are.
LEMMA WordFacts ==
  /\ Word \subseteq Nat /\ Words = Word \ {Tagged} /\ {Tagged, Tenured, Fixed + 2, Fixed + 3} \subseteq Word
  /\ Fixed \in Nat
<1>1. Fixed \in Nat
  BY SpaceFacts
<1> QED
  BY <1>1 DEF Word, Words, Tagged, Tenured

\* What the invariant says between collections.
LEMMA BFacts ==
  ASSUME BInv
  PROVE  /\ Stacks(Word) /\ mem \in Heap(Word) /\ MemIn(Word)
         /\ from \in {0, SpaceWords} /\ To \in {0, SpaceWords} /\ Tiles(mem, from, free)
         /\ {Tagged, Tenured} \subseteq Word
         /\ gc.phase = "idle" => gc = NoGc /\ \A a \in Space(To) : mem[a] = NoObj
         /\ log \in Seq([1..2 -> Word]) /\ inTxn \in BOOLEAN /\ made \in 4..(MaxAllocs + 1) /\ collections \in Nat
<1>1. mem \in Heap(Word)
  BY DEF BInv, HeapOK, Heap
<1>2. MemIn(Word)
  BY <1>1, WordFacts DEF MemIn, Heap
<1>3. To \in {0, SpaceWords}
  BY SpaceFacts DEF BInv, HeapOK, To
<1>4. gc.phase = "idle" => gc = NoGc /\ \A a \in Space(To) : mem[a] = NoObj
  BY DEF BInv, GcOK, Collections
<1> QED
  BY <1>1, <1>2, <1>3, <1>4, WordFacts DEF BInv, HeapOK, HeldIn, Stacks

\* Between collections, what leaves the objects where they are keeps the rest of
\* the invariant.
LEMMA RestKept ==
  ASSUME BInv, gc = NoGc, UNCHANGED <<from, free, gc, history>>, outcome' \in {outcome, "trap"},
         mem' \in Heap(Word), Stored(mem, mem'),
         Stacks(Word)', inTxn' \in BOOLEAN, JobIn(Word)'
  PROVE  BInv'
<1>1. /\ Stacks(Word) /\ mem \in Heap(Word) /\ from \in {0, SpaceWords} /\ To \in {0, SpaceWords}
      /\ Tiles(mem, from, free) /\ made \in 4..(MaxAllocs + 1) /\ collections \in Nat
  BY BFacts
<1>2. Tiles(mem', from, free)
  BY <1>1, StoredSizes, TilesKept
<1>3. Tiles(mem, from, free)'
  BY <1>2 DEF Tiles, Space
<1>4. \A a \in Words : mem'[a] = NoObj \/ mem'[a].id # 0
  BY DEF BInv, HeapOK, Stored
<1>5. HeapOK'
  BY <1>1, <1>3, <1>4 DEF HeapOK, Heap
<1>6. \A a \in Space(To) : mem[a] = NoObj
  <2>1. gc.phase = "idle"
    BY DEF NoGc
  <2> QED BY <2>1, BFacts
<1>7. \A a \in Space(To) : a \in Words
  BY <1>1, SpaceFacts
<1>8. \A a \in Space(To) : mem'[a] = NoObj
  BY <1>6, <1>7 DEF Stored
<1>9. GcOK'
  BY <1>8 DEF GcOK, To, Space
<1> QED
  BY <1>1, <1>5, <1>9 DEF BInv, Stacks, history

\* Without an allocation under way there is nothing to say of it.
LEMMA JobFree ==
  ASSUME Idle, UNCHANGED job
  PROVE  JobIn(Word)'
<1>1. NoJob \in Jobs(Word)
  BY WordFacts DEF NoJob, Jobs
<1> QED
  BY <1>1 DEF JobIn, Idle

\* A heap that stays is the same store.
LEMMA StoredSame ==
  ASSUME BInv, UNCHANGED mem
  PROVE  mem' \in Heap(Word) /\ Stored(mem, mem')
  BY BFacts DEF Stored

\* The bytecodes that only push keep the invariant.
LEMMA PushesKeep ==
  ASSUME BInv, PushTemp \/ Duplicate \/ PushArg \/ PushSelf \/ PushLiteral \/ PushField
  PROVE  BInv'
<1>1. Stacks(Word) /\ MemIn(Word) /\ Tagged \in Word /\ inTxn \in BOOLEAN
  BY BFacts
<1>2. PICK w \in Word : PushWord(w) /\ Idle
  BY <1>1, PushesStacks
<1>3. Stacks(Word)'
  BY <1>1, <1>2, PushStacks
<1>5. JobIn(Word)' /\ inTxn' = inTxn /\ UNCHANGED <<mem, from, free, gc, history, outcome>>
  BY <1>2, JobFree DEF PushWord, Quiet, memory, chains
<1>6. gc = NoGc
  BY <1>2, BFacts DEF Idle
<1> QED
  BY <1>1, <1>3, <1>5, <1>6, StoredSame, RestKept

\* The bytecodes that take the top of the stack keep the invariant.
LEMMA PopsKeep ==
  ASSUME BInv, Pop \/ StoreTemp \/ StoreField
  PROVE  BInv'
<1>1. Stacks(Word) /\ mem \in Heap(Word) /\ inTxn \in BOOLEAN
  BY BFacts
<1>2. Idle /\ Operands > 0 /\ UNCHANGED <<from, free, gc, history, outcome, inTxn, job>>
  BY DEF Pop, StoreTemp, StoreField, Quiet, memory, chains, history
<1>3. Stacks(Word)'
  BY <1>1, PopStacks
<1>5. gc = NoGc /\ JobIn(Word)'
  BY <1>2, BFacts, JobFree DEF Idle
<1>6. mem' \in Heap(Word) /\ Stored(mem, mem')
  <2>1. CASE UNCHANGED mem
    BY <2>1, StoredSame
  <2>2. CASE ~UNCHANGED mem
    <3>1. mem' = [mem EXCEPT ![Top.rcv].fields[1] = Op(0)]
      BY <2>2 DEF Pop, StoreTemp, StoreField, Quiet, memory
    <3>2. PICK r, w : r = Top.rcv /\ w = Op(0)
      OBVIOUS
    <3>3. w \in Word
      BY <1>1, <1>2, <3>2, OpIn
    <3>4. PICK n : n = mem'
      OBVIOUS
    <3>5. StoredAt(Word, mem, r, w, n)
      BY <1>1, <3>1, <3>2, <3>3, <3>4, FieldStored
    <3> QED BY <3>4, <3>5 DEF StoredAt
  <2> QED BY <2>1, <2>2
<1> QED
  BY <1>1, <1>2, <1>3, <1>5, <1>6, RestKept

\* Sends and primitives that run blocks keep the invariant.
LEMMA EntersKeep ==
  ASSUME BInv, Send \/ OnDo \/ Ensure \/ Transaction
  PROVE  BInv'
<1>1. Stacks(Word) /\ {Tagged, Tenured} \subseteq Word /\ inTxn \in BOOLEAN
  BY BFacts
<1>2. /\ Idle /\ UNCHANGED <<mem, from, free, gc, history, outcome, job>>
      /\ inTxn' \in BOOLEAN
  BY <1>1 DEF Send, OnDo, Ensure, Transaction, InvokeBlock, EnterFrame, memory, chains, history
<1>3. Stacks(Word)'
  BY <1>1, SendStacks, BlockStacks
<1>4. gc = NoGc /\ JobIn(Word)'
  BY <1>2, BFacts, JobFree DEF Idle
<1> QED
  BY <1>2, <1>3, <1>4, StoredSame, RestKept

\* A return keeps the invariant.
LEMMA ReturnKeeps ==
  ASSUME BInv, Return
  PROVE  BInv'
<1>1. Stacks(Word) /\ inTxn \in BOOLEAN
  BY BFacts
<1>2. Idle /\ UNCHANGED <<mem, from, free, gc, history, outcome, job, inTxn>>
  BY DEF Return, memory, chains, history
<1>4. gc = NoGc /\ JobIn(Word)'
  BY <1>2, BFacts, JobFree DEF Idle
<1>5. Stacks(Word)'
  BY <1>1, ReturnStacks
<1> QED
  BY <1>1, <1>2, <1>4, <1>5, StoredSame, RestKept

\* The end of a nested interpret() keeps the invariant.
LEMMA AnswerKeeps ==
  ASSUME BInv, Answer
  PROVE  BInv'
<1>1. Stacks(Word) /\ Tagged \in Word /\ inTxn \in BOOLEAN /\ mem \in Heap(Word) /\ log \in Seq([1..2 -> Word])
  BY BFacts
<1>2. /\ Idle /\ inTxn' \in BOOLEAN /\ UNCHANGED <<from, free, gc, history, outcome, job>>
      /\ mem' = IF Level.kind = "txn" THEN Committed ELSE mem
  BY <1>1 DEF Answer, history
<1>3. mem' \in Heap(Word) /\ Stored(mem, mem')
  BY <1>1, <1>2, CommittedFacts DEF Stored
<1>4. gc = NoGc /\ JobIn(Word)'
  BY <1>2, BFacts, JobFree DEF Idle
<1>5. Stacks(Word)'
  BY <1>1, AnswerEnsure, AnswerOther
<1> QED
  BY <1>2, <1>3, <1>4, <1>5, RestKept

-----------------------------------------------------------------------------
(* The type invariant: allocation. *)

\* Stacks that nothing touches.
LEMMA StacksSame ==
  ASSUME NEW W, Stacks(W), UNCHANGED <<stacks, handlers, ensures, log>>
  PROVE  Stacks(W)' /\ Len(frames') = Len(frames)
  BY DEF Stacks, HeldIn, StacksOK, Operated, Level, stacks

\* Allocations that begin or are given up keep the invariant.
LEMMA JobsKeep ==
  ASSUME BInv, BasicNew \/ PushClosure \/ OutOfMemory
  PROVE  BInv'
<1>1. Stacks(Word) /\ inTxn \in BOOLEAN /\ made \in 4..(MaxAllocs + 1) /\ MaxAllocs \in Nat
  BY BFacts, BoundsAssumption
<1>2. /\ gc.phase = "idle"
      /\ UNCHANGED <<stacks, chains, mem, from, free, gc, history>> /\ outcome' \in {outcome, "trap"}
  BY DEF BasicNew, PushClosure, OutOfMemory, StartJob, Idle, memory, history
<1>3. Stacks(Word)'
  BY <1>1, <1>2, StacksSame DEF chains
<1>4. inTxn' \in BOOLEAN /\ gc = NoGc
  BY <1>1, <1>2, BFacts DEF chains
<1>5. JobIn(Word)'
  <2>1. CASE BasicNew
    <3>1. PICK n \in NewFields : StartJob("new", "object", 1 + n, Op(0))
      BY <2>1 DEF BasicNew
    <3>2. Operands > 0 /\ Op(0) \in Word
      BY <1>1, <2>1, OpIn DEF BasicNew
    <3>3. Operands' > 0
      BY <1>2, <3>2 DEF Operands, Top, stacks
    <3>4. 1 + n \in 1..3
      BY BoundsAssumption
    <3>5. /\ job' = [kind |-> "new", stage |-> "object", tried |-> FALSE, local |-> Op(0), size |-> 1 + n]
          /\ made' = made /\ made < MaxAllocs
      BY <3>1 DEF StartJob, history
    <3>6. job' \in Jobs(Word) /\ job'.kind = "new" /\ job'.stage = "object" /\ job'.size \in 1..3
      BY <3>2, <3>4, <3>5 DEF Jobs
    <3> QED BY <3>3, <3>5, <3>6 DEF JobIn, Jobs, Word, Fixed
  <2>2. CASE PushClosure
    <3>1. Top.code \in Word
      BY <1>1, TopFacts
    <3>2. PICK st \in {"context", "block"}, sz \in {2, 3} :
            /\ StartJob("closure", st, sz, Top.code)
            /\ (st = "context" /\ sz = 2) \/ (st = "block" /\ sz = 3)
      BY <2>2 DEF PushClosure
    <3>3. /\ job' = [kind |-> "closure", stage |-> st, tried |-> FALSE, local |-> Top.code, size |-> sz]
          /\ made' = made /\ made < MaxAllocs
      BY <3>2 DEF StartJob, history
    <3>4. job' \in Jobs(Word) /\ job'.kind = "closure" /\ job'.stage = st /\ job'.size = sz
      BY <3>1, <3>3 DEF Jobs
    <3>5. (job \in Jobs(Word))'
      BY <3>4 DEF Jobs, Word, Fixed
    <3>6. made <= MaxAllocs
      BY <1>1, <3>3
    <3> QED BY <3>2, <3>3, <3>4, <3>5, <3>6, Zenon DEF JobIn
  <2>3. CASE OutOfMemory
    <3>1. UNCHANGED <<job, made, Operands>>
      BY <1>2, <2>3 DEF OutOfMemory, history, Operands, Top, stacks
    <3> QED BY <3>1 DEF BInv, JobIn
  <2> QED BY <2>1, <2>2, <2>3
<1> QED
  BY <1>1, <1>2, <1>3, <1>4, <1>5, StoredSame, RestKept

\* A space with one object more.
LEMMA TilesGrown ==
  ASSUME NEW W, NEW m \in Heap(W), NEW lo \in {0, SpaceWords}, NEW hi, Tiles(m, lo, hi),
         NEW o \in ObjectIn(W), o # NoObj, hi + Size(o) <= lo + SpaceWords,
         NEW n, n = [m EXCEPT ![hi + 1] = o]
  PROVE  /\ Tiles(n, lo, hi + Size(o)) /\ n \in Heap(W)
         /\ m[hi + 1] = NoObj /\ hi + 1 \in Space(lo)
<1>1. Space(lo) \subseteq Words /\ SpaceWords \in Nat
  BY SpaceFacts
<1>2. hi \in lo..(lo + SpaceWords) /\ Size(o) \in 1..3 /\ lo \in Nat
  BY <1>1, Sizes DEF Tiles
<1>3. hi + 1 \in Space(lo)
  BY <1>1, <1>2 DEF Space
<1>4. \A a \in Space(lo) : Size(m[a]) \in 1..3 /\ a \in Nat
  BY <1>1, Sizes DEF Heap, Space
<1>5. m[hi + 1] = NoObj
  <2>1. m[hi + 1] # NoObj => (hi + 1) + Size(m[hi + 1]) <= hi + 1
    BY <1>3 DEF Tiles
  <2> QED BY <1>2, <1>3, <1>4, <2>1
<1>6. n \in Heap(W) /\ n[hi + 1] = o /\ \A a \in Space(lo) : a # hi + 1 => n[a] = m[a]
  BY <1>1, <1>3 DEF Heap
<1>7. lo < hi + Size(o) => n[lo + 1] # NoObj
  <2>1. CASE lo < hi
    <3>1. m[lo + 1] # NoObj /\ lo + 1 \in Space(lo) /\ lo + 1 # hi + 1
      <4>1. m[lo + 1] # NoObj
        BY <2>1 DEF Tiles
      <4> QED BY <1>1, <1>2, <2>1, <4>1 DEF Space
    <3> QED BY <1>6, <3>1
  <2>2. CASE ~(lo < hi)
    <3>1. lo = hi
      BY <1>1, <1>2, <2>2
    <3> QED BY <1>6, <3>1
  <2> QED BY <2>1, <2>2
<1>8. \A a \in Space(lo) : m[a] # NoObj =>
        /\ a + Size(m[a]) <= hi + 1
        /\ a + Size(m[a]) <= hi => m[a + Size(m[a])] # NoObj
        /\ \A b \in Space(lo) : m[b] # NoObj /\ a < b => a + Size(m[a]) <= b
  BY DEF Tiles
<1>9. ASSUME NEW a \in Space(lo), n[a] # NoObj
      PROVE  /\ a + Size(n[a]) <= hi + Size(o) + 1
             /\ a + Size(n[a]) <= hi + Size(o) => n[a + Size(n[a])] # NoObj
             /\ \A b \in Space(lo) : n[b] # NoObj /\ a < b => a + Size(n[a]) <= b
  <2>1. CASE a = hi + 1
    <3>1. Size(n[a]) = Size(o)
      BY <1>6, <2>1
    <3>2. ASSUME NEW b \in Space(lo), n[b] # NoObj, a < b PROVE FALSE
      <4>1. b # hi + 1 /\ m[b] # NoObj
        BY <1>2, <1>6, <2>1, <3>2
      <4>2. b + Size(m[b]) <= hi + 1
        BY <1>8, <4>1
      <4> QED BY <1>2, <1>4, <2>1, <3>2, <4>2
    <3> QED BY <1>2, <2>1, <3>1, <3>2
  <2>2. CASE a # hi + 1
    <3>1. n[a] = m[a] /\ m[a] # NoObj
      BY <1>6, <1>9, <2>2
    <3>2. a + Size(m[a]) <= hi + 1 /\ (a + Size(m[a]) <= hi => m[a + Size(m[a])] # NoObj)
      BY <1>8, <3>1
    <3>3. a + Size(m[a]) = hi + 1 \/ a + Size(m[a]) <= hi
      BY <1>2, <1>4, <3>2
    <3>4. a + Size(m[a]) <= hi => a + Size(m[a]) \in Space(lo) /\ a + Size(m[a]) # hi + 1
      BY <1>1, <1>2, <1>4 DEF Space
    <3>5. n[a + Size(m[a])] # NoObj
      BY <1>6, <3>2, <3>3, <3>4
    <3>6. ASSUME NEW b \in Space(lo), n[b] # NoObj, a < b PROVE a + Size(m[a]) <= b
      <4>1. CASE b = hi + 1
        BY <3>2, <4>1
      <4>2. CASE b # hi + 1
        BY <1>6, <1>8, <3>1, <3>6, <4>2
      <4> QED BY <4>1, <4>2
    <3> QED BY <1>2, <1>4, <3>1, <3>2, <3>5, <3>6
  <2> QED BY <2>1, <2>2
<1>10. hi + Size(o) \in lo..(lo + SpaceWords)
  BY <1>1, <1>2
<1> QED
  BY <1>3, <1>5, <1>6, <1>7, <1>9, <1>10 DEF Tiles

\* The last frame gets a context.
LEMMA CtxStep ==
  ASSUME NEW W, Stacks(W), NEW w \in W, frames' = [frames EXCEPT ![Len(frames)].ctx = w],
         UNCHANGED <<calls, handlers, ensures, log>>
  PROVE  Stacks(W)' /\ KeepsFrames /\ Len(frames') = Len(frames)
         /\ \A f \in 1..Len(frames) : frames'[f].slots = frames[f].slots
<1>1. frames \in Seq(FrameIn(W)) /\ Len(frames) \in Nat \ {0} /\ Top \in FrameIn(W)
  BY TopFacts
<1>2. PICK v : v = [Top EXCEPT !.ctx = w]
  OBVIOUS
<1>3. v \in FrameIn(W) /\ v.slots = Top.slots /\ v.args = Top.args /\ v.code = Top.code /\ v.ret = Top.ret
  BY <1>1, <1>2 DEF FrameIn
<1>4. frames' = [frames EXCEPT ![Len(frames)] = v]
  BY <1>2 DEF Top
<1>5. Len(frames) \in 1..Len(frames)
  BY <1>1
<1>6. /\ frames' \in Seq(FrameIn(W)) /\ Len(frames') = Len(frames) /\ frames'[Len(frames)] = v
      /\ \A f \in 1..Len(frames) : f # Len(frames) => frames'[f] = frames[f]
  BY <1>1, <1>3, <1>4, <1>5, Replaced
<1>7. HeldIn(W)'
  BY <1>6 DEF Stacks, HeldIn
<1>8. \A f \in 1..Len(frames) : /\ frames'[f].slots = frames[f].slots /\ frames'[f].args = frames[f].args
                                /\ frames'[f].code = frames[f].code /\ frames'[f].ret = frames[f].ret
  BY <1>3, <1>6 DEF Top
<1>9. Level.depth \in 1..Len(frames)
  <2>1. Len(calls) \in 1..Len(calls)
    BY TopFacts
  <2> QED BY <2>1, DepthBounds DEF Level
<1>10. \A f \in 1..Len(frames) : Len(frames'[f].slots) >= NumTemps
  BY <1>8 DEF Stacks, StacksOK
<1>11. \A f \in 1..(Level.depth - 1) : f \in 1..Len(frames) /\ Len(frames'[f].slots) = Len(frames[f].slots)
  BY <1>1, <1>8, <1>9
<1>12. Stacks(W)'
  BY <1>6, <1>7, <1>9, <1>10, <1>11, StacksKept
<1> QED
  BY <1>1, <1>6, <1>8, <1>12 DEF KeepsFrames

\* An object that is made.
LEMMA Made ==
  ASSUME NEW W, NEW class \in W, NEW fields \in FieldsIn(W), NEW id \in Ids \ {0}, NEW o, o = Object(id, class, fields)
  PROVE  o \in ObjectIn(W) /\ o # NoObj /\ o.id = id /\ o.class = class /\ o.fields = fields /\ o.fwd = 0
<1>1. 0 \in 0..Fixed
  BY SpaceFacts
<1>2. o.id = id /\ o.class = class /\ o.fields = fields /\ o.fwd = 0
  BY DEF Object
<1>3. o # NoObj
  BY <1>2 DEF NoObj
<1> QED
  BY <1>1, <1>2, <1>3 DEF Object, ObjectIn

\* The fields of the objects that are made.
LEMMA TaggedFields ==
  ASSUME NEW W, Tagged \in W, NEW n \in 0..2, NEW q, q = [i \in 1..n |-> Tagged]
  PROVE  q \in FieldsIn(W) /\ Len(q) = n
<1>1. CASE n = 0
  BY <1>1, EmptyFields DEF FieldsIn
<1>2. CASE n = 1
  BY <1>2, Listed DEF FieldsIn
<1>3. CASE n = 2
  BY <1>3, Listed DEF FieldsIn
<1> QED
  BY <1>1, <1>2, <1>3

\* The fields of contexts and blocks.
LEMMA PairFields ==
  ASSUME NEW W, NEW v \in W, NEW w \in W
  PROVE  <<v>> \in FieldsIn(W) /\ Len(<<v>>) = 1 /\ <<v, w>> \in FieldsIn(W) /\ Len(<<v, w>>) = 2
  BY Tuples DEF FieldsIn

\* The object an allocation makes: its class and fields are words the program
\* holds.
Allocates(o) ==
  /\ o # NoObj /\ Size(o) = job.size /\ o.id = made + 1 /\ o.fwd = 0
  /\ mem' = [mem EXCEPT ![free + 1] = o] /\ free' = free + Size(o) /\ made' = made + 1
  /\ UNCHANGED <<from, calls, handlers, ensures, log, inTxn, remembered, gc, collections, outcome>> /\ kept' = {}

\* Each allocation puts one object of the size asked for at free.
LEMMA Allocated ==
  ASSUME NEW W, Tagged \in W, Stacks(W), job.kind = "closure" => job.local \in W, JobIn(Word),
         made \in 4..(MaxAllocs + 1), New \/ NewContext \/ NewBlock
  PROVE  \E o \in ObjectIn(W) : Allocates(o)
<1>1. MaxAllocs \in Nat /\ job # NoJob
  <2>1. job # NoJob
    BY DEF New, NewContext, NewBlock, NoJob
  <2> QED BY <2>1, BoundsAssumption
<1>2. made + 1 \in Ids \ {0}
  BY <1>1 DEF JobIn, Ids
<1>3. Top.rcv \in W /\ Top.ctx \in W /\ Top.code \in W
  BY TopFacts
<1>4. CASE New
  <2>1. job.size \in 1..3 /\ Operands > 0
    BY <1>1, <1>4 DEF JobIn, New
  <2>2. Op(0) \in W /\ job.size - 1 \in 0..2
    BY <2>1, OpIn
  <2>3. PICK q : q = [i \in 1..(job.size - 1) |-> Tagged]
    OBVIOUS
  <2>4. q \in FieldsIn(W) /\ Len(q) = job.size - 1
    BY <2>2, <2>3, TaggedFields
  <2>5. PICK o : o = Object(made + 1, Op(0), q)
    OBVIOUS
  <2>6. o \in ObjectIn(W) /\ o # NoObj /\ o.id = made + 1 /\ o.fields = q /\ o.fwd = 0
    BY <1>2, <2>2, <2>4, <2>5, Made
  <2>7. Size(o) = job.size
    BY <2>1, <2>4, <2>6 DEF Size
  <2>8. AllocateObject(Op(0), q)
    BY <1>4, <2>3 DEF New
  <2>9. Allocates(o)
    BY <2>5, <2>6, <2>7, <2>8 DEF AllocateObject, Allocates, chains
  <2> QED BY <2>6, <2>9
<1>5. CASE NewContext
  <2>1. job.size = 2
    BY <1>1, <1>5 DEF JobIn, NewContext
  <2>2. PICK q : q = <<Top.rcv>>
    OBVIOUS
  <2>3. q \in FieldsIn(W) /\ Len(q) = 1
    BY <1>3, <2>2, PairFields
  <2>4. PICK o : o = Object(made + 1, Tagged, q)
    OBVIOUS
  <2>5. o \in ObjectIn(W) /\ o # NoObj /\ o.id = made + 1 /\ o.fields = q /\ o.fwd = 0
    BY <1>2, <2>3, <2>4, Made
  <2>6. Size(o) = job.size
    <3>1. Len(o.fields) = 1
      BY <2>3, <2>5
    <3> QED BY <2>1, <3>1 DEF Size
  <2>7. AllocateObject(Tagged, q)
    BY <1>5, <2>2 DEF NewContext
  <2>8. Allocates(o)
    BY <2>4, <2>5, <2>6, <2>7 DEF AllocateObject, Allocates, chains
  <2> QED BY <2>5, <2>8
<1>6. CASE NewBlock
  <2>1. job.size = 3 /\ job.kind = "closure"
    BY <1>1, <1>6 DEF JobIn, NewBlock
  <2>2. PICK w \in W : w = IF job.tried THEN Top.code ELSE job.local
    BY <1>3, <2>1
  <2>3. PICK q : q = <<Top.ctx, w>>
    OBVIOUS
  <2>4. q \in FieldsIn(W) /\ Len(q) = 2
    BY <1>3, <2>3, PairFields
  <2>5. PICK o : o = Object(made + 1, Tagged, q)
    OBVIOUS
  <2>6. o \in ObjectIn(W) /\ o # NoObj /\ o.id = made + 1 /\ o.fields = q /\ o.fwd = 0
    BY <1>2, <2>4, <2>5, Made
  <2>7. Size(o) = job.size
    <3>1. Len(o.fields) = 2
      BY <2>4, <2>6
    <3> QED BY <2>1, <3>1 DEF Size
  <2>8. AllocateObject(Tagged, q)
    BY <1>6, <2>2, <2>3 DEF NewBlock
  <2>9. Allocates(o)
    BY <2>5, <2>6, <2>7, <2>8 DEF AllocateObject, Allocates, chains
  <2> QED BY <2>6, <2>9
<1> QED
  BY <1>4, <1>5, <1>6

\* The frames when the object is there.
LEMMA AllocatedStacks ==
  ASSUME NEW W, Stacks(W), free + 1 \in W, job.kind = "new" => Operands > 0, New \/ NewContext \/ NewBlock
  PROVE  Stacks(W)' /\ KeepsFrames /\ Len(frames') = Len(frames)
<1>1. UNCHANGED <<calls, handlers, ensures, log>> /\ log' \in Seq([1..2 -> W])
  BY DEF New, NewContext, NewBlock, AllocateObject, chains, Stacks, HeldIn
<1>2. CASE New
  <2>1. Operands >= 1 /\ Len(Top.slots) \in Nat
    BY <1>2, TopFacts DEF New, Operands
  <2>2. Popped(1) \in Seq(W) /\ Len(Popped(1)) = Len(Top.slots) - 1 /\ Len(Popped(1)) >= NumTemps
    BY <2>1, PoppedIn
  <2>3. PICK p : p = Popped(1)
    OBVIOUS
  <2>4. PICK q : q = Append(p, free + 1)
    OBVIOUS
  <2>5. q \in Seq(W) /\ Len(q) = Len(p) + 1
    BY <2>2, <2>3, <2>4, Appended
  <2>6. Len(q) >= NumTemps
    BY <2>1, <2>2, <2>3, <2>5, SpaceAssumption
  <2>7. frames' = WithSlots(q)
    BY <1>2, <2>3, <2>4 DEF New
  <2> QED BY <1>1, <2>5, <2>6, <2>7, SlotStep
<1>3. CASE NewContext
  <2>1. frames' = [frames EXCEPT ![Len(frames)].ctx = free + 1]
    BY <1>3 DEF NewContext
  <2> QED BY <1>1, <2>1, CtxStep
<1>4. CASE NewBlock
  <2>1. frames' = WithSlots(Pushed(free + 1))
    BY <1>4 DEF NewBlock
  <2>2. Pushed(free + 1) \in Seq(W) /\ Len(Pushed(free + 1)) >= NumTemps
    BY PushedIn
  <2> QED BY <1>1, <2>1, <2>2, SlotStep
<1> QED
  BY <1>2, <1>3, <1>4

\* The room there was, and the job that is left.
LEMMA AllocationRoom ==
  ASSUME NEW o, Allocates(o), New \/ NewContext \/ NewBlock
  PROVE  free + Size(o) <= from + SpaceWords /\ gc.phase = "idle"
  BY DEF Allocates, New, NewContext, NewBlock, Fits

\* Allocations that succeed keep the invariant.
LEMMA AllocationsKeep ==
  ASSUME BInv, New \/ NewContext \/ NewBlock
  PROVE  BInv'
<1>1. /\ Stacks(Word) /\ mem \in Heap(Word) /\ from \in {0, SpaceWords} /\ To \in {0, SpaceWords}
      /\ Tiles(mem, from, free) /\ Tagged \in Word
      /\ inTxn \in BOOLEAN /\ made \in 4..(MaxAllocs + 1) /\ collections \in Nat
  BY BFacts
<1>2. job # NoJob /\ JobIn(Word) /\ job.local \in Word
  BY DEF New, NewContext, NewBlock, NoJob, BInv, JobIn, Jobs
<1>3. PICK o \in ObjectIn(Word) : Allocates(o)
  BY <1>1, <1>2, Allocated
<1>4. /\ free + Size(o) <= from + SpaceWords /\ gc.phase = "idle"
      /\ o # NoObj /\ o.id = made + 1 /\ mem' = [mem EXCEPT ![free + 1] = o] /\ free' = free + Size(o)
  BY <1>3, AllocationRoom DEF Allocates
<1>5. PICK n : n = mem'
  OBVIOUS
<1>6. /\ Tiles(n, from, free + Size(o)) /\ n \in Heap(Word)
      /\ mem[free + 1] = NoObj /\ free + 1 \in Space(from)
  BY <1>1, <1>4, <1>5, TilesGrown
<1>7. free + 1 \in Word /\ free + 1 \in Words
  BY <1>1, <1>6, SpaceFacts, WordFacts
<1>8. Tiles(mem, from, free)'
  <2>1. from' = from
    BY <1>3 DEF Allocates
  <2> QED BY <1>4, <1>5, <1>6, <2>1 DEF Tiles, Space
<1>9. \A a \in Words : mem'[a] = IF a = free + 1 THEN o ELSE mem[a]
  BY <1>1, <1>4 DEF Heap
<1>10. \A a \in Words : mem'[a] = NoObj \/ mem'[a].id # 0
  <2>1. o.id # 0
    BY <1>1, <1>4
  <2> QED BY <1>9, <2>1 DEF BInv, HeapOK
<1>11. HeapOK'
  BY <1>1, <1>3, <1>5, <1>6, <1>8, <1>10 DEF HeapOK, Heap, Allocates
<1>12. gc = NoGc /\ gc' = gc /\ \A a \in Space(To) : mem'[a] = NoObj
  <2>1. gc = NoGc /\ \A a \in Space(To) : mem[a] = NoObj
    BY <1>4, BFacts
  <2>2. \A a \in Space(To) : a \in Words /\ a # free + 1
    BY <1>1, <1>6, SpaceFacts DEF To
  <2> QED BY <1>3, <1>9, <2>1, <2>2 DEF Allocates
<1>13. GcOK'
  BY <1>3, <1>12 DEF GcOK, Allocates, To, Space
<1>14. job.kind = "new" => Operands > 0
  BY <1>2 DEF JobIn
<1>15. Stacks(Word)' /\ Len(frames') = Len(frames)
  BY <1>1, <1>7, <1>14, AllocatedStacks
<1>17. JobIn(Word)' /\ made' \in 4..(MaxAllocs + 1)
  <2>1. made' = made + 1 /\ MaxAllocs \in Nat
    BY <1>3, BoundsAssumption DEF Allocates
  <2>2. CASE NewContext
    <3>1. made < MaxAllocs /\ job.kind = "closure"
      BY <1>2, <2>2 DEF JobIn, NewContext
    <3>2. job' = [job EXCEPT !.stage = "block", !.tried = FALSE, !.size = 3]
      BY <2>2 DEF NewContext
    <3>3. job \in Jobs(Word)
      BY <1>2 DEF JobIn
    <3>4. job' \in Jobs(Word) /\ job'.kind = "closure" /\ job'.stage = "block" /\ job'.size = 3
      <4>0. PICK no \in BOOLEAN : no = FALSE
        OBVIOUS
      <4>1. job' \in Jobs(Word)
        <5>1. job' = [job EXCEPT !.stage = "block", !.tried = no, !.size = 3]
          BY <3>2, <4>0
        <5>2. PICK j : j = [job EXCEPT !.stage = "block", !.tried = no, !.size = 3]
          OBVIOUS
        <5>3. PICK k : k = 3 /\ k \in 0..3
          OBVIOUS
        <5>4. j = [job EXCEPT !.stage = "block", !.tried = no, !.size = k]
          BY <5>2, <5>3
        <5>5. j \in Jobs(Word)
          BY <3>3, <5>3, <5>4 DEF Jobs
        <5> QED BY <5>1, <5>2, <5>5
      <4>2. job'.kind = job.kind /\ job'.stage = "block" /\ job'.size = 3
        BY <3>2, <3>3 DEF Jobs
      <4> QED BY <3>1, <4>1, <4>2
    <3>5. (job \in Jobs(Word))'
      BY <3>4 DEF Jobs, Word, Fixed
    <3>6. made + 1 <= MaxAllocs
      BY <1>1, <2>1, <3>1
    <3>7. made' <= MaxAllocs /\ made' \in 4..(MaxAllocs + 1)
      BY <1>1, <2>1, <3>6
    <3>8. JobIn(Word)'
      BY <3>4, <3>5, <3>7, Zenon DEF JobIn
    <3> QED BY <3>7, <3>8
  <2>3. CASE ~NewContext
    <3>1. job' = NoJob
      BY <2>3 DEF New, NewBlock
    <3>2. NoJob \in Jobs(Word)
      BY WordFacts DEF NoJob, Jobs
    <3>3. made <= MaxAllocs
      BY <1>1, <1>2, <2>1 DEF JobIn
    <3> QED BY <1>1, <2>1, <3>1, <3>2, <3>3 DEF JobIn, Jobs, Word, Fixed
  <2> QED BY <2>2, <2>3
<1>18. (outcome \in {"running", "trap", "wild"} /\ collections \in Nat /\ inTxn \in BOOLEAN)'
  BY <1>1, <1>3 DEF Allocates, BInv
<1> QED
  BY <1>11, <1>13, <1>15, <1>17, <1>18 DEF BInv, Stacks

-----------------------------------------------------------------------------
(* The order of the roots. *)

Kinds  == {"rcv", "code", "ctx", "slot", "arg", "handler", "ensure", "log", "table"}
LocSet == [k : Kinds, f : Nat, i : Nat]
\* The places that hold words of W.
ReadsIn(W) == {l \in LocSet : Read(l) \in W}
Occurs(l, q) == \E n \in 1..Len(q) : q[n] = l

\* A place is made of its parts.
LEMMA LocsAreLocs ==
  ASSUME NEW k \in Kinds, NEW f \in Nat, NEW i \in Nat
  PROVE  /\ Loc(k, f, i) \in LocSet
         /\ Loc(k, f, i).k = k /\ Loc(k, f, i).f = f /\ Loc(k, f, i).i = i
  BY DEF Loc, LocSet

\* What is at each kind of place.
LEMMA ReadAt ==
  ASSUME NEW f, NEW i
  PROVE  /\ Read(Loc("rcv", f, i)) = frames[f].rcv /\ Read(Loc("code", f, i)) = frames[f].code
         /\ Read(Loc("ctx", f, i)) = frames[f].ctx /\ Read(Loc("slot", f, i)) = frames[f].slots[i]
         /\ Read(Loc("arg", f, i)) = frames[f].args[i]
         /\ Read(Loc("handler", f, i)) = handlers[f][i] /\ Read(Loc("ensure", f, i)) = ensures[f][i]
         /\ Read(Loc("log", f, i)) = log[f][i] /\ Read(Loc("table", f, i)) = calls[f].table
<1>1. \A k : Loc(k, f, i).k = k /\ Loc(k, f, i).f = f /\ Loc(k, f, i).i = i
  BY DEF Loc
<1> HIDE DEF Loc
<1>2. Read(Loc("rcv", f, i)) = frames[f].rcv /\ Read(Loc("code", f, i)) = frames[f].code
  BY <1>1 DEF Read
<1>3. Read(Loc("ctx", f, i)) = frames[f].ctx /\ Read(Loc("slot", f, i)) = frames[f].slots[i]
  BY <1>1 DEF Read
<1>4. Read(Loc("arg", f, i)) = frames[f].args[i]
  BY <1>1 DEF Read
<1>5. Read(Loc("handler", f, i)) = handlers[f][i] /\ Read(Loc("ensure", f, i)) = ensures[f][i]
  BY <1>1 DEF Read
<1>6. Read(Loc("log", f, i)) = log[f][i] /\ Read(Loc("table", f, i)) = calls[f].table
  BY <1>1 DEF Read
<1> QED
  BY <1>2, <1>3, <1>4, <1>5, <1>6

\* What occurs in a part occurs in the whole.
LEMMA OccursJoined ==
  ASSUME NEW S, NEW p \in Seq(S), NEW q \in Seq(S), NEW l, Occurs(l, p) \/ Occurs(l, q)
  PROVE  Occurs(l, p \o q)
<1>1. PICK r : r = p \o q
  OBVIOUS
<1>2. /\ Len(p) \in Nat /\ Len(q) \in Nat /\ Len(r) = Len(p) + Len(q)
      /\ \A j \in 1..Len(p) : r[j] = p[j]
      /\ \A j \in 1..Len(q) : r[Len(p) + j] = q[j]
  BY <1>1, Joined
<1>3. CASE Occurs(l, p)
  <2>1. PICK n \in 1..Len(p) : p[n] = l
    BY <1>3 DEF Occurs
  <2>2. n \in 1..Len(r) /\ r[n] = l
    BY <1>2, <2>1
  <2> QED BY <1>1, <2>2 DEF Occurs
<1>4. CASE Occurs(l, q)
  <2>1. PICK n \in 1..Len(q) : q[n] = l
    BY <1>4 DEF Occurs
  <2>2. Len(p) + n \in 1..Len(r) /\ r[Len(p) + n] = l
    BY <1>2, <2>1
  <2> QED BY <1>1, <2>2 DEF Occurs
<1> QED
  BY <1>3, <1>4

\* The words of a frame.
LEMMA FrameLocsIn ==
  ASSUME NEW W, Stacks(W), NEW f \in 1..Len(frames)
  PROVE  /\ FrameLocs(f) \in Seq(ReadsIn(W))
         /\ \A k \in {"rcv", "code", "ctx"} : Occurs(Loc(k, f, 0), FrameLocs(f))
         /\ \A i \in 1..Len(frames[f].slots) : Occurs(Loc("slot", f, i), FrameLocs(f))
<1>1. frames[f] \in FrameIn(W) /\ f \in Nat
  BY TopFacts, Elements
<1>2. /\ frames[f].rcv \in W /\ frames[f].code \in W /\ frames[f].ctx \in W
      /\ frames[f].slots \in Seq(W)
  BY <1>1 DEF FrameIn
<1>3. PICK L \in Nat : L = Len(frames[f].slots)
  BY <1>2
<1>4. \A k \in {"rcv", "code", "ctx"} : Loc(k, f, 0) \in ReadsIn(W)
  <2>1. \A k \in {"rcv", "code", "ctx"} : Loc(k, f, 0) \in LocSet
    BY <1>1, LocsAreLocs DEF Kinds
  <2>2. \A k \in {"rcv", "code", "ctx"} : Read(Loc(k, f, 0)) \in W
    BY <1>2, ReadAt
  <2> QED BY <2>1, <2>2 DEF ReadsIn
<1>5. ASSUME NEW i \in 1..L PROVE Loc("slot", f, i) \in ReadsIn(W)
  <2>1. Loc("slot", f, i) \in LocSet
    BY <1>1, LocsAreLocs DEF Kinds
  <2>2. Read(Loc("slot", f, i)) \in W
    BY <1>2, <1>3, ReadAt
  <2> QED BY <2>1, <2>2 DEF ReadsIn
<1>6. PICK p : p = <<Loc("rcv", f, 0), Loc("code", f, 0), Loc("ctx", f, 0)>>
  OBVIOUS
<1>7. p \in Seq(ReadsIn(W)) /\ Len(p) = 3 /\ p[1] = Loc("rcv", f, 0) /\ p[2] = Loc("code", f, 0) /\ p[3] = Loc("ctx", f, 0)
  <2> HIDE DEF ReadsIn
  <2>1. PICK a, b, c : a = Loc("rcv", f, 0) /\ b = Loc("code", f, 0) /\ c = Loc("ctx", f, 0)
    OBVIOUS
  <2>2. a \in ReadsIn(W) /\ b \in ReadsIn(W) /\ c \in ReadsIn(W) /\ p = <<a, b, c>>
    BY <1>4, <1>6, <2>1
  <2>3. <<a, b, c>> \in Seq(ReadsIn(W)) /\ Len(<<a, b, c>>) = 3
    BY <2>2
  <2> QED BY <2>1, <2>2, <2>3
<1>8. PICK q : q = [i \in 1..L |-> Loc("slot", f, i)]
  OBVIOUS
<1>9. q \in Seq(ReadsIn(W)) /\ Len(q) = L
  <2>1. q \in [1..L -> ReadsIn(W)]
    BY <1>5, <1>8
  <2> QED BY <2>1, Listed
<1>10. FrameLocs(f) = p \o q
  BY <1>3, <1>6, <1>8 DEF FrameLocs
<1>11. \A k \in {"rcv", "code", "ctx"} : Occurs(Loc(k, f, 0), p)
  BY <1>7 DEF Occurs
<1>12. \A i \in 1..L : Occurs(Loc("slot", f, i), q)
  BY <1>8, <1>9 DEF Occurs
<1>13. p \o q \in Seq(ReadsIn(W))
  BY <1>7, <1>9
<1> QED
  BY <1>3, <1>7, <1>9, <1>10, <1>11, <1>12, <1>13, OccursJoined

\* The arguments of a frame, if they are listed.
LEMMA OverscanIn ==
  ASSUME NEW W, Stacks(W), NEW over, NEW f \in 1..Len(frames)
  PROVE  Overscan(over, f) \in Seq(ReadsIn(W))
<1>1. frames[f] \in FrameIn(W) /\ f \in Nat
  BY TopFacts, Elements
<1>2. frames[f].args \in Seq(W)
  BY <1>1 DEF FrameIn
<1>3. PICK L \in Nat : L = Len(frames[f].args)
  BY <1>2
<1>4. ASSUME NEW i \in 1..L PROVE Loc("arg", f, i) \in ReadsIn(W)
  <2>1. Loc("arg", f, i) \in LocSet
    BY <1>1, LocsAreLocs DEF Kinds
  <2>2. Read(Loc("arg", f, i)) \in W
    BY <1>2, <1>3, ReadAt
  <2> QED BY <2>1, <2>2 DEF ReadsIn
<1>5. PICK q : q = [i \in 1..L |-> Loc("arg", f, i)]
  OBVIOUS
<1>6. q \in [1..L -> ReadsIn(W)]
  BY <1>4, <1>5
<1>7. Overscan(over, f) = q \/ Overscan(over, f) = <<>>
  BY <1>3, <1>5 DEF Overscan
<1>8. <<>> \in Seq(ReadsIn(W))
  OBVIOUS
<1> QED
  BY <1>6, <1>7, <1>8, Listed

\* All frames, from the running one down.
StackWalk(over, r) ==
  r = [f \in 0..Len(frames) |-> IF f = 0 THEN <<>> ELSE FrameLocs(f) \o Overscan(over, f) \o r[f - 1]]

\* The recursion of StackLocs has a value.
LEMMA StackWalkExists ==
  ASSUME NEW W, Stacks(W), NEW over
  PROVE  \E r : StackWalk(over, r) /\ StackLocs(over) = r[Len(frames)]
<1> DEFINE V == Seq(ReadsIn(W))
           F == [p \in (1..Len(frames)) \X V |-> FrameLocs(p[1]) \o Overscan(over, p[1]) \o p[2]]
<1>1. Len(frames) \in Nat /\ <<>> \in V
  BY TopFacts
<1>2. ASSUME NEW f \in 1..Len(frames), NEW q \in V
      PROVE  F[<<f, q>>] = FrameLocs(f) \o Overscan(over, f) \o q /\ F[<<f, q>>] \in V
  <2>1. FrameLocs(f) \in V /\ Overscan(over, f) \in V
    BY FrameLocsIn, OverscanIn
  <2>2. FrameLocs(f) \o Overscan(over, f) \o q \in V
    BY <2>1
  <2> QED BY <2>2
<1>3. PICK r : StackWalk(over, r)
  <2> HIDE DEF V, F
  <2>1. Solvable(Len(frames), V, <<>>, F)
    BY <1>1, <1>2, RecursionExists
  <2>2. PICK r \in [0..Len(frames) -> V] :
          r[0] = <<>> /\ \A f \in 1..Len(frames) : r[f] = F[<<f, r[f - 1]>>]
    BY <2>1 DEF Solvable
  <2>3. \A f \in 1..Len(frames) : f - 1 \in 0..Len(frames)
    BY <1>1
  <2>4. \A f \in 1..Len(frames) : r[f] = FrameLocs(f) \o Overscan(over, f) \o r[f - 1]
    BY <1>2, <2>2, <2>3
  <2>5. \A f \in 0..Len(frames) : r[f] = IF f = 0 THEN <<>> ELSE FrameLocs(f) \o Overscan(over, f) \o r[f - 1]
    BY <1>1, <2>2, <2>4
  <2>6. r = [f \in 0..Len(frames) |-> r[f]]
    BY <2>2
  <2> QED BY <2>5, <2>6 DEF StackWalk
<1>4. PICK r2 : r2 = CHOOSE q : StackWalk(over, q)
  OBVIOUS
<1>5. StackWalk(over, r2)
  BY <1>3, <1>4
<1>6. StackLocs(over) = r2[Len(frames)]
  BY <1>4 DEF StackLocs, StackWalk
<1> QED
  BY <1>5, <1>6

\* Every word of the stack is listed, and what is listed is a word.
LEMMA StackLocsIn ==
  ASSUME NEW W, Stacks(W), NEW over
  PROVE  /\ StackLocs(over) \in Seq(ReadsIn(W))
         /\ \A f \in 1..Len(frames) :
              /\ \A k \in {"rcv", "code", "ctx"} : Occurs(Loc(k, f, 0), StackLocs(over))
              /\ \A i \in 1..Len(frames[f].slots) : Occurs(Loc("slot", f, i), StackLocs(over))
<1>1. Len(frames) \in Nat
  BY TopFacts
<1>2. PICK r : StackWalk(over, r) /\ StackLocs(over) = r[Len(frames)]
  BY StackWalkExists
<1>3. r[0] = <<>> /\ \A f \in 1..Len(frames) : r[f] = FrameLocs(f) \o Overscan(over, f) \o r[f - 1]
  <2>1. \A f \in 0..Len(frames) : r[f] = IF f = 0 THEN <<>> ELSE FrameLocs(f) \o Overscan(over, f) \o r[f - 1]
    BY <1>2, Zenon DEF StackWalk
  <2>2. 0 \in 0..Len(frames) /\ \A f \in 1..Len(frames) : f \in 0..Len(frames) /\ f # 0
    BY <1>1
  <2> QED BY <2>1, <2>2, Zenon
<1> DEFINE Good(e) == r[e] \in Seq(ReadsIn(W)) /\ \A f \in 1..e : \A l : Occurs(l, FrameLocs(f)) => Occurs(l, r[e])
           S == {e \in Nat : e <= Len(frames) => Good(e)}
<1>4. 0 \in S
  <2>1. <<>> \in Seq(ReadsIn(W))
    OBVIOUS
  <2>2. Good(0)
    BY <1>3, <2>1
  <2> HIDE DEF Good
  <2> QED BY <2>2
<1>5. ASSUME NEW e \in Nat, e \in S, e + 1 <= Len(frames) PROVE Good(e + 1)
  <2>1. Good(e) /\ e + 1 \in 1..Len(frames) /\ (e + 1) - 1 = e
    <3>1. e <= Len(frames) /\ e + 1 \in 1..Len(frames) /\ (e + 1) - 1 = e
      BY <1>1, <1>5
    <3> HIDE DEF Good
    <3> QED BY <1>5, <3>1
  <2>2. PICK p, o, q : p = FrameLocs(e + 1) /\ o = Overscan(over, e + 1) /\ q = r[e]
    OBVIOUS
  <2>3. p \in Seq(ReadsIn(W)) /\ o \in Seq(ReadsIn(W)) /\ q \in Seq(ReadsIn(W))
    BY <2>1, <2>2, FrameLocsIn, OverscanIn
  <2>4. r[e + 1] = (p \o o) \o q
    BY <1>3, <2>1, <2>2
  <2>5. p \o o \in Seq(ReadsIn(W)) /\ (p \o o) \o q \in Seq(ReadsIn(W))
    BY <2>3
  <2>6. ASSUME NEW f \in 1..(e + 1), NEW l, Occurs(l, FrameLocs(f)) PROVE Occurs(l, (p \o o) \o q)
    <3>1. CASE f = e + 1
      <4>1. Occurs(l, p \o o)
        BY <2>2, <2>3, <2>6, <3>1, OccursJoined
      <4> QED BY <2>3, <2>5, <4>1, OccursJoined
    <3>2. CASE f # e + 1
      <4>1. f \in 1..e
        BY <3>2
      <4>2. Occurs(l, q)
        BY <2>1, <2>2, <2>6, <4>1
      <4> QED BY <2>3, <2>5, <4>2, OccursJoined
    <3> QED BY <3>1, <3>2
  <2> QED BY <2>4, <2>5, <2>6
<1>6. \A e \in Nat : e \in S => e + 1 \in S
  <2> HIDE DEF Good
  <2> QED BY <1>5
<1> HIDE DEF S
<1>7. Nat \subseteq S
  BY <1>4, <1>6, NatSetInduction
<1>8. Good(Len(frames))
  <2> HIDE DEF Good
  <2> QED BY <1>1, <1>7 DEF S
<1> QED
  BY <1>2, <1>8, FrameLocsIn

\* q lists the places of a chain whose elements have the width w.
Covers(k, chain, w, q) ==
  /\ Len(q) \in Nat /\ q = [n \in 1..Len(q) |-> q[n]]
  /\ \A n \in 1..Len(q) : \E f \in 1..Len(chain), i \in 1..w : q[n] = Loc(k, f, i)
  /\ \A f \in 1..Len(chain), i \in 1..w : Occurs(Loc(k, f, i), q)
ReadsAs(k, chain) == \A f, i : Read(Loc(k, f, i)) = chain[f][i]

\* ChainLocs lists every place of a chain.
LEMMA ChainLocsCover ==
  ASSUME NEW k, NEW chain, Len(chain) \in Nat, NEW w \in {2, 3}, NEW q, q = ChainLocs(k, chain, w)
  PROVE  Covers(k, chain, w, q)
<1>1. PICK L \in Nat : L = Len(chain)
  OBVIOUS
<1>2. L * w \in Nat
  OBVIOUS
<1>3. q = [n \in 1..(L * w) |-> Loc(k, L - ((n - 1) \div w), ((n - 1) % w) + 1)]
  BY <1>1 DEF ChainLocs
<1>4. Len(q) = L * w /\ q = [n \in 1..Len(q) |-> q[n]]
  <2>1. Len(q) = L * w
    BY <1>2, <1>3
  <2> QED BY <1>3, <2>1
<1>5. ASSUME NEW n \in 1..Len(q) PROVE \E f \in 1..L, i \in 1..w : q[n] = Loc(k, f, i)
  <2>1. n \in 1..(L * w)
    BY <1>4
  <2>2. L - ((n - 1) \div w) \in 1..L /\ ((n - 1) % w) + 1 \in 1..w
    <3>1. CASE w = 2
      BY <2>1, <3>1
    <3>2. CASE w = 3
      BY <2>1, <3>2
    <3> QED BY <3>1, <3>2
  <2> QED BY <1>3, <2>1, <2>2
<1>6. ASSUME NEW f \in 1..L, NEW i \in 1..w PROVE Occurs(Loc(k, f, i), q)
  <2>1. PICK n : n = (L - f) * w + i
    OBVIOUS
  <2>2. n \in 1..(L * w) /\ (n - 1) \div w = L - f /\ (n - 1) % w = i - 1
    <3>1. CASE w = 2
      <4>1. i = 1 \/ i = 2
        BY <3>1
      <4> QED BY <2>1, <3>1, <4>1
    <3>2. CASE w = 3
      <4>1. i = 1 \/ i = 2 \/ i = 3
        BY <3>2
      <4> QED BY <2>1, <3>2, <4>1
    <3> QED BY <3>1, <3>2
  <2>3. L - (L - f) = f /\ (i - 1) + 1 = i
    OBVIOUS
  <2>4. q[n] = Loc(k, f, i)
    BY <1>3, <2>2, <2>3
  <2> QED BY <1>4, <2>2, <2>4 DEF Occurs
<1> QED
  BY <1>1, <1>2, <1>4, <1>5, <1>6 DEF Covers

\* LogLocs lists every place of the log.
LEMMA LogLocsCover ==
  ASSUME NEW k, Len(log) \in Nat, NEW q, q = LogLocs(k)
  PROVE  Covers(k, log, 2, q)
<1>1. PICK L \in Nat : L = Len(log)
  OBVIOUS
<1>2. q = [n \in 1..(L * 2) |-> Loc(k, ((n + 1) \div 2), ((n - 1) % 2) + 1)]
  BY <1>1 DEF LogLocs
<1>3. Len(q) = L * 2 /\ q = [n \in 1..Len(q) |-> q[n]]
  <2>1. Len(q) = L * 2
    BY <1>2
  <2> QED BY <1>2, <2>1
<1>4. ASSUME NEW n \in 1..Len(q) PROVE \E f \in 1..L, i \in 1..2 : q[n] = Loc(k, f, i)
  <2>1. n \in 1..(L * 2)
    BY <1>3
  <2>2. ((n + 1) \div 2) \in 1..L /\ ((n - 1) % 2) + 1 \in 1..2
    BY <2>1
  <2> QED BY <1>2, <2>1, <2>2
<1>5. ASSUME NEW f \in 1..L, NEW i \in 1..2 PROVE Occurs(Loc(k, f, i), q)
  <2>1. PICK n : n = (f - 1) * 2 + i
    OBVIOUS
  <2>2. n \in 1..(L * 2) /\ (n + 1) \div 2 = f /\ ((n - 1) % 2) + 1 = i
    <4>1. i = 1 \/ i = 2
      OBVIOUS
    <4> QED BY <2>1, <4>1
  <2>4. q[n] = Loc(k, f, i)
    BY <1>2, <2>2
  <2> QED BY <1>3, <2>2, <2>4 DEF Occurs
<1> QED
  BY <1>1, <1>3, <1>4, <1>5 DEF Covers

\* The places of a chain whose elements are words.
LEMMA ChainReads ==
  ASSUME NEW W, NEW k \in {"handler", "ensure", "log"}, NEW chain, NEW w \in {2, 3}, chain \in Seq([1..w -> W]),
         ReadsAs(k, chain), NEW q, Covers(k, chain, w, q)
  PROVE  q \in Seq(ReadsIn(W))
<1>1. ASSUME NEW n \in 1..Len(q) PROVE q[n] \in ReadsIn(W)
  <2>1. PICK f \in 1..Len(chain), i \in 1..w : q[n] = Loc(k, f, i)
    BY DEF Covers
  <2>2. chain[f] \in [1..w -> W] /\ f \in Nat /\ i \in Nat
    BY Elements
  <2>3. Loc(k, f, i) \in LocSet
    BY <2>2, LocsAreLocs DEF Kinds
  <2>4. Read(Loc(k, f, i)) \in W
    BY <2>2 DEF ReadsAs
  <2> QED BY <2>1, <2>3, <2>4 DEF ReadsIn
<1>2. q \in [1..Len(q) -> ReadsIn(W)]
  BY <1>1 DEF Covers
<1> QED
  BY <1>2, Listed DEF Covers

\* The places that the collector takes as roots, by what they are.
IsRoot(l) ==
  \/ \E f \in 1..Len(frames) :
       \/ l \in {Loc("rcv", f, 0), Loc("code", f, 0), Loc("ctx", f, 0)}
       \/ \E i \in 1..Len(frames[f].slots) : l = Loc("slot", f, i)
  \/ \E f \in 1..Len(handlers), i \in 1..3 : l = Loc("handler", f, i)
  \/ \E f \in 1..Len(ensures), i \in 1..2 : l = Loc("ensure", f, i)
  \/ \E f \in 1..Len(log), i \in 1..2 : l = Loc("log", f, i)
  \/ l = Loc("table", Len(calls), 0)

\* All that is collected is a word of W, and every root is.
LEMMA OrderFacts ==
  ASSUME NEW W, Stacks(W), NEW over
  PROVE  /\ CollectOrder(over) \in Seq(ReadsIn(W))
         /\ \A l : IsRoot(l) => Occurs(l, CollectOrder(over))
<1>1. /\ handlers \in Seq([1..3 -> W]) /\ ensures \in Seq([1..2 -> W]) /\ log \in Seq([1..2 -> W])
      /\ Len(handlers) \in Nat /\ Len(ensures) \in Nat /\ Len(log) \in Nat
  BY Elements DEF Stacks, HeldIn
<1>2. PICK s, h, e, g, t : /\ s = StackLocs(over) /\ h = ChainLocs("handler", handlers, 3) /\ e = ChainLocs("ensure", ensures, 2)
                           /\ g = LogLocs("log") /\ t = <<Loc("table", Len(calls), 0)>>
  OBVIOUS
<1>3. /\ s \in Seq(ReadsIn(W))
      /\ \A f \in 1..Len(frames) : /\ \A k \in {"rcv", "code", "ctx"} : Occurs(Loc(k, f, 0), s)
                                   /\ \A i \in 1..Len(frames[f].slots) : Occurs(Loc("slot", f, i), s)
  BY <1>2, StackLocsIn
<1>4. h \in Seq(ReadsIn(W)) /\ \A f \in 1..Len(handlers), i \in 1..3 : Occurs(Loc("handler", f, i), h)
  <2>1. Covers("handler", handlers, 3, h)
    BY <1>1, <1>2, ChainLocsCover
  <2>2. ReadsAs("handler", handlers)
    BY ReadAt DEF ReadsAs
  <2>3. h \in Seq(ReadsIn(W))
    BY <1>1, <2>1, <2>2, ChainReads
  <2> QED BY <2>1, <2>3 DEF Covers
<1>5. e \in Seq(ReadsIn(W)) /\ \A f \in 1..Len(ensures), i \in 1..2 : Occurs(Loc("ensure", f, i), e)
  <2>1. Covers("ensure", ensures, 2, e)
    BY <1>1, <1>2, ChainLocsCover
  <2>2. ReadsAs("ensure", ensures)
    BY ReadAt DEF ReadsAs
  <2>3. e \in Seq(ReadsIn(W))
    BY <1>1, <2>1, <2>2, ChainReads
  <2> QED BY <2>1, <2>3 DEF Covers
<1>6. g \in Seq(ReadsIn(W)) /\ \A f \in 1..Len(log), i \in 1..2 : Occurs(Loc("log", f, i), g)
  <2>1. Covers("log", log, 2, g)
    BY <1>1, <1>2, LogLocsCover
  <2>2. ReadsAs("log", log)
    BY ReadAt DEF ReadsAs
  <2>3. g \in Seq(ReadsIn(W))
    BY <1>1, <2>1, <2>2, ChainReads
  <2> QED BY <2>1, <2>3 DEF Covers
<1>7. t \in Seq(ReadsIn(W)) /\ Occurs(Loc("table", Len(calls), 0), t)
  <2>1. Level \in CallIn(W) /\ Len(calls) \in Nat
    BY TopFacts
  <2>2. Read(Loc("table", Len(calls), 0)) = Level.table /\ Level.table \in W
    BY <2>1, ReadAt DEF Level, CallIn
  <2>3. Loc("table", Len(calls), 0) \in LocSet
    BY <2>1, LocsAreLocs DEF Kinds
  <2>4. PICK l \in ReadsIn(W) : l = Loc("table", Len(calls), 0)
    BY <2>2, <2>3 DEF ReadsIn
  <2>5. t = <<l>>
    BY <1>2, <2>4
  <2>6. t \in Seq(ReadsIn(W)) /\ Len(t) = 1 /\ t[1] = l
    BY <2>4, <2>5
  <2> QED BY <2>4, <2>6 DEF Occurs
<1>8. CollectOrder(over) = (((s \o h) \o e) \o g) \o t
  BY <1>2 DEF CollectOrder
<1>9. PICK a, b, c : a = s \o h /\ b = a \o e /\ c = b \o g
  OBVIOUS
<1>10. a \in Seq(ReadsIn(W)) /\ b \in Seq(ReadsIn(W)) /\ c \in Seq(ReadsIn(W)) /\ c \o t \in Seq(ReadsIn(W))
  BY <1>3, <1>4, <1>5, <1>6, <1>7, <1>9
<1>11. CollectOrder(over) = c \o t
  BY <1>8, <1>9
<1>12. \A l : Occurs(l, c) \/ Occurs(l, t) => Occurs(l, CollectOrder(over))
  BY <1>7, <1>10, <1>11, OccursJoined
<1>13. \A l : Occurs(l, b) \/ Occurs(l, g) => Occurs(l, c)
  BY <1>6, <1>9, <1>10, OccursJoined
<1>14. \A l : Occurs(l, a) \/ Occurs(l, e) => Occurs(l, b)
  BY <1>5, <1>9, <1>10, OccursJoined
<1>15. \A l : Occurs(l, s) \/ Occurs(l, h) => Occurs(l, a)
  BY <1>3, <1>4, <1>9, <1>10, OccursJoined
<1>16. ASSUME NEW l, IsRoot(l) PROVE Occurs(l, CollectOrder(over))
  <2>1. Occurs(l, s) \/ Occurs(l, h) \/ Occurs(l, e) \/ Occurs(l, g) \/ Occurs(l, t)
    BY <1>3, <1>4, <1>5, <1>6, <1>7, <1>16 DEF IsRoot
  <2> QED BY <1>12, <1>13, <1>14, <1>15, <2>1
<1> QED
  BY <1>8, <1>10, <1>11, <1>16

\* The roots go back in the order in which they came.
LEMMA SameOrder == RestoreOrder = Order
  BY DEF RestoreOrder, Order, CollectOrder

-----------------------------------------------------------------------------
(* gc_copy_object and the copying of a list of words. *)

CopyStates == [mem : Heap(Word), free : Nat, out : Seq(Word), full : BOOLEAN]
InTo(p)    == p \in To..(To + SpaceWords)

\* What one word may come to: the word goes on as it is, it leads to a copy,
\* there is no copying it, or it is copied.
Same(st, n)      == n.mem = st.mem /\ n.free = st.free
Answered(st, n, w) == n.out = Append(st.out, w)
Kept(st, w, n)   == Same(st, n) /\ Answered(st, n, w) /\ n.full = st.full /\ ~(IsPointer(w) /\ InSpace(from, w))
Stuck(st, w, n)  == /\ Same(st, n) /\ Answered(st, n, w) /\ n.full = TRUE /\ InSpace(from, w)
                    /\ \/ st.mem[w] = NoObj
                       \/ st.mem[w].fwd = 0 /\ st.free + Size(st.mem[w]) > To + SpaceWords
Led(st, w, n)    == /\ Same(st, n) /\ Answered(st, n, st.mem[w].fwd) /\ n.full = st.full
                    /\ InSpace(from, w) /\ st.mem[w] # NoObj /\ st.mem[w].fwd # 0
Copied(st, w, n) == /\ InSpace(from, w) /\ st.mem[w] # NoObj /\ st.mem[w].fwd = 0
                    /\ st.free + Size(st.mem[w]) <= To + SpaceWords
                    /\ n.free = st.free + Size(st.mem[w]) /\ Answered(st, n, st.free + 1) /\ n.full = st.full
                    /\ n.mem[st.free + 1] = st.mem[w] /\ n.mem[w] = [st.mem[w] EXCEPT !.fwd = st.free + 1]
                    /\ \A a \in Words : a # w /\ a # st.free + 1 => n.mem[a] = st.mem[a]
                    /\ w # st.free + 1 /\ st.free + 1 \in Words /\ w \in Words
CopyStep(st, w, n) == Kept(st, w, n) \/ Stuck(st, w, n) \/ Led(st, w, n) \/ Copied(st, w, n)

\* gc_copy_object does one of these.
LEMMA CopyCases ==
  ASSUME from \in {0, SpaceWords}, NEW st \in CopyStates, InTo(st.free), NEW w \in Word,
         NEW n, n = gc_copy_object(st, w)
  PROVE  n \in CopyStates /\ InTo(n.free) /\ CopyStep(st, w, n)
<1>1. /\ SpaceWords \in Nat /\ Fixed = 2 * SpaceWords /\ To \in {0, SpaceWords} /\ To + SpaceWords <= Fixed
      /\ To + SpaceWords \in Nat /\ To \in Nat /\ Fixed \in Nat /\ 0..Fixed \subseteq Word
  BY SpaceFacts DEF To, Word
<1>2. st.mem \in Heap(Word) /\ st.free \in Nat /\ st.out \in Seq(Word) /\ st.full \in BOOLEAN
  BY DEF CopyStates
<1>3. \A v \in Word : Append(st.out, v) \in Seq(Word)
  BY <1>2
<1>4. CASE ~IsPointer(w) \/ ~InSpace(from, w)
  <2>1. n = [st EXCEPT !.out = Append(@, w)]
    BY <1>4 DEF gc_copy_object
  <2>2. n \in CopyStates /\ Same(st, n) /\ Answered(st, n, w) /\ n.full = st.full
    BY <1>2, <1>3, <2>1 DEF CopyStates, Same, Answered
  <2> QED BY <1>4, <2>2 DEF CopyStep, Kept, Same
<1>5. CASE IsPointer(w) /\ InSpace(from, w)
  <2>1. PICK o : o = st.mem[w]
    OBVIOUS
  <2>2. w \in Words /\ o \in ObjectIn(Word) /\ Size(o) \in 1..3 /\ w \in Space(from)
    <3>1. w \in Space(from)
      BY <1>5 DEF InSpace, Space
    <3>2. w \in Words
      BY <3>1, SpaceFacts
    <3>3. o \in ObjectIn(Word)
      BY <1>2, <2>1, <3>2 DEF Heap
    <3> QED BY <3>1, <3>2, <3>3, Sizes
  <2>3. n = CASE o.fwd # 0 -> [st EXCEPT !.out = Append(@, o.fwd)]
              [] o.fwd = 0 /\ (o = NoObj \/ st.free + Size(o) > To + SpaceWords) ->
                 [st EXCEPT !.out = Append(@, w), !.full = TRUE]
              [] OTHER     ->
                 [mem  |-> [st.mem EXCEPT ![st.free + 1] = o, ![w].fwd = st.free + 1],
                  free |-> st.free + Size(o), out |-> Append(st.out, st.free + 1), full |-> st.full]
    BY <1>5, <2>1 DEF gc_copy_object
  <2>4. o.fwd \in 0..Fixed
    BY <2>2 DEF ObjectIn
  <2>5. CASE o.fwd # 0
    <3>1. n = [st EXCEPT !.out = Append(@, o.fwd)]
      BY <2>3, <2>5
    <3>2. o # NoObj
      BY <2>5 DEF NoObj
    <3>3. Append(st.out, o.fwd) \in Seq(Word)
      BY <1>1, <1>3, <2>4
    <3>4. n \in CopyStates /\ Same(st, n) /\ Answered(st, n, o.fwd) /\ n.full = st.full
      BY <1>2, <3>1, <3>3 DEF CopyStates, Same, Answered
    <3> QED BY <1>5, <2>1, <2>5, <3>2, <3>4 DEF CopyStep, Led, Same
  <2>6. CASE o.fwd = 0 /\ (o = NoObj \/ st.free + Size(o) > To + SpaceWords)
    <3>1. n = [st EXCEPT !.out = Append(@, w), !.full = TRUE]
      BY <2>3, <2>6
    <3>2. PICK yes \in BOOLEAN : yes = TRUE
      OBVIOUS
    <3>3. n = [st EXCEPT !.out = Append(@, w), !.full = yes]
      BY <3>1, <3>2
    <3>4. n \in CopyStates /\ Same(st, n) /\ Answered(st, n, w) /\ n.full = yes
      BY <1>2, <1>3, <3>3 DEF CopyStates, Same, Answered
    <3> QED BY <1>5, <2>1, <2>6, <3>2, <3>4 DEF CopyStep, Stuck, Same
  <2>7. CASE o.fwd = 0 /\ o # NoObj /\ ~(st.free + Size(o) > To + SpaceWords)
    <3>1. n = [mem  |-> [st.mem EXCEPT ![st.free + 1] = o, ![w].fwd = st.free + 1],
               free |-> st.free + Size(o), out |-> Append(st.out, st.free + 1), full |-> st.full]
      BY <2>3, <2>7
    <3>2. st.free + Size(o) <= To + SpaceWords /\ st.free >= To
      BY <1>1, <1>2, <2>2, <2>7 DEF InTo
    <3>3. /\ st.free + 1 \in Words /\ st.free + 1 \in 0..Fixed /\ st.free + Size(o) \in Nat
          /\ st.free + Size(o) \in To..(To + SpaceWords) /\ w # st.free + 1 /\ st.free + 1 \in Word
      <4>1. st.free + 1 \in 1..Fixed /\ st.free + Size(o) \in Nat /\ st.free + Size(o) \in To..(To + SpaceWords)
        BY <1>1, <1>2, <2>2, <3>2
      <4>2. w # st.free + 1
        BY <1>1, <1>2, <2>2, <3>2 DEF To, Space
      <4>3. st.free + 1 \in Words
        BY <1>1, <4>1 DEF Words
      <4> QED BY <1>1, <4>1, <4>2, <4>3
    <3>4. PICK v : v = [o EXCEPT !.fwd = st.free + 1]
      OBVIOUS
    <3>5. v \in ObjectIn(Word)
      BY <2>2, <3>3, <3>4 DEF ObjectIn
    <3>6. PICK m : m = [st.mem EXCEPT ![st.free + 1] = o, ![w].fwd = st.free + 1]
      OBVIOUS
    <3>7. m = [[st.mem EXCEPT ![st.free + 1] = o] EXCEPT ![w] = v]
      <4>1. [st.mem EXCEPT ![st.free + 1] = o][w] = o
        BY <1>2, <2>1, <2>2, <3>3 DEF Heap
      <4> QED BY <3>4, <3>6, <4>1
    <3>8. /\ m \in Heap(Word) /\ m[st.free + 1] = o /\ m[w] = v
          /\ \A a \in Words : a # w /\ a # st.free + 1 => m[a] = st.mem[a]
      BY <1>2, <2>2, <3>3, <3>5, <3>7 DEF Heap
    <3>9. n.mem = m /\ n.free = st.free + Size(o) /\ Answered(st, n, st.free + 1) /\ n.full = st.full
      BY <3>1, <3>6 DEF Answered
    <3>10. Append(st.out, st.free + 1) \in Seq(Word)
      BY <1>3, <3>3
    <3>11. n \in CopyStates
      BY <1>2, <3>1, <3>3, <3>6, <3>8, <3>10 DEF CopyStates
    <3>12. Copied(st, w, n)
      BY <1>5, <2>1, <2>2, <2>7, <3>2, <3>3, <3>4, <3>8, <3>9 DEF Copied
    <3>13. InTo(n.free)
      BY <3>3, <3>9 DEF InTo
    <3> QED BY <3>11, <3>12, <3>13 DEF CopyStep
  <2> QED BY <2>4, <2>5, <2>6, <2>7
<1> QED
  BY <1>4, <1>5

\* A list of words is copied one after the other.
Begun == [mem |-> mem, free |-> gc.free, out |-> <<>>, full |-> FALSE]
CopyWalk(d, ws) ==
  /\ Len(ws) \in Nat /\ d[0] = Begun
  /\ \A i \in 0..Len(ws) : d[i] \in CopyStates /\ InTo(d[i].free)
  /\ \A i \in 1..Len(ws) : CopyStep(d[i - 1], ws[i], d[i])

\* The fold of CopyAll is such a walk.
LEMMA CopyWalkExists ==
  ASSUME from \in {0, SpaceWords}, mem \in Heap(Word), InTo(gc.free), NEW ws \in Seq(Word)
  PROVE  \E d : CopyWalk(d, ws) /\ CopyAll(ws) = d[Len(ws)]
<1> DEFINE V == {st \in CopyStates : InTo(st.free)}
           F == [p \in (1..Len(ws)) \X V |-> gc_copy_object(p[2], ws[p[1]])]
           Solves(d) == d = [i \in 0..Len(ws) |-> IF i = 0 THEN Begun ELSE gc_copy_object(d[i - 1], ws[i])]
<1>1. Len(ws) \in Nat /\ \A i \in 1..Len(ws) : ws[i] \in Word
  BY Elements
<1>2. Begun \in V
  <2>1. /\ Begun.mem = mem /\ Begun.free = gc.free /\ Begun.out = <<>> /\ Begun.full = FALSE
    BY DEF Begun
  <2>2. gc.free \in Nat /\ <<>> \in Seq(Word)
    BY SpaceFacts DEF InTo, To
  <2>3. PICK no \in BOOLEAN : no = FALSE
    OBVIOUS
  <2>4. [mem |-> mem, free |-> gc.free, out |-> <<>>, full |-> no] \in CopyStates
    BY <2>2 DEF CopyStates
  <2> QED BY <2>1, <2>3, <2>4 DEF Begun
<1>3. ASSUME NEW i \in 1..Len(ws), NEW st \in V
      PROVE  /\ F[<<i, st>>] = gc_copy_object(st, ws[i]) /\ F[<<i, st>>] \in V
             /\ CopyStep(st, ws[i], gc_copy_object(st, ws[i]))
  <2>1. F[<<i, st>>] = gc_copy_object(st, ws[i])
    OBVIOUS
  <2>2. PICK n : n = gc_copy_object(st, ws[i])
    OBVIOUS
  <2>3. n \in CopyStates /\ InTo(n.free) /\ CopyStep(st, ws[i], n)
    BY <1>1, <2>2, CopyCases
  <2> QED BY <2>1, <2>2, <2>3
<1>4. PICK d : Solves(d)
  <2> HIDE DEF V, F
  <2>0. \A i \in 1..Len(ws), st \in V : F[<<i, st>>] \in V
    BY <1>3
  <2>1. Solvable(Len(ws), V, Begun, F)
    BY <1>1, <1>2, <2>0, RecursionExists
  <2>2. PICK d \in [0..Len(ws) -> V] : d[0] = Begun /\ \A i \in 1..Len(ws) : d[i] = F[<<i, d[i - 1]>>]
    BY <2>1 DEF Solvable
  <2>3. \A i \in 1..Len(ws) : i - 1 \in 0..Len(ws)
    BY <1>1
  <2>4. \A i \in 1..Len(ws) : d[i] = gc_copy_object(d[i - 1], ws[i])
    BY <1>3, <2>2, <2>3
  <2>5. \A i \in 0..Len(ws) : d[i] = IF i = 0 THEN Begun ELSE gc_copy_object(d[i - 1], ws[i])
    BY <1>1, <2>2, <2>4
  <2>6. d = [i \in 0..Len(ws) |-> d[i]]
    BY <2>2
  <2> QED BY <2>5, <2>6
<1>5. PICK d2 : d2 = CHOOSE e : Solves(e)
  OBVIOUS
<1>6. Solves(d2)
  <2> HIDE DEF Solves
  <2> QED BY <1>4, <1>5
<1>7. CopyAll(ws) = d2[Len(ws)]
  BY <1>5 DEF CopyAll, Begun
<1>8. d2[0] = Begun /\ \A i \in 1..Len(ws) : d2[i] = gc_copy_object(d2[i - 1], ws[i])
  <2> HIDE DEF Begun
  <2>1. \A i \in 0..Len(ws) : d2[i] = IF i = 0 THEN Begun ELSE gc_copy_object(d2[i - 1], ws[i])
    BY <1>6, Zenon
  <2>2. 0 \in 0..Len(ws) /\ \A i \in 1..Len(ws) : i \in 0..Len(ws) /\ i # 0
    BY <1>1
  <2> QED BY <2>1, <2>2, Zenon
<1>9. \A i \in 0..Len(ws) : d2[i] \in V
  <2> HIDE DEF V
  <2>1. \A i \in 1..Len(ws) : d2[i - 1] \in V => d2[i] \in V
    BY <1>3, <1>8
  <2> QED BY <1>1, <1>2, <1>8, <2>1, RecursionStays
<1>10. \A i \in 1..Len(ws) : CopyStep(d2[i - 1], ws[i], d2[i])
  <2> HIDE DEF V
  <2>1. \A i \in 1..Len(ws) : i - 1 \in 0..Len(ws)
    BY <1>1
  <2> QED BY <1>3, <1>8, <1>9, <2>1
<1>11. CopyWalk(d2, ws)
  BY <1>1, <1>8, <1>9, <1>10 DEF CopyWalk
<1> QED
  BY <1>7, <1>11

\* What copying never harms: the tiling of the to-space, and what was there.
CopyKeeps(st, i, ws) ==
  /\ Tiles(st.mem, To, st.free) /\ gc.free <= st.free
  /\ \A a \in Words \ Space(To) : (st.mem[a] = NoObj <=> mem[a] = NoObj) /\ Len(st.mem[a].fields) = Len(mem[a].fields)
  /\ \A a \in Space(To) : mem[a] # NoObj => st.mem[a] = mem[a]
  /\ \A a \in Words : st.mem[a] = NoObj \/ st.mem[a].id # 0
  /\ Len(st.out) = i /\ \A j \in 1..i : IsPointer(ws[j]) => IsPointer(st.out[j])

\* One word more is copied without harm.
LEMMA CopyKeepsStep ==
  ASSUME from \in {0, SpaceWords}, gc.free \in Nat, NEW st \in CopyStates, NEW i \in Nat, NEW ws, NEW n \in CopyStates,
         CopyKeeps(st, i, ws), CopyStep(st, ws[i + 1], n)
  PROVE  CopyKeeps(n, i + 1, ws)
<1>1. st.mem \in Heap(Word) /\ st.out \in Seq(Word) /\ st.free \in Nat /\ n.mem \in Heap(Word) /\ n.free \in Nat
  BY DEF CopyStates
<1>2. /\ Tiles(st.mem, To, st.free) /\ gc.free <= st.free
      /\ \A a \in Words \ Space(To) : (st.mem[a] = NoObj <=> mem[a] = NoObj) /\ Len(st.mem[a].fields) = Len(mem[a].fields)
      /\ \A a \in Space(To) : mem[a] # NoObj => st.mem[a] = mem[a]
      /\ \A a \in Words : st.mem[a] = NoObj \/ st.mem[a].id # 0
      /\ Len(st.out) = i /\ \A j \in 1..i : IsPointer(ws[j]) => IsPointer(st.out[j])
  BY DEF CopyKeeps
<1>3. ASSUME NEW v, Answered(st, n, v), IsPointer(ws[i + 1]) => IsPointer(v)
      PROVE  Len(n.out) = i + 1 /\ \A j \in 1..(i + 1) : IsPointer(ws[j]) => IsPointer(n.out[j])
  <2>1. n.out = Append(st.out, v)
    BY <1>3 DEF Answered
  <2>2. Len(n.out) = i + 1 /\ n.out[i + 1] = v /\ \A j \in 1..i : n.out[j] = st.out[j]
    BY <1>1, <1>2, <2>1
  <2>3. \A j \in 1..(i + 1) : j = i + 1 \/ j \in 1..i
    OBVIOUS
  <2> QED BY <1>2, <1>3, <2>2, <2>3
<1>4. CASE Kept(st, ws[i + 1], n) \/ Stuck(st, ws[i + 1], n)
  BY <1>2, <1>3, <1>4 DEF Kept, Stuck, Same, CopyKeeps
<1>5. CASE Led(st, ws[i + 1], n)
  <2>1. IsPointer(st.mem[ws[i + 1]].fwd)
    BY <1>5 DEF Led, IsPointer, Tagged
  <2> QED BY <1>2, <1>3, <1>5, <2>1 DEF Led, Same, CopyKeeps
<1>6. CASE Copied(st, ws[i + 1], n)
  <2>1. PICK w \in Words : w = ws[i + 1]
    BY <1>6 DEF Copied
  <2>2. PICK o : o = st.mem[w]
    OBVIOUS
  <2>3. /\ InSpace(from, w) /\ o # NoObj /\ o.fwd = 0
        /\ st.free + Size(o) <= To + SpaceWords
        /\ n.free = st.free + Size(o) /\ Answered(st, n, st.free + 1) /\ n.full = st.full
        /\ n.mem[st.free + 1] = o /\ n.mem[w] = [o EXCEPT !.fwd = st.free + 1]
        /\ \A a \in Words : a # w /\ a # st.free + 1 => n.mem[a] = st.mem[a]
        /\ w # st.free + 1 /\ st.free + 1 \in Words
    BY <1>6, <2>1, <2>2 DEF Copied
  <2>4. o \in ObjectIn(Word) /\ Size(o) \in 1..3 /\ w \in Space(from) /\ To \in {0, SpaceWords}
    BY <1>1, <2>2, <2>3, Sizes, SpaceFacts DEF Heap, InSpace, Space, To
  <2>5. PICK m : m = [st.mem EXCEPT ![st.free + 1] = o]
    OBVIOUS
  <2>6. /\ Tiles(m, To, st.free + Size(o)) /\ m \in Heap(Word)
        /\ st.mem[st.free + 1] = NoObj /\ st.free + 1 \in Space(To)
    BY <1>1, <1>2, <2>3, <2>4, <2>5, TilesGrown
  <2>7. m[st.free + 1] = o /\ \A a \in Words : a # st.free + 1 => m[a] = st.mem[a]
    BY <1>1, <2>3, <2>5 DEF Heap
  <2>8. w \notin Space(To)
    BY <2>4, SpaceFacts DEF To
  <2>9. \A a \in Space(To) : a \in Words /\ n.mem[a] = m[a]
    BY <2>3, <2>4, <2>7, <2>8, SpaceFacts
  <2>10. SameSizes(m, n.mem, Space(To))
    BY <2>9 DEF SameSizes
  <2>11. Tiles(n.mem, To, n.free)
    BY <2>3, <2>4, <2>6, <2>10, TilesKept
  <2>12. n.mem[w] # NoObj /\ n.mem[w].fields = o.fields /\ n.mem[w].id = o.id
    <3>1. n.mem[w].fields = o.fields /\ n.mem[w].id = o.id /\ n.mem[w].fwd = st.free + 1
      BY <2>3, <2>4 DEF ObjectIn
    <3> QED BY <1>1, <3>1 DEF NoObj
  <2>13. ASSUME NEW a \in Words \ Space(To)
         PROVE  (n.mem[a] = NoObj <=> mem[a] = NoObj) /\ Len(n.mem[a].fields) = Len(mem[a].fields)
    <3>1. CASE a = w
      BY <1>2, <2>2, <2>3, <2>12, <3>1
    <3>2. CASE a # w
      BY <1>2, <2>3, <2>6, <3>2
    <3> QED BY <3>1, <3>2
  <2>14. \A a \in Space(To) : mem[a] # NoObj => n.mem[a] = mem[a]
    <3>1. \A a \in Space(To) : mem[a] # NoObj => a # st.free + 1
      BY <1>2, <2>6
    <3> QED BY <1>2, <2>7, <2>9, <3>1
  <2>15. \A a \in Words : n.mem[a] = NoObj \/ n.mem[a].id # 0
    <3>1. o.id # 0
      BY <1>2, <2>2, <2>3
    <3> QED BY <1>2, <2>3, <2>12, <3>1
  <2>16. gc.free <= n.free
    <3>1. st.free <= n.free
      BY <1>1, <1>2, <2>3, <2>4
    <3> QED BY <1>1, <1>2, <3>1
  <2>17. IsPointer(st.free + 1)
    BY <1>1 DEF IsPointer, Tagged
  <2> QED BY <1>3, <2>1, <2>3, <2>11, <2>13, <2>14, <2>15, <2>16, <2>17 DEF CopyKeeps
<1> QED
  BY <1>4, <1>5, <1>6 DEF CopyStep

-----------------------------------------------------------------------------
(* The type invariant: the collection. *)

\* As long as the stacks stay, the order of the roots does.
LEMMA ReadSame ==
  ASSUME UNCHANGED <<stacks, chains>>
  PROVE  \A l : Read(l)' = Read(l)
  BY DEF Read, stacks, chains

\* So do the places of a frame and of the stack.
LEMMA StackLocsSame ==
  ASSUME UNCHANGED <<stacks, chains>>, NEW over
  PROVE  StackLocs(over)' = StackLocs(over)
<1>1. frames' = frames
  BY DEF stacks
<1>2. \A f : FrameLocs(f)' = FrameLocs(f) /\ Overscan(over, f)' = Overscan(over, f)
  BY <1>1 DEF FrameLocs, Overscan
<1>3. \A r : StackWalk(over, r)' <=> StackWalk(over, r)
  BY <1>1, <1>2 DEF StackWalk
<1>4. StackLocs(over) = (CHOOSE r : StackWalk(over, r))[Len(frames)]
  BY DEF StackLocs, StackWalk
<1>5. StackLocs(over)' = (CHOOSE r : StackWalk(over, r)')[Len(frames')]
  BY DEF StackLocs, StackWalk
<1>6. (CHOOSE r : StackWalk(over, r)') = (CHOOSE r : StackWalk(over, r))
  BY <1>3
<1> QED
  BY <1>1, <1>4, <1>5, <1>6

\* So does the order of all roots, for the frames that are overscanned.
LEMMA CollectOrderSame ==
  ASSUME UNCHANGED <<stacks, chains>>, NEW over
  PROVE  CollectOrder(over)' = CollectOrder(over)
  BY StackLocsSame DEF CollectOrder, ChainLocs, LogLocs, stacks, chains

\* What the order is in the next state.
LEMMA OrderThen ==
  ASSUME NEW over, gc'.over = over
  PROVE  Order' = CollectOrder(over)'
  BY DEF Order, CollectOrder, StackLocs, ChainLocs, LogLocs, FrameLocs, Overscan

LEMMA OrderSame ==
  ASSUME UNCHANGED <<stacks, chains>>, gc'.over = gc.over
  PROVE  Order' = Order
<1>1. PICK over : over = gc.over
  OBVIOUS
<1>2. Order = CollectOrder(over)
  BY <1>1 DEF Order
<1>3. Order' = CollectOrder(over)'
  BY <1>1, OrderThen
<1> QED
  BY <1>2, <1>3, CollectOrderSame

\* Copying a list of words harms nothing.
LEMMA CopiedAll ==
  ASSUME from \in {0, SpaceWords}, mem \in Heap(Word), \A a \in Words : mem[a] = NoObj \/ mem[a].id # 0,
         Tiles(mem, To, gc.free), NEW ws \in Seq(Word), NEW done, done = CopyAll(ws)
  PROVE  done \in CopyStates /\ InTo(done.free) /\ CopyKeeps(done, Len(ws), ws)
<1>1. InTo(gc.free) /\ gc.free \in Nat
  <2>1. gc.free \in To..(To + SpaceWords) /\ To \in {0, SpaceWords}
    BY SpaceFacts DEF Tiles, To
  <2> QED BY <2>1, SpaceFacts DEF InTo
<1>2. PICK d : CopyWalk(d, ws) /\ done = d[Len(ws)]
  BY <1>1, CopyWalkExists
<1>3. /\ Len(ws) \in Nat /\ d[0] = Begun
      /\ \A i \in 0..Len(ws) : d[i] \in CopyStates /\ InTo(d[i].free)
      /\ \A i \in 1..Len(ws) : CopyStep(d[i - 1], ws[i], d[i])
  BY <1>2 DEF CopyWalk
<1> DEFINE S == {i \in Nat : i <= Len(ws) => CopyKeeps(d[i], i, ws)}
<1>4. 0 \in S
  <2>1. Begun.mem = mem /\ Begun.free = gc.free /\ Len(Begun.out) = 0
    BY DEF Begun
  <2> HIDE DEF Begun
  <2>2. CopyKeeps(Begun, 0, ws)
    BY <1>1, <2>1 DEF CopyKeeps
  <2> QED BY <1>3, <2>2
<1>5. ASSUME NEW i \in Nat, i \in S PROVE i + 1 \in S
  <2>1. CASE i + 1 <= Len(ws)
    <3>1. i \in 0..Len(ws) /\ i + 1 \in 1..Len(ws) /\ i + 1 \in 0..Len(ws) /\ (i + 1) - 1 = i
      BY <1>3, <2>1
    <3>2. CopyKeeps(d[i], i, ws) /\ CopyStep(d[i], ws[i + 1], d[i + 1])
      BY <1>3, <1>5, <3>1
    <3>3. d[i] \in CopyStates /\ d[i + 1] \in CopyStates
      BY <1>3, <3>1
    <3>4. CopyKeeps(d[i + 1], i + 1, ws)
      BY <1>1, <3>2, <3>3, CopyKeepsStep
    <3> QED BY <3>4
  <2>2. CASE ~(i + 1 <= Len(ws))
    BY <2>2
  <2> QED BY <2>1, <2>2
<1> HIDE DEF S
<1>6. Nat \subseteq S
  BY <1>4, <1>5, NatSetInduction
<1>7. CopyKeeps(d[Len(ws)], Len(ws), ws)
  BY <1>3, <1>6 DEF S
<1>8. Len(ws) \in 0..Len(ws)
  BY <1>3
<1> QED
  BY <1>2, <1>3, <1>7, <1>8

\* While a collection is under way.
LEMMA GcFacts ==
  ASSUME BInv, gc.phase # "idle"
  PROVE  /\ gc \in Collections /\ job # NoJob /\ Tiles(mem, To, gc.free)
         /\ gc.scan \in To..gc.free /\ (gc.scan < gc.free => mem[gc.scan + 1] # NoObj)
         /\ gc.phase = "roots" => gc.free = To
         /\ RootsOK /\ gc.roots \in Seq(Word) /\ gc.scan \in Nat /\ gc.free \in Nat /\ To \in Nat
         /\ \A a \in Words : mem[a] = NoObj \/ mem[a].id # 0
<1>1. gc # NoGc
  BY DEF NoGc
<1>2. To \in Nat
  BY BFacts, SpaceFacts
<1>3. /\ gc \in Collections /\ job # NoJob /\ Tiles(mem, To, gc.free)
      /\ gc.scan \in To..gc.free /\ (gc.scan < gc.free => mem[gc.scan + 1] # NoObj)
      /\ gc.phase = "roots" => gc.free = To
      /\ RootsOK
  BY <1>1 DEF BInv, GcOK
<1>4. gc.roots \in Seq(Word) /\ gc.scan \in Nat /\ gc.free \in Nat
  BY <1>3 DEF Collections
<1> QED
  BY <1>2, <1>3, <1>4 DEF BInv, HeapOK

\* What a step of the collection leaves alone.
LEMMA CollectionKeeps ==
  ASSUME BInv, UNCHANGED <<from, free, stacks, chains, job, history>>, outcome' \in {outcome, "wild"},
         mem' \in Heap(Word), \A a \in Words : mem'[a] = NoObj \/ mem'[a].id # 0,
         Tiles(mem', from, free), GcOK'
  PROVE  BInv'
<1>1. Stacks(Word)' /\ Len(frames') = Len(frames)
  BY BFacts, StacksSame DEF chains
<1>2. HeapOK'
  <2>1. from' = from /\ free' = free
    OBVIOUS
  <2> QED BY <2>1 DEF BInv, HeapOK, Heap, Tiles, Space
<1>3. (job \in Jobs(Word))' /\ Operands' = Operands /\ made' = made /\ UNCHANGED <<inTxn, collections, job>>
  BY DEF BInv, JobIn, Jobs, Word, Fixed, Operands, Top, stacks, chains, history
<1>4. JobIn(Word)'
  BY <1>3 DEF BInv, JobIn
<1> QED
  BY <1>1, <1>2, <1>3, <1>4 DEF BInv, Stacks

\* What a space is made of is made of it still when the other one is copied to.
LEMMA FromTiles ==
  ASSUME BInv, NEW st \in CopyStates, NEW i, NEW ws, CopyKeeps(st, i, ws)
  PROVE  SameSizes(mem, st.mem, Space(from))
<1>1. \A a \in Space(from) : a \in Words \ Space(To)
  BY BFacts, SpaceFacts DEF To
<1> QED
  BY <1>1 DEF CopyKeeps, SameSizes

\* The copying of the roots keeps the invariant.
LEMMA CopyRootsKeeps ==
  ASSUME BInv, CopyRoots
  PROVE  BInv'
<1>1. /\ gc \in Collections /\ Tiles(mem, To, gc.free) /\ gc.free = To /\ gc.scan = To /\ To \in Nat
      /\ RootsOK /\ gc.roots \in Seq(Word) /\ gc.phase = "roots" /\ job # NoJob
      /\ \A a \in Words : mem[a] = NoObj \/ mem[a].id # 0
  BY GcFacts DEF CopyRoots
<1>2. mem \in Heap(Word) /\ from \in {0, SpaceWords} /\ To \in {0, SpaceWords} /\ Tiles(mem, from, free)
  BY BFacts
<1>3. PICK done : done = CopyAll(gc.roots)
  OBVIOUS
<1>4. done \in CopyStates /\ InTo(done.free) /\ CopyKeeps(done, Len(gc.roots), gc.roots)
  BY <1>1, <1>2, <1>3, CopiedAll
<1>5. /\ mem' = done.mem /\ gc' = [gc EXCEPT !.phase = "scan", !.roots = done.out, !.free = done.free]
      /\ outcome' \in {outcome, "wild"} /\ UNCHANGED <<from, free, stacks, chains, job, history>>
  BY <1>3 DEF CopyRoots
<1>6. /\ done.mem \in Heap(Word) /\ done.out \in Seq(Word) /\ done.free \in Nat
      /\ Tiles(done.mem, To, done.free) /\ gc.free <= done.free
      /\ \A a \in Words : done.mem[a] = NoObj \/ done.mem[a].id # 0
      /\ Len(done.out) = Len(gc.roots) /\ \A j \in 1..Len(gc.roots) : IsPointer(gc.roots[j]) => IsPointer(done.out[j])
  BY <1>4 DEF CopyStates, CopyKeeps
<1>7. Tiles(mem', from, free)
  BY <1>2, <1>4, <1>5, <1>6, FromTiles, TilesKept
<1>8. /\ gc' \in Collections /\ gc'.phase = "scan" /\ gc'.roots = done.out /\ gc'.free = done.free /\ gc'.scan = gc.scan
      /\ gc'.over = gc.over
  BY <1>1, <1>5, <1>6 DEF Collections
<1>9. GcOK'
  <2>1. To' = To
    BY <1>5 DEF To
  <2>2. Tiles(mem, To, gc.free)'
    BY <1>5, <1>6, <1>8, <2>1 DEF Tiles, Space
  <2>3. gc'.scan \in To..gc'.free /\ (gc'.scan < gc'.free => mem'[gc'.scan + 1] # NoObj)
    BY <1>1, <1>5, <1>6, <1>8 DEF Tiles
  <2>4. RootsOK'
    <3>1. Order' = Order /\ \A l : Read(l)' = Read(l)
      BY <1>5, <1>8, OrderSame, ReadSame
    <3>2. /\ Len(gc.roots) >= Len(Order) /\ (NumTemps = 0 => Len(gc.roots) = Len(Order))
          /\ \A n \in 1..Len(Order) : IsPointer(Read(Order[n])) => IsPointer(gc.roots[n])
      BY <1>1 DEF RootsOK
    <3>3. Len(gc'.roots) >= Len(Order) /\ (NumTemps = 0 => Len(gc'.roots) = Len(Order))
      BY <1>6, <1>8, <3>2
    <3>4. \A n \in 1..Len(Order) : IsPointer(Read(Order[n])) => IsPointer(gc'.roots[n])
      <4>1. \A n \in 1..Len(Order) : n \in 1..Len(gc.roots)
        <5>1. Len(Order) \in Nat
          BY BFacts, OrderFacts DEF Order
        <5> QED BY <1>1, <3>2, <5>1
      <4> QED BY <1>6, <1>8, <3>2, <4>1
    <3> QED BY <1>8, <3>1, <3>3, <3>4 DEF RootsOK, IsPointer, Tagged
  <2>5. job' # NoJob
    BY <1>1, <1>5
  <2>6. (gc \in Collections)'
    BY <1>8 DEF Collections, Word, Fixed
  <2>7. (gc.scan \in To..gc.free /\ (gc.scan < gc.free => mem[gc.scan + 1] # NoObj))'
    BY <2>1, <2>3
  <2> QED BY <1>8, <2>2, <2>4, <2>5, <2>6, <2>7 DEF GcOK, NoJob
<1> QED
  BY <1>5, <1>6, <1>7, <1>9, CollectionKeeps

\* The fields of a copy that has been scanned.
LEMMA TailFields ==
  ASSUME NEW W, NEW n \in 0..2, NEW q \in Seq(W), Len(q) = n + 1
  PROVE  q[1] \in W /\ Tail(q) \in FieldsIn(W) /\ Len(Tail(q)) = n /\ \A j \in 1..n : Tail(q)[j] = q[j + 1]
<1>1. PICK t : t = Tail(q)
  OBVIOUS
<1>2. t \in Seq(W) /\ Len(t) = n /\ (\A j \in 1..n : t[j] = q[j + 1]) /\ q[1] \in W
  BY <1>1
<1>3. t \in [1..n -> W]
  BY <1>2, Lists
<1>4. n = 0 => t = <<>>
  BY <1>2
<1>5. t \in FieldsIn(W)
  BY <1>3, <1>4 DEF FieldsIn
<1> QED
  BY <1>1, <1>2, <1>5

\* Their number is the size of the object.
LEMMA ObjectWords ==
  ASSUME NEW W, NEW o \in ObjectIn(W)
  PROVE  /\ WordsOf(o) \in Seq(W) /\ Len(WordsOf(o)) = Size(o) /\ Len(o.fields) \in 0..2 /\ Size(o) = Len(o.fields) + 1
         /\ WordsOf(o)[1] = o.class /\ \A j \in 1..Len(o.fields) : WordsOf(o)[j + 1] = o.fields[j]
<1>1. Len(o.fields) \in 0..2 /\ o.fields \in Seq(W) /\ o.class \in W
  BY Sizes DEF ObjectIn
<1>2. PICK c, fs : c = o.class /\ fs = o.fields
  OBVIOUS
<1>3. <<c>> \in Seq(W) /\ Len(<<c>>) = 1 /\ <<c>>[1] = c
  BY <1>1, <1>2
<1>4. PICK q : q = <<c>> \o fs
  OBVIOUS
<1>5. /\ q \in Seq(W) /\ Len(q) = 1 + Len(fs) /\ q[1] = c
      /\ \A j \in 1..Len(fs) : q[1 + j] = fs[j]
  BY <1>1, <1>2, <1>3, <1>4, Joined
<1> QED
  BY <1>1, <1>2, <1>4, <1>5 DEF WordsOf, Size

\* The copy at scan gets the words its own words have come to.
Scanned(o, done, p) ==
  /\ gc.scan + 1 \in Space(To) /\ gc.scan + 1 \in Words /\ o \in ObjectIn(Word) /\ o # NoObj
  /\ done \in CopyStates /\ InTo(done.free) /\ CopyKeeps(done, Len(WordsOf(o)), WordsOf(o))
  /\ done.mem \in Heap(Word) /\ done.mem[gc.scan + 1] = o
  /\ done.out \in Seq(Word) /\ Len(done.out) = Len(o.fields) + 1 /\ Len(o.fields) \in 0..2
  /\ p.class = done.out[1] /\ p.fields = Tail(done.out) /\ p.id = o.id /\ p.fwd = o.fwd
  /\ p \in ObjectIn(Word) /\ p # NoObj /\ Len(p.fields) = Len(o.fields) /\ p.fields \in FieldsIn(Word)
  /\ mem' = [done.mem EXCEPT ![gc.scan + 1] = p]
  /\ gc' = [gc EXCEPT !.scan = @ + Size(o), !.free = done.free]
  /\ outcome' = (IF done.full THEN "wild" ELSE outcome)
  /\ UNCHANGED <<from, free, stacks, chains, job, history>>

\* ScanObject does that.
LEMMA ScanFacts ==
  ASSUME BInv, ScanObject, NEW o, o = mem[gc.scan + 1], NEW done, done = CopyAll(WordsOf(o)),
         NEW p, p = [o EXCEPT !.class = done.out[1], !.fields = Tail(done.out)]
  PROVE  Scanned(o, done, p)
<1>1. /\ gc.phase = "scan" /\ gc.scan < gc.free /\ mem[gc.scan + 1] # NoObj /\ gc.scan \in To..gc.free
      /\ gc.free \in Nat /\ To \in Nat /\ Tiles(mem, To, gc.free) /\ gc.scan \in Nat
      /\ \A a \in Words : mem[a] = NoObj \/ mem[a].id # 0
  BY GcFacts DEF ScanObject
<1>2. mem \in Heap(Word) /\ from \in {0, SpaceWords} /\ To \in {0, SpaceWords} /\ SpaceWords \in Nat
  BY BFacts, SpaceFacts
<1>3. gc.free <= To + SpaceWords
  BY <1>1, <1>2 DEF Tiles
<1>4. gc.scan + 1 \in Space(To) /\ gc.scan + 1 \in Words
  <2>1. gc.scan + 1 \in Space(To)
    BY <1>1, <1>2, <1>3 DEF Space
  <2> QED BY <1>2, <2>1, SpaceFacts
<1>5. o \in ObjectIn(Word) /\ o # NoObj /\ o.id # 0
  BY <1>1, <1>2, <1>4 DEF Heap
<1>6. WordsOf(o) \in Seq(Word) /\ Len(WordsOf(o)) = Len(o.fields) + 1 /\ Len(o.fields) \in 0..2
  BY <1>5, ObjectWords
<1>7. done \in CopyStates /\ InTo(done.free) /\ CopyKeeps(done, Len(WordsOf(o)), WordsOf(o))
  BY <1>1, <1>2, <1>6, CopiedAll, SMTT(30)
<1>8. done.mem \in Heap(Word) /\ done.out \in Seq(Word) /\ Len(done.out) = Len(o.fields) + 1 /\ done.mem[gc.scan + 1] = o
  BY <1>1, <1>4, <1>6, <1>7 DEF CopyStates, CopyKeeps
<1>9. PICK c \in Word, fs \in FieldsIn(Word) : c = done.out[1] /\ fs = Tail(done.out) /\ Len(fs) = Len(o.fields)
  <2>1. PICK n, q : n = Len(o.fields) /\ q = done.out
    OBVIOUS
  <2>2. n \in 0..2 /\ q \in Seq(Word) /\ Len(q) = n + 1
    BY <1>6, <1>8, <2>1
  <2>3. q[1] \in Word /\ Tail(q) \in FieldsIn(Word) /\ Len(Tail(q)) = n
    BY <2>2, TailFields
  <2> QED BY <2>1, <2>3
<1>10. p = [o EXCEPT !.class = c, !.fields = fs]
  BY <1>9
<1>11. /\ p.class = c /\ p.fields = fs /\ p.id = o.id /\ p.fwd = o.fwd /\ p \in ObjectIn(Word)
  BY <1>5, <1>9, <1>10 DEF ObjectIn
<1>12. p # NoObj
  BY <1>5, <1>11 DEF NoObj
<1>13. /\ mem' = [done.mem EXCEPT ![gc.scan + 1] = [@ EXCEPT !.class = done.out[1], !.fields = Tail(done.out)]]
       /\ gc' = [gc EXCEPT !.scan = @ + Size(o), !.free = done.free]
       /\ outcome' = (IF done.full THEN "wild" ELSE outcome)
       /\ UNCHANGED <<from, free, stacks, chains, job, history>>
  BY DEF ScanObject, WordsOf
<1>14. mem' = [done.mem EXCEPT ![gc.scan + 1] = p]
  BY <1>8, <1>13
<1> QED
  BY <1>4, <1>5, <1>6, <1>7, <1>8, <1>9, <1>11, <1>12, <1>13, <1>14 DEF Scanned

\* The scan of a copy keeps the invariant.
LEMMA ScanObjectKeeps ==
  ASSUME BInv, ScanObject
  PROVE  BInv'
<1>1. /\ gc \in Collections /\ Tiles(mem, To, gc.free) /\ To \in Nat
      /\ RootsOK /\ gc.roots \in Seq(Word) /\ gc.phase = "scan" /\ job # NoJob /\ gc.scan \in Nat
      /\ gc.scan \in To..gc.free
  BY GcFacts DEF ScanObject
<1>2. mem \in Heap(Word) /\ from \in {0, SpaceWords} /\ To \in {0, SpaceWords} /\ Tiles(mem, from, free)
  BY BFacts
<1>3. PICK o : o = mem[gc.scan + 1]
  OBVIOUS
<1>4. PICK done : done = CopyAll(WordsOf(o))
  OBVIOUS
<1>5. PICK p : p = [o EXCEPT !.class = done.out[1], !.fields = Tail(done.out)]
  OBVIOUS
<1>6. /\ gc.scan + 1 \in Space(To) /\ gc.scan + 1 \in Words /\ o \in ObjectIn(Word) /\ o # NoObj
      /\ done \in CopyStates /\ InTo(done.free) /\ CopyKeeps(done, Len(WordsOf(o)), WordsOf(o))
      /\ done.mem \in Heap(Word) /\ done.mem[gc.scan + 1] = o
      /\ p.id = o.id /\ p \in ObjectIn(Word) /\ p # NoObj /\ Len(p.fields) = Len(o.fields)
      /\ mem' = [done.mem EXCEPT ![gc.scan + 1] = p]
      /\ gc' = [gc EXCEPT !.scan = @ + Size(o), !.free = done.free]
      /\ outcome' = (IF done.full THEN "wild" ELSE outcome)
      /\ UNCHANGED <<from, free, stacks, chains, job, history>>
  <2>1. Scanned(o, done, p)
    BY <1>3, <1>4, <1>5, ScanFacts
  <2> QED BY <2>1 DEF Scanned
<1>7. /\ Tiles(done.mem, To, done.free) /\ gc.free <= done.free /\ done.free \in Nat
      /\ \A a \in Words : done.mem[a] = NoObj \/ done.mem[a].id # 0
  BY <1>6 DEF CopyStates, CopyKeeps
<1>8. PICK m : m = mem'
  OBVIOUS
<1>9. m \in Heap(Word) /\ m[gc.scan + 1] = p /\ \A a \in Words : a # gc.scan + 1 => m[a] = done.mem[a]
  BY <1>6, <1>8 DEF Heap
<1>10. SameSizes(done.mem, m, Space(To)) /\ SameSizes(done.mem, m, Space(from))
  <2>1. \A a \in Words : (m[a] = NoObj <=> done.mem[a] = NoObj) /\ Len(m[a].fields) = Len(done.mem[a].fields)
    BY <1>6, <1>9
  <2>2. Space(To) \subseteq Words /\ Space(from) \subseteq Words
    BY <1>2, SpaceFacts
  <2> QED BY <2>1, <2>2 DEF SameSizes
<1>11. Tiles(m, To, done.free)
  BY <1>2, <1>6, <1>7, <1>10, TilesKept
<1>12. Tiles(m, from, free)
  <2>1. Tiles(done.mem, from, free)
    BY <1>2, <1>6, FromTiles, TilesKept
  <2> QED BY <1>2, <1>6, <1>10, <2>1, TilesKept
<1>13. \A a \in Words : mem'[a] = NoObj \/ mem'[a].id # 0
  <2>1. p.id # 0
    BY <1>6, <1>7
  <2> QED BY <1>7, <1>8, <1>9, <2>1
<1>14. /\ gc' \in Collections /\ gc'.phase = "scan" /\ gc'.roots = gc.roots /\ gc'.free = done.free
       /\ gc'.scan = gc.scan + Size(o) /\ gc'.over = gc.over
  <2>1. Size(o) \in Nat
    BY <1>6, Sizes
  <2>2. PICK s \in Nat : s = gc.scan + Size(o)
    BY <1>1, <2>1
  <2>3. gc' = [gc EXCEPT !.scan = s, !.free = done.free]
    BY <1>6, <2>2
  <2> QED BY <1>1, <1>7, <2>2, <2>3 DEF Collections
<1>15. gc'.scan \in To..gc'.free /\ (gc'.scan < gc'.free => m[gc'.scan + 1] # NoObj)
  <2>1. Size(o) \in 1..3 /\ Size(p) = Size(o)
    BY <1>6, Sizes DEF Size
  <2>2. /\ (gc.scan + 1) + Size(o) <= done.free + 1
        /\ (gc.scan + 1) + Size(o) <= done.free => m[(gc.scan + 1) + Size(o)] # NoObj
    BY <1>6, <1>9, <1>11, <2>1 DEF Tiles
  <2>3. (gc.scan + 1) + Size(o) = gc'.scan + 1
    BY <1>1, <1>14, <2>1
  <2> QED BY <1>1, <1>7, <1>14, <2>1, <2>2, <2>3
<1>16. GcOK'
  <2>1. To' = To
    BY <1>6 DEF To
  <2>2. Tiles(mem, To, gc.free)'
    BY <1>8, <1>11, <1>14, <2>1 DEF Tiles, Space
  <2>4. RootsOK'
    <3>1. Order' = Order /\ \A l : Read(l)' = Read(l)
      BY <1>6, <1>14, OrderSame, ReadSame
    <3> QED BY <1>1, <1>14, <3>1 DEF RootsOK, IsPointer, Tagged
  <2>5. job' # NoJob
    BY <1>1, <1>6
  <2>6. (gc \in Collections)'
    BY <1>14 DEF Collections, Word, Fixed
  <2>7. (gc.scan \in To..gc.free /\ (gc.scan < gc.free => mem[gc.scan + 1] # NoObj))'
    BY <1>8, <1>15, <2>1
  <2> QED BY <1>14, <2>2, <2>4, <2>5, <2>6, <2>7 DEF GcOK, NoJob
<1>17. Tiles(mem', from, free) /\ mem' \in Heap(Word) /\ outcome' \in {outcome, "wild"}
  BY <1>6, <1>8, <1>9, <1>12
<1> QED
  BY <1>6, <1>13, <1>16, <1>17, CollectionKeeps, SMTT(30)

\* What the lost bounds may add.
LEMMA StrayFacts ==
  ASSUME NEW W, Stacks(W), NEW over \in Overscanned, NEW strays \in Strays
  PROVE  /\ over \in SUBSET Nat /\ strays \in Seq(Word) /\ Len(strays) \in Nat
         /\ NumTemps = 0 => over = {} /\ strays = <<>>
         /\ \A i \in 1..Len(strays) : strays[i] \in Space(from)
<1>1. Len(frames) \in Nat
  BY TopFacts
<1>2. over \in SUBSET Nat /\ (NumTemps = 0 => over = {})
  BY <1>1 DEF Overscanned
<1>3. strays \in Seq(Word)
  <2>1. Words \subseteq Word
    BY WordFacts
  <2>2. ASSUME NEW n \in 0..MaxStrays, strays \in [1..n -> {a \in Words : InSpace(from, a)}] PROVE strays \in Seq(Word)
    <3>1. n \in Nat
      BY BoundsAssumption
    <3>2. strays \in [1..n -> Word]
      BY <2>1, <2>2
    <3> QED BY <3>1, <3>2, Listed
  <2>3. <<>> \in Seq(Word)
    OBVIOUS
  <2> QED BY <2>2, <2>3 DEF Strays
<1>4. \A i \in 1..Len(strays) : strays[i] \in Space(from)
  <2>1. ASSUME NEW n \in 0..MaxStrays, strays \in [1..n -> {a \in Words : InSpace(from, a)}], NEW i \in 1..Len(strays)
        PROVE  strays[i] \in Space(from)
    <3>1. n \in Nat /\ {a \in Words : InSpace(from, a)} \subseteq Space(from)
      BY BoundsAssumption DEF InSpace, Space
    <3>2. strays \in [1..n -> Space(from)]
      BY <2>1, <3>1
    <3>3. strays \in Seq(Space(from))
      BY <3>1, <3>2, Listed
    <3> QED BY <3>3, Elements
  <2>2. strays = <<>> => \A i \in 1..Len(strays) : strays[i] \in Space(from)
    OBVIOUS
  <2> QED BY <2>1, <2>2 DEF Strays
<1> QED
  BY <1>2, <1>3, <1>4 DEF Strays

\* What a collection begins with: the words of the order, and strays.
Starts(over, strays) ==
  gc' = [phase |-> "roots", over |-> over, scan |-> To, free |-> To,
         roots |-> [i \in 1..Len(CollectOrder(over)) |-> Read(CollectOrder(over)[i])] \o strays]

\* What the collector is given to begin with.
LEMMA StartKeeps ==
  ASSUME BInv, AllocationFails
  PROVE  BInv'
<1>1. /\ gc.phase = "idle" /\ job # NoJob
      /\ UNCHANGED <<memory, stacks, chains, remembered, job, made, outcome>> /\ collections' = collections + 1
  BY DEF AllocationFails, StartCollection
<1>0. PICK over \in Overscanned, strays \in Strays : Starts(over, strays)
  BY DEF AllocationFails, StartCollection, Starts
<1>2. /\ Stacks(Word) /\ mem \in Heap(Word) /\ To \in {0, SpaceWords}
      /\ gc = NoGc /\ (\A a \in Space(To) : mem[a] = NoObj) /\ collections \in Nat /\ To \in Nat /\ SpaceWords \in Nat
  BY <1>1, BFacts, SpaceFacts
<1>3. PICK order : order = CollectOrder(over)
  OBVIOUS
<1>31. order \in Seq(ReadsIn(Word))
  BY <1>2, <1>3, OrderFacts
<1>4. PICK L \in Nat : L = Len(order)
  BY <1>31
<1>5. PICK q : q = [i \in 1..L |-> Read(order[i])]
  OBVIOUS
<1>6. q \in Seq(Word) /\ Len(q) = L
  <2>1. \A i \in 1..L : order[i] \in ReadsIn(Word)
    BY <1>31, <1>4, Elements
  <2>2. q \in [1..L -> Word]
    BY <1>5, <2>1 DEF ReadsIn
  <2> QED BY <2>2, Listed
<1>61. PICK r : r = q \o strays
  OBVIOUS
<1>62. /\ over \in SUBSET Nat /\ r \in Seq(Word) /\ Len(r) >= L /\ (NumTemps = 0 => Len(r) = L)
       /\ \A n \in 1..L : r[n] = Read(order[n])
  <2>1. /\ over \in SUBSET Nat /\ strays \in Seq(Word) /\ Len(strays) \in Nat
        /\ NumTemps = 0 => Len(strays) = 0
    BY <1>2, StrayFacts
  <2>2. r \in Seq(Word) /\ Len(r) = Len(q) + Len(strays) /\ \A n \in 1..Len(q) : r[n] = q[n]
    <3>1. q \in Seq(Word) /\ strays \in Seq(Word)
      BY <1>6, <2>1
    <3> HIDE DEF Word
    <3> QED BY ONLY <1>61, <3>1, Joined
  <2> QED BY <1>5, <1>6, <2>1, <2>2
<1>7. /\ gc' = [phase |-> "roots", over |-> over, scan |-> To, free |-> To, roots |-> r]
  BY <1>0, <1>3, <1>4, <1>5, <1>61 DEF Starts
<1>8. gc' \in Collections /\ gc'.phase = "roots" /\ gc'.scan = To /\ gc'.free = To /\ gc'.roots = r /\ gc'.over = over
  BY <1>2, <1>62, <1>7 DEF Collections
<1>9. To' = To
  BY <1>1 DEF To, memory
<1>10. Tiles(mem, To, gc.free)'
  <2>1. Tiles(mem, To, To)
    BY <1>2 DEF Tiles
  <2> QED BY <1>1, <1>8, <1>9, <2>1 DEF Tiles, Space, memory
<1>11. RootsOK'
  <2>1. Order' = order /\ \A l : Read(l)' = Read(l)
    <3>1. CollectOrder(over)' = CollectOrder(over)
      BY <1>1, CollectOrderSame
    <3> QED BY <1>1, <1>3, <1>8, <3>1, OrderThen, ReadSame
  <2>2. /\ Len(gc'.roots) >= Len(order) /\ (NumTemps = 0 => Len(gc'.roots) = Len(order))
        /\ \A n \in 1..Len(order) : gc'.roots[n] = Read(order[n])
    BY <1>4, <1>62, <1>8
  <2> QED BY <2>1, <2>2 DEF RootsOK, IsPointer, Tagged
<1>12. GcOK'
  <2>1. (gc \in Collections)'
    BY <1>8 DEF Collections, Word, Fixed
  <2>2. job' # NoJob
    BY <1>1
  <2>3. (gc.scan \in To..gc.free /\ (gc.scan < gc.free => mem[gc.scan + 1] # NoObj))'
    BY <1>2, <1>8, <1>9
  <2>4. (gc.phase = "roots" => gc.free = To)'
    BY <1>8, <1>9
  <2> QED BY <1>10, <1>11, <2>1, <2>2, <2>3, <2>4 DEF GcOK, NoJob
<1>13. Stacks(Word)'
  BY <1>1, <1>2, StacksSame DEF chains
<1>14. HeapOK'
  BY <1>1 DEF BInv, HeapOK, Tiles, Space, memory
<1>15. JobIn(Word)'
  <2>1. (job \in Jobs(Word))' /\ Operands' = Operands
    BY <1>1 DEF BInv, JobIn, Jobs, Word, Fixed, Operands, Top, stacks
  <2> QED BY <1>1, <2>1 DEF BInv, JobIn
<1>16. inTxn' = inTxn /\ made' = made /\ outcome' = outcome /\ collections' \in Nat
  BY <1>1, <1>2 DEF stacks, chains
<1> QED
  BY <1>12, <1>13, <1>14, <1>15, <1>16 DEF BInv, Stacks

-----------------------------------------------------------------------------
(* The type invariant: the end of a collection. *)

\* What a place has after the roots are written back: what its root has come to,
\* or what it had.
LEMMA RestoredIs ==
  ASSUME NEW l
  PROVE  \/ ~Occurs(l, Order) /\ Restored(l) = Read(l)
         \/ \E n \in 1..Len(Order) : Order[n] = l /\ Restored(l) = gc.roots[n]
<1>1. RestoreOrder = Order
  BY SameOrder
<1>2. PICK at : at = {n \in 1..Len(Order) : Order[n] = l}
  OBVIOUS
<1>3. Restored(l) = IF at = {} THEN Read(l) ELSE gc.roots[CHOOSE n \in at : TRUE]
  BY <1>1, <1>2 DEF Restored
<1>4. CASE at = {}
  BY <1>2, <1>3, <1>4 DEF Occurs
<1>5. CASE at # {}
  <2>1. PICK m : m = CHOOSE n \in at : TRUE
    OBVIOUS
  <2>2. m \in at /\ Restored(l) = gc.roots[m]
    BY <1>3, <1>5, <2>1
  <2> QED BY <1>2, <2>2
<1> QED
  BY <1>4, <1>5

\* A place that is written back has a word of V, a pointer if it had one.
Restores(V, l) == Restored(l) \in V /\ (IsPointer(Read(l)) => IsPointer(Restored(l)))
Written(l) == IsRoot(l) \/ \E f \in 1..Len(frames) : \E i \in 1..Len(frames[f].args) : l = Loc("arg", f, i)

\* A frame whose words are restored.
WrittenFrame(f) ==
  [rcv |-> Restored(Loc("rcv", f, 0)), code |-> Restored(Loc("code", f, 0)),
    ctx |-> Restored(Loc("ctx", f, 0)), ret |-> frames[f].ret,
    args  |-> [i \in 1..Len(frames[f].args) |-> Restored(Loc("arg", f, i))],
    slots |-> [i \in 1..Len(frames[f].slots) |-> Restored(Loc("slot", f, i))]]
IsWritten(V, f, r) ==
  /\ r \in FrameIn(V) /\ Len(r.slots) = Len(frames[f].slots) /\ Len(r.args) = Len(frames[f].args)
  /\ r.code = Restored(Loc("code", f, 0)) /\ r.ret = frames[f].ret
  /\ \A i \in 1..Len(r.args) : r.args[i] = Restored(Loc("arg", f, i))

\* WriteBack leaves each frame so.
LEMMA FrameWritten ==
  ASSUME NEW W, Stacks(W), NEW V, \A l : Written(l) => Restores(V, l),
         NEW f \in 1..Len(frames), frames[f].ret \in V, NEW r, r = WrittenFrame(f)
  PROVE  IsWritten(V, f, r)
<1>1. frames[f] \in FrameIn(W)
  BY TopFacts, Elements
<1>2. frames[f].rcv # Tagged /\ Len(frames[f].args) \in Nat /\ Len(frames[f].slots) \in Nat
  BY <1>1 DEF FrameIn
<1>3. \A k \in {"rcv", "code", "ctx"} : Restored(Loc(k, f, 0)) \in V
  BY DEF Written, IsRoot, Restores
<1>4. Restored(Loc("rcv", f, 0)) \in V \ {Tagged}
  <2>1. Written(Loc("rcv", f, 0))
    BY DEF Written, IsRoot
  <2>2. Restores(V, Loc("rcv", f, 0))
    BY <2>1
  <2>3. Read(Loc("rcv", f, 0)) = frames[f].rcv
    BY ReadAt
  <2> QED BY <1>2, <2>2, <2>3 DEF Restores, IsPointer
<1>5. PICK n \in Nat, m \in Nat : n = Len(frames[f].args) /\ m = Len(frames[f].slots)
  BY <1>2
<1>6. PICK as : as = [i \in 1..n |-> Restored(Loc("arg", f, i))]
  OBVIOUS
<1>7. PICK ss : ss = [i \in 1..m |-> Restored(Loc("slot", f, i))]
  OBVIOUS
<1>8. as \in Seq(V) /\ Len(as) = n
  <2>1. \A i \in 1..n : Restored(Loc("arg", f, i)) \in V
    <3>1. TAKE i \in 1..n
    <3>2. Written(Loc("arg", f, i))
      BY <1>5 DEF Written
    <3> QED BY <3>2 DEF Restores
  <2>2. as \in [1..n -> V]
    BY <1>6, <2>1
  <2> QED BY <2>2, Listed
<1>9. ss \in Seq(V) /\ Len(ss) = m
  <2>1. \A i \in 1..m : Restored(Loc("slot", f, i)) \in V
    <3>1. TAKE i \in 1..m
    <3>2. Written(Loc("slot", f, i))
      BY <1>5 DEF Written, IsRoot
    <3> QED BY <3>2 DEF Restores
  <2>2. ss \in [1..m -> V]
    BY <1>7, <2>1
  <2> QED BY <2>2, Listed
<1>10. PICK a, b, c : a = Restored(Loc("rcv", f, 0)) /\ b = Restored(Loc("code", f, 0)) /\ c = Restored(Loc("ctx", f, 0))
  OBVIOUS
<1>11. a \in V \ {Tagged} /\ b \in V /\ c \in V
  BY <1>3, <1>4, <1>10
<1>12. PICK t : t = frames[f].ret
  OBVIOUS
<1>13. r = [rcv |-> a, code |-> b, ctx |-> c, ret |-> t, args |-> as, slots |-> ss]
  BY <1>5, <1>6, <1>7, <1>10, <1>12 DEF WrittenFrame
<1>14. t \in V
  BY <1>12
<1>15. r \in FrameIn(V) /\ r.slots = ss /\ r.args = as /\ r.code = b /\ r.ret = t
  BY ONLY <1>8, <1>9, <1>11, <1>13, <1>14 DEF FrameIn
<1> QED
  BY <1>5, <1>6, <1>8, <1>9, <1>10, <1>12, <1>15 DEF IsWritten

\* A chain whose words are restored.
ChainIn(V, w, r, chain) == r \in Seq([1..w -> V]) /\ Len(r) = Len(chain)

\* WriteBack leaves each chain with as many elements.
LEMMA ChainWritten ==
  ASSUME NEW W, NEW V, NEW w \in {2, 3}, NEW k, NEW chain \in Seq([1..w -> W]),
         \A f \in 1..Len(chain), i \in 1..w : Restored(Loc(k, f, i)) \in V
  PROVE  ChainIn(V, w, RestoredChain(k, chain), chain)
<1>1. Len(chain) \in Nat /\ \A f \in 1..Len(chain) : chain[f] \in [1..w -> W]
  BY Elements
<1>2. \A f \in 1..Len(chain) : Len(chain[f]) = w
  <2>1. TAKE f \in 1..Len(chain)
  <2>2. PICK c \in [1..w -> W] : c = chain[f]
    BY <1>1
  <2>3. w \in Nat
    OBVIOUS
  <2>4. Len(c) = w
    BY ONLY <2>2, <2>3, Listed
  <2> QED BY <2>2, <2>4
<1>3. PICK r : r = RestoredChain(k, chain)
  OBVIOUS
<1>4. r = [f \in 1..Len(chain) |-> [i \in 1..w |-> Restored(Loc(k, f, i))]]
  BY <1>2, <1>3 DEF RestoredChain
<1>5. \A f \in 1..Len(chain) : [i \in 1..w |-> Restored(Loc(k, f, i))] \in [1..w -> V]
  OBVIOUS
<1>6. PICK S : S = [1..w -> V]
  OBVIOUS
<1>7. r \in [1..Len(chain) -> S]
  BY <1>4, <1>5, <1>6
<1>8. PICK n \in Nat : n = Len(chain)
  BY <1>1
<1>9. r \in Seq(S) /\ Len(r) = n
  BY <1>7, <1>8, Listed
<1> QED
  BY <1>3, <1>6, <1>8, <1>9 DEF ChainIn

\* The stacks after the roots are written back.
LEMMA StacksWritten ==
  ASSUME NEW W, Stacks(W), NEW V, \A l : Written(l) => Restores(V, l), WriteBack,
         \A f \in 1..Len(frames) : frames[f].ret \in V, calls' \in Seq(CallIn(V))
  PROVE  /\ HeldIn(V)'
         /\ Len(frames') = Len(frames) /\ Len(handlers') = Len(handlers)
         /\ Len(ensures') = Len(ensures) /\ Len(log') = Len(log)
         /\ \A f \in 1..Len(frames) :
              /\ Len(frames'[f].slots) = Len(frames[f].slots) /\ Len(frames'[f].args) = Len(frames[f].args)
              /\ frames'[f].code = Restored(Loc("code", f, 0)) /\ frames'[f].ret = frames[f].ret
              /\ \A i \in 1..Len(frames[f].args) : frames'[f].args[i] = Restored(Loc("arg", f, i))
<1>1. PICK n \in Nat : n = Len(frames)
  BY TopFacts
<1>2. PICK g : g = frames'
  OBVIOUS
<1>3. /\ g = [f \in 1..n |-> g[f]]
      /\ \A f \in 1..n : g[f] = WrittenFrame(f)
  BY <1>1, <1>2 DEF WriteBack, WrittenFrame
<1>4. \A f \in 1..n :
         /\ g[f] \in FrameIn(V) /\ Len(g[f].slots) = Len(frames[f].slots) /\ Len(g[f].args) = Len(frames[f].args)
         /\ g[f].code = Restored(Loc("code", f, 0)) /\ g[f].ret = frames[f].ret
         /\ \A i \in 1..Len(g[f].args) : g[f].args[i] = Restored(Loc("arg", f, i))
  <2>1. TAKE f \in 1..n
  <2>2. PICK r : r = g[f]
    OBVIOUS
  <2>3. f \in 1..Len(frames) /\ r = WrittenFrame(f) /\ frames[f].ret \in V
    BY <1>1, <1>3, <2>2
  <2>4. IsWritten(V, f, r)
    BY <2>3, FrameWritten
  <2> QED BY <2>2, <2>4 DEF IsWritten
<1>5. g \in Seq(FrameIn(V)) /\ Len(g) = n
  <2>1. g \in [1..n -> FrameIn(V)]
    BY <1>3, <1>4
  <2> QED BY <2>1, Listed
<1>6. handlers \in Seq([1..3 -> W]) /\ ensures \in Seq([1..2 -> W]) /\ log \in Seq([1..2 -> W])
  BY DEF Stacks, HeldIn
<1>7. handlers' \in Seq([1..3 -> V]) /\ Len(handlers') = Len(handlers)
  <2>1. \A f \in 1..Len(handlers), i \in 1..3 : Restored(Loc("handler", f, i)) \in V
    BY DEF Written, IsRoot, Restores
  <2>2. ChainIn(V, 3, RestoredChain("handler", handlers), handlers)
    BY <1>6, <2>1, ChainWritten
  <2> QED BY <2>2 DEF WriteBack, ChainIn
<1>8. ensures' \in Seq([1..2 -> V]) /\ Len(ensures') = Len(ensures)
  <2>1. \A f \in 1..Len(ensures), i \in 1..2 : Restored(Loc("ensure", f, i)) \in V
    BY DEF Written, IsRoot, Restores
  <2>2. ChainIn(V, 2, RestoredChain("ensure", ensures), ensures)
    BY <1>6, <2>1, ChainWritten
  <2> QED BY <2>2 DEF WriteBack, ChainIn
<1>9. log' \in Seq([1..2 -> V]) /\ Len(log') = Len(log)
  <2>1. \A f \in 1..Len(log), i \in 1..2 : Restored(Loc("log", f, i)) \in V
    BY DEF Written, IsRoot, Restores
  <2>2. ChainIn(V, 2, RestoredChain("log", log), log)
    BY <1>6, <2>1, ChainWritten
  <2> QED BY <2>2 DEF WriteBack, ChainIn
<1>10. HeldIn(V)'
  BY <1>2, <1>5, <1>7, <1>8, <1>9 DEF HeldIn
<1> QED
  BY <1>1, <1>2, <1>4, <1>5, <1>7, <1>8, <1>9, <1>10

\* The call that went through the collection.
LEMMA CallWritten ==
  ASSUME NEW W, Stacks(W), NEW V, \A l : Written(l) => Restores(V, l),
         \A k \in 1..Len(calls) : calls[k].cleanup \in V /\ calls[k].result \in V,
         \A k \in 1..(Len(calls) - 1) : calls[k].table \in V /\ calls[k].ip \in V,
         calls' = [calls EXCEPT ![Len(calls)] = RelocatedCall]
  PROVE  /\ calls' \in Seq(CallIn(V)) /\ Len(calls') = Len(calls)
         /\ \A k \in 1..(Len(calls) - 1) : calls'[k] = calls[k]
         /\ calls'[Len(calls)].table = Restored(Loc("table", Len(calls), 0))
         /\ calls'[Len(calls)].ip = Restored(Loc("code", Len(frames), 0))
         /\ \A k \in 1..Len(calls) :
              /\ calls'[k].kind = calls[k].kind /\ calls'[k].depth = calls[k].depth
              /\ calls'[k].cleanup = calls[k].cleanup /\ calls'[k].result = calls[k].result
<1>1. calls \in Seq(CallIn(W)) /\ Len(calls) \in Nat \ {0} /\ Level = calls[Len(calls)] /\ Len(frames) \in Nat \ {0}
  BY TopFacts DEF Level
<1>2. PICK n \in Nat \ {0} : n = Len(calls)
  BY <1>1
<1>3. PICK t, p : t = Restored(Loc("table", n, 0)) /\ p = Restored(Loc("code", Len(frames), 0))
  OBVIOUS
<1>4. t \in V /\ p \in V
  <2>1. Written(Loc("table", n, 0))
    BY <1>2 DEF Written, IsRoot
  <2>2. Len(frames) \in 1..Len(frames)
    BY <1>1
  <2>3. Written(Loc("code", Len(frames), 0))
    BY <2>2 DEF Written, IsRoot
  <2> QED BY <1>3, <2>1, <2>3 DEF Restores
<1>5. \A k \in 1..n : calls[k] \in CallIn(W)
  BY <1>1, <1>2, Elements
<1>6. n \in 1..n
  BY <1>2
<1>7. PICK o : o = calls[n]
  OBVIOUS
<1>8. PICK r : r = [o EXCEPT !.table = t, !.ip = p]
  OBVIOUS
<1>9. o \in CallIn(W) /\ o.cleanup \in V /\ o.result \in V
  BY <1>2, <1>5, <1>6, <1>7
<1>10. /\ r \in CallIn(V) /\ r.table = t /\ r.ip = p /\ r.kind = o.kind /\ r.depth = o.depth
       /\ r.cleanup = o.cleanup /\ r.result = o.result
  BY ONLY <1>4, <1>8, <1>9 DEF CallIn
<1>11. r = RelocatedCall
  BY <1>1, <1>2, <1>3, <1>7, <1>8 DEF RelocatedCall
<1>12. \A k \in 1..n : k # n => calls[k] \in CallIn(V)
  <2>1. TAKE k \in 1..n
  <2>2. HAVE k # n
  <2>3. k \in 1..(n - 1)
    BY <1>2, <2>2
  <2>4. PICK x : x = calls[k]
    OBVIOUS
  <2>5. x \in CallIn(W) /\ x.cleanup \in V /\ x.result \in V /\ x.table \in V /\ x.ip \in V
    BY <1>2, <1>5, <2>3, <2>4
  <2>6. x \in CallIn(V)
    BY ONLY <2>5 DEF CallIn
  <2> QED BY <2>4, <2>6
<1>13. calls = [k \in 1..n |-> calls[k]]
  BY <1>1, <1>2
<1>14. PICK q : q = calls'
  OBVIOUS
<1>15. q = [calls EXCEPT ![n] = r]
  BY <1>2, <1>11, <1>14
<1>16. q = [k \in 1..n |-> IF k = n THEN r ELSE calls[k]]
  BY <1>13, <1>15
<1>17. \A k \in 1..n : (IF k = n THEN r ELSE calls[k]) \in CallIn(V)
  BY <1>10, <1>12
<1>18. q \in [1..n -> CallIn(V)]
  BY <1>16, <1>17
<1>19. q \in Seq(CallIn(V)) /\ Len(q) = n
  BY <1>18, Listed
<1>20. q[n] = r /\ \A k \in 1..n : k # n => q[k] = calls[k]
  BY <1>6, <1>16
<1>21. \A k \in 1..(n - 1) : k \in 1..n /\ k # n
  BY <1>2
<1>22. \A k \in 1..n : q[k].kind = calls[k].kind /\ q[k].depth = calls[k].depth
                     /\ q[k].cleanup = calls[k].cleanup /\ q[k].result = calls[k].result
  BY <1>7, <1>10, <1>20
<1> QED
  BY <1>2, <1>3, <1>10, <1>14, <1>19, <1>20, <1>21, <1>22

\* The spaces change places.
LEMMA Exchanged ==
  ASSUME BInv, Flip
  PROVE  /\ gc.phase = "scan" /\ gc.scan >= gc.free /\ outcome = "running"
         /\ from' = To /\ free' = gc.free /\ To' = from /\ gc' = NoGc
         /\ \A a \in Words : mem'[a] = IF a \in Space(from) THEN NoObj ELSE mem[a]
         /\ \A a \in Space(To) : mem'[a] = mem[a]
         /\ mem' \in Heap(Word)
         /\ job' = [job EXCEPT !.tried = TRUE] /\ UNCHANGED <<inTxn, remembered, made, collections, outcome>>
<1>1. from \in {0, SpaceWords} /\ mem \in Heap(Word) /\ SpaceWords \in Nat
  BY BFacts, SpaceFacts
<1>2. NoObj \in ObjectIn(Word)
  <2>1. PICK fs : fs = <<>>
    OBVIOUS
  <2>2. fs \in FieldsIn(Word)
    BY <2>1 DEF FieldsIn
  <2>3. 0 \in Ids /\ Tagged \in Word /\ 0 \in 0..Fixed
    BY SpaceFacts, BoundsAssumption DEF Ids, Word, Tagged
  <2>4. NoObj = [id |-> 0, class |-> Tagged, fields |-> fs, fwd |-> 0]
    BY <2>1 DEF NoObj
  <2> QED BY ONLY <2>2, <2>3, <2>4 DEF ObjectIn
<1>3. \A a \in Words : mem'[a] = IF a \in Space(from) THEN NoObj ELSE mem[a]
  BY DEF Flip, InSpace, Space
<1>4. mem' \in Heap(Word)
  <2>1. mem' = [a \in Words |-> mem'[a]]
    BY DEF Flip
  <2>2. \A a \in Words : mem'[a] \in ObjectIn(Word)
    BY <1>1, <1>2, <1>3 DEF Heap
  <2> HIDE DEF Words
  <2> QED BY <2>1, <2>2 DEF Heap
<1>5. \A a \in Space(To) : a \in Words /\ a \notin Space(from)
  BY <1>1, SpaceFacts DEF To
<1>6. from' = To /\ To' = from
  BY <1>1 DEF Flip, To
<1> QED
  BY <1>3, <1>4, <1>5, <1>6 DEF Flip, FreeAfterFlip

\* What a root has come to is a word, and a pointer if it was one.
LEMMA RootsRestored ==
  ASSUME BInv, gc.phase = "scan"
  PROVE  \A l : Read(l) \in Word => Restores(Word, l)
<1>1. Len(Order) \in Nat
  BY BFacts, OrderFacts DEF Order
<1>2. RootsOK /\ gc.roots \in Seq(Word)
  BY GcFacts
<1>3. TAKE l
<1>4. HAVE Read(l) \in Word
<1>5. CASE Restored(l) = Read(l)
  BY <1>4, <1>5 DEF Restores
<1>6. ASSUME NEW n \in 1..Len(Order), Order[n] = l, Restored(l) = gc.roots[n]
      PROVE  Restores(Word, l)
  <2>1. n \in 1..Len(gc.roots)
    BY <1>1, <1>2 DEF RootsOK
  <2>2. gc.roots[n] \in Word
    BY <1>2, <2>1, Elements
  <2> QED BY <1>2, <1>6, <2>1, <2>2 DEF RootsOK, Restores
<1> QED
  BY <1>5, <1>6, RestoredIs

\* Every place that is written back holds a word.
LEMMA WrittenReads ==
  ASSUME NEW W, Stacks(W)
  PROVE  \A l : Written(l) => Read(l) \in W
<1>1. \A f \in 1..Len(frames) : frames[f] \in FrameIn(W)
  BY TopFacts, Elements
<1>2. \A f \in 1..Len(frames) :
        /\ frames[f].rcv \in W /\ frames[f].code \in W /\ frames[f].ctx \in W
        /\ \A i \in 1..Len(frames[f].slots) : frames[f].slots[i] \in W
        /\ \A i \in 1..Len(frames[f].args) : frames[f].args[i] \in W
  BY <1>1, Elements DEF FrameIn
<1>3. \A f \in 1..Len(handlers), i \in 1..3 : handlers[f][i] \in W
  <2>1. handlers \in Seq([1..3 -> W])
    BY DEF Stacks, HeldIn
  <2> QED BY <2>1, Elements
<1>4. \A f \in 1..Len(ensures), i \in 1..2 : ensures[f][i] \in W
  <2>1. ensures \in Seq([1..2 -> W])
    BY DEF Stacks, HeldIn
  <2> QED BY <2>1, Elements
<1>5. \A f \in 1..Len(log), i \in 1..2 : log[f][i] \in W
  <2>1. log \in Seq([1..2 -> W])
    BY DEF Stacks, HeldIn
  <2> QED BY <2>1, Elements
<1>6. calls[Len(calls)].table \in W
  <2>1. Level \in CallIn(W)
    BY TopFacts
  <2> QED BY <2>1 DEF Level, CallIn
<1>7. TAKE l
<1>8. HAVE Written(l)
<1>9. CASE \E f \in 1..Len(frames) : l \in {Loc("rcv", f, 0), Loc("code", f, 0), Loc("ctx", f, 0)}
  BY <1>2, <1>9, ReadAt
<1>10. CASE \E f \in 1..Len(frames) : \E i \in 1..Len(frames[f].slots) : l = Loc("slot", f, i)
  BY <1>2, <1>10, ReadAt
<1>11. CASE \E f \in 1..Len(frames) : \E i \in 1..Len(frames[f].args) : l = Loc("arg", f, i)
  BY <1>2, <1>11, ReadAt
<1>12. CASE \E f \in 1..Len(handlers), i \in 1..3 : l = Loc("handler", f, i)
  BY <1>3, <1>12, ReadAt
<1>13. CASE \E f \in 1..Len(ensures), i \in 1..2 : l = Loc("ensure", f, i)
  BY <1>4, <1>13, ReadAt
<1>14. CASE \E f \in 1..Len(log), i \in 1..2 : l = Loc("log", f, i)
  BY <1>5, <1>14, ReadAt
<1>15. CASE l = Loc("table", Len(calls), 0)
  BY <1>6, <1>15, ReadAt
<1> QED
  BY <1>8, <1>9, <1>10, <1>11, <1>12, <1>13, <1>14, <1>15 DEF Written, IsRoot

\* The allocation under way goes on as it was.
LEMMA JobTried ==
  ASSUME NEW W, NEW V, job \in Jobs(W), job.local \in V, NEW j, j = [job EXCEPT !.tried = TRUE]
  PROVE  /\ j \in Jobs(V) /\ j.kind = job.kind /\ j.stage = job.stage /\ j.size = job.size
         /\ j.local = job.local /\ j.tried = TRUE
<1>1. PICK t \in BOOLEAN : t = TRUE
  OBVIOUS
<1>2. j = [job EXCEPT !.tried = t]
  BY <1>1
<1> HIDE DEF NoJob
<1>3. j \in Jobs(V) /\ j.kind = job.kind /\ j.stage = job.stage /\ j.size = job.size /\ j.local = job.local /\ j.tried = t
  BY ONLY <1>2, job \in Jobs(W), job.local \in V DEF Jobs
<1> QED
  BY <1>1, <1>3

\* The exchange of the spaces keeps the invariant.
LEMMA FlipKeeps ==
  ASSUME BInv, Flip
  PROVE  BInv'
<1>1. /\ gc.phase = "scan" /\ from' = To /\ free' = gc.free /\ To' = from /\ gc' = NoGc
      /\ (\A a \in Words : mem'[a] = IF a \in Space(from) THEN NoObj ELSE mem[a])
      /\ (\A a \in Space(To) : mem'[a] = mem[a])
      /\ mem' \in Heap(Word)
      /\ job' = [job EXCEPT !.tried = TRUE] /\ UNCHANGED <<inTxn, remembered, made, collections, outcome>>
  BY Exchanged
<1>2. /\ Stacks(Word) /\ mem \in Heap(Word)
      /\ from \in {0, SpaceWords} /\ To \in {0, SpaceWords}
  BY BFacts
<1>3. /\ Tiles(mem, To, gc.free) /\ job # NoJob
      /\ \A a \in Words : mem[a] = NoObj \/ mem[a].id # 0
  BY <1>1, GcFacts
<1>4. \A l : Written(l) => Restores(Word, l)
  BY <1>1, <1>2, RootsRestored, WrittenReads
<1>5. WriteBack /\ calls' = [calls EXCEPT ![Len(calls)] = RelocatedCall]
  BY DEF Flip
<1>6. \A k \in 1..Len(calls) : calls[k].cleanup \in Word /\ calls[k].result \in Word /\ calls[k].table \in Word /\ calls[k].ip \in Word
  <2>1. \A k \in 1..Len(calls) : calls[k] \in CallIn(Word)
    BY <1>2, TopFacts, Elements
  <2> QED BY <2>1 DEF CallIn
<1>7. \A f \in 1..Len(frames) : frames[f].ret \in Word
  <2>1. \A f \in 1..Len(frames) : frames[f] \in FrameIn(Word)
    BY <1>2, TopFacts, Elements
  <2> QED BY <2>1 DEF FrameIn
<1>8. /\ calls' \in Seq(CallIn(Word)) /\ Len(calls') = Len(calls)
      /\ \A k \in 1..Len(calls) : calls'[k].kind = calls[k].kind /\ calls'[k].depth = calls[k].depth
  <2>1. \A k \in 1..(Len(calls) - 1) : k \in 1..Len(calls)
    BY <1>2, TopFacts
  <2> QED BY <1>2, <1>4, <1>5, <1>6, <2>1, CallWritten
<1>9. /\ HeldIn(Word)' /\ Len(frames') = Len(frames)
      /\ \A f \in 1..Len(frames) : Len(frames'[f].slots) = Len(frames[f].slots)
  <2>1. PICK W, V : W = Word /\ V = Word
    OBVIOUS
  <2>2. HeldIn(V)' /\ Len(frames') = Len(frames) /\ \A f \in 1..Len(frames) : Len(frames'[f].slots) = Len(frames[f].slots)
    BY <1>2, <1>4, <1>5, <1>7, <1>8, <2>1, StacksWritten
  <2> QED BY <2>1, <2>2 DEF Word, Fixed, HeldIn
<1>10. Stacks(Word)'
  <2>1. \A f \in 1..Len(frames') : Len(frames'[f].slots) >= NumTemps
    BY <1>2, <1>9 DEF Stacks, StacksOK
  <2>2. Len(frames') >= Level.depth
    BY <1>2, <1>9 DEF Stacks, StacksOK
  <2>3. \A f \in 1..(Level.depth - 1) : f \in 1..Len(frames)
    <3>1. Len(frames) \in Nat /\ Level.depth \in Nat
      BY <1>2, TopFacts DEF CallIn
    <3> QED BY <1>9, <2>2, <3>1
  <2>4. \A f \in 1..(Level.depth - 1) : Len(frames'[f].slots) = Len(frames[f].slots)
    BY <1>9, <2>3
  <2> QED BY <1>2, <1>8, <1>9, <2>1, <2>2, <2>4, StacksKept
<1>12. HeapOK'
  <2>1. SameSizes(mem, mem', Space(To))
    BY <1>1 DEF SameSizes
  <2>2. Tiles(mem', To, gc.free)
    BY <1>2, <1>3, <2>1, TilesKept
  <2>3. \A a \in Words : mem'[a] = NoObj \/ mem'[a].id # 0
    BY <1>1, <1>3
  <2>4. Tiles(mem, from, free)'
    BY <1>1, <2>2 DEF Tiles, Space
  <2>5. mem' \in [Words -> ObjectIn(Word)]
    BY <1>1 DEF Heap
  <2>6. (mem \in [Words -> ObjectIn(Word)])'
    BY <2>5 DEF Words, ObjectIn, Word, Fixed, Ids, FieldsIn
  <2>7. from' \in {0, SpaceWords}
    BY <1>1, <1>2
  <2> QED BY <2>3, <2>4, <2>6, <2>7 DEF HeapOK, Words, Fixed, NoObj, Tagged
<1>13. GcOK'
  <2>1. \A a \in Space(from) : mem'[a] = NoObj
    <3>1. Space(from) \subseteq Words
      BY <1>2, SpaceFacts
    <3> QED BY <1>1, <3>1
  <2>2. (\A a \in Space(To) : mem[a] = NoObj)'
    BY <1>1, <2>1 DEF Space, NoObj, Tagged
  <2> QED BY <1>1, <2>2 DEF GcOK, NoGc
<1>14. JobIn(Word)'
  <2>1. job \in Jobs(Word) /\ job.local \in Word
    BY DEF BInv, JobIn, Jobs
  <2>2. PICK j : j = job'
    OBVIOUS
  <2>3. /\ j \in Jobs(Word) /\ j.kind = job.kind /\ j.stage = job.stage /\ j.size = job.size
    BY <1>1, <2>1, <2>2, JobTried
  <2>4. Operands' = Operands
    <3>1. Len(frames) \in 1..Len(frames)
      BY <1>2, TopFacts
    <3> QED BY <1>9, <3>1 DEF Operands, Top
  <2>5. made' = made
    BY <1>1
  <2>6. job.kind # "none"
    BY <1>3 DEF BInv, JobIn, NoJob
  <2>7. \/ job.kind = "new" /\ job.stage = "object" /\ job.size \in 1..3 /\ made < MaxAllocs /\ Operands > 0
        \/ job.kind = "closure" /\ job.stage = "context" /\ job.size = 2 /\ made < MaxAllocs
        \/ job.kind = "closure" /\ job.stage = "block" /\ job.size = 3 /\ made <= MaxAllocs
    BY <1>3 DEF BInv, JobIn
  <2>8. \/ job'.kind = "new" /\ job'.stage = "object" /\ job'.size \in 1..3 /\ made' < MaxAllocs /\ Operands' > 0
        \/ job'.kind = "closure" /\ job'.stage = "context" /\ job'.size = 2 /\ made' < MaxAllocs
        \/ job'.kind = "closure" /\ job'.stage = "block" /\ job'.size = 3 /\ made' <= MaxAllocs
    BY <2>2, <2>3, <2>4, <2>5, <2>7
  <2>9. (job \in Jobs(Word))'
    BY <2>2, <2>3 DEF Jobs, Word, Fixed
  <2> QED BY <2>8, <2>9 DEF JobIn
<1>15. inTxn' \in BOOLEAN /\ made' \in 4..(MaxAllocs + 1) /\ collections' \in Nat /\ outcome' \in {"running", "trap", "wild"}
  BY <1>1, BFacts DEF BInv
<1> QED
  BY <1>10, <1>12, <1>13, <1>14, <1>15 DEF BInv, Stacks

-----------------------------------------------------------------------------
(* The type invariant holds. *)

\* What the program starts with.
First(young) ==
  [rcv |-> 1, args |-> <<>>, code |-> Code(young), ctx |-> Tagged, ret |-> Tagged,
   slots |-> [i \in 1..(NumTemps + 1) |-> IF i = NumTemps + 1 THEN 1 ELSE Tagged]]
HostCall(young) ==
  [kind |-> "host", depth |-> 1, table |-> Table(young), ip |-> Code(young), cleanup |-> Tagged, result |-> Tagged]

\* The stacks it starts with.
LEMMA StartedStacks ==
  ASSUME Init, NEW young \in BOOLEAN, Started(young), NEW W, {Tagged, 1, Code(young), Table(young)} \subseteq W
  PROVE  /\ Stacks(W) /\ frames = <<First(young)>> /\ calls = <<HostCall(young)>>
         /\ First(young) \in FrameIn(W) /\ HostCall(young) \in CallIn(W) /\ Len(First(young).slots) = NumTemps + 1
<1>1. NumTemps \in Nat
  BY SpaceFacts
<1>2. PICK a \in W, t \in W, o \in W \ {Tagged} : a = Code(young) /\ t = Table(young) /\ o = 1
  BY DEF Tagged
<1>3. PICK z \in W : z = Tagged
  OBVIOUS
<1>4. PICK n \in Nat : n = NumTemps + 1
  BY <1>1
<1>5. PICK ss : ss = [i \in 1..n |-> IF i = n THEN o ELSE z]
  OBVIOUS
<1>6. ss \in Seq(W) /\ Len(ss) = n
  <2>1. ss \in [1..n -> W]
    BY <1>5
  <2> QED BY <2>1, Listed
<1>7. PICK as : as = <<>>
  OBVIOUS
<1>8. as \in Seq(W)
  BY <1>7
<1>9. PICK f : f = [rcv |-> o, args |-> as, code |-> a, ctx |-> z, ret |-> z, slots |-> ss]
  OBVIOUS
<1>10. f \in FrameIn(W) /\ f.slots = ss
  BY ONLY <1>6, <1>8, <1>9, o \in W \ {Tagged}, z \in W, a \in W DEF FrameIn
<1>11. f = First(young)
  BY <1>2, <1>3, <1>4, <1>5, <1>7, <1>9 DEF First
<1>12. PICK c : c = [kind |-> "host", depth |-> 1, table |-> t, ip |-> a, cleanup |-> z, result |-> z]
  OBVIOUS
<1>13. c \in CallIn(W) /\ c.kind = "host" /\ c.depth = 1
  BY ONLY <1>12, t \in W, a \in W, z \in W DEF CallIn
<1>14. c = HostCall(young)
  BY <1>2, <1>3, <1>12 DEF HostCall
<1>15. frames = <<f>> /\ calls = <<c>>
  BY <1>11, <1>14 DEF Started, First, HostCall
<1>16. /\ frames \in Seq(FrameIn(W)) /\ Len(frames) = 1 /\ frames[1] = f
       /\ calls \in Seq(CallIn(W)) /\ Len(calls) = 1 /\ calls[1] = c
  BY <1>10, <1>13, <1>15, Single
<1>17. HeldIn(W)
  BY <1>16 DEF Init, HeldIn
<1>18. StacksOK
  <2>1. \A g \in 1..Len(frames) : Len(frames[g].slots) >= NumTemps
    BY <1>1, <1>4, <1>6, <1>10, <1>16
  <2> QED BY <1>13, <1>16, <2>1 DEF StacksOK, Level
<1> QED
  BY <1>4, <1>6, <1>10, <1>11, <1>13, <1>14, <1>15, <1>17, <1>18 DEF Stacks

\* The objects it starts with.
LEMMA StartedHeap ==
  ASSUME NEW young \in BOOLEAN, young \in CodeMoves, Started(young)
  PROVE  /\ mem \in Heap(Word)
         /\ \A a \in Words : mem[a] # NoObj => a \in {1, Code(young), Table(young), Tenured}
         /\ \A a \in {1, Code(young), Table(young), Tenured} :
              /\ mem[a].id # 0 /\ mem[a].id <= 4 /\ mem[a].fwd = 0 /\ mem[a] # NoObj
              /\ mem[a].class = Tagged /\ mem[a].fields \in {<<>>, <<Tagged>>}
         /\ mem[1] = Object(1, Tagged, <<Tagged>>) /\ mem[Code(young)] = Object(2, Tagged, <<>>)
         /\ mem[Table(young)] = Object(3, Tagged, <<>>) /\ mem[Tenured] = Object(4, Tagged, <<Tagged>>)
         /\ {1, Code(young), Table(young), Tenured} \subseteq Words
         /\ (young => SpaceWords >= 4)
<1>1. SpaceWords \in Nat /\ SpaceWords >= 2 /\ Fixed = 2 * SpaceWords /\ Fixed \in Nat /\ MaxAllocs \in Nat /\ MaxAllocs >= 4
  BY SpaceFacts, BoundsAssumption
<1>2. young => SpaceWords >= 4
  BY BoundsAssumption
<1>3. /\ {1, Code(young), Table(young), Tenured} \subseteq Words
      /\ Code(young) # 1 /\ Table(young) # 1 /\ Tenured # 1 /\ Code(young) # Table(young)
      /\ Code(young) # Tenured /\ Table(young) # Tenured
  BY <1>1, <1>2 DEF Words, Code, Table, Tenured
<1>4. PICK e, s : e = <<>> /\ s = <<Tagged>>
  OBVIOUS
<1>5. e \in FieldsIn(Word) /\ s \in FieldsIn(Word)
  <2>1. Tagged \in Word
    BY WordFacts
  <2>2. s \in FieldsIn(Word)
    BY <1>4, <2>1, PairFields
  <2> QED BY <1>4, <2>2 DEF FieldsIn
<1>6. \A i \in 0..4, f \in {e, s} : [id |-> i, class |-> Tagged, fields |-> f, fwd |-> 0] \in ObjectIn(Word)
  <2>1. 0..4 \subseteq Ids /\ Tagged \in Word /\ 0 \in 0..Fixed
    BY <1>1, WordFacts DEF Ids
  <2> QED BY ONLY <1>5, <2>1 DEF ObjectIn
<1>7. mem = [a \in Words |->
       CASE a = 1            -> Object(1, Tagged, s)
         [] a = Code(young)  -> Object(2, Tagged, e)
         [] a = Table(young) -> Object(3, Tagged, e)
         [] a = Tenured      -> Object(4, Tagged, s)
         [] OTHER            -> NoObj]
  BY <1>4 DEF Started
<1>8. PICK c, t, x : c = Code(young) /\ t = Table(young) /\ x = Tenured
  OBVIOUS
<1>9. c # 1 /\ t # 1 /\ x # 1 /\ c # t /\ c # x /\ t # x /\ {1, c, t, x} \subseteq Words
  BY <1>3, <1>8
<1>10. \A a \in Words : a \notin {1, c, t, x} => mem[a] = NoObj
  BY <1>7, <1>8
<1>11. mem[1] = Object(1, Tagged, s)
  <2>1. 1 \in Words
    BY <1>9
  <2> QED BY <1>7, <1>8, <1>9, <2>1
<1>12. mem[c] = Object(2, Tagged, e)
  BY <1>7, <1>8, <1>9
<1>13. mem[t] = Object(3, Tagged, e)
  BY <1>7, <1>8, <1>9
<1>14. mem[x] = Object(4, Tagged, s)
  BY <1>7, <1>8, <1>9
<1>15. Object(1, Tagged, s) \in ObjectIn(Word) /\ Object(2, Tagged, e) \in ObjectIn(Word) /\ Object(3, Tagged, e) \in ObjectIn(Word)
       /\ Object(4, Tagged, s) \in ObjectIn(Word) /\ NoObj \in ObjectIn(Word)
  BY <1>4, <1>6 DEF Object, NoObj
<1>16. \A a \in Words : mem[a] \in ObjectIn(Word)
  BY <1>10, <1>11, <1>12, <1>13, <1>14, <1>15
<1>17. mem = [a \in Words |-> mem[a]]
  BY <1>7
<1>18. mem \in Heap(Word)
  BY <1>16, <1>17 DEF Heap
<1>19. \A a \in {1, c, t, x} : mem[a].id # 0 /\ mem[a].id <= 4 /\ mem[a].fwd = 0 /\ mem[a].class = Tagged
                               /\ mem[a].fields \in {e, s} /\ mem[a] # NoObj
  BY <1>11, <1>12, <1>13, <1>14 DEF Object, NoObj
<1> QED
  BY <1>2, <1>4, <1>8, <1>9, <1>10, <1>11, <1>12, <1>13, <1>14, <1>18, <1>19

\* The invariant holds to begin with.
LEMMA InitB ==
  ASSUME Init
  PROVE  BInv
<1>1. PICK young \in CodeMoves : Started(young)
  BY DEF Init
<1>2. young \in BOOLEAN
  BY UsesAssumption
<1>3. /\ mem \in Heap(Word)
      /\ \A a \in Words : mem[a] # NoObj => a \in {1, Code(young), Table(young), Tenured}
      /\ \A a \in {1, Code(young), Table(young), Tenured} : mem[a].id # 0
      /\ mem[1] = Object(1, Tagged, <<Tagged>>) /\ mem[Code(young)] = Object(2, Tagged, <<>>)
      /\ mem[Table(young)] = Object(3, Tagged, <<>>)
      /\ {1, Code(young), Table(young), Tenured} \subseteq Words
      /\ (young => SpaceWords >= 4)
  BY <1>1, <1>2, StartedHeap
<1>4. {Tagged, 1, Code(young), Table(young)} \subseteq Word
  BY <1>3, WordFacts
<1>5. Stacks(Word)
  BY <1>1, <1>2, <1>4, StartedStacks
<1>6. SpaceWords \in Nat /\ SpaceWords >= 2 /\ Fixed = 2 * SpaceWords
  BY SpaceFacts
<1>7. from = 0 /\ free = IF young THEN 4 ELSE 2
  BY <1>1 DEF Init, Started
<1>8. \A a \in Space(0) : mem[a] # NoObj => a = 1 \/ (young /\ a \in {3, 4})
  <2>1. TAKE a \in Space(0)
  <2>2. a \in 1..SpaceWords
    BY <1>6 DEF Space
  <2>3. a \in Words /\ a # Tenured /\ (~young => a # Code(young) /\ a # Table(young))
    BY <1>6, <2>2 DEF Words, Tenured, Code, Table
  <2>4. young => Code(young) = 3 /\ Table(young) = 4
    BY DEF Code, Table
  <2> QED BY <1>3, <2>3, <2>4
<1>9. Size(mem[1]) = 2 /\ (young => Size(mem[3]) = 1 /\ Size(mem[4]) = 1 /\ mem[3] # NoObj /\ mem[4] # NoObj) /\ mem[1] # NoObj
  <2>1. Len(<<Tagged>>) = 1
    OBVIOUS
  <2>2. young => Code(young) = 3 /\ Table(young) = 4
    BY DEF Code, Table
  <2> QED BY <1>3, <2>1, <2>2 DEF Object, Size, NoObj
<1>10. Tiles(mem, 0, free)
  <2>1. free \in 0..(0 + SpaceWords) /\ mem[0 + 1] # NoObj
    BY <1>3, <1>6, <1>7, <1>9
  <2>2. \A a \in Space(0) : mem[a] # NoObj =>
       /\ a + Size(mem[a]) <= free + 1
       /\ a + Size(mem[a]) <= free => mem[a + Size(mem[a])] # NoObj
       /\ \A b \in Space(0) : mem[b] # NoObj /\ a < b => a + Size(mem[a]) <= b
    <3>1. CASE young
      BY <1>7, <1>8, <1>9, <3>1
    <3>2. CASE ~young
      BY <1>7, <1>8, <1>9, <3>2
    <3> QED BY <3>1, <3>2
  <2> QED BY <2>1, <2>2 DEF Tiles
<1>11. HeapOK
  <2>1. \A a \in Words : mem[a] = NoObj \/ mem[a].id # 0
    BY <1>3
  <2> QED BY <1>3, <1>7, <1>10, <2>1 DEF HeapOK, Heap
<1>12. \A a \in Space(To) : mem[a] = NoObj
  <2>1. To = SpaceWords
    BY <1>6, <1>7 DEF To
  <2>2. TAKE a \in Space(To)
  <2>3. a \in (SpaceWords + 1)..(SpaceWords + SpaceWords)
    BY <2>1 DEF Space
  <2>4. a \in Words /\ a # Tenured /\ a # 1
    BY <1>6, <2>3 DEF Words, Tenured
  <2>5. a # Code(young) /\ a # Table(young)
    BY <1>3, <1>6, <2>3 DEF Code, Table
  <2> QED BY <1>3, <2>4, <2>5
<1>13. GcOK
  BY <1>12 DEF Init, GcOK
<1>14. JobIn(Word)
  <2>1. PICK no \in BOOLEAN : no = FALSE
    OBVIOUS
  <2>2. PICK j : j = [kind |-> "none", stage |-> "none", tried |-> no, local |-> Tagged, size |-> 0]
    OBVIOUS
  <2>3. j \in Jobs(Word)
    <3>1. Tagged \in Word
      BY WordFacts
    <3> QED BY ONLY <2>2, <3>1, no \in BOOLEAN DEF Jobs
  <2> QED BY <2>1, <2>2, <2>3 DEF Init, NoJob, JobIn
<1>16. inTxn \in BOOLEAN /\ made \in 4..(MaxAllocs + 1) /\ collections \in Nat /\ outcome \in {"running", "trap", "wild"}
  <2>1. MaxAllocs \in Nat /\ MaxAllocs >= 4
    BY BoundsAssumption
  <2>2. 4 \in 4..(MaxAllocs + 1)
    BY <2>1
  <2>3. inTxn = FALSE /\ made = 4 /\ collections = 0 /\ outcome = "running"
    BY DEF Init
  <2>4. inTxn \in BOOLEAN /\ outcome \in {"running", "trap", "wild"}
    BY <2>3
  <2> QED BY <2>2, <2>3, <2>4
<1> QED
  BY <1>5, <1>11, <1>13, <1>14, <1>16 DEF BInv, Stacks

\* A step of no action leaves everything as it is.
LEMMA StutterKeepsB ==
  ASSUME BInv, UNCHANGED vars
  PROVE  BInv'
<1>1. UNCHANGED <<mem, from, free, frames, calls, handlers, ensures, log, inTxn, remembered, job, gc, made, collections, outcome>>
  BY DEF vars, memory, stacks, chains, history
<1>2. Stacks(Word)'
  BY <1>1, BFacts, StacksSame DEF stacks, chains
<1>3. HeapOK'
  BY <1>1 DEF BInv, HeapOK, Tiles, Space, Words, Word, Fixed, Ids, FieldsIn, ObjectIn
<1>4. GcOK'
  <2>1. Order' = Order /\ \A l : Read(l)' = Read(l)
    BY <1>1, OrderSame, ReadSame DEF stacks, chains
  <2>2. RootsOK' <=> RootsOK
    BY <1>1, <2>1 DEF RootsOK, IsPointer, Tagged
  <2>3. To' = To
    BY <1>1 DEF To
  <2>4. (gc \in Collections)' <=> gc \in Collections
    BY <1>1 DEF Collections, Word, Fixed
  <2>5. Tiles(mem, To, gc.free)' <=> Tiles(mem, To, gc.free)
    BY <1>1, <2>3 DEF Tiles, Space
  <2>6. (\A a \in Space(To) : mem[a] = NoObj)' <=> (\A a \in Space(To) : mem[a] = NoObj)
    BY <1>1, <2>3 DEF Space
  <2> QED BY <1>1, <2>2, <2>3, <2>4, <2>5, <2>6 DEF BInv, GcOK, NoJob, NoGc
<1>5. JobIn(Word)'
  <2>1. (job \in Jobs(Word))' /\ Operands' = Operands
    BY <1>1 DEF BInv, JobIn, Jobs, Word, Fixed, Operands, Top
  <2> QED BY <1>1, <2>1 DEF BInv, JobIn
<1> QED
  BY <1>1, <1>2, <1>3, <1>4, <1>5 DEF BInv, Stacks

\* Every step keeps the invariant.
LEMMA NextKeepsB ==
  ASSUME BInv, [Next]_vars
  PROVE  BInv'
<1>1. CASE PushTemp \/ Duplicate \/ PushArg \/ PushSelf \/ PushLiteral \/ PushField
  BY <1>1, PushesKeep
<1>2. CASE Pop \/ StoreTemp \/ StoreField
  BY <1>2, PopsKeep
<1>3. CASE Send \/ OnDo \/ Ensure \/ Transaction
  BY <1>3, EntersKeep
<1>4. CASE Return
  BY <1>4, ReturnKeeps
<1>5. CASE Answer
  BY <1>5, AnswerKeeps
<1>6. CASE BasicNew \/ PushClosure \/ OutOfMemory
  BY <1>6, JobsKeep
<1>7. CASE New \/ NewContext \/ NewBlock
  BY <1>7, AllocationsKeep
<1>8. CASE AllocationFails
  BY <1>8, StartKeeps
<1>9. CASE CopyRoots
  BY <1>9, CopyRootsKeeps
<1>10. CASE ScanObject
  BY <1>10, ScanObjectKeeps
<1>11. CASE Flip
  BY <1>11, FlipKeeps
<1>12. CASE UNCHANGED vars
  BY <1>12, StutterKeepsB
<1> QED
  BY <1>1, <1>2, <1>3, <1>4, <1>5, <1>6, <1>7, <1>8, <1>9, <1>10, <1>11, <1>12 DEF Next

\* For every program and every size of heap, the objects of the from-space lie
\* one after the other up to free, those of the to-space up to the collector's
\* free pointer and its scan pointer at the beginning of one; every frame, call and
\* chain holds words; and the list of roots is as long as the list of places it is
\* written back to (gc_collect, collect_and_retry_allocation).
THEOREM BasicInvariant == Spec => []BInv
<1>1. Init => BInv
  BY InitB
<1>2. BInv /\ [Next]_vars => BInv'
  BY NextKeepsB
<1> QED
  BY <1>1, <1>2, PTL DEF Spec

\* The invariant gives the types.
LEMMA BInvTyped ==
  ASSUME BInv
  PROVE  TypeOK
<1>1. mem \in Heap(Word) /\ from \in {0, SpaceWords} /\ To \in {0, SpaceWords} /\ Tiles(mem, from, free) /\ SpaceWords \in Nat
  BY BFacts, SpaceFacts
<1>2. free \in from..(from + SpaceWords)
  BY <1>1 DEF Tiles
<1>3. gc.phase # "idle" => gc.scan <= gc.free /\ gc.free <= To + SpaceWords
  <2>1. HAVE gc.phase # "idle"
  <2>2. gc.scan \in To..gc.free /\ Tiles(mem, To, gc.free) /\ gc.free \in Nat /\ To \in Nat
    BY <2>1, GcFacts
  <2> QED BY <1>1, <2>2 DEF Tiles
<1>4. outcome \in {"running", "trap", "wild"}
  BY DEF BInv
<1> QED
  BY <1>1, <1>2, <1>3, <1>4 DEF TypeOK, Heap, ObjectIn, FieldsIn, Ids, Word

\* Every variable of the collector, the stacks and the chains keeps its type.
THEOREM CollectorTypes == Spec => []TypeOK
<1>1. BInv => TypeOK
  BY BInvTyped
<1> QED
  BY <1>1, BasicInvariant, PTL

-----------------------------------------------------------------------------
(* The copy. *)

\* Where there are objects, and what a space is.
LEMMA FromFacts ==
  ASSUME from \in {0, SpaceWords}
  PROVE  /\ To \in {0, SpaceWords} /\ from \in Nat /\ To \in Nat /\ SpaceWords \in Nat /\ Fixed \in Nat
         /\ Space(from) \subseteq Words /\ Space(To) \subseteq Words
         /\ \A a \in Space(from) : a \notin Space(To) /\ a \notin Staying /\ a \in Nat /\ a # 0
         /\ \A a \in Space(To) : a \notin Space(from) /\ a \notin Staying /\ a \in Nat /\ a # 0
         /\ \A a \in Words : a \in Space(from) \/ a \in Space(To) \/ a \in Staying
         /\ Staying \subseteq Word /\ Words \subseteq Word
<1>1. /\ SpaceWords \in Nat /\ SpaceWords >= 2 /\ Fixed = 2 * SpaceWords /\ Fixed \in Nat /\ Tagged = 0
  BY SpaceFacts DEF Tagged
<1>2. To \in {0, SpaceWords} /\ (from = 0 => To = SpaceWords) /\ (from = SpaceWords => To = 0)
  BY <1>1 DEF To
<1>3. Words = 1..(Fixed + 3) /\ Word = 0..(Fixed + 3) /\ Staying = {0} \cup {a \in Words : a > Fixed}
  BY <1>1 DEF Words, Word, Staying
<1>4. \A lo \in {0, SpaceWords} : Space(lo) = (lo + 1)..(lo + SpaceWords)
  BY DEF Space
<1>5. CASE from = 0
  BY <1>1, <1>2, <1>3, <1>4, <1>5
<1>6. CASE from = SpaceWords
  BY <1>1, <1>2, <1>3, <1>4, <1>6
<1> QED
  BY <1>5, <1>6

\* The words of objects that lead to copies are in the from-space, and a word of
\* none of them is taken.
LEMMA TakenFacts ==
  ASSUME from \in {0, SpaceWords}, NEW m \in Heap(Word), NEW hi, Tiles(m, from, hi)
  PROVE  /\ Taken(m) \subseteq Space(from) /\ IsFiniteSet(Taken(m)) /\ Cardinality(Taken(m)) \in Nat
         /\ \A a \in ObjectsOf(m, from) :
              /\ Body(m, a) \subseteq Space(from) /\ IsFiniteSet(Body(m, a)) /\ Cardinality(Body(m, a)) = Size(m[a])
              /\ a \notin Leads(m) => Body(m, a) \cap Taken(m) = {}
<1>1. from \in Nat /\ SpaceWords \in Nat /\ Space(from) = (from + 1)..(from + SpaceWords) /\ Space(from) \subseteq Words
  BY FromFacts DEF Space
<1>2. \A a \in ObjectsOf(m, from) : a \in Nat /\ a \in Space(from) /\ m[a] # NoObj /\ Size(m[a]) \in 1..3
  <2>1. TAKE a \in ObjectsOf(m, from)
  <2>2. a \in Space(from) /\ m[a] # NoObj
    BY DEF ObjectsOf
  <2>3. m[a] \in ObjectIn(Word)
    BY <1>1, <2>2 DEF Heap
  <2>4. Size(m[a]) \in 1..3
    BY <2>3, Sizes
  <2> QED BY <1>1, <2>2, <2>4
<1>3. hi \in Nat /\ hi <= from + SpaceWords
  BY <1>1 DEF Tiles
<1>4. \A a \in ObjectsOf(m, from) : a + Size(m[a]) <= hi + 1
  BY <1>2 DEF Tiles
<1>5. \A a \in ObjectsOf(m, from) : Body(m, a) \subseteq Space(from)
  <2>1. TAKE a \in ObjectsOf(m, from)
  <2>2. PICK z \in 1..3 : z = Size(m[a])
    BY <1>2
  <2>3. a \in (from + 1)..(from + SpaceWords) /\ a + z <= from + SpaceWords + 1
    BY <1>1, <1>2, <1>3, <1>4, <2>2
  <2>4. a..(a + z - 1) \subseteq (from + 1)..(from + SpaceWords)
    BY <1>1, <2>3
  <2> QED BY <1>1, <2>2, <2>4 DEF Body
<1>6. \A a \in ObjectsOf(m, from) : IsFiniteSet(Body(m, a)) /\ Cardinality(Body(m, a)) = Size(m[a])
  <2>1. TAKE a \in ObjectsOf(m, from)
  <2>2. PICK z \in 1..3 : z = Size(m[a])
    BY <1>2
  <2>3. PICK e \in Int : e = a + z - 1
    BY <1>2
  <2>4. PICK x \in Int : x = a
    BY <1>2
  <2>5. IsFiniteSet(x..e) /\ Cardinality(x..e) = IF x > e THEN 0 ELSE e - x + 1
    BY FS_Interval
  <2>6. Cardinality(x..e) = z
    BY <2>3, <2>4, <2>5
  <2> QED BY <2>2, <2>3, <2>4, <2>5, <2>6 DEF Body
<1>7. Taken(m) \subseteq Space(from)
  BY <1>5 DEF Taken, Leads
<1>8. IsFiniteSet(Space(from))
  BY <1>1, FS_Interval
<1>9. IsFiniteSet(Taken(m)) /\ Cardinality(Taken(m)) \in Nat
  BY <1>7, <1>8, FS_Subset, FS_CardinalityType
<1>10. \A a, b \in ObjectsOf(m, from) : a < b => Body(m, a) \cap Body(m, b) = {}
  <2>1. TAKE a \in ObjectsOf(m, from), b \in ObjectsOf(m, from)
  <2>2. HAVE a < b
  <2>3. PICK z, y \in 1..3 : z = Size(m[a]) /\ y = Size(m[b])
    BY <1>2
  <2>4. a + z <= b
    BY <1>2, <2>2, <2>3 DEF Tiles
  <2>5. (a..(a + z - 1)) \cap (b..(b + y - 1)) = {}
    BY <1>2, <2>3, <2>4
  <2> QED BY <2>3, <2>5 DEF Body
<1>11. \A a \in ObjectsOf(m, from) : a \notin Leads(m) => Body(m, a) \cap Taken(m) = {}
  <2>1. TAKE a \in ObjectsOf(m, from)
  <2>2. HAVE a \notin Leads(m)
  <2>3. \A b \in Leads(m) : Body(m, a) \cap Body(m, b) = {}
    <3>1. TAKE b \in Leads(m)
    <3>2. b \in ObjectsOf(m, from) /\ a # b
      BY <2>2 DEF Leads
    <3>3. a < b \/ b < a
      BY <1>2, <3>2
    <3> QED BY <1>10, <3>2, <3>3
  <2> QED BY <2>3 DEF Taken
<1> QED
  BY <1>5, <1>6, <1>7, <1>9, <1>11

\* There is always room for the copy of an object that has none.
LEMMA CopyHasRoom ==
  ASSUME from \in {0, SpaceWords}, NEW m \in Heap(Word), NEW hi, Tiles(m, from, hi),
         NEW to \in Nat, Cardinality(Taken(m)) = to - To, NEW w \in ObjectsOf(m, from), w \notin Leads(m)
  PROVE  /\ to + Size(m[w]) <= To + SpaceWords
         /\ IsFiniteSet(Taken(m) \cup Body(m, w)) /\ Cardinality(Taken(m) \cup Body(m, w)) = (to + Size(m[w])) - To
<1>1. /\ Taken(m) \subseteq Space(from) /\ IsFiniteSet(Taken(m)) /\ Cardinality(Taken(m)) \in Nat
      /\ Body(m, w) \subseteq Space(from) /\ IsFiniteSet(Body(m, w)) /\ Cardinality(Body(m, w)) = Size(m[w])
      /\ Body(m, w) \cap Taken(m) = {}
  BY TakenFacts
<1>2. from \in Nat /\ To \in Nat /\ SpaceWords \in Nat /\ Space(from) = (from + 1)..(from + SpaceWords)
  BY FromFacts DEF Space
<1>3. PICK T, B : T = Taken(m) /\ B = Body(m, w)
  OBVIOUS
<1>4. T \cap B = {} /\ Cardinality(T \cap B) = 0
  BY <1>1, <1>3, FS_EmptySet
<1>5. IsFiniteSet(T \cup B) /\ Cardinality(T \cup B) = Cardinality(T) + Cardinality(B) - Cardinality(T \cap B)
  BY <1>1, <1>3, FS_Union
<1>6. IsFiniteSet(Space(from)) /\ Cardinality(Space(from)) = SpaceWords
  <2>1. PICK x \in Int, y \in Int : x = from + 1 /\ y = from + SpaceWords
    BY <1>2
  <2>2. IsFiniteSet(x..y) /\ Cardinality(x..y) = IF x > y THEN 0 ELSE y - x + 1
    BY FS_Interval
  <2>3. Cardinality(x..y) = SpaceWords
    BY <1>2, <2>1, <2>2
  <2> QED BY <1>2, <2>1, <2>2, <2>3
<1>7. T \cup B \in SUBSET Space(from)
  BY <1>1, <1>3
<1>8. Cardinality(T \cup B) <= SpaceWords
  BY <1>6, <1>7, FS_Subset
<1>9. Size(m[w]) \in Nat
  <2>1. IsFiniteSet(B) /\ Cardinality(B) = Size(m[w])
    BY <1>1, <1>3
  <2> QED BY <2>1, FS_CardinalityType
<1> QED
  BY <1>1, <1>2, <1>3, <1>4, <1>5, <1>8, <1>9

\* Where copying leaves off, the words given so far are where they go.
CopyFrame(st, i, ws) ==
  /\ from \in {0, SpaceWords} /\ gc.free \in Nat /\ st \in CopyStates /\ InTo(st.free) /\ i \in Nat
  /\ Tiles(st.mem, from, free)
  /\ CopyKeeps(st, i, ws) /\ CopyGood(st, i, ws)

\* Copying takes no object away.
LEMMA CopyObjects ==
  ASSUME NEW st, NEW i \in Nat, NEW ws, from \in {0, SpaceWords}, CopyKeeps(st, i, ws)
  PROVE  /\ ObjectsOf(st.mem, from) = ObjectsOf(mem, from)
         /\ ObjectsOf(mem, To) \subseteq ObjectsOf(st.mem, To)
<1>1. Space(from) \subseteq Words \ Space(To)
  BY FromFacts
<1>2. \A a \in Space(from) : st.mem[a] = NoObj <=> mem[a] = NoObj
  BY <1>1 DEF CopyKeeps
<1>3. \A a \in Space(To) : mem[a] # NoObj => st.mem[a] # NoObj
  BY DEF CopyKeeps
<1> QED
  BY <1>2, <1>3 DEF ObjectsOf

\* A word that has been answered stays answered.
LEMMA AnswersStay ==
  ASSUME from \in {0, SpaceWords}, NEW m, NEW n, NEW w, NEW x, Answers(m, x, w), ObjectsOf(m, To) \subseteq ObjectsOf(n, To),
         w \in Space(from) /\ m[w].fwd # 0 => n[w].fwd = m[w].fwd, Missing(w) => m[w] = NoObj /\ n[w] = NoObj
  PROVE  Answers(n, x, w)
<1>1. CASE Missing(w)
  BY <1>1 DEF Answers, MovedIn, NoObj
<1>2. CASE ~Missing(w)
  <2>1. x = MovedIn(m, w) /\ x \in Staying \cup ObjectsOf(m, To)
    BY <1>2 DEF Answers
  <2>2. w \in Space(from) => m[w].fwd # 0
    <3>1. SUFFICES ASSUME w \in Space(from), m[w].fwd = 0 PROVE FALSE
      OBVIOUS
    <3>2. x = w
      BY <2>1, <3>1 DEF MovedIn
    <3>3. x \notin Staying /\ x \notin Space(To)
      BY <3>1, <3>2, FromFacts
    <3> QED BY <2>1, <3>3 DEF ObjectsOf
  <2> QED BY <2>1, <2>2 DEF Answers, MovedIn
<1> QED
  BY <1>1, <1>2

\* The words copied before, when one more is.
Extends(m, n) ==
  /\ ObjectsOf(m, To) \subseteq ObjectsOf(n, To)
  /\ \A w \in Space(from) : m[w].fwd # 0 => n[w].fwd = m[w].fwd
  /\ \A w : Missing(w) => m[w] = NoObj /\ n[w] = NoObj
AnswersGood(st, n, i, ws) ==
  /\ \A j \in 1..(i + 1) : Answers(n.mem, n.out[j], ws[j])
  /\ \A j \in 1..i : n.out[j] = st.out[j]

\* The answers so far stay right, and the new one is.
LEMMA AnsweredGood ==
  ASSUME NEW st, NEW i \in Nat, NEW ws, CopyFrame(st, i, ws), NEW n \in CopyStates, NEW x,
         Answered(st, n, x), Answers(n.mem, x, ws[i + 1]), Extends(st.mem, n.mem)
  PROVE  AnswersGood(st, n, i, ws) /\ n.out[i + 1] = x
<1>1. st.out \in Seq(Word) /\ Len(st.out) = i /\ n.out = Append(st.out, x) /\ n.out \in Seq(Word)
  BY DEF CopyFrame, CopyStates, CopyKeeps, Answered
<1>2. n.out[i + 1] = x /\ \A j \in 1..i : n.out[j] = st.out[j]
  BY <1>1
<1>3. \A j \in 1..i : Answers(n.mem, n.out[j], ws[j])
  <2>1. TAKE j \in 1..i
  <2>2. PICK y : y = st.out[j]
    OBVIOUS
  <2>3. Answers(st.mem, y, ws[j])
    BY <2>2 DEF CopyFrame, CopyGood
  <2>4. from \in {0, SpaceWords}
    BY DEF CopyFrame
  <2>5. Answers(n.mem, y, ws[j])
    BY <2>3, <2>4, AnswersStay DEF Extends
  <2> QED BY <1>2, <2>2, <2>5
<1>4. \A j \in 1..(i + 1) : j \in 1..i \/ j = i + 1
  OBVIOUS
<1> QED
  BY <1>2, <1>3, <1>4 DEF AnswersGood

\* Where no object is there is none while others are copied.
LEMMA StaysMissing ==
  ASSUME NEW st, NEW i \in Nat, NEW ws, CopyFrame(st, i, ws)
  PROVE  \A w : Missing(w) => st.mem[w] = NoObj
<1>1. from \in {0, SpaceWords} /\ CopyKeeps(st, i, ws)
  BY DEF CopyFrame
<1>2. Space(from) \subseteq Words \ Space(To)
  BY <1>1, FromFacts
<1> QED
  BY <1>1, <1>2 DEF CopyKeeps, Missing

\* A word that is no pointer into the space, leads to a copy already, or leads to no object.
LEMMA CopySameGood ==
  ASSUME NEW st, NEW i \in Nat, NEW ws, CopyFrame(st, i, ws), NEW n \in CopyStates, NEW x,
         Same(st, n), n.full = (IF Missing(ws[i + 1]) THEN TRUE ELSE st.full), Answered(st, n, x), Answers(st.mem, x, ws[i + 1])
  PROVE  CopyGood(n, i + 1, ws)
<1>1. n.mem = st.mem /\ n.free = st.free
  BY DEF Same
<1>2. CopyGood(st, i, ws)
  BY DEF CopyFrame
<1>3. /\ \A j \in 1..(i + 1) : Answers(n.mem, n.out[j], ws[j])
      /\ \A j \in 1..i : n.out[j] = st.out[j]
  <2>1. Answers(n.mem, x, ws[i + 1]) /\ Extends(st.mem, n.mem)
    BY <1>1, StaysMissing DEF Extends
  <2>2. AnswersGood(st, n, i, ws)
    BY <2>1, AnsweredGood
  <2> QED BY <2>2 DEF AnswersGood
<1>4. \A b : CopyOf(st, i, b) => CopyOf(n, i + 1, b)
  <2>1. \A j \in 1..i : j \in 1..(i + 1)
    OBVIOUS
  <2> QED BY <1>1, <1>3, <2>1 DEF CopyOf
<1>5. n.full = TRUE <=> \E j \in 1..(i + 1) : Missing(ws[j])
  <2>1. /\ i + 1 \in 1..(i + 1) /\ \A j \in 1..i : j \in 1..(i + 1)
        /\ \A j \in 1..(i + 1) : j \in 1..i \/ j = i + 1
    OBVIOUS
  <2>2. st.full = TRUE <=> \E j \in 1..i : Missing(ws[j])
    BY <1>2 DEF CopyGood
  <2> QED BY <2>1, <2>2
<1> QED
  BY <1>1, <1>2, <1>3, <1>4, <1>5 DEF CopyGood

\* An object is copied.
CopiedOne(st, w, n) ==
  /\ w \in ObjectsOf(mem, from) /\ w \notin Leads(st.mem) /\ st.free \in Nat
  /\ st.free + 1 \in Space(To) /\ st.mem[st.free + 1] = NoObj /\ mem[st.free + 1] = NoObj
  /\ Size(st.mem[w]) \in 1..3 /\ st.mem[w] \in ObjectIn(Word)
  /\ ObjectsOf(n.mem, from) = ObjectsOf(mem, from)
  /\ ObjectsOf(n.mem, To) = ObjectsOf(st.mem, To) \cup {st.free + 1}
  /\ n.mem[w].fwd = st.free + 1 /\ Alike(st.mem[w], n.mem[w])
  /\ \A a \in ObjectsOf(mem, from) : a # w => n.mem[a] = st.mem[a]
  /\ \A b \in ObjectsOf(st.mem, To) : n.mem[b] = st.mem[b]
  /\ \A a \in Words : a > Fixed => n.mem[a] = st.mem[a]

\* That is what Copied does.
LEMMA CopiedMem ==
  ASSUME NEW st, NEW i \in Nat, NEW ws, CopyFrame(st, i, ws), NEW n \in CopyStates, NEW w, Copied(st, w, n)
  PROVE  CopiedOne(st, w, n)
<1>1. /\ from \in {0, SpaceWords} /\ st \in CopyStates /\ InTo(st.free) /\ CopyKeeps(st, i, ws)
  BY DEF CopyFrame
<1>2. /\ w \in Space(from) /\ st.mem[w] # NoObj /\ st.mem[w].fwd = 0
      /\ st.free + Size(st.mem[w]) <= To + SpaceWords
      /\ n.mem[st.free + 1] = st.mem[w] /\ n.mem[w] = [st.mem[w] EXCEPT !.fwd = st.free + 1]
      /\ \A a \in Words : a # w /\ a # st.free + 1 => n.mem[a] = st.mem[a]
      /\ w # st.free + 1 /\ st.free + 1 \in Words /\ w \in Words
  BY DEF Copied, InSpace, Space
<1>3. ObjectsOf(st.mem, from) = ObjectsOf(mem, from)
  BY <1>1, CopyObjects
<1>4. w \in ObjectsOf(mem, from) /\ w \notin Leads(st.mem)
  BY <1>2, <1>3 DEF Leads, ObjectsOf
<1>5. st.mem \in Heap(Word) /\ st.free \in Nat /\ n.mem \in Heap(Word)
  BY <1>1 DEF CopyStates
<1>6. st.mem[w] \in ObjectIn(Word) /\ Size(st.mem[w]) \in 1..3
  BY <1>2, <1>5, Sizes DEF Heap
<1>7. To \in Nat /\ SpaceWords \in Nat /\ Tiles(st.mem, To, st.free) /\ Space(To) = (To + 1)..(To + SpaceWords)
  BY <1>1, FromFacts DEF CopyKeeps, Space
<1>8. st.free + 1 \in Space(To)
  BY <1>2, <1>5, <1>6, <1>7 DEF Tiles
<1>9. \A b \in ObjectsOf(st.mem, To) : b # st.free + 1
  <2>1. SUFFICES ASSUME st.free + 1 \in ObjectsOf(st.mem, To) PROVE FALSE
    OBVIOUS
  <2>2. st.mem[st.free + 1] # NoObj /\ st.free + 1 \in Space(To)
    BY <2>1 DEF ObjectsOf
  <2>3. st.free + 1 + Size(st.mem[st.free + 1]) <= st.free + 1
    BY <1>7, <2>2 DEF Tiles
  <2>4. Size(st.mem[st.free + 1]) \in 1..3
    BY <1>2, <1>5, Sizes DEF Heap
  <2> QED BY <1>5, <2>3, <2>4
<1>10. st.mem[st.free + 1] = NoObj
  BY <1>8, <1>9 DEF ObjectsOf
<1>11. mem[st.free + 1] = NoObj
  BY <1>1, <1>8, <1>10 DEF CopyKeeps
<1>12. PICK o : o = st.mem[w]
  OBVIOUS
<1>13. PICK f : f = st.free + 1
  OBVIOUS
<1>14. f \in 0..Fixed
  <2>1. f \in Words /\ f \notin Staying /\ f \in Nat /\ Fixed \in Nat
    BY <1>1, <1>8, <1>13, FromFacts
  <2>2. ~(f > Fixed)
    BY <2>1 DEF Staying
  <2> QED BY <2>1, <2>2
<1>15. PICK p : p = [o EXCEPT !.fwd = f]
  OBVIOUS
<1>16. o \in ObjectIn(Word)
  BY <1>6, <1>12
<1>17. p.fwd = f /\ p.id = o.id /\ p.class = o.class /\ p.fields = o.fields
  BY ONLY <1>14, <1>15, <1>16 DEF ObjectIn
<1>18. f # 0
  BY <1>5, <1>13
<1>19. p # NoObj
  BY <1>17, <1>18 DEF NoObj
<1>20. n.mem[w] = p /\ n.mem[f] = o
  BY <1>2, <1>12, <1>13, <1>15
<1>21. ObjectsOf(n.mem, from) = ObjectsOf(mem, from)
  <2>1. \A a \in Space(from) : n.mem[a] = NoObj <=> st.mem[a] = NoObj
    <3>1. TAKE a \in Space(from)
    <3>2. a \in Words /\ a # f
      BY <1>1, <1>8, <1>13, FromFacts
    <3> QED BY <1>2, <1>12, <1>13, <1>19, <1>20, <3>2
  <2>2. ObjectsOf(n.mem, from) = ObjectsOf(st.mem, from)
    BY <2>1 DEF ObjectsOf
  <2> QED BY <1>3, <2>2
<1>22. \A b \in Space(To) : b # f => n.mem[b] = st.mem[b]
  <2>1. \A b \in Space(To) : b \in Words /\ b # w
    BY <1>1, <1>2, FromFacts
  <2> QED BY <1>2, <1>13, <2>1
<1>23. ObjectsOf(n.mem, To) = ObjectsOf(st.mem, To) \cup {f}
  <2>1. o # NoObj
    BY <1>2, <1>12
  <2> QED BY <1>8, <1>13, <1>20, <1>22, <2>1 DEF ObjectsOf
<1>24. \A b \in ObjectsOf(st.mem, To) : n.mem[b] = st.mem[b]
  BY <1>9, <1>13, <1>22 DEF ObjectsOf
<1>25. \A a \in ObjectsOf(mem, from) : a # w => n.mem[a] = st.mem[a]
  <2>1. \A a \in ObjectsOf(mem, from) : a \in Words /\ a # f
    BY <1>1, <1>8, <1>13, FromFacts DEF ObjectsOf
  <2> QED BY <1>2, <1>13, <2>1
<1>26. \A a \in Words : a > Fixed => n.mem[a] = st.mem[a]
  <2>1. \A a \in Words : a > Fixed => a \in Staying
    BY DEF Staying
  <2>2. w \notin Staying /\ f \notin Staying
    BY <1>1, <1>2, <1>8, <1>13, FromFacts
  <2> QED BY <1>2, <1>13, <2>1, <2>2
<1> QED
  BY <1>4, <1>5, <1>6, <1>8, <1>10, <1>11, <1>12, <1>13, <1>17, <1>20, <1>21, <1>23, <1>24, <1>25, <1>26 DEF Alike, CopiedOne

\* After an object is copied, what leads to copies does so.
LEMMA CopiedLinked ==
  ASSUME NEW st, NEW i \in Nat, NEW ws, CopyFrame(st, i, ws), NEW n \in CopyStates, NEW w, Copied(st, w, n)
  PROVE  Linked(n.mem, n.free)
<1>1. /\ w \in ObjectsOf(mem, from) /\ w \notin Leads(st.mem) /\ st.free \in Nat
      /\ Size(st.mem[w]) \in 1..3 /\ st.mem[w] \in ObjectIn(Word)
      /\ ObjectsOf(n.mem, from) = ObjectsOf(mem, from)
      /\ ObjectsOf(n.mem, To) = ObjectsOf(st.mem, To) \cup {st.free + 1}
      /\ n.mem[w].fwd = st.free + 1 /\ Alike(st.mem[w], n.mem[w])
      /\ \A a \in ObjectsOf(mem, from) : a # w => n.mem[a] = st.mem[a]
      /\ \A b \in ObjectsOf(st.mem, To) : n.mem[b] = st.mem[b]
  <2>1. CopiedOne(st, w, n)
    BY CopiedMem
  <2> QED BY <2>1 DEF CopiedOne
<1>2. /\ n.free = st.free + Size(st.mem[w]) /\ n.mem[st.free + 1] = st.mem[w] /\ st.mem[w].fwd = 0
  BY DEF Copied
<1>3. /\ from \in {0, SpaceWords} /\ st.mem \in Heap(Word) /\ Tiles(st.mem, from, free) /\ CopyKeeps(st, i, ws)
      /\ Linked(st.mem, st.free)
  BY DEF CopyFrame, CopyGood, CopyStates
<1>4. ObjectsOf(st.mem, from) = ObjectsOf(mem, from)
  BY <1>3, CopyObjects
<1>5. Leads(n.mem) = Leads(st.mem) \cup {w} /\ Leads(st.mem) \subseteq ObjectsOf(mem, from)
  <2>1. st.free + 1 # 0
    BY <1>1
  <2> QED BY <1>1, <1>4, <2>1 DEF Leads
<1>6. \A a \in Leads(st.mem) : n.mem[a] = st.mem[a]
  BY <1>1, <1>5
<1>7. Body(n.mem, w) = Body(st.mem, w) /\ \A a \in Leads(st.mem) : Body(n.mem, a) = Body(st.mem, a)
  BY <1>1, <1>6 DEF Body, Size, Alike
<1>8. Taken(n.mem) = Taken(st.mem) \cup Body(st.mem, w)
  BY <1>5, <1>7 DEF Taken
<1>9. Cardinality(Taken(n.mem)) = n.free - To
  <2>1. Cardinality(Taken(st.mem)) = st.free - To
    BY <1>3 DEF Linked
  <2>2. w \in ObjectsOf(st.mem, from)
    BY <1>1, <1>4
  <2> QED BY <1>1, <1>2, <1>3, <1>8, <2>1, <2>2, CopyHasRoom, ZenonT(40)
<1>10. \A a \in Leads(n.mem) : n.mem[a].fwd \in ObjectsOf(n.mem, To) /\ n.mem[n.mem[a].fwd].id = n.mem[a].id
  <2>1. TAKE a \in Leads(n.mem)
  <2>2. CASE a = w
    BY <1>1, <1>2, <2>2 DEF Alike
  <2>3. CASE a \in Leads(st.mem)
    <3>1. n.mem[a] = st.mem[a] /\ st.mem[a].fwd \in ObjectsOf(st.mem, To) /\ st.mem[st.mem[a].fwd].id = st.mem[a].id
      BY <1>3, <1>6, <2>3 DEF Linked
    <3> QED BY <1>1, <3>1
  <2> QED BY <1>5, <2>2, <2>3
<1>11. \A b \in ObjectsOf(n.mem, To) : n.mem[b].fwd = 0 /\ \E a \in Leads(n.mem) : n.mem[a].fwd = b
  <2>1. TAKE b \in ObjectsOf(n.mem, To)
  <2>2. CASE b = st.free + 1
    BY <1>1, <1>2, <1>5, <2>2
  <2>3. CASE b \in ObjectsOf(st.mem, To)
    <3>1. st.mem[b].fwd = 0 /\ \E a \in Leads(st.mem) : st.mem[a].fwd = b
      BY <1>3, <2>3 DEF Linked
    <3> QED BY <1>1, <1>5, <1>6, <2>3, <3>1
  <2> QED BY <1>1, <2>2, <2>3
<1>12. \A a, c \in Leads(n.mem) : n.mem[a].fwd = n.mem[c].fwd => a = c
  <2>1. \A a \in Leads(st.mem) : n.mem[a].fwd = st.mem[a].fwd /\ st.mem[a].fwd \in ObjectsOf(st.mem, To)
    BY <1>3, <1>6 DEF Linked
  <2>2. st.free + 1 \notin ObjectsOf(st.mem, To)
    BY CopiedMem DEF CopiedOne, ObjectsOf
  <2>3. \A a, c \in Leads(st.mem) : st.mem[a].fwd = st.mem[c].fwd => a = c
    BY <1>3 DEF Linked
  <2> QED BY <1>1, <1>5, <2>1, <2>2, <2>3
<1> QED
  BY <1>9, <1>10, <1>11, <1>12 DEF Linked

\* A word whose object is copied now.
LEMMA CopyCopiedGood ==
  ASSUME NEW st, NEW i \in Nat, NEW ws, CopyFrame(st, i, ws), NEW n \in CopyStates, Copied(st, ws[i + 1], n)
  PROVE  CopyGood(n, i + 1, ws)
<1>1. PICK w : w = ws[i + 1]
  OBVIOUS
<1>2. Copied(st, w, n)
  BY <1>1
<1>3. /\ w \in ObjectsOf(mem, from) /\ w \notin Leads(st.mem) /\ st.free \in Nat
      /\ mem[st.free + 1] = NoObj
      /\ ObjectsOf(n.mem, from) = ObjectsOf(mem, from)
      /\ ObjectsOf(n.mem, To) = ObjectsOf(st.mem, To) \cup {st.free + 1}
      /\ n.mem[w].fwd = st.free + 1 /\ Alike(st.mem[w], n.mem[w])
      /\ \A a \in ObjectsOf(mem, from) : a # w => n.mem[a] = st.mem[a]
      /\ \A b \in ObjectsOf(st.mem, To) : n.mem[b] = st.mem[b]
      /\ \A a \in Words : a > Fixed => n.mem[a] = st.mem[a]
  <2>1. CopiedOne(st, w, n)
    BY <1>2, CopiedMem
  <2> QED BY <2>1 DEF CopiedOne
<1>4. /\ from \in {0, SpaceWords} /\ CopyKeeps(st, i, ws) /\ CopyGood(st, i, ws) /\ st \in CopyStates
  BY DEF CopyFrame
<1>5. /\ n.mem[st.free + 1] = st.mem[w] /\ n.full = st.full /\ Answered(st, n, st.free + 1) /\ w \in Space(from)
      /\ st.mem[w].fwd = 0
  BY <1>2 DEF Copied, InSpace, Space
<1>6. PICK x : x = st.free + 1
  OBVIOUS
<1>7. x # 0
  BY <1>3, <1>6
<1>8. x = MovedIn(n.mem, w) /\ x \in ObjectsOf(n.mem, To)
  BY <1>3, <1>5, <1>6, <1>7 DEF MovedIn
<1>9. \A a \in Space(from) : st.mem[a].fwd # 0 => n.mem[a].fwd = st.mem[a].fwd
  <2>1. TAKE a \in Space(from)
  <2>2. HAVE st.mem[a].fwd # 0
  <2>3. a # w
    BY <1>5, <2>2
  <2>4. st.mem[a] # NoObj
    BY <2>2 DEF NoObj
  <2>5. a \in ObjectsOf(mem, from)
    <3>1. ObjectsOf(st.mem, from) = ObjectsOf(mem, from)
      BY <1>4, CopyObjects
    <3> QED BY <2>4, <3>1 DEF ObjectsOf
  <2> QED BY <1>3, <2>3, <2>5
<1>10. AnswersGood(st, n, i, ws) /\ n.out[i + 1] = x
  <2>0. \A v : Missing(v) => st.mem[v] = NoObj /\ n.mem[v] = NoObj
    <3>1. \A v : Missing(v) => v \in Space(from) /\ v \notin ObjectsOf(mem, from)
      BY DEF Missing, ObjectsOf
    <3> QED BY <1>3, <3>1, StaysMissing DEF ObjectsOf
  <2>1. Answered(st, n, x) /\ Answers(n.mem, x, ws[i + 1]) /\ Extends(st.mem, n.mem)
    BY <1>1, <1>3, <1>5, <1>6, <1>8, <1>9, <2>0 DEF Extends, Answers
  <2>2. AnswersGood(st, n, i, ws) /\ n.out[i + 1] = x
    BY <2>1, AnsweredGood
  <2> QED BY <2>2
<1>11. Linked(n.mem, n.free) /\ (n.full = TRUE <=> \E j \in 1..(i + 1) : Missing(ws[j]))
  <2>1. (\A j \in 1..i : j \in 1..(i + 1)) /\ \A j \in 1..(i + 1) : j \in 1..i \/ j = i + 1
    OBVIOUS
  <2>2. st.full = TRUE <=> \E j \in 1..i : Missing(ws[j])
    BY <1>4 DEF CopyGood
  <2>3. ~Missing(ws[i + 1])
    BY <1>1, <1>3 DEF Missing, ObjectsOf
  <2>4. Linked(n.mem, n.free)
    BY <1>2, <1>4, CopiedLinked
  <2> QED BY <1>5, <2>1, <2>2, <2>3, <2>4
<1>12. \A a \in ObjectsOf(mem, from) :
         Alike(mem[a], n.mem[a]) /\ (mem[a].fwd # 0 => n.mem[a].fwd = mem[a].fwd)
  <2>1. TAKE a \in ObjectsOf(mem, from)
  <2>2. Alike(mem[a], st.mem[a]) /\ (mem[a].fwd # 0 => st.mem[a].fwd = mem[a].fwd)
    BY <1>4 DEF CopyGood
  <2>3. CASE a = w
    BY <1>3, <1>5, <2>2, <2>3 DEF Alike
  <2>4. CASE a # w
    BY <1>3, <2>2, <2>4
  <2> QED BY <2>3, <2>4
<1>13. \A a \in Words : a > Fixed => n.mem[a] = mem[a]
  BY <1>3, <1>4 DEF CopyGood
<1>14. \A b \in ObjectsOf(n.mem, To) : mem[b] = NoObj => CopyOf(n, i + 1, b)
  <2>1. TAKE b \in ObjectsOf(n.mem, To)
  <2>2. HAVE mem[b] = NoObj
  <2>3. (\A j \in 1..i : n.out[j] = st.out[j] /\ j \in 1..(i + 1)) /\ i + 1 \in 1..(i + 1)
    BY <1>10 DEF AnswersGood
  <2>4. CASE b = x
    <3>1. Alike(mem[w], st.mem[w]) /\ mem[w].fwd = 0
      BY <1>3, <1>4, <1>5 DEF CopyGood
    <3>2. Alike(mem[w], n.mem[b]) /\ n.mem[w].fwd = b
      BY <1>3, <1>5, <1>6, <2>4, <3>1
    <3>3. b > gc.free
      <4>1. gc.free \in Nat /\ gc.free <= st.free
        BY <1>4 DEF CopyFrame, CopyKeeps
      <4> QED BY <1>3, <1>6, <2>4, <4>1
    <3> QED BY <1>3, <1>10, <2>3, <2>4, <3>1, <3>2, <3>3 DEF CopyOf
  <2>5. CASE b \in ObjectsOf(st.mem, To)
    <3>1. CopyOf(st, i, b)
      BY <1>4, <2>2, <2>5 DEF CopyGood
    <3>2. PICK a \in ObjectsOf(mem, from) : mem[a].fwd = 0 /\ st.mem[a].fwd = b /\ Alike(mem[a], st.mem[b])
      BY <3>1 DEF CopyOf
    <3>3. a # w
      <4>1. b \in Nat /\ b # 0
        BY <1>4, <2>5, FromFacts DEF ObjectsOf
      <4> QED BY <1>5, <3>2, <4>1
    <3>4. n.mem[a].fwd = b /\ Alike(mem[a], n.mem[b])
      BY <1>3, <2>5, <3>2, <3>3
    <3> QED BY <2>3, <3>1, <3>2, <3>4 DEF CopyOf
  <2> QED BY <1>3, <1>6, <2>4, <2>5
<1> QED
  BY <1>10, <1>11, <1>12, <1>13, <1>14 DEF CopyGood, AnswersGood

\* There is always a copy to be made or found for a reference.
LEMMA CopyNeverStuck ==
  ASSUME NEW st, NEW i \in Nat, NEW ws, CopyFrame(st, i, ws), NEW n, NEW w \in Old, Stuck(st, w, n)
  PROVE  FALSE
<1>1. /\ from \in {0, SpaceWords} /\ CopyKeeps(st, i, ws) /\ CopyGood(st, i, ws) /\ st \in CopyStates
      /\ Tiles(st.mem, from, free)
  BY DEF CopyFrame
<1>2. w \in Space(from)
  BY DEF Stuck, InSpace, Space
<1>3. w \in ObjectsOf(mem, from)
  BY <1>1, <1>2, FromFacts DEF Old
<1>4. ObjectsOf(st.mem, from) = ObjectsOf(mem, from)
  BY <1>1, CopyObjects
<1>5. w \in ObjectsOf(st.mem, from) /\ st.mem[w] # NoObj
  BY <1>3, <1>4 DEF ObjectsOf
<1>6. st.mem[w].fwd = 0 /\ st.free + Size(st.mem[w]) > To + SpaceWords
  BY <1>5 DEF Stuck
<1>7. w \notin Leads(st.mem)
  BY <1>6 DEF Leads
<1>8. Cardinality(Taken(st.mem)) = st.free - To /\ st.free \in Nat /\ st.mem \in Heap(Word)
  BY <1>1 DEF CopyGood, Linked, CopyStates
<1>9. st.free + Size(st.mem[w]) <= To + SpaceWords
  BY <1>1, <1>5, <1>7, <1>8, CopyHasRoom
<1>10. To + SpaceWords \in Nat /\ Size(st.mem[w]) \in 1..3
  <2>1. st.mem[w] \in ObjectIn(Word)
    BY <1>1, <1>2, <1>8, FromFacts DEF Heap
  <2> QED BY <1>1, <2>1, FromFacts, Sizes
<1> QED
  BY <1>6, <1>8, <1>9, <1>10

\* A reference, or a word that leads to no object, is copied well, whichever case it is.
LEMMA CopyGoodStep ==
  ASSUME NEW st, NEW i \in Nat, NEW ws, CopyFrame(st, i, ws), NEW n \in CopyStates,
         ws[i + 1] \in Old \/ Missing(ws[i + 1]), CopyStep(st, ws[i + 1], n)
  PROVE  CopyGood(n, i + 1, ws)
<1>1. /\ from \in {0, SpaceWords} /\ CopyKeeps(st, i, ws) /\ CopyGood(st, i, ws)
  BY DEF CopyFrame
<1>2. PICK w : w = ws[i + 1]
  OBVIOUS
<1>3. CASE Kept(st, w, n)
  <2>1. w \notin Space(from)
    <3>1. 0 \notin Space(from)
      BY <1>1, FromFacts
    <3> QED BY <1>3, <3>1 DEF Kept, IsPointer, InSpace, Space, Tagged
  <2>2. w \in Staying
    BY <1>2, <2>1 DEF Old, ObjectsOf, Missing
  <2>3. w = MovedIn(st.mem, ws[i + 1])
    BY <1>2, <2>1 DEF MovedIn
  <2>4. ~Missing(ws[i + 1])
    BY <1>2, <2>1 DEF Missing
  <2>5. Same(st, n) /\ n.full = st.full /\ Answered(st, n, w) /\ Answers(st.mem, w, ws[i + 1])
    BY <1>3, <2>2, <2>3 DEF Kept, Answers
  <2> QED BY <2>4, <2>5, CopySameGood
<1>4. CASE Led(st, w, n)
  <2>1. w \in Space(from) /\ st.mem[w] # NoObj /\ st.mem[w].fwd # 0
    BY <1>4 DEF Led, InSpace, Space
  <2>2. w \in Leads(st.mem)
    BY <2>1 DEF Leads, ObjectsOf
  <2>3. st.mem[w].fwd \in ObjectsOf(st.mem, To)
    BY <1>1, <2>2 DEF CopyGood, Linked
  <2>4. st.mem[w].fwd = MovedIn(st.mem, ws[i + 1])
    BY <1>2, <2>1 DEF MovedIn
  <2>5. Same(st, n) /\ Answered(st, n, st.mem[w].fwd) /\ n.full = st.full
    BY <1>4 DEF Led
  <2>6. Answers(st.mem, st.mem[w].fwd, ws[i + 1])
    BY <2>3, <2>4 DEF Answers
  <2>7. ~Missing(ws[i + 1])
    BY <1>2, <2>1, StaysMissing
  <2> QED BY <2>5, <2>6, <2>7, CopySameGood
<1>5. CASE Copied(st, w, n)
  BY <1>2, <1>5, CopyCopiedGood
<1>6. CASE Stuck(st, w, n)
  <2>1. Missing(w)
    BY <1>2, <1>6, CopyNeverStuck
  <2>2. st.mem[w] = NoObj
    BY <2>1, StaysMissing
  <2>3. w = MovedIn(st.mem, w)
    BY <2>2 DEF MovedIn, NoObj
  <2>4. Same(st, n) /\ n.full = TRUE /\ Answered(st, n, w) /\ Missing(ws[i + 1]) /\ Answers(st.mem, w, ws[i + 1])
    BY <1>2, <1>6, <2>1, <2>3 DEF Stuck, Answers
  <2> QED BY <2>4, CopySameGood
<1> QED
  BY <1>2, <1>3, <1>4, <1>5, <1>6 DEF CopyStep

\* A list of references is copied.
LEMMA CopiedAllGood ==
  ASSUME from \in {0, SpaceWords}, mem \in Heap(Word), \A a \in Words : mem[a] = NoObj \/ mem[a].id # 0,
         Tiles(mem, from, free), Tiles(mem, To, gc.free), Linked(mem, gc.free),
         NEW ws \in Seq(Word), \A j \in 1..Len(ws) : ws[j] \in Old \/ Missing(ws[j]), NEW done, done = CopyAll(ws)
  PROVE  CopyGood(done, Len(ws), ws)
<1>1. InTo(gc.free) /\ gc.free \in Nat
  <2>1. gc.free \in To..(To + SpaceWords) /\ To \in {0, SpaceWords}
    BY SpaceFacts DEF Tiles, To
  <2> QED BY <2>1, SpaceFacts DEF InTo
<1>2. PICK d : CopyWalk(d, ws) /\ done = d[Len(ws)]
  BY <1>1, CopyWalkExists
<1>3. /\ Len(ws) \in Nat /\ d[0] = Begun
      /\ \A i \in 0..Len(ws) : d[i] \in CopyStates /\ InTo(d[i].free)
      /\ \A i \in 1..Len(ws) : CopyStep(d[i - 1], ws[i], d[i])
  BY <1>2 DEF CopyWalk
<1> DEFINE S == {i \in Nat : i <= Len(ws) => CopyFrame(d[i], i, ws)}
<1>4. 0 \in S
  <2>1. Begun.mem = mem /\ Begun.free = gc.free /\ Len(Begun.out) = 0 /\ Begun.full = FALSE
    BY DEF Begun
  <2> HIDE DEF Begun
  <2>2. CopyKeeps(Begun, 0, ws)
    BY <1>1, <2>1 DEF CopyKeeps
  <2>3. CopyGood(Begun, 0, ws)
    BY <2>1 DEF CopyGood, Alike, ObjectsOf
  <2>4. 0 \in 0..Len(ws)
    BY <1>3
  <2>5. Begun \in CopyStates /\ InTo(Begun.free)
    BY <1>3, <2>4
  <2> QED BY <1>1, <1>3, <2>1, <2>2, <2>3, <2>5 DEF CopyFrame
<1>5. ASSUME NEW i \in Nat, i \in S PROVE i + 1 \in S
  <2>1. CASE i + 1 <= Len(ws)
    <3>1. i \in 0..Len(ws) /\ i + 1 \in 1..Len(ws) /\ i + 1 \in 0..Len(ws) /\ (i + 1) - 1 = i
      BY <1>3, <2>1
    <3>2. CopyFrame(d[i], i, ws) /\ CopyStep(d[i], ws[i + 1], d[i + 1])
      BY <1>3, <1>5, <3>1
    <3>3. d[i] \in CopyStates /\ d[i + 1] \in CopyStates /\ InTo(d[i + 1].free)
      BY <1>3, <3>1
    <3>4. CopyKeeps(d[i + 1], i + 1, ws)
      <4>1. CopyKeeps(d[i], i, ws)
        BY <3>2 DEF CopyFrame
      <4> QED BY <1>1, <3>2, <3>3, <4>1, CopyKeepsStep
    <3>5. CopyGood(d[i + 1], i + 1, ws)
      BY <3>1, <3>2, <3>3, CopyGoodStep
    <3>6. Tiles(d[i + 1].mem, from, free)
      <4>1. SameSizes(mem, d[i + 1].mem, Space(from))
        <5>1. \A a \in Space(from) : a \in Words \ Space(To)
          BY FromFacts
        <5> QED BY <3>4, <5>1 DEF CopyKeeps, SameSizes
      <4> QED BY <4>1, TilesKept
    <3> QED BY <1>1, <3>3, <3>4, <3>5, <3>6 DEF CopyFrame
  <2>2. CASE ~(i + 1 <= Len(ws))
    BY <2>2
  <2> QED BY <2>1, <2>2
<1> HIDE DEF S
<1>6. Nat \subseteq S
  BY <1>4, <1>5, NatSetInduction
<1>7. CopyFrame(d[Len(ws)], Len(ws), ws)
  BY <1>3, <1>6 DEF S
<1> QED
  BY <1>2, <1>7 DEF CopyFrame

-----------------------------------------------------------------------------
(* Programs that keep to what the collector roots. *)

\* More words, more frames.
LEMMA SeqMore ==
  ASSUME NEW S, NEW T, S \subseteq T, NEW q \in Seq(S)
  PROVE  q \in Seq(T)
<1>1. q \in [1..Len(q) -> S] /\ Len(q) \in Nat
  BY Lists, SMTT(30)
<1>2. PICK n \in Nat : n = Len(q)
  BY <1>1
<1>3. q \in [1..n -> T]
  BY <1>1, <1>2
<1> QED
  BY <1>3, Listed

\* More words, more objects.
LEMMA ObjectMore ==
  ASSUME NEW W, NEW V, W \subseteq V
  PROVE  ObjectIn(W) \subseteq ObjectIn(V)
<1>1. FieldsIn(W) \subseteq FieldsIn(V)
  BY DEF FieldsIn
<1> QED
  BY <1>1 DEF ObjectIn

\* More words, and the stacks still hold words of them.
LEMMA HeldMore ==
  ASSUME NEW W, NEW V, W \subseteq V, HeldIn(W)
  PROVE  HeldIn(V)
<1>1. Seq(W) \subseteq Seq(V)
  BY SeqMore
<1>2. W \ {Tagged} \subseteq V \ {Tagged}
  OBVIOUS
<1>3. FrameIn(W) \subseteq FrameIn(V)
  BY <1>1, <1>2 DEF FrameIn
<1>4. CallIn(W) \subseteq CallIn(V)
  BY DEF CallIn
<1>5. [1..3 -> W] \subseteq [1..3 -> V] /\ [1..2 -> W] \subseteq [1..2 -> V]
  OBVIOUS
<1> QED
  BY <1>3, <1>4, <1>5, SeqMore DEF HeldIn

\* Between collections.
LEMMA IdleFacts ==
  ASSUME BInv, CInv, gc.phase = "idle", NEW W, W = Old
  PROVE  /\ gc = NoGc /\ Stacks(W) /\ mem \in Heap(W) /\ MemIn(W) /\ W \subseteq Word
         /\ {Tagged, Tenured, Fixed + 2, Fixed + 3} \subseteq W
         /\ \A a \in Words : mem[a].fwd = 0
<1>1. gc = NoGc /\ from \in {0, SpaceWords}
  BY BFacts
<1>2. mem \in Heap(W) /\ \A a \in Words : mem[a].fwd = 0
  BY <1>1 DEF CInv, Settled
<1>3. W \subseteq Word /\ Fixed \in Nat
  BY <1>1, FromFacts DEF Old, ObjectsOf
<1>4. MemIn(W)
  <2>1. \A a \in W \ {Tagged} : a \in Words
    BY <1>3, WordFacts
  <2> QED BY <1>2, <2>1 DEF MemIn, Heap
<1>5. {Tagged, Tenured, Fixed + 2, Fixed + 3} \subseteq W
  BY <1>3 DEF Old, Staying, Tenured, Words
<1>6. Stacks(W)
  BY DEF BInv, CInv, Stacks
<1> QED
  BY <1>1, <1>2, <1>3, <1>4, <1>5, <1>6

\* What leaves the objects where they are leaves the references.
LEMMA OldSame ==
  ASSUME UNCHANGED from, \A a \in Space(from) : mem'[a] = NoObj <=> mem[a] = NoObj
  PROVE  Old' = Old /\ Staying' = Staying
  BY DEF Old, Staying, ObjectsOf, Space, Words, Fixed, NoObj, Tagged

\* HeldIn after the step, for the references after the step.
LEMMA HeldPrimed ==
  ASSUME NEW W, W = Old', HeldIn(W)'
  PROVE  HeldIn(Old)'
  BY DEF HeldIn, FrameIn, CallIn, Tagged

\* The methods that run when the frames that are left run what they ran.
LEMMA PlainFrames ==
  ASSUME NEW W, Stacks(W), PlainStacks, KeepsFrames, Len(frames') = Len(frames), UNCHANGED <<calls, from>>
  PROVE  PlainStacks' /\ Top'.code = Top.code
<1>1. Len(frames) \in Nat \ {0} /\ Len(frames) \in 1..Len(frames)
  BY TopFacts
<1>2. Top'.code = Top.code /\ Top'.ret = Top.ret /\ Level' = Level
  BY <1>1 DEF Top, Level, KeepsFrames
<1>3. NoArgs'
  BY DEF PlainStacks, NoArgs, KeepsFrames, Tagged
<1>4. Locals'
  BY DEF PlainStacks, Locals, Tagged
<1>5. Young => Young'
  BY <1>2 DEF Young, InSpace, Tagged
<1>6. Settles => Settles'
  BY DEF Settles, FramesSettle, CallsSettle, KeepsFrames, Fixed, Tagged
<1> QED
  BY <1>2, <1>3, <1>4, <1>5, <1>6 DEF PlainStacks

\* Between collections, what leaves the objects where they are.
LEMMA CRest ==
  ASSUME BInv, CInv, gc.phase = "idle", UNCHANGED <<from, gc>>, NEW W, W = Old,
         mem' \in Heap(W), Stored(mem, mem'), HeldIn(W)',
         PlainStacks', PlainJob', StayingOK', LogOK', outcome' # "wild"
  PROVE  CInv'
<1>1. gc = NoGc /\ \A a \in Words : mem[a].fwd = 0
  BY IdleFacts
<1>2. Space(from) \subseteq Words
  BY BFacts, FromFacts
<1>3. Old' = Old
  BY <1>2, OldSame DEF Stored
<1>4. \A a \in Words : mem'[a].fwd = 0
  BY <1>1 DEF Stored
<1>5. Settled'
  BY <1>3, <1>4 DEF Settled, Heap, Words, ObjectIn, Ids, FieldsIn, Fixed
<1>6. WildOK'
  BY DEF WildOK
<1> QED
  BY <1>1, <1>3, <1>5, <1>6, HeldPrimed DEF CInv, NoGc

\* What never moves refers to what it referred to.
LEMMA StayingKept ==
  ASSUME StayingOK, \A a \in Words : a > Fixed => mem'[a] = mem[a]
  PROVE  StayingOK'
<1>1. Fixed \in Nat
  BY SpaceFacts
<1>2. {Tenured, Fixed + 2, Fixed + 3} \subseteq Words /\ Tenured > Fixed /\ Fixed + 2 > Fixed /\ Fixed + 3 > Fixed
  BY <1>1 DEF Words, Tenured
<1>3. mem'[Tenured] = mem[Tenured] /\ mem'[Fixed + 2] = mem[Fixed + 2] /\ mem'[Fixed + 3] = mem[Fixed + 3]
  BY <1>2
<1> QED
  BY <1>3 DEF StayingOK, Words, Fixed, Tenured, Tagged

\* The bytecodes that only push keep the references.
LEMMA PushesPlain ==
  ASSUME BInv, CInv, PushTemp \/ Duplicate \/ PushArg \/ PushSelf \/ PushLiteral \/ PushField
  PROVE  CInv'
<1>1. PICK W : W = Old
  OBVIOUS
<1>2. gc.phase = "idle" /\ job = NoJob /\ outcome = "running"
  BY DEF PushTemp, Duplicate, PushArg, PushSelf, PushLiteral, PushField, Idle
<1>3. Stacks(W) /\ mem \in Heap(W) /\ MemIn(W) /\ Tagged \in W
  BY <1>1, <1>2, IdleFacts
<1>4. PICK w \in W : PushWord(w)
  BY <1>3, PushesStacks
<1>5. Stacks(W)' /\ KeepsFrames /\ Len(frames') = Len(frames)
  BY <1>3, <1>4, PushStacks
<1>6. UNCHANGED <<mem, from, calls, log, job, gc, outcome>>
  BY <1>4 DEF PushWord, Quiet, memory, chains
<1>7. PlainStacks'
  BY <1>3, <1>5, <1>6, PlainFrames DEF CInv
<1>8. PlainJob' /\ StayingOK' /\ LogOK'
  <2>1. PlainJob'
    BY <1>2, <1>6 DEF PlainJob, NoJob, Tagged
  <2>2. StayingOK'
    BY <1>6, StayingKept DEF CInv
  <2>3. LogOK'
    BY <1>6 DEF CInv, LogOK, Tenured, Fixed, Tagged
  <2> QED BY <2>1, <2>2, <2>3
<1>9. mem' \in Heap(W) /\ Stored(mem, mem')
  BY <1>3, <1>6 DEF Stored
<1>10. HeldIn(W)' /\ outcome' # "wild"
  BY <1>2, <1>5, <1>6 DEF Stacks
<1> QED
  BY <1>1, <1>2, <1>6, <1>7, <1>8, <1>9, <1>10, CRest

\* The bytecodes that take the top of the stack keep the references.
LEMMA PopsPlain ==
  ASSUME PlainPrograms, BInv, CInv, Pop \/ StoreTemp \/ StoreField
  PROVE  CInv'
<1>1. PICK W : W = Old
  OBVIOUS
<1>2. gc.phase = "idle" /\ job = NoJob /\ outcome = "running" /\ Operands > 0
  BY DEF Pop, StoreTemp, StoreField, Idle
<1>3. Stacks(W) /\ mem \in Heap(W) /\ MemIn(W) /\ Tagged \in W
  BY <1>1, <1>2, IdleFacts
<1>4. Stacks(W)' /\ KeepsFrames /\ Len(frames') = Len(frames)
  BY <1>3, PopStacks
<1>5. UNCHANGED <<from, calls, job, gc, outcome>>
  BY DEF Pop, StoreTemp, StoreField, Quiet, memory, chains
<1>6. PlainStacks'
  BY <1>3, <1>4, <1>5, PlainFrames DEF CInv
<1>7. PlainJob'
  BY <1>2, <1>5 DEF PlainJob, NoJob, Tagged
<1>8. Op(0) \in W
  BY <1>2, <1>3, OpIn
<1>9. /\ mem' \in Heap(W) /\ Stored(mem, mem') /\ StayingOK'
  <2>1. CASE UNCHANGED mem
    <3>1. StayingOK'
      BY <2>1, StayingKept DEF CInv
    <3> QED BY <1>3, <2>1, <3>1 DEF Stored
  <2>2. CASE StoreField /\ mem' = [mem EXCEPT ![Top.rcv].fields[1] = Op(0)]
    <3>1. StoredAt(W, mem, Top.rcv, Op(0), mem')
      BY <1>3, <1>8, <2>2, FieldStored
    <3>2. \A a \in Words : a > Fixed => mem'[a] = mem[a]
      <4>1. TAKE a \in Words
      <4>2. HAVE a > Fixed
      <4>3. CASE a # Top.rcv
        BY <3>1, <4>3 DEF StoredAt
      <4>4. CASE a = Top.rcv
        <5>1. a \in {Tenured, Fixed + 2, Fixed + 3}
          BY <4>2, SpaceFacts DEF Words, Tenured
        <5>2. Len(mem[a].fields) > 0 /\ (a = Tenured => Op(0) = Tagged)
          BY <2>2, <4>4 DEF StoreField, HasField, MayKeep, PlainPrograms, IsPointer
        <5>3. a = Tenured
          BY <5>1, <5>2 DEF CInv, StayingOK
        <5>4. mem[a] \in ObjectIn(W) /\ mem[a].fields = <<Tagged>>
          BY <1>3, <5>3 DEF Heap, CInv, StayingOK
        <5>5. PICK o : o = mem[a]
          OBVIOUS
        <5>6. mem'[a] = [o EXCEPT !.fields[1] = Tagged]
          BY <1>3, <2>2, <4>4, <5>2, <5>3, <5>5 DEF Heap
        <5>7. [o EXCEPT !.fields[1] = Tagged] = o
          <6>1. o \in ObjectIn(W) /\ o.fields = <<Tagged>>
            BY <5>4, <5>5
          <6>2. PICK fs : fs = <<Tagged>>
            OBVIOUS
          <6>3. [fs EXCEPT ![1] = Tagged] = fs
            BY <6>2
          <6>4. [o EXCEPT !.fields = fs] = o
            BY ONLY <6>1, <6>2 DEF ObjectIn
          <6> QED BY <6>1, <6>2, <6>3, <6>4
        <5> QED BY <5>5, <5>6, <5>7
      <4> QED BY <4>3, <4>4
    <3>3. StayingOK'
      BY <3>2, StayingKept DEF CInv
    <3> QED BY <3>1, <3>3 DEF StoredAt
  <2> QED BY <2>1, <2>2 DEF Pop, StoreTemp, StoreField, Quiet, memory
<1>10. LogOK'
  <2>1. CASE UNCHANGED log
    BY <2>1 DEF CInv, LogOK, Tenured, Fixed, Tagged
  <2>2. CASE StoreField /\ log' = Append(log, <<Top.rcv, Op(0)>>)
    <3>1. Top.rcv = Tenured => Op(0) = Tagged
      BY <2>2 DEF StoreField, MayKeep, PlainPrograms, IsPointer
    <3>2. PICK x : x = <<Top.rcv, Op(0)>>
      OBVIOUS
    <3>3. x[1] = Top.rcv /\ x[2] = Op(0)
      BY <3>2
    <3>4. log \in Seq([1..2 -> W]) /\ Len(log) \in Nat
      BY <1>3 DEF Stacks, HeldIn
    <3>5. log' = Append(log, x)
      BY <2>2, <3>2
    <3>6. Len(log') = Len(log) + 1 /\ log'[Len(log) + 1] = x /\ \A e \in 1..Len(log) : log'[e] = log[e]
      BY <3>4, <3>5
    <3>7. \A e \in 1..Len(log') : log'[e][1] = Tenured => log'[e][2] = Tagged
      <4>1. TAKE e \in 1..Len(log')
      <4>2. CASE e \in 1..Len(log)
        BY <3>6, <4>2 DEF CInv, LogOK
      <4>3. CASE e = Len(log) + 1
        BY <3>1, <3>3, <3>6, <4>3
      <4> QED BY <3>4, <3>6, <4>2, <4>3
    <3> QED BY <3>7 DEF LogOK, Tenured, Fixed, Tagged
  <2> QED BY <2>1, <2>2 DEF Pop, StoreTemp, StoreField, Quiet, chains
<1>11. HeldIn(W)' /\ outcome' # "wild"
  BY <1>2, <1>4, <1>5 DEF Stacks
<1> QED
  BY <1>1, <1>2, <1>5, <1>6, <1>7, <1>9, <1>10, <1>11, CRest

\* A method that calls or makes closures does not move.
LEMMA UsesSettle ==
  ASSUME PlainPrograms, CInv, NEW what, MayUse(what)
  PROVE  Settles
  BY DEF PlainPrograms, MayUse, CInv, PlainStacks, Young

\* A frame is entered by code that stays.
LEMMA EnterPlain ==
  ASSUME NEW W, Stacks(W), Tagged \in W, Settles, NoArgs, NEW under \in Seq(W), Len(under) >= NumTemps,
         NEW rcv \in W \ {Tagged}, NEW args \in Seq(W), \A i \in 1..Len(args) : args[i] = Tagged,
         NEW ctx \in W, EnterFrame(under, rcv, args, ctx)
  PROVE  FramesSettle' /\ NoArgs' /\ Top.code = Fixed + 2 /\ Level.table = Fixed + 3
<1>1. /\ frames' \in Seq(FrameIn(W)) /\ Len(frames') = Len(frames) + 1
      /\ frames'[Len(frames) + 1] = Entered(under, rcv, args, ctx)
      /\ frames'[Len(frames)] = [Top EXCEPT !.slots = under]
      /\ \A f \in 1..(Len(frames) - 1) : frames'[f] = frames[f]
  BY EnterFacts
<1>2. Len(frames) \in Nat \ {0} /\ Top \in FrameIn(W) /\ Top = frames[Len(frames)] /\ Len(calls) \in Nat \ {0} /\ Level = calls[Len(calls)]
  BY TopFacts DEF Top, Level
<1>3. Top.code = Fixed + 2 /\ Level.ip = Fixed + 2 /\ Level.table = Fixed + 3
  BY <1>2 DEF Settles, FramesSettle, CallsSettle
<1>4. PICK e : e = Entered(under, rcv, args, ctx)
  OBVIOUS
<1>5. e.code = Fixed + 2 /\ e.ret = Fixed + 2 /\ e.args = args
  BY <1>3, <1>4 DEF Entered
<1>6. PICK t : t = [Top EXCEPT !.slots = under]
  OBVIOUS
<1>7. t.code = Top.code /\ t.ret = Top.ret /\ t.args = Top.args
  BY <1>2, <1>6 DEF FrameIn
<1>8. PICK n \in Nat \ {0} : n = Len(frames)
  BY <1>2
<1>9. \A f \in 1..n : frames'[f].code = frames[f].code /\ frames'[f].ret = frames[f].ret /\ frames'[f].args = frames[f].args
  <2>1. TAKE f \in 1..n
  <2>2. CASE f = n
    BY <1>1, <1>2, <1>6, <1>7, <1>8, <2>2
  <2>3. CASE f # n
    <3>1. f \in 1..(n - 1)
      BY <2>3
    <3> QED BY <1>1, <1>8, <3>1
  <2> QED BY <2>2, <2>3
<1>10. Len(frames') = n + 1 /\ frames'[n + 1] = e /\ \A f \in 1..(n + 1) : f \in 1..n \/ f = n + 1
  BY <1>1, <1>4, <1>8
<1>11. \A f \in 1..Len(frames') : frames'[f].code = Fixed + 2 /\ frames'[f].ret = IF f = 1 THEN Tagged ELSE Fixed + 2
  BY <1>5, <1>8, <1>9, <1>10 DEF Settles, FramesSettle
<1>12. \A f \in 1..Len(frames') : \A i \in 1..Len(frames'[f].args) : frames'[f].args[i] = Tagged
  BY <1>5, <1>8, <1>9, <1>10 DEF NoArgs
<1> QED
  BY <1>3, <1>11, <1>12 DEF FramesSettle, NoArgs, Fixed, Tagged

\* A send keeps the references.
LEMMA SendPlain ==
  ASSUME PlainPrograms, BInv, CInv, Send
  PROVE  CInv'
<1>1. PICK W : W = Old
  OBVIOUS
<1>2. gc.phase = "idle" /\ job = NoJob /\ outcome = "running"
  BY DEF Send, Idle
<1>3. Stacks(W) /\ mem \in Heap(W) /\ {Tagged, Tenured} \subseteq W
  BY <1>1, <1>2, IdleFacts
<1>4. Settles /\ NoArgs /\ Locals
  BY UsesSettle DEF Send, CInv, PlainStacks
<1>5. \E under \in Seq(W), rcv \in W \ {Tagged}, args \in Seq(W) :
        /\ Len(under) >= NumTemps /\ EnterFrame(under, rcv, args, Tagged)
        /\ \A i \in 1..Len(args) : args[i] = Tagged
  <2>0. Operands \in Int
    BY <1>3, TopFacts DEF Operands
  <2>1. CASE Operands > 0 /\ \E r \in {Op(0), Tenured} : IsPointer(r) /\ EnterFrame(Popped(1), r, <<>>, Tagged)
    <3>1. PICK r \in {Op(0), Tenured} : IsPointer(r) /\ EnterFrame(Popped(1), r, <<>>, Tagged)
      BY <2>1
    <3>2. Op(0) \in W
      BY <1>3, <2>1, OpIn
    <3>3. r \in W \ {Tagged} /\ <<>> \in Seq(W) /\ Len(<<>>) = 0
      BY <1>3, <3>1, <3>2 DEF IsPointer
    <3>4. Popped(1) \in Seq(W) /\ Len(Popped(1)) >= NumTemps
      BY <1>3, <2>0, <2>1, PoppedIn
    <3>5. PICK as : as = <<>>
      OBVIOUS
    <3>6. as \in Seq(W) /\ (\A i \in 1..Len(as) : as[i] = Tagged) /\ EnterFrame(Popped(1), r, as, Tagged)
      BY <3>1, <3>3, <3>5
    <3> QED BY <3>3, <3>4, <3>6
  <2>2. CASE /\ Operands > 1 /\ IsPointer(Op(1)) /\ MayPass(Op(0))
             /\ EnterFrame(Popped(2), Op(1), <<Op(0)>>, Tagged)
    <3>0. Operands > 0 /\ Operands >= 2
      BY <2>0, <2>2
    <3>1. Op(0) \in W /\ Op(1) \in W
      BY <1>3, <2>2, <3>0, OpIn
    <3>2. Op(1) \in W \ {Tagged} /\ <<Op(0)>> \in Seq(W)
      BY <2>2, <3>1 DEF IsPointer
    <3>3. Popped(2) \in Seq(W) /\ Len(Popped(2)) >= NumTemps
      BY <1>3, <3>0, PoppedIn
    <3>4. Op(0) = Tagged
      BY <2>2 DEF MayPass, PlainPrograms, IsPointer
    <3>5. Len(<<Op(0)>>) = 1 /\ <<Op(0)>>[1] = Tagged
      BY <3>4
    <3>6. \A i \in 1..Len(<<Op(0)>>) : <<Op(0)>>[i] = Tagged
      BY <3>5
    <3>7. PICK as : as = <<Op(0)>>
      OBVIOUS
    <3>8. as \in Seq(W) /\ (\A i \in 1..Len(as) : as[i] = Tagged) /\ EnterFrame(Popped(2), Op(1), as, Tagged)
      BY <2>2, <3>2, <3>6, <3>7
    <3> QED BY <3>2, <3>3, <3>8
  <2> QED BY <2>1, <2>2 DEF Send
<1>6. FramesSettle' /\ NoArgs' /\ Top.code = Fixed + 2 /\ Level.table = Fixed + 3
  BY <1>3, <1>4, <1>5, EnterPlain
<1>7. /\ calls' = [calls EXCEPT ![Len(calls)].ip = Top.code]
      /\ UNCHANGED <<mem, from, log, job, gc, outcome>>
  BY DEF Send, memory, chains
<1>8. calls' = calls
  <2>1. calls \in Seq(CallIn(W)) /\ Len(calls) \in Nat \ {0}
    BY <1>3, TopFacts
  <2>2. Len(calls) \in 1..Len(calls)
    BY <2>1
  <2>3. calls[Len(calls)].ip = Top.code /\ calls[Len(calls)] \in CallIn(W)
    BY <1>4, <1>6, <2>1, <2>2, Elements DEF Settles, CallsSettle
  <2>4. PICK n, c, p : n = Len(calls) /\ c = calls[n] /\ p = Top.code
    OBVIOUS
  <2>5. [c EXCEPT !.ip = p] = c
    BY <2>3, <2>4 DEF CallIn
  <2>6. calls' = [calls EXCEPT ![n] = [c EXCEPT !.ip = p]]
    BY <1>7, <2>4
  <2> QED BY <2>1, <2>2, <2>4, <2>5, <2>6
<1>9. PlainStacks'
  <2>1. CallsSettle' /\ Locals'
    BY <1>4, <1>8 DEF Settles, CallsSettle, Locals, Fixed, Tagged
  <2> QED BY <1>6, <2>1 DEF PlainStacks, Settles
<1>10. PlainJob' /\ StayingOK' /\ LogOK'
  <2>1. PlainJob'
    BY <1>2, <1>7 DEF PlainJob, NoJob, Tagged
  <2>2. StayingOK'
    BY <1>7, StayingKept DEF CInv
  <2>3. LogOK'
    BY <1>7 DEF CInv, LogOK, Tenured, Fixed, Tagged
  <2> QED BY <2>1, <2>2, <2>3
<1>11. mem' \in Heap(W) /\ Stored(mem, mem')
  BY <1>3, <1>7 DEF Stored
<1>12. HeldIn(W)' /\ outcome' # "wild"
  BY <1>2, <1>3, <1>7, SendStacks DEF Stacks
<1> QED
  BY <1>1, <1>2, <1>7, <1>9, <1>10, <1>11, <1>12, CRest

\* A primitive that runs a block keeps the references.
LEMMA BlocksPlain ==
  ASSUME PlainPrograms, BInv, CInv, OnDo \/ Ensure \/ Transaction
  PROVE  CInv'
<1>1. PICK W : W = Old
  OBVIOUS
<1>2. gc.phase = "idle" /\ job = NoJob /\ outcome = "running"
  BY DEF OnDo, Ensure, Transaction, Idle
<1>3. Stacks(W) /\ mem \in Heap(W) /\ {Tagged, Tenured} \subseteq W
  BY <1>1, <1>2, IdleFacts
<1>4. Settles /\ NoArgs /\ Locals
  BY UsesSettle DEF OnDo, Ensure, Transaction, CInv, PlainStacks
<1>5. /\ Top.rcv \in W \ {Tagged} /\ Top.slots \in Seq(W) /\ NumTemps \in Nat /\ Len(Top.slots) \in Nat
      /\ Len(Top.slots) >= NumTemps /\ Len(calls) \in Nat \ {0} /\ calls \in Seq(CallIn(W)) /\ Operands \in Int
  BY <1>3, TopFacts DEF Operands
<1>6. \E under \in Seq(W), b \in W, kind \in {"onDo", "ensure", "txn"}, cleanup \in W :
        /\ Len(under) >= NumTemps /\ InvokeBlock(under, b, kind, cleanup, Tagged, calls)
        /\ kind # "ensure" => cleanup = Tagged
  <2>1. CASE OnDo
    <3>1. Operands > 2 /\ Operands >= 3
      BY <1>5, <2>1 DEF OnDo
    <3>2. Op(2) \in W /\ Popped(3) \in Seq(W) /\ Len(Popped(3)) >= NumTemps
      BY <1>3, <3>1, OpIn, PoppedIn
    <3> QED BY <1>3, <2>1, <3>2 DEF OnDo
  <2>2. CASE Ensure
    <3>1. Operands > 0 /\ Operands > 1
      BY <1>5, <2>2 DEF Ensure
    <3>2. Op(0) \in W /\ Op(1) \in W
      BY <1>3, <3>1, OpIn
    <3> QED BY <1>5, <2>2, <3>2 DEF Ensure
  <2>3. CASE Transaction
    <3>1. Operands > 0
      BY <1>5, <2>3 DEF Transaction
    <3>2. Op(0) \in W
      BY <1>3, <3>1, OpIn
    <3> QED BY <1>3, <1>5, <2>3, <3>2 DEF Transaction
  <2> QED BY <2>1, <2>2, <2>3
<1>7. PICK under \in Seq(W), b \in W, kind \in {"onDo", "ensure", "txn"}, cleanup \in W :
        /\ Len(under) >= NumTemps /\ InvokeBlock(under, b, kind, cleanup, Tagged, calls)
        /\ kind # "ensure" => cleanup = Tagged
  BY <1>6
<1>8. FramesSettle' /\ NoArgs' /\ Top.code = Fixed + 2 /\ Level.table = Fixed + 3
  <2>1. EnterFrame(under, Top.rcv, <<>>, b)
    BY <1>7 DEF InvokeBlock
  <2>2. <<>> \in Seq(W) /\ \A i \in 1..Len(<<>>) : <<>>[i] = Tagged
    OBVIOUS
  <2> QED BY <1>3, <1>4, <1>5, <1>7, <2>1, <2>2, EnterPlain
<1>9. PICK c : c = [kind |-> kind, depth |-> Len(frames) + 1, table |-> Level.table,
                    ip |-> Top.code, cleanup |-> cleanup, result |-> Tagged]
  OBVIOUS
<1>10. c.ip = Fixed + 2 /\ c.table = Fixed + 3 /\ c.kind = kind /\ c.cleanup = cleanup /\ c.result = Tagged
  BY <1>8, <1>9
<1>11. calls' = Append(calls, c)
  BY <1>7, <1>9 DEF InvokeBlock
<1>12. Len(calls') = Len(calls) + 1 /\ calls'[Len(calls) + 1] = c /\ \A k \in 1..Len(calls) : calls'[k] = calls[k]
  BY <1>5, <1>11
<1>13. \A k \in 1..Len(calls') : k \in 1..Len(calls) \/ k = Len(calls) + 1
  BY <1>5, <1>12
<1>14. \A k \in 1..Len(calls') :
         /\ calls'[k].ip = Fixed + 2 /\ calls'[k].table = Fixed + 3
         /\ calls'[k].kind \notin {"ensure", "cleanup"} => calls'[k].cleanup = Tagged /\ calls'[k].result = Tagged
  BY <1>4, <1>7, <1>10, <1>12, <1>13 DEF Settles, CallsSettle, Locals
<1>15. PlainStacks'
  <2>1. CallsSettle' /\ Locals'
    BY <1>14 DEF CallsSettle, Locals, Fixed, Tagged
  <2> QED BY <1>8, <2>1 DEF PlainStacks, Settles
<1>16. UNCHANGED <<mem, from, log, job, gc, outcome>>
  BY DEF OnDo, Ensure, Transaction, memory
<1>17. PlainJob' /\ StayingOK' /\ LogOK'
  <2>1. PlainJob'
    BY <1>2, <1>16 DEF PlainJob, NoJob, Tagged
  <2>2. StayingOK'
    BY <1>16, StayingKept DEF CInv
  <2>3. LogOK'
    BY <1>16 DEF CInv, LogOK, Tenured, Fixed, Tagged
  <2> QED BY <2>1, <2>2, <2>3
<1>18. mem' \in Heap(W) /\ Stored(mem, mem')
  BY <1>3, <1>16 DEF Stored
<1>19. HeldIn(W)' /\ outcome' # "wild"
  BY <1>2, <1>3, <1>16, BlockStacks DEF Stacks
<1> QED
  BY <1>1, <1>2, <1>15, <1>16, <1>17, <1>18, <1>19, CRest

\* More than one frame or call is of methods that stay.
LEMMA ManySettle ==
  ASSUME CInv, NEW W, Stacks(W), Len(frames) >= 2 \/ Len(calls) >= 2
  PROVE  Settles
<1>1. Len(frames) \in Nat /\ Len(calls) \in Nat
  BY TopFacts
<1>2. ASSUME Len(frames) = 1, Len(calls) = 1 PROVE FALSE
  <2>1. ~(1 >= 2)
    OBVIOUS
  <2> QED BY <1>2, <2>1
<1> QED
  BY <1>2 DEF CInv, PlainStacks, Young

\* A return keeps the references.
LEMMA ReturnPlain ==
  ASSUME BInv, CInv, Return
  PROVE  CInv'
<1>1. PICK W : W = Old
  OBVIOUS
<1>2. gc.phase = "idle" /\ job = NoJob /\ outcome = "running"
  BY DEF Return, Idle
<1>3. Stacks(W) /\ mem \in Heap(W)
  BY <1>1, <1>2, IdleFacts
<1>4. /\ Stacks(W)' /\ Len(calls') = Len(calls) /\ Len(frames) >= 2 /\ Len(frames') = Len(frames) - 1 /\ KeepsFrames
  BY <1>3, ReturnStacks
<1>5. Settles /\ NoArgs /\ Locals
  BY <1>3, <1>4, ManySettle DEF CInv, PlainStacks
<1>6. /\ calls' = [calls EXCEPT ![Len(calls)].ip = Top.ret]
      /\ UNCHANGED <<mem, from, log, job, gc, outcome>>
  BY DEF Return, memory, chains
<1>7. calls' = calls
  <2>1. calls \in Seq(CallIn(W)) /\ Len(calls) \in Nat \ {0} /\ Len(frames) \in Nat \ {0} /\ Top = frames[Len(frames)]
    BY <1>3, TopFacts DEF Top
  <2>2. Len(calls) \in 1..Len(calls) /\ Len(frames) \in 1..Len(frames) /\ Len(frames) # 1
    BY <1>4, <2>1
  <2>3. calls[Len(calls)].ip = Top.ret /\ calls[Len(calls)] \in CallIn(W)
    BY <1>5, <2>1, <2>2, Elements DEF Settles, CallsSettle, FramesSettle
  <2>4. PICK n, c, p : n = Len(calls) /\ c = calls[n] /\ p = Top.ret
    OBVIOUS
  <2>5. [c EXCEPT !.ip = p] = c
    BY <2>3, <2>4 DEF CallIn
  <2>6. calls' = [calls EXCEPT ![n] = [c EXCEPT !.ip = p]]
    BY <1>6, <2>4
  <2> QED BY <2>1, <2>2, <2>4, <2>5, <2>6
<1>8. PlainStacks'
  <2>1. CallsSettle' /\ Locals'
    BY <1>5, <1>7 DEF Settles, CallsSettle, Locals, Fixed, Tagged
  <2>2. Len(frames) \in Nat
    BY <1>3, TopFacts
  <2>3. FramesSettle' /\ NoArgs'
    BY <1>4, <1>5, <2>2 DEF Settles, FramesSettle, NoArgs, KeepsFrames, Fixed, Tagged
  <2> QED BY <2>1, <2>3 DEF PlainStacks, Settles
<1>9. PlainJob' /\ StayingOK' /\ LogOK'
  <2>1. PlainJob'
    BY <1>2, <1>6 DEF PlainJob, NoJob, Tagged
  <2>2. StayingOK'
    BY <1>6, StayingKept DEF CInv
  <2>3. LogOK'
    BY <1>6 DEF CInv, LogOK, Tenured, Fixed, Tagged
  <2> QED BY <2>1, <2>2, <2>3
<1>10. mem' \in Heap(W) /\ Stored(mem, mem')
  BY <1>3, <1>6 DEF Stored
<1>11. HeldIn(W)' /\ outcome' # "wild"
  BY <1>2, <1>4, <1>6 DEF Stacks
<1> QED
  BY <1>1, <1>2, <1>6, <1>8, <1>9, <1>10, <1>11, CRest

\* The end of a nested interpret() keeps the references.
LEMMA AnswerPlain ==
  ASSUME BInv, CInv, Answer
  PROVE  CInv'
<1>1. PICK W : W = Old
  OBVIOUS
<1>2. gc.phase = "idle" /\ job = NoJob /\ outcome = "running" /\ Operands > 0 /\ Len(frames) = Level.depth /\ Level.kind # "host"
  BY DEF Answer, Idle
<1>3. Stacks(W) /\ mem \in Heap(W) /\ Tagged \in W
  BY <1>1, <1>2, IdleFacts
<1>4. Len(calls) >= 2 /\ Len(frames) >= 2
  BY <1>2, <1>3, AnswerBounds
<1>5. Settles /\ NoArgs /\ Locals
  BY <1>3, <1>4, ManySettle DEF CInv, PlainStacks
<1>6. /\ Stacks(W)' /\ KeepsFrames
      /\ calls' = Outer \/ calls' = Append(Outer, Cleanup)
  <2>1. CASE Level.kind = "ensure"
    BY <1>3, <2>1, AnswerEnsure
  <2>2. CASE Level.kind # "ensure"
    BY <1>3, <2>2, AnswerOther
  <2> QED BY <2>1, <2>2
<1>7. /\ Outer \in Seq(CallIn(W)) /\ Len(Outer) = Len(calls) - 1 /\ Len(calls) \in Nat
      /\ \A k \in 1..(Len(calls) - 1) : Outer[k] = calls[k]
      /\ Outer[Len(Outer)] = calls[Len(calls) - 1]
  BY <1>3, <1>4, OuterFacts, TopFacts
<1>8. PICK n \in Nat : n = Len(Outer)
  BY <1>4, <1>7
<1>9. n + 1 = Len(calls) /\ n >= 1 /\ n \in 1..Len(calls) /\ n + 1 \in 1..Len(calls) /\ \A k \in 1..n : k \in 1..Len(calls) /\ Outer[k] = calls[k]
  BY <1>4, <1>7, <1>8
<1>10. \A k \in 1..n :
         /\ Outer[k].ip = Fixed + 2 /\ Outer[k].table = Fixed + 3
         /\ Outer[k].kind \notin {"ensure", "cleanup"} => Outer[k].cleanup = Tagged /\ Outer[k].result = Tagged
  BY <1>5, <1>9 DEF Settles, CallsSettle, Locals
<1>11. \A k \in 1..Len(calls') :
         /\ calls'[k].ip = Fixed + 2 /\ calls'[k].table = Fixed + 3
         /\ calls'[k].kind \notin {"ensure", "cleanup"} => calls'[k].cleanup = Tagged /\ calls'[k].result = Tagged
  <2>1. CASE calls' = Outer
    BY <1>8, <1>10, <2>1
  <2>2. CASE calls' = Append(Outer, Cleanup)
    <3>1. Cleanup.ip = Fixed + 2 /\ Cleanup.table = Fixed + 3 /\ Cleanup.kind = "cleanup"
      <4>1. PICK l, r, t : l = Level /\ r = Op(0) /\ t = Outer[Len(Outer)].table
        OBVIOUS
      <4>2. l \in CallIn(W) /\ l.ip = Fixed + 2 /\ t = Fixed + 3
        BY <1>3, <1>5, <1>7, <1>8, <1>9, <4>1, TopFacts DEF Level, Settles, CallsSettle
      <4>3. Cleanup = [l EXCEPT !.kind = "cleanup", !.cleanup = Tagged, !.result = r, !.table = t]
        BY <4>1 DEF Cleanup
      <4> QED BY <4>2, <4>3 DEF CallIn
    <3>2. PICK c : c = Cleanup
      OBVIOUS
    <3>3. Len(calls') = n + 1 /\ calls'[n + 1] = c /\ \A k \in 1..n : calls'[k] = Outer[k]
      BY <1>7, <1>8, <2>2, <3>2
    <3>4. \A k \in 1..(n + 1) : k \in 1..n \/ k = n + 1
      OBVIOUS
    <3> QED BY <1>10, <3>1, <3>2, <3>3, <3>4
  <2> QED BY <1>6, <2>1, <2>2
<1>12. PlainStacks'
  <2>1. CallsSettle' /\ Locals'
    BY <1>11 DEF CallsSettle, Locals, Fixed, Tagged
  <2>2. Len(frames) \in Nat
    BY <1>3, TopFacts
  <2>3. FramesSettle' /\ NoArgs'
    BY <1>5, <1>6, <2>2 DEF Settles, FramesSettle, NoArgs, KeepsFrames, Fixed, Tagged
  <2> QED BY <2>1, <2>3 DEF PlainStacks, Settles
<1>13. /\ mem' \in {mem, Committed} /\ log' \in {log, <<>>} /\ UNCHANGED <<from, job, gc, outcome>>
  BY DEF Answer
<1>14. /\ Committed \in Heap(W) /\ Stored(mem, Committed)
       /\ \A a \in Words : mem[a].fields = <<>> => Committed[a] = mem[a]
       /\ Committed[Tenured] = mem[Tenured]
  <2>1. log \in Seq([1..2 -> W])
    BY <1>3 DEF Stacks, HeldIn
  <2>2. mem[Tenured].fields = <<Tagged>> /\ \A e \in 1..Len(log) : log[e][1] = Tenured => log[e][2] = Tagged
    BY DEF CInv, StayingOK, LogOK
  <2> QED BY <1>3, <2>1, <2>2, CommittedFacts
<1>15. mem' \in Heap(W) /\ Stored(mem, mem')
  <2>1. Stored(mem, mem)
    BY DEF Stored
  <2> QED BY <1>3, <1>13, <1>14, <2>1
<1>16. StayingOK'
  <2>1. \A a \in Words : a > Fixed => a \in {Tenured, Fixed + 2, Fixed + 3}
    BY SpaceFacts DEF Words, Tenured
  <2>2. \A a \in Words : a > Fixed => Committed[a] = mem[a]
    BY <1>14, <2>1 DEF CInv, StayingOK
  <2> QED BY <1>13, <2>2, StayingKept DEF CInv
<1>17. PlainJob' /\ LogOK'
  <2>1. PlainJob'
    BY <1>2, <1>13 DEF PlainJob, NoJob, Tagged
  <2>2. LogOK'
    BY <1>13 DEF CInv, LogOK, Tenured, Fixed, Tagged
  <2> QED BY <2>1, <2>2
<1>18. HeldIn(W)' /\ outcome' # "wild"
  BY <1>2, <1>6, <1>13 DEF Stacks
<1> QED
  BY <1>1, <1>2, <1>12, <1>13, <1>15, <1>16, <1>17, <1>18, CRest

\* An allocation begins, or is given up.
LEMMA JobsPlain ==
  ASSUME PlainPrograms, BInv, CInv, BasicNew \/ PushClosure \/ OutOfMemory
  PROVE  CInv'
<1>1. PICK W : W = Old
  OBVIOUS
<1>2. /\ gc.phase = "idle" /\ UNCHANGED <<mem, from, free, gc, stacks, chains>>
      /\ outcome' # "wild"
  BY DEF BasicNew, PushClosure, OutOfMemory, StartJob, Idle, memory
<1>3. Stacks(W) /\ mem \in Heap(W)
  BY <1>1, <1>2, IdleFacts
<1>4. Stacks(W)'
  BY <1>2, <1>3, StacksSame DEF chains
<1>5. PlainStacks'
  <2>1. KeepsFrames /\ UNCHANGED <<calls, from>> /\ Len(frames') = Len(frames)
    <3>1. Len(frames) \in Nat
      BY <1>3, TopFacts
    <3> QED BY <1>2, <3>1 DEF KeepsFrames, stacks
  <2> QED BY <1>3, <2>1, PlainFrames DEF CInv
<1>6. StayingOK' /\ LogOK'
  <2>1. StayingOK'
    BY <1>2, StayingKept DEF CInv
  <2>2. LogOK'
    BY <1>2 DEF CInv, LogOK, Tenured, Fixed, Tagged, chains
  <2> QED BY <2>1, <2>2
<1>7. PlainJob'
  <2>1. UNCHANGED calls /\ Top' = Top
    BY <1>2 DEF Top, stacks
  <2>2. CASE BasicNew
    <3>1. MayAllocate /\ job'.kind = "new"
      BY <2>2 DEF BasicNew, StartJob
    <3> QED BY <2>1, <3>1 DEF PlainJob, MayAllocate, PlainPrograms
  <2>3. CASE PushClosure
    <3>1. MayAllocate /\ job'.local = Top.code /\ MayUse("closure")
      BY <2>3 DEF PushClosure, StartJob
    <3>2. Settles
      BY <3>1, UsesSettle
    <3>3. Top.code = Fixed + 2
      BY <1>3, <3>2, TopFacts DEF Settles, FramesSettle, Top
    <3> QED BY <2>1, <3>1, <3>3 DEF PlainJob, MayAllocate, PlainPrograms, Fixed
  <2>4. CASE OutOfMemory
    <3>1. UNCHANGED job
      BY <2>4 DEF OutOfMemory
    <3> QED BY <2>1, <3>1 DEF PlainJob, CInv, NoJob, Tagged, Fixed
  <2> QED BY <2>2, <2>3, <2>4
<1>8. mem' \in Heap(W) /\ Stored(mem, mem') /\ HeldIn(W)'
  BY <1>2, <1>3, <1>4 DEF Stored, Stacks
<1> QED
  BY <1>1, <1>2, <1>5, <1>6, <1>7, <1>8, CRest

\* An object more is a reference more.
LEMMA OldGrows ==
  ASSUME from \in {0, SpaceWords}, NEW a \in Space(from), NEW o, o # NoObj, mem \in Heap(Word),
         mem' = [mem EXCEPT ![a] = o], UNCHANGED from
  PROVE  Old' = Old \cup {a}
<1>1. Space(from) \subseteq Words
  BY FromFacts
<1>2. \A x \in Words : mem'[x] = IF x = a THEN o ELSE mem[x]
  BY <1>1 DEF Heap
<1>3. \A x \in Space(from) : mem'[x] # NoObj <=> (mem[x] # NoObj \/ x = a)
  BY <1>1, <1>2
<1>4. {x \in Space(from) : mem'[x] # NoObj} = {x \in Space(from) : mem[x] # NoObj} \cup {a}
  BY <1>3
<1> QED
  BY <1>4 DEF Old, Staying, ObjectsOf, Space, Words, Fixed, NoObj, Tagged

\* An object is made.
LEMMA AllocationsPlain ==
  ASSUME PlainPrograms, BInv, CInv, New \/ NewContext \/ NewBlock
  PROVE  CInv'
<1>1. PICK W : W = Old
  OBVIOUS
<1>2. gc.phase = "idle" /\ outcome = "running" /\ job # NoJob
  BY DEF New, NewContext, NewBlock, NoJob
<1>3. /\ Stacks(W) /\ mem \in Heap(W) /\ gc = NoGc /\ {Tagged, Tenured, Fixed + 2, Fixed + 3} \subseteq W
      /\ W \subseteq Word /\ \A a \in Words : mem[a].fwd = 0
  BY <1>1, <1>2, IdleFacts
<1>4. /\ mem \in Heap(Word) /\ from \in {0, SpaceWords} /\ Tiles(mem, from, free) /\ made \in 4..(MaxAllocs + 1)
      /\ JobIn(Word)
  BY BFacts DEF BInv
<1>5. PlainJob
  BY DEF CInv
<1>6. PICK o \in ObjectIn(W) : Allocates(o)
  BY <1>2, <1>3, <1>4, <1>5, Allocated DEF PlainJob
<1>7. /\ free + Size(o) <= from + SpaceWords /\ o # NoObj /\ o.fwd = 0 /\ mem' = [mem EXCEPT ![free + 1] = o]
      /\ UNCHANGED <<from, calls, log, gc, outcome>>
  BY <1>6, AllocationRoom DEF Allocates
<1>8. free + 1 \in Space(from)
  BY <1>3, <1>4, <1>7, TilesGrown
<1>9. PICK a \in Space(from) : a = free + 1
  BY <1>8
<1>10. a \in Words /\ a # Tagged /\ ~(a > Fixed)
  BY <1>4, FromFacts, SpaceFacts DEF Tagged, Staying
<1>11. PICK V : V = W \cup {a}
  OBVIOUS
<1>12. V = Old' /\ W \subseteq V /\ a \in V
  BY <1>1, <1>4, <1>7, <1>9, <1>11, OldGrows
<1>13. Stacks(V)
  BY <1>3, <1>12, HeldMore DEF Stacks
<1>14. Stacks(V)' /\ KeepsFrames /\ Len(frames') = Len(frames)
  <2>1. job.kind = "new" => Operands > 0
    BY <1>2, <1>4 DEF JobIn
  <2> QED BY <1>9, <1>12, <1>13, <2>1, AllocatedStacks
<1>15. PlainStacks' /\ Top'.code = Top.code
  BY <1>7, <1>13, <1>14, PlainFrames DEF CInv
<1>16. PlainJob'
  <2>1. CASE New \/ NewBlock
    BY <2>1 DEF New, NewBlock, PlainJob, NoJob, Tagged
  <2>2. CASE NewContext
    <3>1. job' = [job EXCEPT !.stage = "block", !.tried = FALSE, !.size = 3] /\ job \in Jobs(Word)
      BY <1>4, <2>2 DEF NewContext, JobIn
    <3>2. job'.kind = job.kind /\ job'.local = job.local
      BY <3>1 DEF Jobs
    <3> QED BY <1>2, <1>5, <1>7, <1>15, <3>2 DEF PlainJob, Fixed
  <2> QED BY <2>1, <2>2
<1>17. \A x \in Words : mem'[x] = IF x = a THEN o ELSE mem[x]
  BY <1>4, <1>7, <1>9 DEF Heap
<1>18. StayingOK' /\ LogOK'
  <2>1. StayingOK'
    BY <1>10, <1>17, StayingKept DEF CInv
  <2>2. LogOK'
    BY <1>7 DEF CInv, LogOK, Tenured, Fixed, Tagged
  <2> QED BY <2>1, <2>2
<1>19. Settled'
  <2>1. \A x \in Words : mem'[x] \in ObjectIn(V) /\ mem'[x].fwd = 0
    <3>1. \A x \in Words : mem[x] \in ObjectIn(V)
      BY <1>3, <1>12, ObjectMore DEF Heap
    <3>2. o \in ObjectIn(V)
      BY <1>12, ObjectMore
    <3> QED BY <1>3, <1>7, <1>17, <3>1, <3>2
  <2>2. PICK m : m = mem'
    OBVIOUS
  <2>3. m \in [Words -> ObjectIn(V)]
    BY <1>4, <1>7, <2>1, <2>2 DEF Heap
  <2> QED BY <1>12, <2>1, <2>2, <2>3 DEF Settled, Heap, Words, ObjectIn, Ids, FieldsIn, Fixed
<1>20. HeldIn(Old)'
  BY <1>12, <1>14, HeldPrimed DEF Stacks
<1>21. WildOK'
  BY <1>2, <1>3, <1>7 DEF WildOK, NoGc
<1> QED
  BY <1>3, <1>7, <1>15, <1>16, <1>18, <1>19, <1>20, <1>21 DEF CInv, NoGc

\* The roots refer to objects in their place.
LEMMA OrderOld ==
  ASSUME PlainPrograms, BInv, HeldIn(Old), NEW W, W = Old
  PROVE  /\ Stacks(W) /\ Order \in Seq(ReadsIn(W)) /\ Len(Order) \in Nat
         /\ \A n \in 1..Len(Order) : Read(Order[n]) \in W
<1>1. Stacks(W)
  BY DEF BInv, Stacks
<1>3. Order \in Seq(ReadsIn(W))
  BY <1>1, OrderFacts DEF Order
<1>4. \A n \in 1..Len(Order) : Order[n] \in ReadsIn(W)
  BY <1>3, Elements
<1> QED
  BY <1>1, <1>3, <1>4, Elements DEF ReadsIn

\* An object with another forwarding address has the same words.
LEMMA AlikeIn ==
  ASSUME NEW W, NEW o \in ObjectIn(W), NEW p \in ObjectIn(Word), Alike(o, p)
  PROVE  p \in ObjectIn(W)
<1>1. o.class \in W /\ o.fields \in FieldsIn(W)
  BY DEF ObjectIn
<1>2. p.class \in W /\ p.fields \in FieldsIn(W)
  BY <1>1 DEF Alike
<1>3. p = [id |-> p.id, class |-> p.class, fields |-> p.fields, fwd |-> p.fwd] /\ p.id \in Ids /\ p.fwd \in 0..Fixed
  BY DEF ObjectIn
<1> QED
  BY <1>2, <1>3 DEF ObjectIn

\* What copying leaves in the two spaces.
LEMMA Contents ==
  ASSUME from \in {0, SpaceWords}, CopyOK, gc.free \in Nat, gc.scan \in Nat, gc.scan <= gc.free,
         NEW st \in CopyStates, NEW i \in Nat, NEW ws, CopyKeeps(st, i, ws), CopyGood(st, i, ws),
         NEW V, V = Staying \cup ObjectsOf(st.mem, To)
  PROVE  /\ ObjectsOf(st.mem, from) = ObjectsOf(mem, from) /\ Fresh \subseteq V
         /\ \A a \in ObjectsOf(st.mem, from) : st.mem[a] \in ObjectIn(Old)
         /\ \A b \in ObjectsOf(st.mem, To) : st.mem[b] \in ObjectIn(IF b <= gc.scan THEN V ELSE Old)
<1>1. ObjectsOf(st.mem, from) = ObjectsOf(mem, from) /\ ObjectsOf(mem, To) \subseteq ObjectsOf(st.mem, To)
  BY CopyObjects
<1>2. Fresh \subseteq V
  BY <1>1 DEF Fresh
<1>3. \A a \in Words : st.mem[a] \in ObjectIn(Word)
  BY DEF CopyStates, Heap
<1>4. Space(from) \subseteq Words /\ Space(To) \subseteq Words /\ \A b \in Space(To) : b \in Nat
  BY FromFacts
<1>5. \A a \in ObjectsOf(mem, from) : st.mem[a] \in ObjectIn(Old)
  <2>1. TAKE a \in ObjectsOf(mem, from)
  <2>2. mem[a] \in ObjectIn(Old) /\ Alike(mem[a], st.mem[a])
    BY DEF CopyOK, CopyGood
  <2>3. st.mem[a] \in ObjectIn(Word)
    BY <1>3, <1>4 DEF ObjectsOf
  <2> QED BY <2>2, <2>3, AlikeIn
<1>6. \A b \in ObjectsOf(st.mem, To) : st.mem[b] \in ObjectIn(IF b <= gc.scan THEN V ELSE Old)
  <2>1. TAKE b \in ObjectsOf(st.mem, To)
  <2>2. b \in Space(To) /\ st.mem[b] \in ObjectIn(Word)
    BY <1>3, <1>4 DEF ObjectsOf
  <2>3. CASE mem[b] = NoObj
    <3>1. CopyOf(st, i, b)
      BY <2>3 DEF CopyGood
    <3>2. PICK a \in ObjectsOf(mem, from) : Alike(mem[a], st.mem[b])
      BY <3>1 DEF CopyOf
    <3>3. mem[a] \in ObjectIn(Old)
      BY DEF CopyOK
    <3>4. st.mem[b] \in ObjectIn(Old)
      BY <2>2, <3>2, <3>3, AlikeIn
    <3>5. b > gc.free
      BY <3>1 DEF CopyOf
    <3>6. ~(b <= gc.scan)
      BY <1>4, <2>2, <3>5
    <3> QED BY <3>4, <3>6
  <2>4. CASE mem[b] # NoObj
    <3>1. st.mem[b] = mem[b]
      BY <2>2, <2>4 DEF CopyKeeps
    <3>2. b \in ObjectsOf(mem, To)
      BY <2>2, <2>4 DEF ObjectsOf
    <3>3. mem[b] \in ObjectIn(IF b <= gc.scan THEN Fresh ELSE Old)
      BY <3>2 DEF CopyOK
    <3>4. ObjectIn(Fresh) \subseteq ObjectIn(V)
      BY <1>2, ObjectMore
    <3> QED BY <3>1, <3>3, <3>4
  <2> QED BY <2>3, <2>4
<1> QED
  BY <1>1, <1>2, <1>5, <1>6

\* What a step of the collection comes to.
CopyAfter(m, g, V) ==
  /\ V = Staying \cup ObjectsOf(m, To)
  /\ Linked(m, g.free)
  /\ ObjectsOf(m, from) = ObjectsOf(mem, from)
  /\ \A a \in ObjectsOf(m, from) : m[a] \in ObjectIn(Old)
  /\ \A b \in ObjectsOf(m, To) : m[b] \in ObjectIn(IF b <= g.scan THEN V ELSE Old)
  /\ RootsMoved(m, g, CollectOrder(g.over), V)

\* A word leads to no object still.
LEMMA MissingSame ==
  ASSUME UNCHANGED from, NEW m, m = mem', ObjectsOf(m, from) = ObjectsOf(mem, from)
  PROVE  \A w : Missing(w)' <=> Missing(w)
<1>1. \A w : w \in Space(from) => (m[w] = NoObj <=> mem[w] = NoObj)
  BY DEF ObjectsOf
<1> QED
  BY <1>1 DEF Missing, Space, NoObj, Tagged

\* It is what the invariant says of the state after the step.
LEMMA CopyPrimed ==
  ASSUME UNCHANGED <<from, stacks, chains>>, NEW m, m = mem', NEW g, g = gc', NEW V, CopyAfter(m, g, V)
  PROVE  CopyOK' /\ Old' = Old
<1>1. Old' = Old
  BY DEF CopyAfter, Old, Staying, ObjectsOf, Space, Words, Fixed, NoObj, Tagged
<1>2. PICK o : o = CollectOrder(g.over)
  OBVIOUS
<1>21. Order' = o
  <2>1. PICK over : over = g.over
    OBVIOUS
  <2>2. Order' = CollectOrder(over)'
    BY <2>1, OrderThen
  <2> QED BY <1>2, <2>1, <2>2, CollectOrderSame
<1>22. \A l : Read(l)' = Read(l)
  BY ReadSame
<1>23. \A w : Missing(w)' <=> Missing(w)
  BY MissingSame DEF CopyAfter
<1>3. Fresh' = V
  BY DEF CopyAfter, Fresh, Staying, ObjectsOf, Space, To, Words, Fixed, NoObj, Tagged
<1>4. Linked(mem, gc.free)'
  BY DEF CopyAfter, Linked, Leads, Taken, Body, Size, ObjectsOf, Space, To, NoObj, Tagged
<1>5. ObjectsOf(mem, from)' = ObjectsOf(m, from) /\ ObjectsOf(mem, To)' = ObjectsOf(m, To)
  BY DEF ObjectsOf, Space, To, NoObj, Tagged
<1>6. (\A a \in ObjectsOf(mem, from) : mem[a] \in ObjectIn(Old))'
  BY <1>1, <1>5 DEF CopyAfter, ObjectIn, Ids, FieldsIn, Fixed
<1>7. (\A b \in ObjectsOf(mem, To) : mem[b] \in ObjectIn(IF b <= gc.scan THEN Fresh ELSE Old))'
  <2>1. \A b \in ObjectsOf(m, To) : m[b] \in ObjectIn(IF b <= g.scan THEN V ELSE Old)
    BY DEF CopyAfter
  <2> QED BY <1>1, <1>3, <1>5, <2>1 DEF ObjectIn, Ids, FieldsIn, Fixed
<1>8. RootsMoved(mem, gc, Order, Fresh)'
  <2>1. RootsMoved(m, g, o, V)
    BY <1>2 DEF CopyAfter
  <2> QED BY <1>21, <1>22, <1>23, <1>3, <2>1 DEF RootsMoved, MovedIn, Space
<1> QED
  BY <1>1, <1>4, <1>6, <1>7, <1>8 DEF CopyOK

\* A step of the collection leaves the program what it holds.
LEMMA CollectionPlain ==
  ASSUME CInv, UNCHANGED <<from, stacks, chains, job>>, \A a \in Words : a > Fixed => mem'[a] = mem[a],
         gc'.phase # "idle", Old' = Old, CopyOK', WildOK'
  PROVE  CInv'
<1>1. UNCHANGED <<frames, calls, handlers, ensures, log>> /\ Top' = Top /\ Level' = Level
  BY DEF stacks, chains, Top, Level
<1>2. PlainStacks'
  BY <1>1 DEF CInv, PlainStacks, Young, Settles, FramesSettle, CallsSettle, NoArgs, Locals, InSpace, Fixed, Tagged
<1>3. PlainJob'
  BY <1>1 DEF CInv, PlainJob, NoJob, Tagged, Fixed
<1>4. StayingOK' /\ LogOK'
  BY <1>1, StayingKept DEF CInv, LogOK, Tenured, Fixed, Tagged
<1>5. HeldIn(Old)'
  <2>1. PICK W : W = Old
    OBVIOUS
  <2>2. HeldIn(W)'
    BY <1>1, <2>1 DEF CInv, HeldIn
  <2> QED BY <2>1, <2>2, HeldPrimed
<1>6. Settled'
  BY DEF Settled, NoGc
<1> QED
  BY <1>2, <1>3, <1>4, <1>5, <1>6 DEF CInv

\* A collection begins.
LEMMA StartPlain ==
  ASSUME BInv, CInv, AllocationFails
  PROVE  CInv'
<1>1. /\ gc.phase = "idle" /\ outcome = "running"
      /\ UNCHANGED <<mem, from, stacks, chains, job, outcome>>
      /\ gc'.phase = "roots" /\ gc'.free = To /\ gc'.scan = To
  BY DEF AllocationFails, StartCollection, memory
<1>2. /\ mem \in Heap(Old) /\ (\A a \in Words : mem[a].fwd = 0) /\ from \in {0, SpaceWords}
      /\ \A a \in Space(To) : mem[a] = NoObj
  BY <1>1, IdleFacts, BFacts
<1>3. PICK g : g = gc'
  OBVIOUS
<1>4. g.phase = "roots" /\ g.free = To /\ g.scan = To
  BY <1>1, <1>3
<1>5. Space(from) \subseteq Words /\ Space(To) \subseteq Words /\ To \in Nat
  BY <1>2, FromFacts
<1>6. Leads(mem) = {} /\ ObjectsOf(mem, To) = {}
  BY <1>2, <1>5 DEF Leads, ObjectsOf
<1>7. Taken(mem) = {}
  BY <1>6 DEF Taken
<1>8. Linked(mem, To)
  <2>1. Cardinality(Taken(mem)) = To - To
    BY <1>5, <1>7, FS_EmptySet
  <2> QED BY <1>6, <2>1 DEF Linked
<1>9. PICK V : V = Staying \cup ObjectsOf(mem, To)
  OBVIOUS
<1>91. \A n \in (Len(CollectOrder(g.over)) + 1)..Len(g.roots) : g.roots[n] \in Space(from)
  <2>1. PICK over \in Overscanned, strays \in Strays : Starts(over, strays)
    BY DEF AllocationFails, StartCollection, Starts
  <2>2. PICK o : o = CollectOrder(over)
    OBVIOUS
  <2>3. PICK q : q = [i \in 1..Len(o) |-> Read(o[i])]
    OBVIOUS
  <2>4. g.roots = q \o strays /\ g.over = over
    BY <1>3, <2>1, <2>2, <2>3 DEF Starts
  <2>5. Stacks(Word)
    BY <1>1, BFacts
  <2>6. strays \in Seq(Word) /\ Len(strays) \in Nat /\ \A i \in 1..Len(strays) : strays[i] \in Space(from)
    BY <2>5, StrayFacts
  <2>7. q \in Seq(Word) /\ Len(q) = Len(o) /\ Len(o) \in Nat
    <3>1. o \in Seq(ReadsIn(Word))
      BY <2>2, <2>5, OrderFacts
    <3>2. Len(o) \in Nat /\ \A i \in 1..Len(o) : o[i] \in ReadsIn(Word)
      BY <3>1, Elements
    <3>3. q \in [1..Len(o) -> Word]
      BY <2>3, <3>2 DEF ReadsIn
    <3> QED BY <3>2, <3>3, Listed
  <2>8. PICK r : r = q \o strays
    OBVIOUS
  <2>9. Len(r) = Len(q) + Len(strays) /\ \A i \in 1..Len(strays) : r[Len(q) + i] = strays[i]
    <3>1. q \in Seq(Word) /\ strays \in Seq(Word)
      BY <2>6, <2>7
    <3> HIDE DEF Word
    <3> QED BY ONLY <2>8, <3>1, Joined
  <2>10. ASSUME NEW n \in (Len(o) + 1)..Len(r) PROVE r[n] \in Space(from)
    <3>1. n - Len(q) \in 1..Len(strays) /\ n = Len(q) + (n - Len(q))
      BY <2>6, <2>7, <2>9
    <3> QED BY <2>6, <2>9, <3>1
  <2> QED BY <2>2, <2>4, <2>8, <2>10
<1>10. CopyAfter(mem, g, V)
  <2>1. \A a \in ObjectsOf(mem, from) : mem[a] \in ObjectIn(Old)
    BY <1>2, <1>5 DEF ObjectsOf, Heap
  <2>2. RootsMoved(mem, g, CollectOrder(g.over), V)
    BY <1>4, <1>91 DEF RootsMoved
  <2> QED BY <1>4, <1>6, <1>8, <1>9, <2>1, <2>2 DEF CopyAfter
<1>11. CopyOK' /\ Old' = Old
  BY <1>1, <1>3, <1>10, CopyPrimed
<1>12. WildOK'
  BY <1>1 DEF WildOK
<1> QED
  BY <1>1, <1>3, <1>4, <1>11, <1>12, CollectionPlain

\* The roots are copied.
RootsCopied(done) ==
  /\ gc.phase = "roots" /\ outcome = "running" /\ UNCHANGED <<from, stacks, chains, job>>
  /\ mem' = done.mem /\ gc' = [gc EXCEPT !.phase = "scan", !.roots = done.out, !.free = done.free]
  /\ outcome' = IF done.full THEN "wild" ELSE outcome
  /\ Len(Order) \in Nat /\ Len(gc.roots) \in Nat /\ Len(gc.roots) >= Len(Order)
  /\ \A n \in 1..Len(Order) : gc.roots[n] \in Old /\ gc.roots[n] = Read(Order[n])
  /\ \A n \in (Len(Order) + 1)..Len(gc.roots) : gc.roots[n] \in Space(from)
  /\ done \in CopyStates
  /\ CopyGood(done, Len(gc.roots), gc.roots) /\ CopyKeeps(done, Len(gc.roots), gc.roots)

\* CopyRoots copies the words that the roots have.
LEMMA CopyRootsFacts ==
  ASSUME PlainPrograms, BInv, CInv, CopyRoots, NEW done, done = CopyAll(gc.roots)
  PROVE  RootsCopied(done)
<1>1. /\ gc.phase = "roots" /\ outcome = "running" /\ UNCHANGED <<from, stacks, chains, job>>
  BY DEF CopyRoots
<1>2. /\ mem' = done.mem /\ gc' = [gc EXCEPT !.phase = "scan", !.roots = done.out, !.free = done.free]
      /\ outcome' = IF done.full THEN "wild" ELSE outcome
  BY DEF CopyRoots
<1>3. /\ gc \in Collections /\ Tiles(mem, To, gc.free) /\ RootsOK /\ gc.roots \in Seq(Word)
      /\ gc.scan \in To..gc.free /\ gc.scan \in Nat /\ gc.free \in Nat /\ To \in Nat
      /\ \A a \in Words : mem[a] = NoObj \/ mem[a].id # 0
  BY <1>1, GcFacts
<1>4. mem \in Heap(Word) /\ from \in {0, SpaceWords} /\ Tiles(mem, from, free)
  BY BFacts
<1>5. CopyOK
  BY <1>1 DEF CInv, NoGc
<1>6. /\ Len(Order) \in Nat /\ Len(gc.roots) \in Nat /\ Len(gc.roots) >= Len(Order)
      /\ \A n \in 1..Len(Order) : gc.roots[n] \in Old /\ gc.roots[n] = Read(Order[n])
      /\ \A n \in (Len(Order) + 1)..Len(gc.roots) : gc.roots[n] \in Space(from)
  <2>1. Len(Order) \in Nat /\ \A n \in 1..Len(Order) : Read(Order[n]) \in Old
    BY OrderOld DEF CInv
  <2>2. \A n \in (Len(Order) + 1)..Len(gc.roots) : gc.roots[n] \in Space(from)
    BY <1>1, <1>5 DEF CopyOK, RootsMoved
  <2>3. Len(gc.roots) \in Nat
    BY <1>3, Elements
  <2> QED BY <1>1, <1>3, <2>1, <2>2, <2>3 DEF RootsOK
<1>61. \A n \in 1..Len(gc.roots) : gc.roots[n] \in Old \/ Missing(gc.roots[n])
  <2>1. TAKE n \in 1..Len(gc.roots)
  <2>2. n \in 1..Len(Order) \/ n \in (Len(Order) + 1)..Len(gc.roots)
    BY <1>6
  <2> QED BY <1>6, <2>2 DEF Old, ObjectsOf, Missing
<1>7. CopyGood(done, Len(gc.roots), gc.roots)
  BY <1>3, <1>4, <1>5, <1>61, CopiedAllGood DEF CopyOK
<1>8. done \in CopyStates /\ CopyKeeps(done, Len(gc.roots), gc.roots)
  BY <1>3, <1>4, CopiedAll
<1> QED
  BY <1>1, <1>2, <1>6, <1>7, <1>8 DEF RootsCopied

\* A stray that leads to no object is left as it is, another becomes a reference.
LEMMA StrayAnswered ==
  ASSUME from \in {0, SpaceWords}, NEW m, ObjectsOf(m, from) = ObjectsOf(mem, from), NEW w, NEW x, Answers(m, x, w)
  PROVE  /\ Missing(w) => Missing(x)
         /\ ~Missing(w) => ~Missing(x) /\ x \in Staying \cup ObjectsOf(m, To)
<1>1. CASE Missing(w)
  <2>1. w \in Space(from) /\ w \notin ObjectsOf(mem, from)
    BY <1>1 DEF Missing, ObjectsOf
  <2>2. m[w] = NoObj
    BY <2>1 DEF ObjectsOf
  <2>3. x = w
    BY <2>2 DEF Answers, MovedIn, NoObj
  <2> QED BY <1>1, <2>3
<1>2. CASE ~Missing(w)
  <2>1. x \in Staying \cup ObjectsOf(m, To)
    BY <1>2 DEF Answers
  <2>2. x \notin Space(from)
    BY <2>1, FromFacts DEF ObjectsOf
  <2> QED BY <1>2, <2>1, <2>2 DEF Missing
<1> QED
  BY <1>1, <1>2

\* The copying of the roots keeps the references.
LEMMA CopyRootsPlain ==
  ASSUME PlainPrograms, BInv, CInv, CopyRoots
  PROVE  CInv'
<1>1. PICK done : done = CopyAll(gc.roots)
  OBVIOUS
<1>2. RootsCopied(done)
  BY <1>1, CopyRootsFacts
<1>3. /\ gc.phase = "roots" /\ outcome = "running" /\ UNCHANGED <<from, stacks, chains, job>>
      /\ mem' = done.mem /\ gc' = [gc EXCEPT !.phase = "scan", !.roots = done.out, !.free = done.free]
      /\ outcome' = IF done.full THEN "wild" ELSE outcome
      /\ Len(Order) \in Nat /\ Len(gc.roots) \in Nat /\ Len(gc.roots) >= Len(Order)
      /\ \A n \in 1..Len(Order) : gc.roots[n] \in Old /\ gc.roots[n] = Read(Order[n])
      /\ \A n \in (Len(Order) + 1)..Len(gc.roots) : gc.roots[n] \in Space(from)
  BY <1>2 DEF RootsCopied
<1>4. /\ gc \in Collections /\ gc.roots \in Seq(Word)
      /\ gc.scan \in To..gc.free /\ gc.scan \in Nat /\ gc.free \in Nat /\ To \in Nat
  BY <1>3, GcFacts
<1>5. from \in {0, SpaceWords}
  BY BFacts
<1>6. CopyOK
  BY <1>3 DEF CInv, NoGc
<1>7. /\ done \in CopyStates
      /\ CopyGood(done, Len(gc.roots), gc.roots) /\ CopyKeeps(done, Len(gc.roots), gc.roots)
  BY <1>2 DEF RootsCopied
<1>8. PICK V : V = Staying \cup ObjectsOf(done.mem, To)
  OBVIOUS
<1>9. gc.scan <= gc.free /\ Len(gc.roots) \in Nat
  BY <1>4
<1>10. /\ ObjectsOf(done.mem, from) = ObjectsOf(mem, from)
       /\ \A a \in ObjectsOf(done.mem, from) : done.mem[a] \in ObjectIn(Old)
       /\ \A b \in ObjectsOf(done.mem, To) : done.mem[b] \in ObjectIn(IF b <= gc.scan THEN V ELSE Old)
  BY <1>4, <1>5, <1>6, <1>7, <1>8, <1>9, Contents
<1>11. PICK g : g = gc'
  OBVIOUS
<1>12. g.phase = "scan" /\ g.roots = done.out /\ g.free = done.free /\ g.scan = gc.scan /\ g.over = gc.over
  BY <1>3, <1>4, <1>11 DEF Collections
<1>121. Len(g.roots) = Len(gc.roots) /\ \A n \in 1..Len(g.roots) : Answers(done.mem, g.roots[n], gc.roots[n])
  BY <1>7, <1>12 DEF CopyKeeps, CopyGood
<1>122. PICK o : o = Order
  OBVIOUS
<1>123. \A n \in 1..Len(o) : /\ n \in 1..Len(g.roots) /\ ~Missing(gc.roots[n])
                             /\ g.roots[n] = MovedIn(done.mem, Read(o[n])) /\ g.roots[n] \in V
  <2>1. TAKE n \in 1..Len(o)
  <2>2. n \in 1..Len(g.roots) /\ gc.roots[n] \in Old /\ gc.roots[n] = Read(o[n])
    BY <1>3, <1>121, <1>122
  <2>3. ~Missing(gc.roots[n])
    BY <1>5, <2>2, FromFacts DEF Old, ObjectsOf, Missing
  <2> QED BY <1>8, <1>121, <2>2, <2>3 DEF Answers
<1>124. \A n \in (Len(o) + 1)..Len(g.roots) :
          /\ n \in 1..Len(g.roots) /\ (g.roots[n] \in V \/ Missing(g.roots[n]))
          /\ Missing(gc.roots[n]) <=> Missing(g.roots[n])
  <2>1. TAKE n \in (Len(o) + 1)..Len(g.roots)
  <2>2. n \in 1..Len(g.roots)
    BY <1>3, <1>121, <1>122
  <2>3. Answers(done.mem, g.roots[n], gc.roots[n])
    BY <1>121, <2>2
  <2> QED BY <1>5, <1>8, <1>10, <2>2, <2>3, StrayAnswered
<1>13. CopyAfter(done.mem, g, V)
  <2>1. RootsMoved(done.mem, g, o, V)
    BY <1>12, <1>123, <1>124 DEF RootsMoved
  <2>2. Linked(done.mem, g.free)
    BY <1>7, <1>12 DEF CopyGood
  <2>3. o = CollectOrder(g.over)
    BY <1>12, <1>122 DEF Order
  <2> QED BY <1>8, <1>10, <1>12, <2>1, <2>2, <2>3 DEF CopyAfter
<1>14. CopyOK' /\ Old' = Old
  <2>1. PICK m : m = done.mem
    OBVIOUS
  <2> QED BY <1>3, <1>11, <1>12, <1>13, <2>1, CopyPrimed
<1>15. \A a \in Words : a > Fixed => mem'[a] = mem[a]
  BY <1>3, <1>7 DEF CopyGood
<1>16. outcome' = "wild" <=> \E n \in (Len(o) + 1)..Len(g.roots) : Missing(g.roots[n])
  <2>1. done.full = TRUE <=> \E n \in 1..Len(gc.roots) : Missing(gc.roots[n])
    BY <1>7 DEF CopyGood
  <2>2. outcome' = "wild" <=> done.full = TRUE
    BY <1>3, <1>7 DEF CopyStates
  <2>3. \A n \in 1..Len(g.roots) : n \in 1..Len(o) \/ n \in (Len(o) + 1)..Len(g.roots)
    BY <1>3, <1>121, <1>122
  <2> QED BY <1>121, <1>123, <1>124, <2>1, <2>2, <2>3
<1>17. WildOK'
  <2>1. Order' = o /\ \A w : Missing(w)' <=> Missing(w)
    <3>1. Order' = Order
      BY <1>3, <1>11, <1>12, OrderSame
    <3>2. PICK m : m = done.mem
      OBVIOUS
    <3>3. \A w : Missing(w)' <=> Missing(w)
      BY <1>3, <1>10, <3>2, MissingSame
    <3> QED BY <1>122, <3>1, <3>3
  <2> QED BY <1>11, <1>12, <1>16, <2>1 DEF WildOK
<1> QED
  BY <1>3, <1>11, <1>12, <1>14, <1>15, <1>17, CollectionPlain

\* The words of an object are words of its class and fields.
LEMMA WordsIn ==
  ASSUME NEW V, NEW p \in ObjectIn(Word), NEW out \in Seq(Word), NEW n \in 0..2, Len(out) = n + 1,
         \A j \in 1..(n + 1) : out[j] \in V, p.class = out[1], p.fields = Tail(out)
  PROVE  p \in ObjectIn(V)
<1>1. out \in [1..(n + 1) -> V]
  <2>1. out \in [1..(n + 1) -> Word]
    BY Lists
  <2> QED BY <2>1
<1>2. out \in Seq(V)
  BY <1>1, Listed
<1>3. p.class \in V /\ p.fields \in FieldsIn(V)
  BY <1>2, TailFields
<1>4. p = [id |-> p.id, class |-> p.class, fields |-> p.fields, fwd |-> p.fwd] /\ p.id \in Ids /\ p.fwd \in 0..Fixed
  BY DEF ObjectIn
<1> QED
  BY <1>3, <1>4 DEF ObjectIn

\* The copy that is scanned gets other words, and stays where it is.
ScanLeaves(q, a, p, m, hi) ==
  /\ Linked(m, hi)
  /\ ObjectsOf(m, from) = ObjectsOf(q, from) /\ ObjectsOf(m, To) = ObjectsOf(q, To)
  /\ \A b \in Words : m[b] = IF b = a THEN p ELSE q[b]
  /\ \A w : MovedIn(m, w) = MovedIn(q, w)

\* Writing the scanned copy leaves all that.
LEMMA ScannedAfter ==
  ASSUME NEW st \in CopyStates, from \in {0, SpaceWords}, NEW a \in Space(To), NEW o, NEW p, st.mem[a] = o, o # NoObj, p # NoObj,
         p.id = o.id, p.fwd = o.fwd, Len(p.fields) = Len(o.fields), NEW m, m = [st.mem EXCEPT ![a] = p], NEW hi, Linked(st.mem, hi)
  PROVE  ScanLeaves(st.mem, a, p, m, hi)
<1>1. Space(from) \subseteq Words /\ Space(To) \subseteq Words /\ a \notin Space(from)
  BY FromFacts
<1>2. \A b \in Words : m[b] = IF b = a THEN p ELSE st.mem[b]
  BY DEF CopyStates, Heap
<1>3. \A b \in Space(from) : m[b] = st.mem[b]
  BY <1>1, <1>2
<1>4. ObjectsOf(m, from) = ObjectsOf(st.mem, from)
  BY <1>3 DEF ObjectsOf
<1>5. \A b \in Space(To) : /\ m[b] = NoObj <=> st.mem[b] = NoObj
                           /\ m[b].id = st.mem[b].id /\ m[b].fwd = st.mem[b].fwd
  BY <1>1, <1>2
<1>6. ObjectsOf(m, To) = ObjectsOf(st.mem, To)
  BY <1>5 DEF ObjectsOf
<1>7. Leads(m) = Leads(st.mem) /\ \A b \in Leads(m) : b \in Space(from) /\ m[b] = st.mem[b]
  BY <1>3, <1>4 DEF Leads, ObjectsOf
<1>8. Taken(m) = Taken(st.mem)
  <2>1. \A b \in Leads(m) : Body(m, b) = Body(st.mem, b)
    BY <1>7 DEF Body
  <2> QED BY <1>7, <2>1 DEF Taken
<1>9. Linked(m, hi)
  <2>1. \A b \in Leads(m) : m[b].fwd \in ObjectsOf(m, To) /\ m[m[b].fwd].id = m[b].id
    <3>1. TAKE b \in Leads(m)
    <3>2. st.mem[b].fwd \in ObjectsOf(st.mem, To) /\ st.mem[st.mem[b].fwd].id = st.mem[b].id
      BY <1>7 DEF Linked
    <3> QED BY <1>5, <1>6, <1>7, <3>2 DEF ObjectsOf
  <2>2. \A b \in ObjectsOf(m, To) : m[b].fwd = 0 /\ \E c \in Leads(m) : m[c].fwd = b
    <3>1. TAKE b \in ObjectsOf(m, To)
    <3>2. st.mem[b].fwd = 0 /\ \E c \in Leads(st.mem) : st.mem[c].fwd = b
      BY <1>6 DEF Linked
    <3> QED BY <1>5, <1>7, <3>2 DEF ObjectsOf
  <2>3. \A b, c \in Leads(m) : m[b].fwd = m[c].fwd => b = c
    BY <1>7 DEF Linked
  <2> QED BY <1>8, <2>1, <2>2, <2>3 DEF Linked
<1>10. \A w : MovedIn(m, w) = MovedIn(st.mem, w)
  BY <1>3 DEF MovedIn
<1> QED
  BY <1>2, <1>4, <1>6, <1>9, <1>10 DEF ScanLeaves

\* What roots have come to stays what they have come to.
LEMMA RootsStay ==
  ASSUME from \in {0, SpaceWords}, NEW st, NEW i \in Nat, NEW ws, CopyKeeps(st, i, ws), CopyGood(st, i, ws),
         NEW w, NEW x, x = MovedIn(mem, w), x \in Fresh
  PROVE  x = MovedIn(st.mem, w) /\ x \in Staying \cup ObjectsOf(st.mem, To)
<1>1. ObjectsOf(mem, To) \subseteq ObjectsOf(st.mem, To)
  BY CopyObjects
<1>2. w \in Space(from) /\ mem[w].fwd # 0 => st.mem[w].fwd = mem[w].fwd
  <2>1. HAVE w \in Space(from) /\ mem[w].fwd # 0
  <2>2. w \in ObjectsOf(mem, from)
    BY <2>1 DEF ObjectsOf, NoObj
  <2> QED BY <2>1, <2>2 DEF CopyGood
<1>3. Missing(w) => mem[w] = NoObj /\ st.mem[w] = NoObj
  <2>1. ObjectsOf(st.mem, from) = ObjectsOf(mem, from)
    BY CopyObjects
  <2> QED BY <2>1 DEF Missing, ObjectsOf
<1>4. Answers(mem, x, w) /\ x \notin Space(from)
  BY FromFacts DEF Answers, Fresh, ObjectsOf
<1>5. PICK m : m = mem
  OBVIOUS
<1>6. PICK n : n = st.mem
  OBVIOUS
<1>7. Answers(n, x, w)
  BY <1>1, <1>2, <1>3, <1>4, <1>5, <1>6, AnswersStay
<1>8. ~Missing(w)
  BY <1>3, <1>4 DEF MovedIn, Missing, NoObj
<1> QED
  BY <1>6, <1>7, <1>8 DEF Answers

\* A copy is scanned.
ScanCopied(o, done, p, m) ==
  /\ Scanned(o, done, p) /\ gc.phase = "scan" /\ outcome = "running" /\ m = mem'
  /\ o = mem[gc.scan + 1] /\ o \in ObjectIn(Old)
  /\ CopyGood(done, Len(WordsOf(o)), WordsOf(o))
  /\ ScanLeaves(done.mem, gc.scan + 1, p, m, done.free)

\* ScanObject copies the words of a copy.
LEMMA ScanCopies ==
  ASSUME PlainPrograms, BInv, CInv, ScanObject
  PROVE  \E o, done, p, m : ScanCopied(o, done, p, m)
<1>1. gc.phase = "scan" /\ outcome = "running"
  BY DEF ScanObject
<1>2. PICK o : o = mem[gc.scan + 1]
  OBVIOUS
<1>3. PICK done : done = CopyAll(WordsOf(o))
  OBVIOUS
<1>4. PICK p : p = [o EXCEPT !.class = done.out[1], !.fields = Tail(done.out)]
  OBVIOUS
<1>5. /\ gc.scan + 1 \in Space(To) /\ gc.scan + 1 \in Words /\ o \in ObjectIn(Word) /\ o # NoObj
      /\ done \in CopyStates /\ CopyKeeps(done, Len(WordsOf(o)), WordsOf(o)) /\ done.mem[gc.scan + 1] = o
      /\ done.out \in Seq(Word) /\ Len(done.out) = Len(o.fields) + 1 /\ Len(o.fields) \in 0..2
      /\ p.class = done.out[1] /\ p.fields = Tail(done.out) /\ p.id = o.id /\ p.fwd = o.fwd
      /\ p \in ObjectIn(Word) /\ p # NoObj /\ Len(p.fields) = Len(o.fields)
      /\ mem' = [done.mem EXCEPT ![gc.scan + 1] = p]
      /\ gc' = [gc EXCEPT !.scan = @ + Size(o), !.free = done.free]
      /\ outcome' = (IF done.full THEN "wild" ELSE outcome)
      /\ UNCHANGED <<from, stacks, chains, job>>
  <2>1. Scanned(o, done, p)
    BY <1>2, <1>3, <1>4, ScanFacts
  <2> QED BY <2>1 DEF Scanned
<1>6. /\ gc \in Collections /\ Tiles(mem, To, gc.free) /\ RootsOK
      /\ gc.scan \in To..gc.free /\ gc.scan \in Nat /\ gc.free \in Nat /\ To \in Nat /\ gc.scan <= gc.free
      /\ \A a \in Words : mem[a] = NoObj \/ mem[a].id # 0
  BY <1>1, GcFacts
<1>7. mem \in Heap(Word) /\ from \in {0, SpaceWords} /\ Tiles(mem, from, free)
  BY BFacts
<1>8. CopyOK
  BY <1>1 DEF CInv, NoGc
<1>9. o \in ObjectIn(Old)
  <2>1. gc.scan + 1 \in ObjectsOf(mem, To) /\ ~(gc.scan + 1 <= gc.scan)
    BY <1>2, <1>5, <1>6 DEF ObjectsOf
  <2> QED BY <1>2, <1>8, <2>1 DEF CopyOK
<1>10. PICK ws : ws = WordsOf(o)
  OBVIOUS
<1>11. /\ ws \in Seq(Word) /\ Len(ws) = Len(o.fields) + 1 /\ Len(ws) = Size(o) /\ Len(ws) \in Nat
       /\ \A j \in 1..Len(ws) : ws[j] \in Old
  <2>1. ws \in Seq(Old) /\ Len(ws) = Size(o) /\ Size(o) = Len(o.fields) + 1
    BY <1>9, <1>10, ObjectWords
  <2>2. ws \in Seq(Word)
    BY <1>5, <1>10, ObjectWords
  <2> QED BY <2>1, <2>2, Elements
<1>12. CopyGood(done, Len(ws), ws)
  BY <1>3, <1>6, <1>7, <1>8, <1>10, <1>11, CopiedAllGood DEF CopyOK
<1>13. PICK m : m = mem'
  OBVIOUS
<1>14. PICK s \in Nat : s = gc.scan + 1
  BY <1>6
<1>15. ScanLeaves(done.mem, s, p, m, done.free)
  <2>1. m = [done.mem EXCEPT ![s] = p] /\ s \in Space(To) /\ done.mem[s] = o
    BY <1>5, <1>13, <1>14
  <2>2. Linked(done.mem, done.free)
    BY <1>12 DEF CopyGood
  <2>3. PICK hi : hi = done.free
    OBVIOUS
  <2>4. ScanLeaves(done.mem, s, p, m, hi)
    BY <1>5, <1>7, <2>1, <2>2, <2>3, ScannedAfter
  <2> QED BY <2>3, <2>4
<1>16. Scanned(o, done, p)
  BY <1>2, <1>3, <1>4, ScanFacts
<1> QED
  BY <1>1, <1>2, <1>9, <1>10, <1>12, <1>13, <1>14, <1>15, <1>16 DEF ScanCopied

\* The scan of a copy keeps the references.
LEMMA ScanPlain ==
  ASSUME PlainPrograms, BInv, CInv, ScanObject
  PROVE  CInv'
<1>1. PICK o, done, p, m : ScanCopied(o, done, p, m)
  BY ScanCopies
<1>2. gc.phase = "scan" /\ outcome = "running" /\ m = mem'
  BY <1>1 DEF ScanCopied
<1>3. /\ gc.scan + 1 \in Space(To) /\ gc.scan + 1 \in Words /\ o \in ObjectIn(Word) /\ o # NoObj
      /\ done \in CopyStates /\ CopyKeeps(done, Len(WordsOf(o)), WordsOf(o)) /\ done.mem[gc.scan + 1] = o
      /\ done.out \in Seq(Word) /\ Len(done.out) = Len(o.fields) + 1 /\ Len(o.fields) \in 0..2
      /\ p.class = done.out[1] /\ p.fields = Tail(done.out) /\ p.id = o.id /\ p.fwd = o.fwd
      /\ p \in ObjectIn(Word) /\ p # NoObj /\ Len(p.fields) = Len(o.fields)
      /\ mem' = [done.mem EXCEPT ![gc.scan + 1] = p]
      /\ gc' = [gc EXCEPT !.scan = @ + Size(o), !.free = done.free]
      /\ outcome' = (IF done.full THEN "wild" ELSE outcome)
      /\ UNCHANGED <<from, stacks, chains, job>>
  <2>1. Scanned(o, done, p)
    BY <1>1 DEF ScanCopied
  <2> QED BY <2>1 DEF Scanned
<1>4. /\ gc \in Collections /\ Tiles(mem, To, gc.free) /\ RootsOK
      /\ gc.scan \in To..gc.free /\ gc.scan \in Nat /\ gc.free \in Nat /\ To \in Nat /\ gc.scan <= gc.free
      /\ \A a \in Words : mem[a] = NoObj \/ mem[a].id # 0
  BY <1>2, GcFacts
<1>5. mem \in Heap(Word) /\ from \in {0, SpaceWords} /\ Tiles(mem, from, free)
  BY BFacts
<1>6. CopyOK
  BY <1>2 DEF CInv, NoGc
<1>7. o \in ObjectIn(Old)
  BY <1>1 DEF ScanCopied
<1>8. PICK ws : ws = WordsOf(o)
  OBVIOUS
<1>9. /\ ws \in Seq(Word) /\ Len(ws) = Len(o.fields) + 1 /\ Len(ws) = Size(o) /\ Len(ws) \in Nat
       /\ \A j \in 1..Len(ws) : ws[j] \in Old
  <2>1. ws \in Seq(Old) /\ Len(ws) = Size(o) /\ Size(o) = Len(o.fields) + 1
    BY <1>7, <1>8, ObjectWords
  <2>2. ws \in Seq(Word)
    BY <1>3, <1>8, ObjectWords
  <2> QED BY <2>1, <2>2, Elements
<1>91. \A j \in 1..Len(ws) : ~Missing(ws[j])
  BY <1>5, <1>9, FromFacts DEF Old, ObjectsOf, Missing
<1>10. CopyGood(done, Len(ws), ws)
  BY <1>1, <1>8 DEF ScanCopied
<1>11. PICK V : V = Staying \cup ObjectsOf(done.mem, To)
  OBVIOUS
<1>12. CopyKeeps(done, Len(ws), ws)
  BY <1>3, <1>8
<1>13. /\ ObjectsOf(done.mem, from) = ObjectsOf(mem, from)
       /\ \A a \in ObjectsOf(done.mem, from) : done.mem[a] \in ObjectIn(Old)
       /\ \A b \in ObjectsOf(done.mem, To) : done.mem[b] \in ObjectIn(IF b <= gc.scan THEN V ELSE Old)
  BY <1>3, <1>4, <1>5, <1>6, <1>9, <1>10, <1>11, <1>12, Contents
<1>14. m = mem'
  BY <1>2
<1>15. PICK s \in Nat : s = gc.scan + 1
  BY <1>4
<1>16. /\ Linked(m, done.free)
       /\ ObjectsOf(m, from) = ObjectsOf(done.mem, from) /\ ObjectsOf(m, To) = ObjectsOf(done.mem, To)
       /\ \A b \in Words : m[b] = IF b = s THEN p ELSE done.mem[b]
       /\ \A w : MovedIn(m, w) = MovedIn(done.mem, w)
  BY <1>1, <1>15 DEF ScanCopied, ScanLeaves
<1>17. PICK g : g = gc'
  OBVIOUS
<1>18. g.phase = "scan" /\ g.roots = gc.roots /\ g.free = done.free /\ g.scan = gc.scan + Size(o)
       /\ g.over = gc.over
  BY <1>2, <1>3, <1>4, <1>17 DEF Collections
<1>19. p \in ObjectIn(V)
  <2>1. PICK n \in 0..2 : n = Len(o.fields)
    BY <1>3
  <2>2. \A j \in 1..(n + 1) : done.out[j] \in V
    <3>1. TAKE j \in 1..(n + 1)
    <3>2. Answers(done.mem, done.out[j], ws[j]) /\ ~Missing(ws[j])
      BY <1>9, <1>10, <1>91, <2>1 DEF CopyGood
    <3> QED BY <1>11, <3>2 DEF Answers
  <2> QED BY <1>3, <2>1, <2>2, WordsIn
<1>20. \A b \in ObjectsOf(m, To) : m[b] \in ObjectIn(IF b <= g.scan THEN V ELSE Old)
  <2>1. TAKE b \in ObjectsOf(m, To)
  <2>2. b \in ObjectsOf(done.mem, To) /\ b \in Space(To) /\ b \in Words /\ b \in Nat /\ done.mem[b] # NoObj
    BY <1>5, <1>16, FromFacts DEF ObjectsOf
  <2>3. PICK z \in 1..3 : z = Size(o)
    BY <1>3, Sizes
  <2>4. g.scan = gc.scan + z
    BY <1>18, <2>3
  <2>5. CASE b = s
    <3>1. m[b] = p /\ b <= g.scan
      BY <1>4, <1>15, <1>16, <2>2, <2>4, <2>5
    <3> QED BY <1>19, <3>1
  <2>6. CASE b < s
    <3>1. m[b] = done.mem[b] /\ b <= gc.scan /\ b <= g.scan
      BY <1>4, <1>15, <1>16, <2>2, <2>4, <2>6
    <3> QED BY <1>13, <2>2, <3>1
  <2>7. CASE b > s
    <3>1. m[b] = done.mem[b] /\ ~(b <= gc.scan)
      BY <1>4, <1>15, <1>16, <2>2, <2>7
    <3>2. s + Size(o) <= b
      <4>1. Tiles(done.mem, To, done.free)
        BY <1>12 DEF CopyKeeps
      <4>2. done.mem[s] = o /\ s \in Space(To)
        BY <1>3, <1>15
      <4> QED BY <1>3, <2>2, <2>7, <4>1, <4>2 DEF Tiles
    <3>3. ~(b <= g.scan)
      BY <1>4, <1>15, <2>2, <2>3, <2>4, <3>2
    <3> QED BY <1>13, <2>2, <3>1, <3>3
  <2> QED BY <1>15, <2>2, <2>5, <2>6, <2>7
<1>21. \A a \in ObjectsOf(m, from) : m[a] \in ObjectIn(Old)
  <2>1. TAKE a \in ObjectsOf(m, from)
  <2>2. a \in ObjectsOf(done.mem, from) /\ a \in Words /\ a # s
    BY <1>3, <1>5, <1>15, <1>16, FromFacts DEF ObjectsOf
  <2>3. m[a] = done.mem[a]
    BY <1>16, <2>2
  <2> QED BY <1>13, <2>2, <2>3
<1>211. PICK q : q = Order
  OBVIOUS
<1>212. /\ \A n \in 1..Len(q) : gc.roots[n] = MovedIn(mem, Read(q[n])) /\ gc.roots[n] \in Fresh
        /\ \A n \in (Len(q) + 1)..Len(gc.roots) : gc.roots[n] \in Fresh \/ Missing(gc.roots[n])
  BY <1>2, <1>6, <1>211 DEF CopyOK, RootsMoved
<1>213. \A n \in 1..Len(q) : gc.roots[n] = MovedIn(m, Read(q[n])) /\ gc.roots[n] \in V
  <2>1. TAKE n \in 1..Len(q)
  <2>2. PICK x, w : x = gc.roots[n] /\ w = Read(q[n])
    OBVIOUS
  <2>3. x = MovedIn(mem, w) /\ x \in Fresh
    BY <1>212, <2>2
  <2>4. x = MovedIn(done.mem, w) /\ x \in V
    BY <1>5, <1>9, <1>10, <1>11, <1>12, <2>3, RootsStay
  <2> QED BY <1>16, <2>2, <2>4
<1>214. Fresh \subseteq V
  BY <1>3, <1>4, <1>5, <1>6, <1>9, <1>10, <1>11, <1>12, Contents
<1>22. RootsMoved(m, g, CollectOrder(g.over), V)
  <2>1. CollectOrder(g.over) = q
    BY <1>18, <1>211 DEF Order
  <2>2. RootsMoved(m, g, q, V)
    BY <1>18, <1>212, <1>213, <1>214 DEF RootsMoved
  <2> QED BY <2>1, <2>2
<1>23. CopyAfter(m, g, V)
  BY <1>11, <1>13, <1>16, <1>18, <1>20, <1>21, <1>22 DEF CopyAfter
<1>24. CopyOK' /\ Old' = Old
  BY <1>3, <1>14, <1>17, <1>18, <1>23, CopyPrimed
<1>25. \A a \in Words : a > Fixed => mem'[a] = mem[a]
  <2>1. \A a \in Words : a > Fixed => done.mem[a] = mem[a]
    BY <1>10 DEF CopyGood
  <2>2. \A a \in Space(To) : ~(a > Fixed)
    BY <1>5, FromFacts, SpaceFacts DEF Staying
  <2> QED BY <1>3, <1>14, <1>15, <1>16, <2>1, <2>2
<1>26. WildOK'
  <2>1. done.full # TRUE
    BY <1>10, <1>91 DEF CopyGood
  <2>2. outcome' = "running"
    BY <1>2, <1>3, <2>1 DEF CopyStates
  <2>3. Order' = Order
    BY <1>3, <1>17, <1>18, OrderSame
  <2>4. \A w : Missing(w)' <=> Missing(w)
    BY <1>3, <1>13, <1>14, <1>16, MissingSame
  <2>5. ~\E n \in (Len(Order) + 1)..Len(gc.roots) : Missing(gc.roots[n])
    BY <1>2 DEF CInv, WildOK
  <2> QED BY <1>17, <1>18, <2>2, <2>3, <2>4, <2>5 DEF WildOK
<1> QED
  BY <1>3, <1>17, <1>18, <1>24, <1>25, <1>26, CollectionPlain

\* What a place has after the roots are written back.
LEMMA RestoredMoves ==
  ASSUME PlainPrograms, BInv, CInv, gc.phase = "scan"
  PROVE  \A l : Written(l) => /\ Restored(l) = MovedIn(mem, Read(l)) /\ Restored(l) \in Fresh
                              /\ Restores(Fresh, l)
<1>1. PICK W : W = Old
  OBVIOUS
<1>2. /\ Stacks(W)
      /\ from \in {0, SpaceWords} /\ W \subseteq Word /\ Tagged \notin Space(from) /\ Tagged \in Fresh
  <2>1. from \in {0, SpaceWords}
    BY BFacts
  <2>2. Old \subseteq Word /\ Tagged \notin Space(from)
    BY <2>1, FromFacts DEF Old, ObjectsOf, Tagged
  <2> QED BY <1>1, <2>1, <2>2, OrderOld DEF CInv, Fresh, Staying
<1>3. CopyOK
  BY DEF CInv, NoGc
<1>4. \A n \in 1..Len(Order) : gc.roots[n] = MovedIn(mem, Read(Order[n])) /\ gc.roots[n] \in Fresh
  BY <1>3 DEF CopyOK, RootsMoved
<1>5. TAKE l
<1>6. HAVE Written(l)
<1>7. Read(l) \in W
  BY <1>2, <1>6, WrittenReads
<1>8. Restored(l) = MovedIn(mem, Read(l)) /\ Restored(l) \in Fresh
  <2>1. CASE Occurs(l, Order)
    <3>1. PICK n \in 1..Len(Order) : Order[n] = l /\ Restored(l) = gc.roots[n]
      BY <1>2, <2>1, RestoredIs
    <3> QED BY <1>4, <3>1
  <2>2. CASE ~Occurs(l, Order)
    <3>0. Restored(l) = Read(l)
      <4>1. \/ ~Occurs(l, Order) /\ Restored(l) = Read(l)
            \/ \E n \in 1..Len(Order) : Order[n] = l /\ Restored(l) = gc.roots[n]
        BY <1>2, RestoredIs
      <4> QED BY <2>2, <4>1 DEF Occurs
    <3>1. Restored(l) = Read(l) /\ ~IsRoot(l)
      <4>1. \A x : IsRoot(x) => Occurs(x, Order)
        BY <1>2, OrderFacts DEF Order
      <4> QED BY <2>2, <3>0, <4>1
    <3>2. PICK f \in 1..Len(frames) : \E i \in 1..Len(frames[f].args) : l = Loc("arg", f, i)
      BY <1>6, <3>1 DEF Written
    <3>3. Read(l) = Tagged
      BY <3>2, ReadAt DEF CInv, PlainStacks, NoArgs
    <3> QED BY <1>2, <3>1, <3>3 DEF MovedIn
  <2> QED BY <2>1, <2>2
<1>9. Restores(Word, l)
  BY <1>2, <1>7, RootsRestored
<1> QED
  BY <1>8, <1>9 DEF Restores

\* What does not move is restored as it was.
LEMMA MovedStays ==
  ASSUME from \in {0, SpaceWords}, NEW w \in Staying
  PROVE  MovedIn(mem, w) = w
  BY FromFacts DEF MovedIn

\* What moves is restored to where it went.
LEMMA MovedGoes ==
  ASSUME from \in {0, SpaceWords}, CopyOK, NEW w \in Word, MovedIn(mem, w) \in Fresh
  PROVE  /\ w \in Space(from) => MovedIn(mem, w) \in Space(To)
         /\ w \notin Space(from) => MovedIn(mem, w) = w
<1>1. \A a \in Leads(mem) : mem[a].fwd \in Space(To)
  BY DEF CopyOK, Linked, ObjectsOf
<1>2. CASE w \in Space(from) /\ mem[w].fwd # 0
  <2>1. w \in Leads(mem)
    BY <1>2 DEF Leads, ObjectsOf, NoObj
  <2> QED BY <1>1, <1>2, <2>1 DEF MovedIn
<1>3. CASE w \in Space(from) /\ mem[w].fwd = 0
  <2>1. MovedIn(mem, w) = w
    BY <1>3 DEF MovedIn
  <2>2. w \notin Fresh
    BY <1>3, FromFacts DEF Fresh, ObjectsOf
  <2> QED BY <2>1, <2>2
<1>4. CASE w \notin Space(from)
  BY <1>4 DEF MovedIn
<1> QED
  BY <1>2, <1>3, <1>4

\* The copies are where the references go, and refer to copies.
LEMMA FreshHeap ==
  ASSUME BInv, CInv, Flip
  PROVE  /\ Fresh = Old' /\ mem' \in Heap(Fresh) /\ (\A a \in Words : mem'[a].fwd = 0)
         /\ \A a \in Words : a > Fixed => mem'[a] = mem[a]
<1>1. /\ gc.phase = "scan" /\ gc.scan >= gc.free /\ from' = To /\ To' = from
      /\ \A a \in Words : mem'[a] = IF a \in Space(from) THEN NoObj ELSE mem[a]
      /\ \A a \in Space(To) : mem'[a] = mem[a]
      /\ mem' \in Heap(Word)
  BY Exchanged
<1>2. /\ gc.scan \in To..gc.free /\ gc.scan \in Nat /\ gc.free \in Nat /\ Tiles(mem, To, gc.free) /\ To \in Nat
  BY <1>1, GcFacts
<1>3. from \in {0, SpaceWords} /\ mem \in Heap(Word) /\ CopyOK
  BY <1>1, BFacts DEF CInv, NoGc
<1>4. /\ Space(from) \subseteq Words /\ Space(To) \subseteq Words
      /\ \A a \in Words : a \in Space(from) \/ a \in Space(To) \/ a \in Staying
      /\ \A a \in Space(from) : a \notin Staying
      /\ \A a \in Space(To) : a \in Nat
  BY <1>3, FromFacts
<1>5. Fresh = Old'
  BY <1>1 DEF Fresh, Old, Staying, ObjectsOf, Space, Words, Fixed, NoObj, Tagged
<1>6. \A b \in ObjectsOf(mem, To) : mem[b] \in ObjectIn(Fresh) /\ mem[b].fwd = 0
  <2>1. TAKE b \in ObjectsOf(mem, To)
  <2>2. b \in Space(To) /\ mem[b] # NoObj /\ b \in Words /\ b \in Nat
    BY <1>4 DEF ObjectsOf
  <2>3. b + Size(mem[b]) <= gc.free + 1
    BY <1>2, <2>2 DEF Tiles
  <2>4. Size(mem[b]) \in 1..3
    BY <1>3, <2>2, Sizes DEF Heap
  <2>5. b <= gc.scan
    BY <1>1, <1>2, <2>2, <2>3, <2>4
  <2> QED BY <1>3, <2>5 DEF CopyOK, Linked
<1>7. Tagged \in Fresh
  BY DEF Fresh, Staying
<1>8. NoObj \in ObjectIn(Fresh) /\ NoObj.fwd = 0
  BY <1>7, SpaceFacts, BoundsAssumption DEF NoObj, ObjectIn, FieldsIn, Ids
<1>9. \A a \in Words : a > Fixed => mem[a] \in ObjectIn(Fresh) /\ mem[a].fwd = 0
  <2>1. TAKE a \in Words
  <2>2. HAVE a > Fixed
  <2>3. a \in {Tenured, Fixed + 2, Fixed + 3}
    BY <2>2, SpaceFacts DEF Words, Tenured
  <2>4. mem[a].class = Tagged /\ mem[a].fwd = 0 /\ (mem[a].fields = <<Tagged>> \/ mem[a].fields = <<>>)
    BY <2>2, <2>3 DEF CInv, StayingOK
  <2>5. mem[a].fields \in FieldsIn(Fresh)
    <3>1. <<Tagged>> \in [1..1 -> Fresh]
      BY <1>7, Tuples
    <3> QED BY <2>4, <3>1 DEF FieldsIn
  <2>6. mem[a] \in ObjectIn(Word)
    BY <1>3 DEF Heap
  <2>7. PICK q : q = mem[a]
    OBVIOUS
  <2>8. q = [id |-> q.id, class |-> q.class, fields |-> q.fields, fwd |-> q.fwd] /\ q.id \in Ids /\ q.fwd \in 0..Fixed
    BY <2>6, <2>7 DEF ObjectIn
  <2>9. q \in ObjectIn(Fresh)
    BY <1>7, <2>4, <2>5, <2>7, <2>8 DEF ObjectIn
  <2> QED BY <2>4, <2>7, <2>9
<1>10. \A a \in Words : mem'[a] \in ObjectIn(Fresh) /\ mem'[a].fwd = 0
  <2>1. TAKE a \in Words
  <2>2. CASE a \in Space(from)
    BY <1>1, <1>8, <2>2
  <2>3. CASE a \in Space(To)
    <3>1. mem'[a] = mem[a] /\ (mem[a] = NoObj \/ a \in ObjectsOf(mem, To))
      BY <1>1, <2>3 DEF ObjectsOf
    <3> QED BY <1>6, <1>8, <3>1
  <2>4. CASE a \notin Space(from) /\ a \notin Space(To)
    <3>1. a > Fixed
      BY <1>3, <2>4, SpaceFacts DEF To
    <3> QED BY <1>1, <1>9, <2>4, <3>1
  <2> QED BY <2>2, <2>3, <2>4
<1>11. PICK m : m = mem'
  OBVIOUS
<1>12. m \in [Words -> ObjectIn(Word)] /\ \A a \in Words : m[a] \in ObjectIn(Fresh)
  BY <1>1, <1>10, <1>11 DEF Heap
<1>13. m \in Heap(Fresh)
  BY <1>12 DEF Heap
<1>14. \A a \in Words : a > Fixed => mem'[a] = mem[a]
  <2>1. \A a \in Words : a > Fixed => a \notin Space(from)
    BY <1>4 DEF Staying
  <2> QED BY <1>1, <2>1
<1> QED
  BY <1>5, <1>10, <1>11, <1>13, <1>14

\* What the stacks hold after the spaces are exchanged.
FlippedStacks ==
  /\ HeldIn(Old)' /\ Len(frames') = Len(frames) /\ Len(calls') = Len(calls) /\ Len(log') = Len(log)
  /\ \A f \in 1..Len(frames) :
       /\ frames'[f].code = MovedIn(mem, frames[f].code) /\ frames'[f].ret = frames[f].ret
       /\ Len(frames'[f].args) = Len(frames[f].args)
       /\ \A i \in 1..Len(frames[f].args) : frames'[f].args[i] = MovedIn(mem, frames[f].args[i])
  /\ \A k \in 1..(Len(calls) - 1) : calls'[k] = calls[k]
  /\ calls'[Len(calls)].table = MovedIn(mem, Level.table)
  /\ calls'[Len(calls)].ip = MovedIn(mem, Top.code)
  /\ \A k \in 1..Len(calls) :
       calls'[k].kind = calls[k].kind /\ calls'[k].cleanup = calls[k].cleanup /\ calls'[k].result = calls[k].result
  /\ \A e \in 1..Len(log) : \A i \in 1..2 : log'[e][i] = MovedIn(mem, log[e][i])
  /\ \A f \in 1..Len(frames) : MovedIn(mem, frames[f].code) \in Fresh

\* The exchange leaves the stacks so.
LEMMA FlipHeld ==
  ASSUME PlainPrograms, BInv, CInv, Flip
  PROVE  FlippedStacks
<1>1. gc.phase = "scan" /\ WriteBack /\ calls' = [calls EXCEPT ![Len(calls)] = RelocatedCall]
  BY DEF Flip
<1>2. PICK W : W = Old
  OBVIOUS
<1>3. Stacks(W)
  BY <1>2, OrderOld DEF CInv
<1>4. PICK V : V = Fresh
  OBVIOUS
<1>5. \A l : Written(l) => Restored(l) = MovedIn(mem, Read(l)) /\ Restored(l) \in V /\ Restores(V, l)
  BY <1>1, <1>4, RestoredMoves
<1>6. Len(frames) \in Nat \ {0} /\ Len(calls) \in Nat \ {0} /\ Len(log) \in Nat /\ log \in Seq([1..2 -> W])
  <2>1. log \in Seq([1..2 -> W])
    BY <1>3 DEF Stacks, HeldIn
  <2>2. Len(log) \in Nat
    BY <2>1, Elements
  <2>3. Len(frames) \in Nat \ {0} /\ Len(calls) \in Nat \ {0}
    BY <1>3, TopFacts
  <2> QED BY <2>1, <2>2, <2>3
<1>7. {Tagged, Fixed + 2, Fixed + 3} \subseteq V
  BY <1>4, SpaceFacts DEF Fresh, Staying, Words
<1>8. PlainStacks /\ \A k \in 1..Len(calls) : calls[k].kind \notin {"ensure", "cleanup"}
  BY <1>1, GcFacts DEF CInv, PlainJob
<1>9. \A f \in 1..Len(frames) : frames[f].ret \in V
  <2>1. CASE Young
    BY <1>6, <1>7, <2>1 DEF Young, Top
  <2>2. CASE Settles
    BY <1>7, <2>2 DEF Settles, FramesSettle
  <2> QED BY <1>8, <2>1, <2>2 DEF PlainStacks
<1>10. \A k \in 1..Len(calls) : calls[k].cleanup \in V /\ calls[k].result \in V
  BY <1>7, <1>8 DEF PlainStacks, Locals
<1>11. \A k \in 1..(Len(calls) - 1) : calls[k].table \in V /\ calls[k].ip \in V
  <2>1. CASE Young
    <3>1. Len(calls) = 1
      BY <2>1 DEF Young
    <3>2. 1..(1 - 1) = {}
      OBVIOUS
    <3> QED BY <3>1, <3>2
  <2>2. CASE Settles
    <3>1. \A k \in 1..(Len(calls) - 1) : k \in 1..Len(calls)
      BY <1>6
    <3> QED BY <1>7, <2>2, <3>1 DEF Settles, CallsSettle
  <2> QED BY <1>8, <2>1, <2>2 DEF PlainStacks
<1>12. \A l : Written(l) => Restores(V, l)
  BY <1>5
<1>13. /\ calls' \in Seq(CallIn(V)) /\ Len(calls') = Len(calls)
       /\ \A k \in 1..(Len(calls) - 1) : calls'[k] = calls[k]
       /\ calls'[Len(calls)].table = Restored(Loc("table", Len(calls), 0))
       /\ calls'[Len(calls)].ip = Restored(Loc("code", Len(frames), 0))
       /\ \A k \in 1..Len(calls) :
            /\ calls'[k].kind = calls[k].kind /\ calls'[k].depth = calls[k].depth
            /\ calls'[k].cleanup = calls[k].cleanup /\ calls'[k].result = calls[k].result
  BY <1>1, <1>3, <1>10, <1>11, <1>12, CallWritten
<1>14. /\ HeldIn(V)'
       /\ Len(frames') = Len(frames) /\ Len(handlers') = Len(handlers)
       /\ Len(ensures') = Len(ensures) /\ Len(log') = Len(log)
       /\ \A f \in 1..Len(frames) :
            /\ Len(frames'[f].slots) = Len(frames[f].slots) /\ Len(frames'[f].args) = Len(frames[f].args)
            /\ frames'[f].code = Restored(Loc("code", f, 0)) /\ frames'[f].ret = frames[f].ret
            /\ \A i \in 1..Len(frames[f].args) : frames'[f].args[i] = Restored(Loc("arg", f, i))
  BY <1>1, <1>3, <1>9, <1>12, <1>13, StacksWritten
<1>15. HeldIn(Old)'
  BY <1>4, <1>14, FreshHeap, HeldPrimed
<1>16. \A f \in 1..Len(frames) :
         /\ Restored(Loc("code", f, 0)) = MovedIn(mem, frames[f].code) /\ Restored(Loc("code", f, 0)) \in V
         /\ \A i \in 1..Len(frames[f].args) : Restored(Loc("arg", f, i)) = MovedIn(mem, frames[f].args[i])
  <2>1. TAKE f \in 1..Len(frames)
  <2>2. Written(Loc("code", f, 0)) /\ \A i \in 1..Len(frames[f].args) : Written(Loc("arg", f, i))
    BY DEF Written, IsRoot
  <2> QED BY <1>5, <2>2, ReadAt
<1>17. Restored(Loc("table", Len(calls), 0)) = MovedIn(mem, Level.table)
  <2>1. Written(Loc("table", Len(calls), 0))
    BY DEF Written, IsRoot
  <2> QED BY <1>5, <2>1, ReadAt DEF Level
<1>18. \A e \in 1..Len(log) : \A i \in 1..2 : log'[e][i] = MovedIn(mem, log[e][i])
  <2>1. TAKE e \in 1..Len(log)
  <2>2. log[e] \in [1..2 -> W]
    BY <1>6, Elements
  <2>3. PICK q : q = log[e]
    OBVIOUS
  <2>4. q \in Seq(W) /\ Len(q) = 2
    BY <2>2, <2>3, Listed
  <2>5. log'[e] = [i \in 1..2 |-> Restored(Loc("log", e, i))]
    BY <1>1, <2>3, <2>4 DEF WriteBack, RestoredChain
  <2>6. TAKE i \in 1..2
  <2>7. Written(Loc("log", e, i))
    BY DEF Written, IsRoot
  <2> QED BY <1>5, <2>5, <2>7, ReadAt
<1>19. Len(frames) \in 1..Len(frames) /\ Top = frames[Len(frames)]
  BY <1>6 DEF Top
<1> QED
  BY <1>4, <1>13, <1>14, <1>15, <1>16, <1>17, <1>18, <1>19 DEF FlippedStacks

\* The spaces are exchanged.
LEMMA FlipPlain ==
  ASSUME PlainPrograms, BInv, CInv, Flip
  PROVE  CInv'
<1>1. FlippedStacks
  BY FlipHeld
<1>2. /\ gc.phase = "scan" /\ outcome = "running" /\ from' = To /\ To' = from /\ gc' = NoGc
      /\ job' = [job EXCEPT !.tried = TRUE] /\ UNCHANGED outcome
  BY Exchanged
<1>3. from \in {0, SpaceWords} /\ CopyOK /\ Stacks(Word) /\ job # NoJob /\ job \in Jobs(Word)
  <2>1. from \in {0, SpaceWords} /\ CopyOK /\ Stacks(Word)
    BY <1>2, BFacts DEF CInv, NoGc
  <2>2. job # NoJob
    BY <1>2, GcFacts
  <2> QED BY <2>1, <2>2 DEF BInv, JobIn
<1>4. /\ Len(frames) \in Nat \ {0} /\ Len(calls) \in Nat \ {0} /\ Top = frames[Len(frames)] /\ Level = calls[Len(calls)]
      /\ Top.code \in Word /\ Len(frames) \in 1..Len(frames) /\ Len(calls) \in 1..Len(calls)
  BY <1>3, TopFacts DEF Top, Level
<1>5. MovedIn(mem, Tagged) = Tagged /\ MovedIn(mem, Fixed + 2) = Fixed + 2 /\ MovedIn(mem, Fixed + 3) = Fixed + 3
  <2>1. {Tagged, Fixed + 2, Fixed + 3} \subseteq Staying
    BY SpaceFacts DEF Staying, Words
  <2> QED BY <1>3, <2>1, MovedStays
<1>6. /\ Len(frames') = Len(frames) /\ Len(calls') = Len(calls)
      /\ Top' = frames'[Len(frames)] /\ Level' = calls'[Len(calls)]
      /\ Top'.code = MovedIn(mem, Top.code) /\ Top'.ret = Top.ret /\ Level'.ip = MovedIn(mem, Top.code)
      /\ MovedIn(mem, Top.code) \in Fresh
  BY <1>1, <1>4 DEF FlippedStacks, Top, Level
<1>7. NoArgs'
  BY <1>1, <1>5, <1>6 DEF FlippedStacks, CInv, PlainStacks, NoArgs, Tagged
<1>8. Locals'
  BY <1>1, <1>6 DEF FlippedStacks, CInv, PlainStacks, Locals, Tagged
<1>9. ASSUME Young PROVE PlainStacks'
  <2>1. Top.code \in Space(from)
    BY <1>9 DEF Young, InSpace, Space
  <2>2. Top'.code \in Space(To)
    BY <1>3, <1>4, <1>6, <2>1, MovedGoes
  <2>3. Young'
    BY <1>2, <1>6, <1>9, <2>2 DEF Young, InSpace, Space, Tagged
  <2> QED BY <1>7, <1>8, <2>3 DEF PlainStacks
<1>10. ASSUME Settles PROVE PlainStacks'
  <2>1. FramesSettle'
    BY <1>1, <1>5, <1>6, <1>10 DEF FlippedStacks, Settles, FramesSettle, Fixed, Tagged
  <2>2. \A k \in 1..Len(calls) : calls'[k].ip = Fixed + 2 /\ calls'[k].table = Fixed + 3
    <3>1. TAKE k \in 1..Len(calls)
    <3>2. CASE k = Len(calls)
      BY <1>1, <1>4, <1>5, <1>6, <1>10, <3>2 DEF FlippedStacks, Settles, FramesSettle, CallsSettle
    <3>3. CASE k # Len(calls)
      <4>1. k \in 1..(Len(calls) - 1)
        BY <1>4, <3>3
      <4>2. calls'[k] = calls[k]
        BY <1>1, <4>1 DEF FlippedStacks
      <4> QED BY <1>10, <4>2 DEF Settles, CallsSettle
    <3> QED BY <3>2, <3>3
  <2>3. CallsSettle'
    BY <1>6, <2>2 DEF CallsSettle, Fixed
  <2> QED BY <1>7, <1>8, <2>1, <2>3 DEF PlainStacks, Settles
<1>11. PlainStacks'
  BY <1>9, <1>10 DEF CInv, PlainStacks
<1>12. PlainJob'
  <2>1. job'.kind = job.kind /\ job'.local = job.local
    BY <1>2, <1>3 DEF Jobs
  <2>2. PlainJob
    BY DEF CInv
  <2>3. \A k \in 1..Len(calls') : calls'[k].kind \notin {"ensure", "cleanup"}
    BY <1>1, <1>3, <2>2 DEF FlippedStacks, PlainJob
  <2>4. job'.kind = "closure" => job'.local = Fixed + 2 /\ Top'.code = Fixed + 2
    BY <1>3, <1>5, <1>6, <2>1, <2>2 DEF PlainJob
  <2> QED BY <2>3, <2>4 DEF PlainJob, Fixed
<1>13. Fresh = Old' /\ mem' \in Heap(Fresh) /\ (\A a \in Words : mem'[a].fwd = 0)
       /\ \A a \in Words : a > Fixed => mem'[a] = mem[a]
  BY FreshHeap
<1>14. StayingOK'
  BY <1>13, StayingKept DEF CInv
<1>15. LogOK'
  <2>1. log \in Seq([1..2 -> Word]) /\ Len(log) \in Nat
    BY BFacts
  <2>2. \A e \in 1..Len(log) : log'[e][1] = Tenured => log'[e][2] = Tagged
    <3>1. TAKE e \in 1..Len(log)
    <3>2. HAVE log'[e][1] = Tenured
    <3>3. log[e] \in [1..2 -> Word]
      BY <2>1, Elements
    <3>4. log[e][1] \in Word /\ log'[e][1] = MovedIn(mem, log[e][1]) /\ log'[e][2] = MovedIn(mem, log[e][2])
      BY <1>1, <3>3 DEF FlippedStacks
    <3>5. PICK w : w = log[e][1]
      OBVIOUS
    <3>6. Tenured \in Staying /\ Tenured \notin Space(To)
      <4>1. Tenured \in Staying
        BY SpaceFacts DEF Staying, Words, Tenured
      <4> QED BY <1>3, <4>1, FromFacts
    <3>7. w \in Word /\ MovedIn(mem, w) = Tenured /\ Tenured \in Fresh
      BY <3>2, <3>4, <3>5, <3>6 DEF Fresh
    <3>8. w = Tenured
      BY <1>3, <3>6, <3>7, MovedGoes
    <3>9. log[e][2] = Tagged
      BY <3>5, <3>8 DEF CInv, LogOK
    <3> QED BY <1>5, <3>4, <3>9
  <2> QED BY <1>1, <2>2 DEF FlippedStacks, LogOK, Tenured, Fixed, Tagged
<1>16. Settled'
  BY <1>13 DEF Settled, Heap, Words, ObjectIn, Ids, FieldsIn, Fixed
<1>17. HeldIn(Old)'
  BY <1>1 DEF FlippedStacks
<1>18. WildOK'
  BY <1>2 DEF WildOK, NoGc
<1> QED
  BY <1>2, <1>11, <1>12, <1>14, <1>15, <1>16, <1>17, <1>18 DEF CInv, NoGc

\* The references are right to begin with.
LEMMA InitC ==
  ASSUME Init
  PROVE  CInv
<1>1. PICK young \in CodeMoves : Started(young)
  BY DEF Init
<1>2. young \in BOOLEAN
  BY UsesAssumption
<1>3. /\ mem \in Heap(Word)
      /\ \A a \in Words : mem[a] # NoObj => a \in {1, Code(young), Table(young), Tenured}
      /\ \A a \in {1, Code(young), Table(young), Tenured} :
           /\ mem[a].fwd = 0 /\ mem[a] # NoObj
           /\ mem[a].class = Tagged /\ mem[a].fields \in {<<>>, <<Tagged>>}
      /\ mem[Code(young)] = Object(2, Tagged, <<>>)
      /\ mem[Table(young)] = Object(3, Tagged, <<>>) /\ mem[Tenured] = Object(4, Tagged, <<Tagged>>)
      /\ {1, Code(young), Table(young), Tenured} \subseteq Words
      /\ (young => SpaceWords >= 4)
  BY <1>1, <1>2, StartedHeap
<1>4. SpaceWords \in Nat /\ SpaceWords >= 2 /\ Fixed = 2 * SpaceWords /\ Fixed \in Nat
  BY SpaceFacts
<1>5. /\ from = 0 /\ log = <<>> /\ job = NoJob /\ gc = NoGc /\ outcome = "running"
  BY DEF Init
<1>6. PICK W : W = Old
  OBVIOUS
<1>7. /\ Tagged \in W /\ 1 \in W /\ Code(young) \in W /\ Table(young) \in W
  <2>1. 1 \in Space(0) /\ 1 \in ObjectsOf(mem, from)
    BY <1>3, <1>4, <1>5 DEF Space, ObjectsOf
  <2>2. CASE young
    <3>1. Code(young) \in Space(0) /\ Table(young) \in Space(0)
      BY <1>3, <1>4, <2>2 DEF Space, Code, Table
    <3> QED BY <1>3, <1>5, <1>6, <2>1, <3>1 DEF Old, Staying, ObjectsOf
  <2>3. CASE ~young
    <3>1. Code(young) > Fixed /\ Table(young) > Fixed
      BY <1>4, <2>3 DEF Code, Table
    <3> QED BY <1>3, <1>6, <2>1, <3>1 DEF Old, Staying
  <2> QED BY <2>2, <2>3
<1>8. /\ Stacks(W) /\ frames = <<First(young)>> /\ calls = <<HostCall(young)>>
  <2>1. {Tagged, 1, Code(young), Table(young)} \subseteq W
    BY <1>7
  <2> QED BY <1>1, <1>2, <2>1, StartedStacks
<1>9. /\ Len(frames) = 1 /\ Len(calls) = 1 /\ frames[1] = First(young) /\ calls[1] = HostCall(young)
      /\ Top = First(young) /\ Level = HostCall(young)
  BY <1>8 DEF Top, Level
<1>10. PlainStacks
  <2>1. NoArgs
    BY <1>9 DEF NoArgs, First
  <2>2. Locals
    BY <1>9 DEF Locals, HostCall
  <2>3. CASE young
    <3>1. InSpace(from, Code(young))
      BY <1>3, <1>4, <1>5, <2>3 DEF InSpace, Code
    <3>2. Young
      BY <1>9, <3>1 DEF Young, First, HostCall
    <3> QED BY <2>1, <2>2, <3>2 DEF PlainStacks
  <2>4. CASE ~young
    <3>1. Code(young) = Fixed + 2 /\ Table(young) = Fixed + 3
      BY <2>4 DEF Code, Table
    <3>2. Settles
      BY <1>9, <3>1 DEF Settles, FramesSettle, CallsSettle, First, HostCall
    <3> QED BY <2>1, <2>2, <3>2 DEF PlainStacks
  <2> QED BY <2>3, <2>4
<1>11. \A a \in Words : /\ mem[a].class = Tagged /\ mem[a].fields \in {<<>>, <<Tagged>>} /\ mem[a].fwd = 0
  BY <1>3 DEF NoObj
<1>12. StayingOK
  <2>1. Fixed + 2 \in Words /\ Fixed + 3 \in Words /\ Tenured \in Words
    BY <1>4 DEF Words, Tenured
  <2>2. mem[Tenured].fields = <<Tagged>>
    BY <1>3 DEF Object
  <2>3. \A a \in {Fixed + 2, Fixed + 3} : mem[a].fields = <<>>
    <3>1. TAKE a \in {Fixed + 2, Fixed + 3}
    <3>2. CASE mem[a] = NoObj
      BY <3>2 DEF NoObj
    <3>3. CASE mem[a] # NoObj
      <4>1. a # 1 /\ a # Tenured
        BY <1>4 DEF Tenured
      <4>2. a = Code(young) \/ a = Table(young)
        BY <1>3, <2>1, <3>3, <4>1
      <4> QED BY <1>3, <4>2 DEF Object
    <3> QED BY <3>2, <3>3
  <2> QED BY <1>11, <2>2, <2>3 DEF StayingOK
<1>13. Settled
  <2>1. <<Tagged>> \in [1..1 -> W]
    BY <1>7, Tuples
  <2>2. \A a \in Words : mem[a] \in ObjectIn(W)
    <3>1. TAKE a \in Words
    <3>2. PICK q : q = mem[a]
      OBVIOUS
    <3>3. q \in ObjectIn(Word) /\ q.class \in W /\ q.fields \in FieldsIn(W)
      BY <1>3, <1>7, <1>11, <2>1, <3>2 DEF Heap, FieldsIn
    <3>4. q = [id |-> q.id, class |-> q.class, fields |-> q.fields, fwd |-> q.fwd] /\ q.id \in Ids /\ q.fwd \in 0..Fixed
      BY <3>3 DEF ObjectIn
    <3>5. q \in ObjectIn(W)
      BY <3>3, <3>4 DEF ObjectIn
    <3> QED BY <3>2, <3>5
  <2>3. mem \in Heap(W)
    BY <1>3, <2>2 DEF Heap
  <2> QED BY <1>6, <1>11, <2>3 DEF Settled
<1>14. LogOK
  BY <1>5 DEF LogOK
<1>15. PlainJob
  BY <1>5 DEF PlainJob
<1>16. WildOK
  BY <1>5 DEF WildOK, NoGc
<1> QED
  BY <1>5, <1>6, <1>8, <1>10, <1>12, <1>13, <1>14, <1>15, <1>16 DEF CInv, Stacks

\* A step of no action leaves everything as it is.
LEMMA StutterKeepsC ==
  ASSUME BInv, CInv, UNCHANGED vars
  PROVE  CInv'
<1>1. UNCHANGED <<mem, from, stacks, chains, job, gc, outcome, frames, calls, log, handlers, ensures>>
  BY DEF vars, memory, stacks, chains
<1>2. CASE gc.phase = "idle"
  <2>1. PICK W : W = Old
    OBVIOUS
  <2>2. mem \in Heap(W) /\ Stacks(W)
    BY <1>2, <2>1, IdleFacts
  <2>3. Top' = Top /\ Level' = Level
    BY <1>1 DEF Top, Level
  <2>4. PlainStacks' /\ PlainJob' /\ StayingOK' /\ LogOK'
    <3>1. PlainStacks'
      BY <1>1, <2>3 DEF CInv, PlainStacks, Young, Settles, FramesSettle, CallsSettle, NoArgs, Locals, InSpace, Fixed, Tagged
    <3>2. PlainJob'
      BY <1>1, <2>3 DEF CInv, PlainJob, NoJob, Tagged, Fixed
    <3>3. StayingOK' /\ LogOK'
      BY <1>1, StayingKept DEF CInv, LogOK, Tenured, Fixed, Tagged
    <3> QED BY <3>1, <3>2, <3>3
  <2>5. mem' \in Heap(W) /\ Stored(mem, mem') /\ HeldIn(W)'
    BY <1>1, <2>2 DEF Stored, Stacks, HeldIn
  <2>6. outcome' # "wild"
    BY <1>1, <1>2 DEF CInv, WildOK
  <2> QED BY <1>1, <1>2, <2>1, <2>4, <2>5, <2>6, CRest
<1>3. CASE gc.phase # "idle"
  <2>1. PICK g : g = gc
    OBVIOUS
  <2>2. PICK V : V = Fresh
    OBVIOUS
  <2>3. CopyOK
    BY <1>3 DEF CInv, NoGc
  <2>4. CopyAfter(mem, g, V)
    BY <2>1, <2>2, <2>3 DEF CopyAfter, CopyOK, Fresh, Order
  <2>5. CopyOK' /\ Old' = Old
    BY <1>1, <2>1, <2>4, CopyPrimed
  <2>6. WildOK'
    <3>1. Order' = Order /\ \A w : Missing(w)' <=> Missing(w)
      BY <1>1, OrderSame, MissingSame
    <3> QED BY <1>1, <3>1 DEF CInv, WildOK
  <2> QED BY <1>1, <1>3, <2>5, <2>6, CollectionPlain
<1> QED
  BY <1>2, <1>3

\* Every step keeps the references.
LEMMA NextKeepsC ==
  ASSUME PlainPrograms, BInv, CInv, [Next]_vars
  PROVE  CInv'
<1>1. CASE PushTemp \/ Duplicate \/ PushArg \/ PushSelf \/ PushLiteral \/ PushField
  BY <1>1, PushesPlain
<1>2. CASE Pop \/ StoreTemp \/ StoreField
  BY <1>2, PopsPlain
<1>3. CASE Send
  BY <1>3, SendPlain
<1>4. CASE OnDo \/ Ensure \/ Transaction
  BY <1>4, BlocksPlain
<1>5. CASE Return
  BY <1>5, ReturnPlain
<1>6. CASE Answer
  BY <1>6, AnswerPlain
<1>7. CASE BasicNew \/ PushClosure \/ OutOfMemory
  BY <1>7, JobsPlain
<1>8. CASE New \/ NewContext \/ NewBlock
  BY <1>8, AllocationsPlain
<1>9. CASE AllocationFails
  BY <1>9, StartPlain
<1>10. CASE CopyRoots
  BY <1>10, CopyRootsPlain
<1>11. CASE ScanObject
  BY <1>11, ScanPlain
<1>12. CASE Flip
  BY <1>12, FlipPlain
<1>13. CASE UNCHANGED vars
  BY <1>13, StutterKeepsC
<1> QED
  BY <1>1, <1>2, <1>3, <1>4, <1>5, <1>6, <1>7, <1>8, <1>9, <1>10, <1>11, <1>12, <1>13 DEF Next

\* For programs that keep to what the collector roots: between collections every
\* word in the stacks, the chains and the heap is a reference to an object in its
\* place, and during one every forwarding address leads to a copy of the object that
\* holds it, scanned copies refer to copies only, and every root has become the
\* reference to its copy (gc_copy_object, gc_collect, gc_collect_and_update).
THEOREM ReferencesInvariant ==
  ASSUME PlainPrograms
  PROVE  Spec => []CInv
<1>1. Init => CInv
  BY InitC
<1>2. BInv /\ CInv /\ [Next]_vars => CInv'
  BY NextKeepsC
<1> QED
  BY <1>1, <1>2, BasicInvariant, PTL DEF Spec

\* For the same programs, with temporaries or without, no collection runs out of
\* to-space, and it takes a word for an object where there is none only if the word
\* is a stray that lay under sp or between frames (gc_copy_object).
THEOREM CopyingSucceeds ==
  ASSUME PlainPrograms
  PROVE  Spec => []CopiesSucceed
<1>1. CInv => CopiesSucceed
  BY SameOrder DEF CInv, WildOK, CopiesSucceed, Missing
<1> QED
  BY <1>1, ReferencesInvariant, PTL

-----------------------------------------------------------------------------
(* What the program can reach. *)

\* The references that may be met: to objects in their place, and, while a
\* collection is under way, to copies.
Met == (Old \cup Fresh) \ {Tagged}

\* What the program holds refers to objects in their place.
LEMMA HeldOld ==
  ASSUME BInv, CInv
  PROVE  \A l \in Places : Held(l) \in Old
<1>1. PICK W : W = Old
  OBVIOUS
<1>2. HeldIn(W) /\ Tagged \in W
  BY <1>1 DEF CInv, Old, Staying
<1>3. frames \in Seq(FrameIn(W)) /\ calls \in Seq(CallIn(W)) /\ Len(calls) \in Nat \ {0}
  BY <1>2 DEF HeldIn, BInv, StacksOK
<1>4. \A f \in 1..Len(frames) :
        /\ frames[f].rcv \in W /\ frames[f].code \in W /\ frames[f].ctx \in W /\ frames[f].ret \in W
        /\ (\A i \in 1..Len(frames[f].slots) : frames[f].slots[i] \in W)
        /\ (\A i \in 1..Len(frames[f].args) : frames[f].args[i] \in W)
  <2>1. TAKE f \in 1..Len(frames)
  <2>2. frames[f] \in FrameIn(W)
    BY <1>3, Elements
  <2>3. frames[f].slots \in Seq(W) /\ frames[f].args \in Seq(W)
    BY <2>2 DEF FrameIn
  <2>4. /\ \A i \in 1..Len(frames[f].slots) : frames[f].slots[i] \in W
        /\ \A i \in 1..Len(frames[f].args) : frames[f].args[i] \in W
    BY <2>3, Elements
  <2> QED BY <2>2, <2>4 DEF FrameIn
<1>5. \A k \in 1..Len(calls) : calls[k].table \in W /\ calls[k].ip \in W /\ calls[k].cleanup \in W /\ calls[k].result \in W
  <2>1. \A k \in 1..Len(calls) : calls[k] \in CallIn(W)
    BY <1>3, Elements
  <2> QED BY <2>1 DEF CallIn
<1>6. /\ \A f \in 1..Len(handlers), i \in 1..3 : handlers[f][i] \in W
      /\ \A f \in 1..Len(ensures), i \in 1..2 : ensures[f][i] \in W
      /\ \A f \in 1..Len(log), i \in 1..2 : log[f][i] \in W
  <2>1. \A f \in 1..Len(handlers) : handlers[f] \in [1..3 -> W]
    BY <1>2, Elements DEF HeldIn
  <2>2. \A f \in 1..Len(ensures) : ensures[f] \in [1..2 -> W]
    BY <1>2, Elements DEF HeldIn
  <2>3. \A f \in 1..Len(log) : log[f] \in [1..2 -> W]
    BY <1>2, Elements DEF HeldIn
  <2> QED BY <2>1, <2>2, <2>3
<1>7. mem[Tenured].fields[1] \in W
  BY <1>2 DEF CInv, StayingOK
<1>8. /\ \A f \in 1..Len(frames) :
           /\ Held(Loc("rcv", f, 0)) \in W /\ Held(Loc("code", f, 0)) \in W /\ Held(Loc("ctx", f, 0)) \in W
           /\ Held(Loc("ret", f, 0)) \in W
           /\ \A i \in 1..Len(frames[f].slots) : Held(Loc("slot", f, i)) \in W
           /\ \A i \in 1..Len(frames[f].args) : Held(Loc("arg", f, i)) \in W
      /\ \A f \in 1..Len(calls) : /\ Held(Loc("table", f, 0)) \in W /\ Held(Loc("ip", f, 0)) \in W
                                  /\ Held(Loc("cleanup", f, 0)) \in W /\ Held(Loc("result", f, 0)) \in W
      /\ \A f \in 1..Len(handlers), i \in 1..3 : Held(Loc("handler", f, i)) \in W
      /\ \A f \in 1..Len(ensures), i \in 1..2 : Held(Loc("ensure", f, i)) \in W
      /\ \A f \in 1..Len(log), i \in 1..2 : Held(Loc("log", f, i)) \in W
      /\ Held(Loc("tenured", 0, 1)) \in W
  BY <1>4, <1>5, <1>6, <1>7 DEF Held, Read, Loc
<1>9. Len(calls) \in 1..Len(calls)
  BY <1>3
<1>10. \A l \in Places : Held(l) \in W
  <2> DEFINE Frame(f) == {Loc("rcv", f, 0), Loc("code", f, 0), Loc("ctx", f, 0)} \cup
               {Loc("slot", f, i) : i \in 1..Len(frames[f].slots)} \cup
               (IF "args" \in Watch THEN {Loc("arg", f, i) : i \in 1..Len(frames[f].args)} ELSE {}) \cup
               (IF "ips" \in Watch THEN {Loc("ret", f, 0)} ELSE {})
             P1 == UNION {Frame(f) : f \in 1..Len(frames)}
             P2 == {Loc("handler", f, i) : f \in 1..Len(handlers), i \in 1..3}
             P3 == {Loc("ensure", f, i) : f \in 1..Len(ensures), i \in 1..2}
             P4 == {Loc("log", f, i) : f \in 1..Len(log), i \in 1..2}
             P5 == {Loc("table", f, 0) : f \in IF "tables" \in Watch THEN 1..Len(calls) ELSE {Len(calls)}}
             P6 == {Loc("ip", f, 0) : f \in IF "ips" \in Watch THEN 1..Len(calls) ELSE {Len(calls)}}
             P7 == IF "locals" \in Watch THEN {Loc(k, f, 0) : k \in {"cleanup", "result"}, f \in 1..Len(calls)} ELSE {}
             P8 == IF "tenured" \in Watch THEN {Loc("tenured", 0, 1)} ELSE {}
  <2>1. \A f \in 1..Len(frames) : \A l \in Frame(f) : Held(l) \in W
    <3>1. TAKE f \in 1..Len(frames)
    <3>2. TAKE l \in Frame(f)
    <3>3. \/ l \in {Loc("rcv", f, 0), Loc("code", f, 0), Loc("ctx", f, 0), Loc("ret", f, 0)}
          \/ \E i \in 1..Len(frames[f].slots) : l = Loc("slot", f, i)
          \/ \E i \in 1..Len(frames[f].args) : l = Loc("arg", f, i)
      OBVIOUS
    <3> QED BY <1>8, <3>3
  <2>2. \A l \in P1 : Held(l) \in W
    <3> HIDE DEF Frame
    <3> QED BY <2>1
  <2>3. (\A l \in P2 : Held(l) \in W) /\ (\A l \in P3 : Held(l) \in W) /\ (\A l \in P4 : Held(l) \in W)
    BY <1>8
  <2>4. (\A l \in P5 : Held(l) \in W) /\ (\A l \in P6 : Held(l) \in W)
    BY <1>8, <1>9
  <2>5. (\A l \in P7 : Held(l) \in W) /\ (\A l \in P8 : Held(l) \in W)
    BY <1>8
  <2>6. Places = P1 \cup P2 \cup P3 \cup P4 \cup P5 \cup P6 \cup P7 \cup P8
    BY DEF Places
  <2> HIDE DEF P1, P2, P3, P4, P5, P6, P7, P8
  <2> QED BY <2>2, <2>3, <2>4, <2>5, <2>6
<1> QED
  BY <1>1, <1>10

\* Every such reference is valid, and what it refers to has such references.
LEMMA MetFacts ==
  ASSUME BInv, CInv, NEW w \in Met
  PROVE  Valid(w) /\ Closed(w) \subseteq Met /\ mem[Now(w)] \in ObjectIn(Old \cup Fresh)
<1>1. from \in {0, SpaceWords} /\ mem \in Heap(Word)
  BY BFacts
<1>2. /\ Space(from) \subseteq Words /\ Space(To) \subseteq Words /\ Staying \subseteq Word /\ Fixed \in Nat
      /\ \A a \in Words : a \in Space(from) \/ a \in Space(To) \/ a \in Staying
  BY <1>1, FromFacts
<1>3. PICK V : V = Old \cup Fresh
  OBVIOUS
<1>4. Old \subseteq V /\ Fresh \subseteq V /\ Tagged \in V
  BY <1>3 DEF Fresh, Staying
<1>5. \A a \in ObjectsOf(mem, from) : mem[a] \in ObjectIn(V)
  <2>1. CASE gc.phase = "idle"
    <3>1. mem \in Heap(Old)
      BY <2>1, BFacts DEF CInv, Settled
    <3>2. ObjectIn(Old) \subseteq ObjectIn(V)
      BY <1>4, ObjectMore
    <3> QED BY <1>2, <3>1, <3>2 DEF Heap, ObjectsOf
  <2>2. CASE gc.phase # "idle"
    <3>1. \A a \in ObjectsOf(mem, from) : mem[a] \in ObjectIn(Old)
      BY <2>2 DEF CInv, NoGc, CopyOK
    <3>2. ObjectIn(Old) \subseteq ObjectIn(V)
      BY <1>4, ObjectMore
    <3> QED BY <3>1, <3>2
  <2> QED BY <2>1, <2>2
<1>6. \A b \in ObjectsOf(mem, To) : mem[b] \in ObjectIn(V) /\ mem[b].fwd = 0 /\ gc.phase # "idle"
  <2>1. TAKE b \in ObjectsOf(mem, To)
  <2>2. gc.phase # "idle"
    BY BFacts DEF ObjectsOf
  <2>3. mem[b] \in ObjectIn(IF b <= gc.scan THEN Fresh ELSE Old) /\ mem[b].fwd = 0
    BY <2>2 DEF CInv, NoGc, CopyOK, Linked
  <2>4. ObjectIn(Old) \subseteq ObjectIn(V) /\ ObjectIn(Fresh) \subseteq ObjectIn(V)
    BY <1>4, ObjectMore
  <2> QED BY <2>2, <2>3, <2>4
<1>7. \A a \in ObjectsOf(mem, from) : mem[a].fwd # 0 => mem[a].fwd \in ObjectsOf(mem, To)
  <2>1. TAKE a \in ObjectsOf(mem, from)
  <2>2. HAVE mem[a].fwd # 0
  <2>3. gc.phase # "idle"
    BY <1>1, <1>2, <2>2, BFacts DEF CInv, Settled, ObjectsOf
  <2> QED BY <2>2, <2>3 DEF CInv, NoGc, CopyOK, Linked, Leads
<1>8. \A a \in Words : a > Fixed => mem[a] \in ObjectIn(V) /\ mem[a].fwd = 0
  <2>1. TAKE a \in Words
  <2>2. HAVE a > Fixed
  <2>3. a \in {Tenured, Fixed + 2, Fixed + 3}
    BY <2>2, SpaceFacts DEF Words, Tenured
  <2>4. mem[a].class = Tagged /\ mem[a].fwd = 0 /\ (mem[a].fields = <<Tagged>> \/ mem[a].fields = <<>>)
    BY <2>2, <2>3 DEF CInv, StayingOK
  <2>5. mem[a].fields \in FieldsIn(V)
    <3>1. <<Tagged>> \in [1..1 -> V]
      BY <1>4, Tuples
    <3> QED BY <2>4, <3>1 DEF FieldsIn
  <2>6. mem[a] \in ObjectIn(Word)
    BY <1>1 DEF Heap
  <2>7. PICK q : q = mem[a]
    OBVIOUS
  <2>8. q = [id |-> q.id, class |-> q.class, fields |-> q.fields, fwd |-> q.fwd] /\ q.id \in Ids /\ q.fwd \in 0..Fixed
    BY <2>6, <2>7 DEF ObjectIn
  <2>9. q \in ObjectIn(V)
    BY <1>4, <2>4, <2>5, <2>7, <2>8 DEF ObjectIn
  <2> QED BY <2>4, <2>7, <2>9
<1>9. \/ w \in ObjectsOf(mem, from)
      \/ w \in ObjectsOf(mem, To)
      \/ w \in Words /\ w > Fixed
  BY DEF Met, Old, Fresh, Staying
<1>10. Valid(w)
  BY <1>6, <1>9 DEF Valid, ObjectsOf, InSpace, Space
<1>11. mem[Now(w)] \in ObjectIn(V)
  BY <1>5, <1>6, <1>7, <1>8, <1>9 DEF Now
<1>12. PICK o \in ObjectIn(V) : o = mem[Now(w)]
  BY <1>11
<1>13. WordsOf(o) \in Seq(V) /\ Refs(w) = WordsOf(o)
  BY <1>12, ObjectWords DEF Refs, WordsOf
<1>14. \A i \in 1..Len(Refs(w)) : Refs(w)[i] \in V
  BY <1>13, Elements
<1>15. Closed(w) \subseteq Met
  BY <1>3, <1>14 DEF Closed, Met
<1> QED
  BY <1>3, <1>10, <1>11, <1>15

\* One step of the search from the words ws after the other.
GrowWalk(r, ws) ==
  r = [n \in 0..MaxAllocs |-> IF n = 0 THEN ws \ {Tagged} ELSE UNION {Closed(w) : w \in r[n - 1]}]

\* The search never leaves them.
LEMMA GrowExists ==
  ASSUME BInv, CInv, NEW ws, ws \subseteq Met \cup {Tagged}
  PROVE  \E r : GrowWalk(r, ws) /\ ReachedFrom(ws) = r[MaxAllocs] /\ \A n \in 0..MaxAllocs : r[n] \subseteq Met
<1> DEFINE V == SUBSET Met
           N == MaxAllocs
           Z == ws \ {Tagged}
           F == [p \in (1..N) \X V |-> UNION {Closed(w) : w \in p[2]}]
<1>1. N \in Nat /\ Z \in V
  BY BoundsAssumption
<1>2. ASSUME NEW n \in 1..N, NEW q \in V
      PROVE  F[<<n, q>>] = UNION {Closed(w) : w \in q} /\ F[<<n, q>>] \in V
  <2>1. \A w \in q : Closed(w) \subseteq Met
    BY MetFacts
  <2>2. UNION {Closed(w) : w \in q} \in V
    BY <2>1
  <2> QED BY <2>2
<1>3. PICK r : GrowWalk(r, ws)
  <2> HIDE DEF V, F, Z
  <2>1. Solvable(N, V, Z, F)
    BY <1>1, <1>2, RecursionExists
  <2>2. PICK r \in [0..N -> V] : r[0] = Z /\ \A n \in 1..N : r[n] = F[<<n, r[n - 1]>>]
    BY <2>1 DEF Solvable
  <2>3. \A n \in 1..N : n - 1 \in 0..N
    BY <1>1
  <2>4. \A n \in 1..N : r[n] = UNION {Closed(w) : w \in r[n - 1]}
    BY <1>2, <2>2, <2>3
  <2>5. \A n \in 0..N : r[n] = IF n = 0 THEN Z ELSE UNION {Closed(w) : w \in r[n - 1]}
    BY <1>1, <2>2, <2>4
  <2>6. r = [n \in 0..N |-> r[n]]
    BY <2>2
  <2> QED BY <2>5, <2>6 DEF GrowWalk, Z
<1>4. PICK r2 : r2 = CHOOSE q : GrowWalk(q, ws)
  OBVIOUS
<1>5. GrowWalk(r2, ws)
  BY <1>3, <1>4
<1>6. ReachedFrom(ws) = r2[MaxAllocs]
  BY <1>4 DEF ReachedFrom, GrowWalk
<1>7. \A n \in 0..N : r2[n] \in V
  <2>1. r2[0] = Z /\ \A n \in 1..N : r2[n] = UNION {Closed(w) : w \in r2[n - 1]}
    BY <1>1, <1>5 DEF GrowWalk
  <2>2. r2[0] \in V /\ \A n \in 1..N : r2[n - 1] \in V => r2[n] \in V
    <3>1. \A w \in Met : Closed(w) \subseteq Met
      BY MetFacts
    <3> QED BY <1>1, <2>1, <3>1
  <2> HIDE DEF V, Z
  <2> QED BY <1>1, <2>2, RecursionStays
<1> QED
  BY <1>5, <1>6, <1>7

\* The search begins with references.
LEMMA ReferencesMet ==
  ASSUME BInv, CInv
  PROVE  References \subseteq Met \cup {Tagged}
  BY HeldOld DEF References, Met

\* So nothing the program can reach is stale.
LEMMA CInvValid ==
  ASSUME BInv, CInv
  PROVE  NoStaleReference
<1>1. Reachable \subseteq Met
  <2>1. MaxAllocs \in 0..MaxAllocs
    BY BoundsAssumption
  <2>2. PICK ws : ws = References
    OBVIOUS
  <2>3. PICK r : ReachedFrom(ws) = r[MaxAllocs] /\ \A n \in 0..MaxAllocs : r[n] \subseteq Met
    BY <2>2, ReferencesMet, GrowExists
  <2> QED BY <2>1, <2>2, <2>3 DEF Reachable
<1>2. \A w \in Met : Valid(w)
  BY MetFacts
<1> QED
  BY <1>1, <1>2 DEF NoStaleReference

\* For the same programs, whatever the program can reach through its stacks,
\* handlers, ensure blocks, log and objects is an object: no reference is left that
\* gc_collect did not relocate (collect_and_retry_allocation).
THEOREM NoStaleReferences ==
  ASSUME PlainPrograms
  PROVE  Spec => []NoStaleReference
<1>1. BInv /\ CInv => NoStaleReference
  BY CInvValid
<1> QED
  BY <1>1, BasicInvariant, ReferencesInvariant, PTL

-----------------------------------------------------------------------------
(* What the program sees. *)

\* The object a reference leads to in the heap m, and how the program sees it.
IdIn(m, w)     == IF w = Tagged THEN 0 ELSE m[w].id
NowIn(m, w)    == IF m[w].fwd # 0 THEN m[w].fwd ELSE w
RefsIn(m, w)   == WordsOf(m[NowIn(m, w)])
ClosedIn(m, w) == {w} \cup ({RefsIn(m, w)[i] : i \in 1..Len(RefsIn(m, w))} \ {Tagged})
NodeIn(m, w)   == <<IdIn(m, w), [i \in 1..Len(RefsIn(m, w)) |-> IdIn(m, RefsIn(m, w)[i])]>>

\* r is the search from the words h, and what the program sees then.
Searches(m, h, r) ==
  /\ r[0] = {h[l] : l \in DOMAIN h} \ {Tagged}
  /\ \A n \in 1..MaxAllocs : r[n] = UNION {ClosedIn(m, w) : w \in r[n - 1]}
ViewIn(m, h, R) ==
  [held |-> [l \in DOMAIN h |-> IdIn(m, h[l])], graph |-> {NodeIn(m, w) : w \in R}]

\* The program sees what the search finds.
HeldNow == [l \in Places |-> Held(l)]
Seen    == \E r : Searches(mem, HeldNow, r) /\ View = ViewIn(mem, HeldNow, r[MaxAllocs])

\* Between the steps it does.
LEMMA SeenNow ==
  ASSUME BInv, CInv
  PROVE  Seen
<1>0. PICK ws : ws = References
  OBVIOUS
<1>1. PICK r : GrowWalk(r, ws) /\ Reachable = r[MaxAllocs] /\ \A n \in 0..MaxAllocs : r[n] \subseteq Met
  BY <1>0, ReferencesMet, GrowExists DEF Reachable
<1>2. MaxAllocs \in Nat
  BY BoundsAssumption
<1>3. \A w \in Met : Valid(w) /\ w # Tagged /\ Refs(w) = RefsIn(mem, w) /\ Id(w) = IdIn(mem, w)
  <2>1. TAKE w \in Met
  <2>2. Valid(w) /\ w # Tagged
    BY MetFacts DEF Met
  <2> QED BY <2>2 DEF Refs, RefsIn, WordsOf, Now, NowIn, Id, IdIn
<1>4. \A w \in Met : /\ Closed(w) = ClosedIn(mem, w)
                     /\ \A i \in 1..Len(Refs(w)) : Id(Refs(w)[i]) = IdIn(mem, Refs(w)[i])
  <2>1. TAKE w \in Met
  <2>2. Closed(w) = ClosedIn(mem, w)
    BY <1>3 DEF Closed, ClosedIn, Tagged
  <2>3. ASSUME NEW i \in 1..Len(Refs(w)) PROVE Id(Refs(w)[i]) = IdIn(mem, Refs(w)[i])
    <3>1. PICK x : x = Refs(w)[i]
      OBVIOUS
    <3>2. x = Tagged \/ x \in Met
      <4>1. x = Tagged \/ x \in Closed(w)
        BY <1>3, <3>1 DEF Closed
      <4>2. Closed(w) \subseteq Met
        BY MetFacts
      <4> QED BY <4>1, <4>2
    <3>3. Id(x) = IdIn(mem, x)
      BY <1>3, <3>2 DEF Id, IdIn
    <3> QED BY <3>1, <3>3
  <2> QED BY <2>2, <2>3
<1>5. \A w \in Met : <<Id(w), [i \in 1..Len(Refs(w)) |-> Id(Refs(w)[i])]>> = NodeIn(mem, w)
  <2>1. TAKE w \in Met
  <2>2. \A i \in 1..Len(Refs(w)) : Id(Refs(w)[i]) = IdIn(mem, Refs(w)[i])
    BY <1>4
  <2>3. Id(w) = IdIn(mem, w) /\ Refs(w) = RefsIn(mem, w)
    BY <1>3
  <2>4. [i \in 1..Len(Refs(w)) |-> Id(Refs(w)[i])] = [i \in 1..Len(RefsIn(mem, w)) |-> IdIn(mem, RefsIn(mem, w)[i])]
    BY <2>2, <2>3
  <2> QED BY <2>3, <2>4 DEF NodeIn
<1>6. Searches(mem, HeldNow, r)
  <2>1. r[0] = {Held(l) : l \in Places} \ {Tagged}
    BY <1>0, <1>1, <1>2 DEF GrowWalk, References
  <2>2. r[0] = {HeldNow[l] : l \in DOMAIN HeldNow} \ {Tagged}
    BY <2>1 DEF HeldNow
  <2>3. ASSUME NEW n \in 1..MaxAllocs PROVE r[n] = UNION {ClosedIn(mem, w) : w \in r[n - 1]}
    <3>0. n \in 0..MaxAllocs /\ n - 1 \in 0..MaxAllocs /\ n # 0
      BY BoundsAssumption
    <3>1. r[n] = UNION {Closed(w) : w \in r[n - 1]} /\ r[n - 1] \subseteq Met
      <4>1. r[n] = IF n = 0 THEN ws \ {Tagged} ELSE UNION {Closed(w) : w \in r[n - 1]}
        BY <1>1, <3>0 DEF GrowWalk
      <4> QED BY <1>1, <3>0, <4>1
    <3>2. {Closed(w) : w \in r[n - 1]} = {ClosedIn(mem, w) : w \in r[n - 1]}
      BY <1>4, <3>1
    <3> QED BY <3>1, <3>2
  <2> QED BY <2>2, <2>3 DEF Searches
<1>7. \A l \in Places : Id(Held(l)) = IdIn(mem, Held(l))
  <2>1. TAKE l \in Places
  <2>2. PICK x : x = Held(l)
    OBVIOUS
  <2>3. x = Tagged \/ x \in Met
    BY <2>2, HeldOld DEF Met
  <2>4. Id(x) = IdIn(mem, x)
    BY <1>3, <2>3 DEF Id, IdIn
  <2> QED BY <2>2, <2>4
<1>8. View = ViewIn(mem, HeldNow, r[MaxAllocs])
  <2>1. r[MaxAllocs] \subseteq Met
    BY <1>1, <1>2
  <2>2. {v \in Reachable : Valid(v)} = r[MaxAllocs]
    BY <1>1, <1>3, <2>1
  <2>3. {<<Id(w), [i \in 1..Len(Refs(w)) |-> Id(Refs(w)[i])]>> : w \in r[MaxAllocs]} = {NodeIn(mem, w) : w \in r[MaxAllocs]}
    BY <1>5, <2>1
  <2>4. [l \in Places |-> Id(Held(l))] = [l \in DOMAIN HeldNow |-> IdIn(mem, HeldNow[l])]
    BY <1>7 DEF HeldNow
  <2> QED BY <2>2, <2>3, <2>4 DEF View, ViewIn
<1> QED
  BY <1>6, <1>8 DEF Seen

-----------------------------------------------------------------------------
(* Two heaps that a program cannot tell apart. *)

\* T pairs the references that lead to the same object before and after.
Paired(T, w, v) == (w = Tagged /\ v = Tagged) \/ (w # Tagged /\ v # Tagged /\ <<w, v>> \in T)
Corresponds(T, m, n) ==
  \A w, v : Paired(T, w, v) /\ w # Tagged =>
    /\ m[w].id = n[v].id
    /\ Len(RefsIn(n, v)) = Len(RefsIn(m, w)) /\ Len(RefsIn(m, w)) \in Nat
    /\ \A i \in 1..Len(RefsIn(m, w)) : Paired(T, RefsIn(m, w)[i], RefsIn(n, v)[i])

\* What is found on one side is found on the other.
Across(T, A, B) ==
  /\ \A w \in A : w # Tagged /\ \E v \in B : Paired(T, w, v)
  /\ \A v \in B : v # Tagged /\ \E w \in A : Paired(T, w, v)

\* One step of the search leads from corresponding words to corresponding words.
LEMMA AcrossStep ==
  ASSUME NEW m, NEW n, NEW T, Corresponds(T, m, n), NEW A, NEW B, Across(T, A, B),
         NEW C, C = UNION {ClosedIn(m, w) : w \in A}, NEW D, D = UNION {ClosedIn(n, v) : v \in B}
  PROVE  Across(T, C, D)
<1>1. \A w, v : Paired(T, w, v) /\ w # Tagged => Across(T, ClosedIn(m, w), ClosedIn(n, v))
  <2>1. TAKE w, v
  <2>2. HAVE Paired(T, w, v) /\ w # Tagged
  <2>3. v # Tagged
    BY <2>2 DEF Paired
  <2>4. PICK p : p = RefsIn(m, w)
    OBVIOUS
  <2>5. PICK q : q = RefsIn(n, v)
    OBVIOUS
  <2>6. Len(q) = Len(p) /\ \A i \in 1..Len(p) : Paired(T, p[i], q[i])
    BY <2>2, <2>4, <2>5 DEF Corresponds
  <2>7. /\ ClosedIn(m, w) = {w} \cup ({p[i] : i \in 1..Len(p)} \ {Tagged})
        /\ ClosedIn(n, v) = {v} \cup ({q[i] : i \in 1..Len(q)} \ {Tagged})
    BY <2>4, <2>5 DEF ClosedIn
  <2>8. \A x \in ClosedIn(m, w) : x # Tagged /\ \E y \in ClosedIn(n, v) : Paired(T, x, y)
    <3>1. TAKE x \in ClosedIn(m, w)
    <3>2. CASE x = w
      BY <2>2, <2>7, <3>2
    <3>3. CASE x # w
      <4>1. PICK i \in 1..Len(p) : x = p[i] /\ x # Tagged
        BY <2>7, <3>3
      <4>2. Paired(T, p[i], q[i]) /\ q[i] # Tagged /\ i \in 1..Len(q)
        BY <2>6, <4>1 DEF Paired
      <4> QED BY <2>7, <4>1, <4>2
    <3> QED BY <3>2, <3>3
  <2>9. \A y \in ClosedIn(n, v) : y # Tagged /\ \E x \in ClosedIn(m, w) : Paired(T, x, y)
    <3>1. TAKE y \in ClosedIn(n, v)
    <3>2. CASE y = v
      BY <2>2, <2>3, <2>7, <3>2
    <3>3. CASE y # v
      <4>1. PICK i \in 1..Len(q) : y = q[i] /\ y # Tagged
        BY <2>7, <3>3
      <4>2. Paired(T, p[i], q[i]) /\ p[i] # Tagged /\ i \in 1..Len(p)
        BY <2>6, <4>1 DEF Paired
      <4> QED BY <2>7, <4>1, <4>2
    <3> QED BY <3>2, <3>3
  <2> QED BY <2>8, <2>9 DEF Across
<1>2. \A x \in C : x # Tagged /\ \E y \in D : Paired(T, x, y)
  <2>1. TAKE x \in C
  <2>2. PICK w \in A : x \in ClosedIn(m, w)
    OBVIOUS
  <2>3. PICK v \in B : w # Tagged /\ Paired(T, w, v)
    BY DEF Across
  <2>4. Across(T, ClosedIn(m, w), ClosedIn(n, v))
    BY <1>1, <2>3
  <2>5. ClosedIn(n, v) \subseteq D
    OBVIOUS
  <2> QED BY <2>2, <2>4, <2>5 DEF Across
<1>3. \A y \in D : y # Tagged /\ \E x \in C : Paired(T, x, y)
  <2>1. TAKE y \in D
  <2>2. PICK v \in B : y \in ClosedIn(n, v)
    OBVIOUS
  <2>3. PICK w \in A : w # Tagged /\ Paired(T, w, v)
    BY DEF Across
  <2>4. Across(T, ClosedIn(m, w), ClosedIn(n, v))
    BY <1>1, <2>3
  <2>5. ClosedIn(m, w) \subseteq C
    OBVIOUS
  <2> QED BY <2>2, <2>4, <2>5 DEF Across
<1> QED
  BY <1>2, <1>3 DEF Across

\* Words that correspond look the same.
LEMMA NodesAgree ==
  ASSUME NEW m, NEW n, NEW T, Corresponds(T, m, n), NEW w, NEW v, Paired(T, w, v)
  PROVE  IdIn(m, w) = IdIn(n, v) /\ (w # Tagged => NodeIn(m, w) = NodeIn(n, v))
<1>1. \A x, y : Paired(T, x, y) => IdIn(m, x) = IdIn(n, y)
  BY DEF Paired, Corresponds, IdIn
<1>2. ASSUME w # Tagged PROVE NodeIn(m, w) = NodeIn(n, v)
  <2>1. PICK p : p = RefsIn(m, w)
    OBVIOUS
  <2>2. PICK q : q = RefsIn(n, v)
    OBVIOUS
  <2>3. Len(q) = Len(p) /\ \A i \in 1..Len(p) : Paired(T, p[i], q[i])
    BY <1>2, <2>1, <2>2 DEF Corresponds
  <2>4. \A i \in 1..Len(p) : IdIn(m, p[i]) = IdIn(n, q[i])
    BY <1>1, <2>3
  <2>5. [i \in 1..Len(p) |-> IdIn(m, p[i])] = [i \in 1..Len(q) |-> IdIn(n, q[i])]
    BY <2>3, <2>4
  <2> QED BY <1>1, <2>1, <2>2, <2>5 DEF NodeIn
<1> QED
  BY <1>1, <1>2

\* If what is held corresponds, what is seen is the same.
LEMMA ViewsAgree ==
  ASSUME NEW m, NEW n, NEW h, NEW k, DOMAIN k = DOMAIN h, NEW T, Corresponds(T, m, n),
         \A l \in DOMAIN h : Paired(T, h[l], k[l]),
         NEW r, NEW s, Searches(m, h, r), Searches(n, k, s)
  PROVE  ViewIn(m, h, r[MaxAllocs]) = ViewIn(n, k, s[MaxAllocs])
<1> DEFINE S == {e \in Nat : e <= MaxAllocs => Across(T, r[e], s[e])}
<1>1. 0 \in S
  <2>1. r[0] = {h[l] : l \in DOMAIN h} \ {Tagged} /\ s[0] = {k[l] : l \in DOMAIN h} \ {Tagged}
    BY DEF Searches
  <2>2. Across(T, r[0], s[0])
    BY <2>1 DEF Across, Paired
  <2> QED BY <2>2
<1>2. ASSUME NEW e \in Nat, e \in S PROVE e + 1 \in S
  <2>1. SUFFICES ASSUME e + 1 <= MaxAllocs PROVE Across(T, r[e + 1], s[e + 1])
    OBVIOUS
  <2>2. MaxAllocs \in Nat
    BY BoundsAssumption
  <2>3. e + 1 \in 1..MaxAllocs /\ (e + 1) - 1 = e /\ e <= MaxAllocs
    BY <2>1, <2>2
  <2>4. r[e + 1] = UNION {ClosedIn(m, w) : w \in r[e]} /\ s[e + 1] = UNION {ClosedIn(n, w) : w \in s[e]}
    BY <2>3 DEF Searches
  <2>5. Across(T, r[e], s[e])
    BY <1>2, <2>3
  <2> QED BY <2>4, <2>5, AcrossStep
<1> HIDE DEF S
<1>3. Nat \subseteq S
  BY <1>1, <1>2, NatSetInduction
<1>4. Across(T, r[MaxAllocs], s[MaxAllocs])
  <2>1. MaxAllocs \in Nat /\ MaxAllocs <= MaxAllocs
    BY BoundsAssumption
  <2> QED BY <1>3, <2>1 DEF S
<1>5. {NodeIn(m, w) : w \in r[MaxAllocs]} = {NodeIn(n, w) : w \in s[MaxAllocs]}
  <2>1. PICK A : A = r[MaxAllocs]
    OBVIOUS
  <2>2. PICK B : B = s[MaxAllocs]
    OBVIOUS
  <2>3. \A w \in A : \E v \in B : NodeIn(m, w) = NodeIn(n, v)
    BY <1>4, <2>1, <2>2, NodesAgree DEF Across
  <2>4. \A v \in B : \E w \in A : NodeIn(m, w) = NodeIn(n, v)
    BY <1>4, <2>1, <2>2, NodesAgree DEF Across
  <2> QED BY <2>1, <2>2, <2>3, <2>4
<1>6. [l \in DOMAIN h |-> IdIn(m, h[l])] = [l \in DOMAIN k |-> IdIn(n, k[l])]
  <2>1. \A l \in DOMAIN h : IdIn(m, h[l]) = IdIn(n, k[l])
    BY NodesAgree
  <2> QED BY <2>1
<1> QED
  BY <1>5, <1>6 DEF ViewIn

\* What can be referred to in the heap m, with what a reference leads to there.
Referable(m) == ObjectsOf(m, from) \cup ObjectsOf(m, To) \cup {a \in Words : a > Fixed}
Leading(m) ==
  /\ from \in {0, SpaceWords} /\ m \in Heap(Word) /\ \E hi : Linked(m, hi)
  /\ \A a \in Words : a > Fixed => m[a].fwd = 0

\* One forwarding address leads to the object as it is now (gc_copy_object).
LEMMA NowFacts ==
  ASSUME NEW m, Leading(m), NEW w \in Referable(m)
  PROVE  /\ NowIn(m, w) \in Referable(m) /\ m[NowIn(m, w)].fwd = 0 /\ m[NowIn(m, w)].id = m[w].id
         /\ NowIn(m, w) = MovedIn(m, w) /\ w # Tagged
         /\ m[w].fwd # 0 => w \in ObjectsOf(m, from) /\ NowIn(m, w) \in ObjectsOf(m, To)
<1>1. Linked(m, CHOOSE hi : Linked(m, hi)) /\ from \in {0, SpaceWords}
  BY DEF Leading
<1>2. /\ \A a \in Leads(m) : m[a].fwd \in ObjectsOf(m, To) /\ m[m[a].fwd].id = m[a].id
      /\ \A b \in ObjectsOf(m, To) : m[b].fwd = 0
  BY <1>1 DEF Linked
<1>3. \A a \in Space(from) : a # 0 /\ a \notin Space(To)
  BY <1>1, FromFacts
<1>4. \A a \in Space(To) : a # 0 /\ a \notin Space(from)
  BY <1>1, FromFacts
<1>5. CASE w \in ObjectsOf(m, from)
  <2>1. CASE m[w].fwd # 0
    <3>1. w \in Leads(m) /\ w \in Space(from)
      BY <1>5, <2>1 DEF Leads, ObjectsOf
    <3> QED BY <1>2, <1>3, <1>5, <2>1, <3>1 DEF NowIn, MovedIn, Referable, Tagged
  <2>2. CASE m[w].fwd = 0
    BY <1>3, <1>5, <2>2 DEF NowIn, MovedIn, Referable, ObjectsOf, Tagged
  <2> QED BY <2>1, <2>2
<1>6. CASE w \in ObjectsOf(m, To)
  BY <1>2, <1>4, <1>6 DEF NowIn, MovedIn, Referable, ObjectsOf, Tagged
<1>7. CASE w \in Words /\ w > Fixed
  BY <1>7, SpaceFacts DEF NowIn, MovedIn, Referable, Leading, Tagged, Words
<1> QED
  BY <1>5, <1>6, <1>7 DEF Referable

\* n is m after some objects have been copied; the copies that were there have the
\* words they had or what these have moved to.
Relocated(n, o, p) ==
  /\ p.id = o.id /\ Len(WordsOf(p)) = Len(WordsOf(o)) /\ Len(WordsOf(o)) \in Nat
  /\ \A i \in 1..Len(WordsOf(o)) : WordsOf(p)[i] \in {WordsOf(o)[i], MovedIn(n, WordsOf(o)[i])}
Moves(m, n) ==
  /\ ObjectsOf(n, from) = ObjectsOf(m, from) /\ ObjectsOf(m, To) \subseteq ObjectsOf(n, To)
  /\ \A a \in ObjectsOf(m, from) :
       /\ Alike(m[a], n[a])
       /\ m[a].fwd # 0 => n[a].fwd = m[a].fwd
       /\ m[a].fwd = 0 /\ n[a].fwd # 0 => Alike(m[a], n[n[a].fwd])
  /\ \A b \in ObjectsOf(m, To) : Relocated(n, m[b], n[b])
  /\ \A a \in Words : a > Fixed => n[a] = m[a]

\* The references that lead to the same object before and after such a step.
NowSame(m, n) ==
  {p \in Referable(m) \X Referable(n) : NowIn(n, p[2]) = NowIn(n, NowIn(m, p[1]))}

\* A step of the copying keeps what every reference leads to.
LEMMA MovedNow ==
  ASSUME NEW m, NEW n, Leading(m), Leading(n), Moves(m, n), NEW w \in Referable(m)
  PROVE  /\ w \in Referable(n) /\ NowIn(n, w) = NowIn(n, NowIn(m, w))
         /\ Relocated(n, m[NowIn(m, w)], n[NowIn(n, w)])
<1>1. Referable(m) \subseteq Referable(n)
  BY DEF Moves, Referable
<1>2. NowIn(n, w) = NowIn(n, NowIn(m, w))
  <2>1. CASE m[w].fwd = 0
    BY <2>1 DEF NowIn
  <2>2. CASE m[w].fwd # 0
    <3>1. w \in ObjectsOf(m, from) /\ NowIn(m, w) \in ObjectsOf(m, To) /\ NowIn(m, w) = m[w].fwd
      BY <2>2, NowFacts DEF NowIn
    <3>2. n[w].fwd = m[w].fwd
      BY <2>2, <3>1 DEF Moves
    <3>3. PICK b : b = m[w].fwd
      OBVIOUS
    <3>4. b \in ObjectsOf(n, To) /\ n[b].fwd = 0
      <4>1. b \in ObjectsOf(n, To)
        BY <3>1, <3>3 DEF Moves
      <4> QED BY <4>1 DEF Leading, Linked
    <3>5. NowIn(n, b) = b
      BY <3>4 DEF NowIn
    <3> QED BY <2>2, <3>1, <3>2, <3>3, <3>5 DEF NowIn
  <2> QED BY <2>1, <2>2
<1>3. PICK a \in Referable(m) : a = NowIn(m, w) /\ m[a].fwd = 0
  BY NowFacts
<1>4. PICK c \in Referable(n) : c = NowIn(n, a)
  BY <1>1, <1>3, NowFacts
<1>5. m \in Heap(Word) /\ Referable(m) \subseteq Words
  <2>1. Space(from) \subseteq Words /\ Space(To) \subseteq Words
    BY FromFacts DEF Leading
  <2> QED BY <2>1 DEF Leading, Referable, ObjectsOf
<1>6. m[a] \in ObjectIn(Word)
  BY <1>3, <1>5 DEF Heap
<1>7. Len(WordsOf(m[a])) \in Nat
  BY <1>6, ObjectWords
<1>8. Relocated(n, m[a], n[c])
  <2>1. CASE a \in ObjectsOf(m, To)
    <3>1. a \in ObjectsOf(n, To)
      BY <2>1 DEF Moves
    <3>2. n[a].fwd = 0
      BY <3>1 DEF Leading, Linked
    <3>3. c = a
      BY <1>4, <3>2 DEF NowIn
    <3> QED BY <2>1, <3>3 DEF Moves
  <2>2. CASE a \in Words /\ a > Fixed
    <3>1. n[a] = m[a]
      BY <2>2 DEF Moves
    <3>2. c = a
      BY <1>3, <1>4, <3>1 DEF NowIn
    <3> QED BY <1>7, <3>1, <3>2 DEF Relocated
  <2>3. CASE a \in ObjectsOf(m, from)
    <3>1. Alike(m[a], n[c])
      <4>1. CASE n[a].fwd = 0
        <5>1. c = a
          BY <1>4, <4>1 DEF NowIn
        <5> QED BY <2>3, <5>1 DEF Moves
      <4>2. CASE n[a].fwd # 0
        <5>1. c = n[a].fwd
          BY <1>4, <4>2 DEF NowIn
        <5>2. Alike(m[a], n[n[a].fwd])
          BY <1>3, <2>3, <4>2 DEF Moves
        <5> QED BY <5>1, <5>2
      <4> QED BY <4>1, <4>2
    <3>2. WordsOf(n[c]) = WordsOf(m[a]) /\ n[c].id = m[a].id
      BY <3>1 DEF Alike, WordsOf
    <3> QED BY <1>7, <3>2 DEF Relocated
  <2> QED BY <1>3, <2>1, <2>2, <2>3 DEF Referable
<1> QED
  BY <1>1, <1>2, <1>3, <1>4, <1>8

\* So before and after such a step the program sees the same.
LEMMA MovesCorrespond ==
  ASSUME NEW m, NEW n, Leading(m), Leading(n), Moves(m, n), NEW T, T = NowSame(m, n),
         \A w \in Referable(m) : \A i \in 1..Len(RefsIn(m, w)) : RefsIn(m, w)[i] \in Referable(m) \cup {Tagged}
  PROVE  Corresponds(T, m, n) /\ \A w \in Referable(m) \cup {Tagged} : Paired(T, w, w)
<1>1. \A w \in Referable(m) : w # Tagged /\ w \in Referable(n) /\ NowIn(n, w) = NowIn(n, NowIn(m, w))
  BY MovedNow, NowFacts
<1>2. \A w \in Referable(m) \cup {Tagged} : Paired(T, w, w)
  BY <1>1 DEF Paired, NowSame
<1>3. \A w \in Referable(n) : w # Tagged
  BY NowFacts
<1>4. ASSUME NEW w, NEW v, Paired(T, w, v), w # Tagged
      PROVE  /\ m[w].id = n[v].id
             /\ Len(RefsIn(n, v)) = Len(RefsIn(m, w)) /\ Len(RefsIn(m, w)) \in Nat
             /\ \A i \in 1..Len(RefsIn(m, w)) : Paired(T, RefsIn(m, w)[i], RefsIn(n, v)[i])
  <2>1. w \in Referable(m) /\ v \in Referable(n) /\ NowIn(n, v) = NowIn(n, NowIn(m, w))
    BY <1>4 DEF Paired, NowSame
  <2>2. PICK c : c = NowIn(n, v)
    OBVIOUS
  <2>3. NowIn(n, w) = c /\ Relocated(n, m[NowIn(m, w)], n[c])
    BY <1>1, <2>1, <2>2, MovedNow
  <2>4. n[c].id = n[v].id
    BY <2>1, <2>2, NowFacts
  <2>5. m[NowIn(m, w)].id = m[w].id
    BY <2>1, NowFacts
  <2>6. PICK p : p = RefsIn(m, w)
    OBVIOUS
  <2>7. PICK q : q = RefsIn(n, v)
    OBVIOUS
  <2>8. p = WordsOf(m[NowIn(m, w)]) /\ q = WordsOf(n[c])
    BY <2>2, <2>6, <2>7 DEF RefsIn
  <2>9. /\ n[c].id = m[NowIn(m, w)].id /\ Len(q) = Len(p) /\ Len(p) \in Nat
        /\ \A i \in 1..Len(p) : q[i] \in {p[i], MovedIn(n, p[i])}
    BY <2>3, <2>8 DEF Relocated
  <2>10. ASSUME NEW i \in 1..Len(p) PROVE Paired(T, p[i], q[i])
    <3>1. PICK x \in Referable(m) \cup {Tagged} : x = p[i]
      BY <2>1, <2>6
    <3>2. PICK y : y = q[i] /\ y \in {x, MovedIn(n, x)}
      BY <2>9, <3>1
    <3>3. CASE x = Tagged
      <4>1. Tagged \notin Space(from)
        BY FromFacts DEF Leading, Tagged
      <4>2. y = Tagged
        BY <3>2, <3>3, <4>1 DEF MovedIn
      <4> QED BY <3>1, <3>2, <3>3, <4>2 DEF Paired
    <3>4. CASE x # Tagged /\ y = x
      BY <1>2, <3>1, <3>2, <3>4
    <3>5. CASE x # Tagged /\ y # x
      <4>1. x \in Referable(m) /\ x \in Referable(n) /\ NowIn(n, x) = NowIn(n, NowIn(m, x))
        BY <1>1, <3>1, <3>5
      <4>2. y = NowIn(n, x) /\ y \in Referable(n) /\ n[y].fwd = 0 /\ y # Tagged
        BY <1>3, <3>2, <3>5, <4>1, NowFacts
      <4>3. NowIn(n, y) = y
        BY <4>2 DEF NowIn
      <4>4. <<x, y>> \in T
        BY <4>1, <4>2, <4>3 DEF NowSame
      <4> QED BY <3>1, <3>2, <3>5, <4>2, <4>4 DEF Paired
    <3> QED BY <3>3, <3>4, <3>5
  <2> QED BY <2>4, <2>5, <2>6, <2>7, <2>9, <2>10
<1> QED
  BY <1>2, <1>4 DEF Corresponds

\* The references that may be met are to what can be referred to.
LEMMA MetReferable ==
  ASSUME BInv, CInv
  PROVE  /\ Met = Referable(mem)
         /\ \A w \in Met : \A i \in 1..Len(RefsIn(mem, w)) : RefsIn(mem, w)[i] \in Met \cup {Tagged}
<1>1. from \in {0, SpaceWords}
  BY BFacts
<1>2. \A a \in Space(from) \cup Space(To) : a # Tagged
  BY <1>1, FromFacts DEF Tagged
<1>3. \A a \in Words : a # Tagged
  BY DEF Words, Tagged
<1>4. Met = Referable(mem)
  BY <1>2, <1>3 DEF Met, Old, Fresh, Staying, Referable, ObjectsOf
<1>5. ASSUME NEW w \in Met PROVE \A i \in 1..Len(RefsIn(mem, w)) : RefsIn(mem, w)[i] \in Met \cup {Tagged}
  <2>1. Valid(w) /\ Closed(w) \subseteq Met
    BY MetFacts
  <2>2. RefsIn(mem, w) = Refs(w)
    BY DEF RefsIn, Refs, WordsOf, Now, NowIn
  <2> QED BY <2>1, <2>2 DEF Closed
<1> QED
  BY <1>4, <1>5

\* The heap leads to objects while a collection is under way.
LEMMA LeadingNow ==
  ASSUME BInv, CInv, gc.phase # "idle"
  PROVE  Leading(mem) /\ Linked(mem, gc.free)
<1>1. from \in {0, SpaceWords} /\ mem \in Heap(Word)
  BY BFacts
<1>2. Linked(mem, gc.free)
  BY DEF CInv, NoGc, CopyOK
<1> QED
  BY <1>1, <1>2 DEF Leading, CInv, StayingOK

\* Copying a list of words is such a step.
LEMMA CopyMoves ==
  ASSUME NEW hi, Leading(mem), Linked(mem, hi), NEW st \in CopyStates, NEW i \in Nat, NEW ws, CopyKeeps(st, i, ws), CopyGood(st, i, ws)
  PROVE  Leading(st.mem) /\ Moves(mem, st.mem)
<1>1. from \in {0, SpaceWords} /\ mem \in Heap(Word) /\ \A a \in Words : a > Fixed => mem[a].fwd = 0
  BY DEF Leading
<1>2. PICK m : m = st.mem
  OBVIOUS
<1>3. m \in Heap(Word) /\ Linked(m, st.free)
  BY <1>2 DEF CopyStates, CopyGood
<1>4. /\ \A a \in ObjectsOf(mem, from) : Alike(mem[a], m[a]) /\ (mem[a].fwd # 0 => m[a].fwd = mem[a].fwd)
      /\ \A a \in Words : a > Fixed => m[a] = mem[a]
  BY <1>2 DEF CopyGood
<1>5. Leading(m)
  BY <1>1, <1>3, <1>4 DEF Leading
<1>6. ObjectsOf(m, from) = ObjectsOf(mem, from) /\ ObjectsOf(mem, To) \subseteq ObjectsOf(m, To)
  BY <1>1, <1>2, CopyObjects
<1>7. \A a \in ObjectsOf(mem, from) : mem[a].fwd = 0 /\ m[a].fwd # 0 => Alike(mem[a], m[m[a].fwd])
  <2>1. TAKE a \in ObjectsOf(mem, from)
  <2>2. HAVE mem[a].fwd = 0 /\ m[a].fwd # 0
  <2>3. a \in Leads(m)
    BY <1>6, <2>2 DEF Leads
  <2>4. PICK b \in ObjectsOf(m, To) : b = m[a].fwd
    BY <1>3, <2>3 DEF Linked
  <2>5. \A x, c \in Leads(m) : m[x].fwd = m[c].fwd => x = c
    BY <1>3 DEF Linked
  <2>6. CASE mem[b] = NoObj
    <3>1. CopyOf(st, i, b)
      BY <1>2, <2>4, <2>6 DEF CopyGood
    <3>2. PICK c \in ObjectsOf(mem, from) : m[c].fwd = b /\ Alike(mem[c], m[b])
      BY <1>2, <3>1 DEF CopyOf
    <3>3. c \in Leads(m)
      BY <1>6, <2>2, <2>4, <3>2 DEF Leads
    <3>4. c = a
      BY <2>3, <2>4, <2>5, <3>2, <3>3
    <3> QED BY <2>4, <3>2, <3>4
  <2>7. CASE mem[b] # NoObj
    <3>1. b \in ObjectsOf(mem, To)
      BY <2>4, <2>7 DEF ObjectsOf
    <3>2. PICK c \in Leads(mem) : mem[c].fwd = b
      BY <3>1 DEF Linked
    <3>3. m[c].fwd = b /\ c \in Leads(m)
      BY <1>4, <1>6, <3>2 DEF Leads
    <3>4. c = a
      BY <2>3, <2>4, <2>5, <3>3
    <3> QED BY <2>2, <3>2, <3>4 DEF Leads
  <2> QED BY <2>6, <2>7
<1>8. \A b \in ObjectsOf(mem, To) : Relocated(m, mem[b], m[b])
  <2>1. TAKE b \in ObjectsOf(mem, To)
  <2>2. m[b] = mem[b]
    BY <1>2 DEF CopyKeeps, ObjectsOf
  <2>3. mem[b] \in ObjectIn(Word)
    BY <1>1, FromFacts DEF ObjectsOf, Heap
  <2>4. Len(WordsOf(mem[b])) \in Nat
    BY <2>3, ObjectWords
  <2> QED BY <2>2, <2>4 DEF Relocated
<1> QED
  BY <1>2, <1>4, <1>5, <1>6, <1>7, <1>8 DEF Moves

\* So is the copying of the roots ...
LEMMA RootsMove ==
  ASSUME PlainPrograms, BInv, CInv, CopyRoots, NEW n, n = mem'
  PROVE  Leading(mem) /\ Leading(n) /\ Moves(mem, n)
<1>1. PICK done : done = CopyAll(gc.roots)
  OBVIOUS
<1>2. RootsCopied(done)
  BY <1>1, CopyRootsFacts
<1>3. /\ n = done.mem /\ done \in CopyStates /\ gc.phase = "roots"
      /\ CopyGood(done, Len(gc.roots), gc.roots) /\ CopyKeeps(done, Len(gc.roots), gc.roots)
  BY <1>2 DEF RootsCopied
<1>4. Len(gc.roots) \in Nat /\ Leading(mem) /\ Linked(mem, gc.free)
  BY <1>3, GcFacts, LeadingNow
<1>5. PICK hi : hi = gc.free
  OBVIOUS
<1>6. PICK i \in Nat : i = Len(gc.roots)
  BY <1>4
<1> QED
  BY <1>3, <1>4, <1>5, <1>6, CopyMoves

\* A scanned copy has what its words were copied to.
LEMMA ScannedWords ==
  ASSUME NEW o, NEW done, NEW p, Scanned(o, done, p), NEW ws, ws = WordsOf(o)
  PROVE  /\ Len(WordsOf(p)) = Len(ws) /\ Len(ws) \in Nat /\ Len(done.out) = Len(ws)
         /\ \A j \in 1..Len(ws) : WordsOf(p)[j] = done.out[j]
<1>1. /\ o \in ObjectIn(Word) /\ done.out \in Seq(Word) /\ Len(done.out) = Len(o.fields) + 1 /\ Len(o.fields) \in 0..2
      /\ p.class = done.out[1] /\ p.fields = Tail(done.out)
      /\ p \in ObjectIn(Word) /\ Len(p.fields) = Len(o.fields)
  BY DEF Scanned
<1>2. Len(ws) = Len(o.fields) + 1
  BY <1>1, ObjectWords
<1>3. PICK out \in Seq(Word) : out = done.out
  BY <1>1
<1>4. PICK k \in 0..2 : k = Len(o.fields)
  BY <1>1
<1>5. Len(out) = k + 1 /\ p.class = out[1] /\ p.fields = Tail(out) /\ Len(p.fields) = k /\ Len(ws) = k + 1
  BY <1>1, <1>2, <1>3, <1>4
<1>6. \A j \in 1..k : Tail(out)[j] = out[j + 1]
  BY <1>5, TailFields
<1>7. /\ Len(WordsOf(p)) = Size(p) /\ Size(p) = Len(p.fields) + 1 /\ WordsOf(p)[1] = p.class
      /\ \A j \in 1..Len(p.fields) : WordsOf(p)[j + 1] = p.fields[j]
  BY <1>1, ObjectWords
<1>8. \A j \in 1..(k + 1) : WordsOf(p)[j] = out[j]
  <2>1. TAKE j \in 1..(k + 1)
  <2>2. CASE j = 1
    BY <1>5, <1>7, <2>2
  <2>3. CASE j # 1
    <3>1. j - 1 \in 1..k /\ (j - 1) + 1 = j
      BY <2>3
    <3>2. WordsOf(p)[(j - 1) + 1] = p.fields[j - 1] /\ Tail(out)[j - 1] = out[(j - 1) + 1]
      BY <1>5, <1>6, <1>7, <3>1
    <3> QED BY <1>5, <3>1, <3>2
  <2> QED BY <2>2, <2>3
<1> QED
  BY <1>3, <1>5, <1>7, <1>8

\* ... and the scan of a copy.
LEMMA ScanMoves ==
  ASSUME PlainPrograms, BInv, CInv, ScanObject, NEW n, n = mem'
  PROVE  Leading(mem) /\ Leading(n) /\ Moves(mem, n)
<1>1. PICK o, done, p, m : ScanCopied(o, done, p, m)
  BY ScanCopies
<1>2. PICK ws : ws = WordsOf(o)
  OBVIOUS
<1>3. PICK s : s = gc.scan + 1
  OBVIOUS
<1>4. PICK q : q = done.mem
  OBVIOUS
<1>5. /\ n = m /\ s \in Space(To) /\ o \in ObjectIn(Word) /\ o # NoObj /\ o = mem[s] /\ gc.phase = "scan"
      /\ done \in CopyStates /\ CopyKeeps(done, Len(ws), ws) /\ CopyGood(done, Len(ws), ws)
      /\ done.out \in Seq(Word) /\ Len(done.out) = Len(o.fields) + 1 /\ Len(o.fields) \in 0..2
      /\ p.class = done.out[1] /\ p.fields = Tail(done.out) /\ p.id = o.id /\ p.fwd = o.fwd
      /\ p \in ObjectIn(Word) /\ p # NoObj /\ Len(p.fields) = Len(o.fields)
  BY <1>1, <1>2, <1>3 DEF ScanCopied, Scanned
<1>6. /\ Linked(m, done.free)
      /\ ObjectsOf(m, from) = ObjectsOf(q, from) /\ ObjectsOf(m, To) = ObjectsOf(q, To)
      /\ \A b \in Words : m[b] = IF b = s THEN p ELSE q[b]
      /\ \A w : MovedIn(m, w) = MovedIn(q, w)
  BY <1>1, <1>3, <1>4 DEF ScanCopied, ScanLeaves
<1>7. Len(ws) = Size(o) /\ Len(ws) = Len(o.fields) + 1 /\ Len(ws) \in Nat
  BY <1>2, <1>5, ObjectWords
<1>8. Leading(mem) /\ Linked(mem, gc.free)
  BY <1>5, LeadingNow
<1>9. Leading(q) /\ Moves(mem, q)
  <2>1. PICK hi : hi = gc.free
    OBVIOUS
  <2>2. PICK i \in Nat : i = Len(ws)
    BY <1>7
  <2> QED BY <1>4, <1>5, <1>8, <2>1, <2>2, CopyMoves
<1>10. from \in {0, SpaceWords} /\ q \in Heap(Word) /\ Space(from) \subseteq Words /\ Space(To) \subseteq Words
  BY <1>9, FromFacts DEF Leading
<1>11. \A a \in Words : a # s => m[a] = q[a]
  BY <1>6
<1>12. (\A a \in ObjectsOf(mem, from) : a \in Words /\ a # s) /\ (\A a \in Words : a > Fixed => a # s)
  <2>1. \A a \in Space(To) : ~(a > Fixed)
    BY <1>10, FromFacts DEF Staying
  <2> QED BY <1>5, <1>10, <2>1, FromFacts DEF ObjectsOf
<1>13. m \in Heap(Word)
  BY <1>1, <1>5 DEF ScanCopied, Scanned, BInv, HeapOK, Heap, CopyStates
<1>14. Leading(m)
  BY <1>6, <1>9, <1>10, <1>11, <1>12, <1>13 DEF Leading
<1>15. \A a \in ObjectsOf(mem, from) : Alike(mem[a], m[a]) /\ (mem[a].fwd # 0 => m[a].fwd = mem[a].fwd)
  BY <1>9, <1>11, <1>12 DEF Moves
<1>16. \A a \in ObjectsOf(mem, from) : mem[a].fwd = 0 /\ m[a].fwd # 0 => Alike(mem[a], m[m[a].fwd])
  <2>1. TAKE a \in ObjectsOf(mem, from)
  <2>2. HAVE mem[a].fwd = 0 /\ m[a].fwd # 0
  <2>3. m[a] = q[a] /\ Alike(mem[a], q[q[a].fwd])
    BY <1>9, <1>11, <1>12, <2>2 DEF Moves
  <2>4. PICK b : b = m[a].fwd
    OBVIOUS
  <2>5. ObjectsOf(m, from) = ObjectsOf(mem, from)
    BY <1>6, <1>9 DEF Moves
  <2>6. a \in Leads(m) /\ \A x, c \in Leads(m) : m[x].fwd = m[c].fwd => x = c
    BY <1>6, <2>2, <2>5 DEF Leads, Linked
  <2>7. b # s
    <3>1. SUFFICES ASSUME b = s PROVE FALSE
      OBVIOUS
    <3>2. s \in ObjectsOf(mem, To)
      BY <1>5 DEF ObjectsOf
    <3>3. PICK c \in Leads(mem) : mem[c].fwd = s
      BY <1>8, <3>2 DEF Linked
    <3>4. c \in ObjectsOf(mem, from) /\ mem[c].fwd # 0
      BY <3>3 DEF Leads
    <3>5. m[c].fwd = s /\ c \in Leads(m)
      BY <1>15, <2>5, <3>3, <3>4 DEF Leads
    <3>6. c = a
      BY <2>4, <2>6, <3>1, <3>5
    <3> QED BY <2>2, <3>4, <3>6
  <2>8. b \in Words
    BY <1>6, <1>10, <2>4, <2>6 DEF Linked, ObjectsOf
  <2> QED BY <1>11, <2>3, <2>4, <2>7, <2>8
<1>17. Relocated(m, o, p)
  <2>1. /\ Len(WordsOf(p)) = Len(ws) /\ Len(done.out) = Len(ws)
        /\ \A j \in 1..Len(ws) : WordsOf(p)[j] = done.out[j]
    BY <1>1, <1>2, ScannedWords DEF ScanCopied
  <2>2. \A j \in 1..Len(ws) : done.out[j] = MovedIn(q, ws[j])
    BY <1>4, <1>5 DEF CopyGood, Answers
  <2> QED BY <1>2, <1>5, <1>6, <1>7, <2>1, <2>2 DEF Relocated
<1>18. \A b \in ObjectsOf(mem, To) : Relocated(m, mem[b], m[b])
  <2>1. TAKE b \in ObjectsOf(mem, To)
  <2>2. CASE b = s
    <3>1. m[b] = p /\ mem[b] = o
      BY <1>5, <1>6, <1>10, <2>2
    <3> QED BY <1>17, <3>1
  <2>3. CASE b # s
    <3>1. b \in Words
      BY <1>10 DEF ObjectsOf
    <3>2. m[b] = q[b] /\ Relocated(q, mem[b], q[b])
      BY <1>9, <1>11, <2>3, <3>1 DEF Moves
    <3> QED BY <1>6, <3>2 DEF Relocated
  <2> QED BY <2>2, <2>3
<1>19. \A a \in Words : a > Fixed => m[a] = mem[a]
  BY <1>9, <1>11, <1>12 DEF Moves
<1>20. ObjectsOf(m, from) = ObjectsOf(mem, from) /\ ObjectsOf(mem, To) \subseteq ObjectsOf(m, To)
  BY <1>6, <1>9 DEF Moves
<1> QED
  BY <1>5, <1>8, <1>14, <1>15, <1>16, <1>18, <1>19, <1>20 DEF Moves

\* A step that copies is not seen.
LEMMA CopyUnseen ==
  ASSUME PlainPrograms, BInv, CInv, CopyRoots \/ ScanObject, Seen'
  PROVE  View' = View
<1>1. UNCHANGED <<stacks, chains, from>> /\ gc.phase # "idle"
  BY DEF CopyRoots, ScanObject
<1>2. PICK m : m = mem
  OBVIOUS
<1>3. PICK n : n = mem'
  OBVIOUS
<1>4. Leading(m) /\ Leading(n) /\ Moves(m, n)
  BY <1>2, <1>3, RootsMove, ScanMoves
<1>5. Met = Referable(m) /\ \A w \in Met : \A i \in 1..Len(RefsIn(m, w)) : RefsIn(m, w)[i] \in Met \cup {Tagged}
  BY <1>2, MetReferable
<1>6. PICK T : T = NowSame(m, n)
  OBVIOUS
<1>7. Corresponds(T, m, n) /\ \A w \in Met \cup {Tagged} : Paired(T, w, w)
  BY <1>4, <1>5, <1>6, MovesCorrespond
<1>8. HeldNow' = HeldNow
  <2>1. Places' = Places
    BY <1>1 DEF Places, stacks, chains
  <2>2. mem'[Tenured] = mem[Tenured]
    BY <1>2, <1>3, <1>4, SpaceFacts DEF Moves, Tenured, Words
  <2>3. \A l : Read(l)' = Read(l)
    BY <1>1, ReadSame
  <2>4. \A l : Held(l)' = Held(l)
    BY <1>1, <2>2, <2>3 DEF Held, stacks
  <2> QED BY <2>1, <2>4 DEF HeldNow
<1>9. PICK h : h = HeldNow
  OBVIOUS
<1>10. DOMAIN h = Places /\ \A l \in Places : h[l] \in Met \cup {Tagged}
  <2>1. \A l \in Places : Held(l) \in Met \cup {Tagged}
    BY HeldOld DEF Met
  <2> QED BY <1>9, <2>1 DEF HeldNow
<1>11. PICK r : Searches(m, h, r) /\ View = ViewIn(m, h, r[MaxAllocs])
  <2>1. Seen
    BY SeenNow
  <2> QED BY <1>2, <1>9, <2>1 DEF Seen
<1>12. PICK s : Searches(n, h, s) /\ View' = ViewIn(n, h, s[MaxAllocs])
  <2>1. \E s : Searches(mem', HeldNow', s) /\ View' = ViewIn(mem', HeldNow', s[MaxAllocs])
    BY DEF Seen
  <2> QED BY <1>3, <1>8, <1>9, <2>1
<1>13. \A l \in DOMAIN h : Paired(T, h[l], h[l])
  BY <1>7, <1>10
<1>14. ViewIn(m, h, r[MaxAllocs]) = ViewIn(n, h, s[MaxAllocs])
  BY <1>7, <1>11, <1>12, <1>13, ViewsAgree
<1> QED
  BY <1>11, <1>12, <1>14

\* What the program has at l goes where it moved.
HeldMoved(l) == Held(l)' = MovedIn(mem, Held(l)) /\ MovedIn(mem, Held(l)) \in Fresh

\* At the exchange of the spaces everything the program holds does.
LEMMA HeldMoves ==
  ASSUME PlainPrograms, BInv, CInv, Flip
  PROVE  Places' = Places /\ \A l \in Places : HeldMoved(l)
<1>1. gc.phase = "scan" /\ WriteBack /\ calls' = [calls EXCEPT ![Len(calls)] = RelocatedCall]
  BY DEF Flip
<1>2. PICK W : W = Old
  OBVIOUS
<1>3. Stacks(W) /\ from \in {0, SpaceWords}
  BY <1>2, OrderOld, BFacts DEF CInv
<1>4. \A l : Written(l) => Restored(l) = MovedIn(mem, Read(l)) /\ Restored(l) \in Fresh
  BY <1>1, RestoredMoves
<1>5. /\ Len(frames) \in Nat \ {0} /\ Len(calls) \in Nat \ {0}
      /\ log \in Seq([1..2 -> W]) /\ ensures \in Seq([1..2 -> W]) /\ handlers \in Seq([1..3 -> W])
  BY <1>3, TopFacts DEF Stacks, HeldIn
<1>6. FlippedStacks
  BY FlipHeld
<1>7. \A w \in Staying : MovedIn(mem, w) = w /\ w \in Fresh
  BY <1>3, MovedStays DEF Fresh
<1>8. {Tagged, Fixed + 2, Fixed + 3} \subseteq Staying
  BY SpaceFacts DEF Staying, Words
<1>9. PlainStacks /\ \A k \in 1..Len(calls) : calls[k].kind \notin {"ensure", "cleanup"}
  BY <1>1, GcFacts DEF CInv, PlainJob
\* The frames.
<1>10. ASSUME NEW f \in 1..Len(frames)
       PROVE  /\ HeldMoved(Loc("rcv", f, 0)) /\ HeldMoved(Loc("code", f, 0)) /\ HeldMoved(Loc("ctx", f, 0))
              /\ HeldMoved(Loc("ret", f, 0))
              /\ Len(frames'[f].slots) = Len(frames[f].slots) /\ Len(frames'[f].args) = Len(frames[f].args)
              /\ \A i \in 1..Len(frames[f].slots) : HeldMoved(Loc("slot", f, i))
              /\ \A i \in 1..Len(frames[f].args) : HeldMoved(Loc("arg", f, i))
  <2>1. PICK fr : fr = frames[f]
    OBVIOUS
  <2>2. fr.slots \in Seq(W) /\ fr.args \in Seq(W)
    <3>1. frames \in Seq(FrameIn(W))
      BY <1>3, TopFacts
    <3>2. fr \in FrameIn(W)
      BY <2>1, <3>1, Elements
    <3> QED BY <3>2 DEF FrameIn
  <2>3. Len(fr.slots) \in Nat /\ Len(fr.args) \in Nat
    BY <2>2, Elements
  <2>4. PICK fs : fs = frames'[f]
    OBVIOUS
  <2>5. /\ fs.rcv = Restored(Loc("rcv", f, 0)) /\ fs.code = Restored(Loc("code", f, 0))
        /\ fs.ctx = Restored(Loc("ctx", f, 0)) /\ fs.ret = fr.ret
        /\ fs.args = [i \in 1..Len(fr.args) |-> Restored(Loc("arg", f, i))]
        /\ fs.slots = [i \in 1..Len(fr.slots) |-> Restored(Loc("slot", f, i))]
    BY <1>1, <2>1, <2>4 DEF WriteBack
  <2>6. /\ Written(Loc("rcv", f, 0)) /\ Written(Loc("code", f, 0)) /\ Written(Loc("ctx", f, 0))
        /\ \A i \in 1..Len(fr.slots) : Written(Loc("slot", f, i))
        /\ \A i \in 1..Len(fr.args) : Written(Loc("arg", f, i))
    BY <2>1 DEF Written, IsRoot
  <2>7. /\ Read(Loc("rcv", f, 0)) = fr.rcv /\ Read(Loc("code", f, 0)) = fr.code /\ Read(Loc("ctx", f, 0)) = fr.ctx
        /\ (\A i : Read(Loc("slot", f, i)) = fr.slots[i]) /\ (\A i : Read(Loc("arg", f, i)) = fr.args[i])
    BY <2>1, ReadAt
  <2>8. /\ Held(Loc("rcv", f, 0)) = fr.rcv /\ Held(Loc("code", f, 0)) = fr.code /\ Held(Loc("ctx", f, 0)) = fr.ctx
        /\ Held(Loc("ret", f, 0)) = fr.ret
        /\ (\A i : Held(Loc("slot", f, i)) = fr.slots[i]) /\ (\A i : Held(Loc("arg", f, i)) = fr.args[i])
    BY <2>1 DEF Held, Read, Loc
  <2>9. /\ Held(Loc("rcv", f, 0))' = fs.rcv /\ Held(Loc("code", f, 0))' = fs.code /\ Held(Loc("ctx", f, 0))' = fs.ctx
        /\ Held(Loc("ret", f, 0))' = fs.ret
        /\ (\A i : Held(Loc("slot", f, i))' = fs.slots[i]) /\ (\A i : Held(Loc("arg", f, i))' = fs.args[i])
    BY <2>4 DEF Held, Read, Loc
  <2>10. HeldMoved(Loc("rcv", f, 0)) /\ HeldMoved(Loc("code", f, 0)) /\ HeldMoved(Loc("ctx", f, 0))
    BY <1>4, <2>5, <2>6, <2>7, <2>8, <2>9 DEF HeldMoved
  <2>11. HeldMoved(Loc("ret", f, 0))
    <3>1. fr.ret \in Staying
      <4>1. CASE Young
        BY <1>5, <1>8, <2>1, <4>1 DEF Young, Top
      <4>2. CASE Settles
        BY <1>8, <2>1, <4>2 DEF Settles, FramesSettle
      <4> QED BY <1>9, <4>1, <4>2 DEF PlainStacks
    <3> QED BY <1>7, <2>5, <2>8, <2>9, <3>1 DEF HeldMoved
  <2>12. ASSUME NEW i \in 1..Len(fr.slots) PROVE HeldMoved(Loc("slot", f, i))
    <3>1. fs.slots[i] = Restored(Loc("slot", f, i))
      BY <2>5
    <3>2. Restored(Loc("slot", f, i)) = MovedIn(mem, fr.slots[i]) /\ Restored(Loc("slot", f, i)) \in Fresh
      BY <1>4, <2>6, <2>7
    <3> QED BY <2>8, <2>9, <3>1, <3>2 DEF HeldMoved
  <2>13. ASSUME NEW i \in 1..Len(fr.args) PROVE HeldMoved(Loc("arg", f, i))
    <3>1. fs.args[i] = Restored(Loc("arg", f, i))
      BY <2>5
    <3>2. Restored(Loc("arg", f, i)) = MovedIn(mem, fr.args[i]) /\ Restored(Loc("arg", f, i)) \in Fresh
      BY <1>4, <2>6, <2>7
    <3> QED BY <2>8, <2>9, <3>1, <3>2 DEF HeldMoved
  <2>14. Len(fs.slots) = Len(fr.slots) /\ Len(fs.args) = Len(fr.args)
    BY <2>3, <2>5
  <2> QED BY <2>1, <2>4, <2>10, <2>11, <2>12, <2>13, <2>14
\* The calls.
<1>11. ASSUME NEW k \in 1..Len(calls)
       PROVE  /\ HeldMoved(Loc("table", k, 0)) /\ HeldMoved(Loc("ip", k, 0))
              /\ HeldMoved(Loc("cleanup", k, 0)) /\ HeldMoved(Loc("result", k, 0))
  <2>1. PICK c : c = calls[k]
    OBVIOUS
  <2>2. PICK d : d = calls'[k]
    OBVIOUS
  <2>3. /\ Held(Loc("table", k, 0)) = c.table /\ Held(Loc("ip", k, 0)) = c.ip
        /\ Held(Loc("cleanup", k, 0)) = c.cleanup /\ Held(Loc("result", k, 0)) = c.result
    BY <2>1 DEF Held, Read, Loc
  <2>4. /\ Held(Loc("table", k, 0))' = d.table /\ Held(Loc("ip", k, 0))' = d.ip
        /\ Held(Loc("cleanup", k, 0))' = d.cleanup /\ Held(Loc("result", k, 0))' = d.result
    BY <2>2 DEF Held, Read, Loc
  <2>5. c.cleanup = Tagged /\ c.result = Tagged /\ d.cleanup = Tagged /\ d.result = Tagged
    BY <1>6, <1>9, <2>1, <2>2 DEF PlainStacks, Locals, FlippedStacks
  <2>6. HeldMoved(Loc("cleanup", k, 0)) /\ HeldMoved(Loc("result", k, 0))
    BY <1>7, <1>8, <2>3, <2>4, <2>5 DEF HeldMoved
  <2>7. CASE k = Len(calls)
    <3>1. c.ip = Top.code /\ Len(frames) \in 1..Len(frames)
      <4>1. CASE Young
        BY <1>5, <2>1, <2>7, <4>1 DEF Young, Level
      <4>2. CASE Settles
        BY <1>5, <2>1, <2>7, <4>2 DEF Settles, FramesSettle, CallsSettle, Top
      <4> QED BY <1>9, <4>1, <4>2 DEF PlainStacks
    <3>2. d.ip = MovedIn(mem, c.ip) /\ MovedIn(mem, c.ip) \in Fresh
      BY <1>6, <2>2, <2>7, <3>1 DEF FlippedStacks, Top
    <3>3. d.table = MovedIn(mem, c.table)
      BY <1>6, <2>1, <2>2, <2>7 DEF FlippedStacks, Level
    <3>4. MovedIn(mem, c.table) \in Fresh
      <4>1. Written(Loc("table", k, 0))
        BY <2>7 DEF Written, IsRoot
      <4> QED BY <1>4, <2>1, <4>1, ReadAt
    <3> QED BY <2>3, <2>4, <2>6, <3>2, <3>3, <3>4 DEF HeldMoved
  <2>8. CASE k # Len(calls)
    <3>1. k \in 1..(Len(calls) - 1) /\ Len(calls) # 1
      <4>1. PICK n \in Nat : n = Len(calls)
        BY <1>5
      <4>2. k \in 1..n /\ k # n
        BY <2>8, <4>1
      <4>3. k \in 1..(n - 1) /\ n # 1
        BY <4>2
      <4> QED BY <4>1, <4>3
    <3>2. d = c
      BY <1>6, <2>1, <2>2, <3>1 DEF FlippedStacks
    <3>3. c.ip = Fixed + 2 /\ c.table = Fixed + 3
      BY <1>9, <2>1, <3>1 DEF PlainStacks, Young, Settles, CallsSettle
    <3> QED BY <1>7, <1>8, <2>3, <2>4, <2>6, <3>2, <3>3 DEF HeldMoved
  <2> QED BY <2>7, <2>8
\* The chains.
<1>12. /\ Len(handlers') = Len(handlers) /\ Len(ensures') = Len(ensures) /\ Len(log') = Len(log)
       /\ Len(frames') = Len(frames) /\ Len(calls') = Len(calls)
  <2>1. Len(handlers) \in Nat /\ Len(ensures) \in Nat /\ Len(log) \in Nat
    BY <1>5, Elements
  <2>2. \A k, chain : Len(chain) \in Nat => Len(RestoredChain(k, chain)) = Len(chain)
    BY DEF RestoredChain
  <2>3. handlers' = RestoredChain("handler", handlers) /\ ensures' = RestoredChain("ensure", ensures)
    BY <1>1 DEF WriteBack
  <2>4. Len(handlers') = Len(handlers) /\ Len(ensures') = Len(ensures)
    BY <2>1, <2>2, <2>3
  <2> QED BY <1>6, <2>4 DEF FlippedStacks
<1>13. ASSUME NEW f \in 1..Len(handlers), NEW i \in 1..3 PROVE HeldMoved(Loc("handler", f, i))
  <2>1. handlers[f] \in [1..3 -> W]
    BY <1>5, Elements
  <2>2. PICK q : q = handlers[f]
    OBVIOUS
  <2>3. Len(q) = 3
    BY <2>1, <2>2, Listed
  <2>4. handlers'[f] = [j \in 1..3 |-> Restored(Loc("handler", f, j))]
    BY <1>1, <2>2, <2>3 DEF WriteBack, RestoredChain
  <2>5. Written(Loc("handler", f, i))
    BY DEF Written, IsRoot
  <2>6. handlers'[f][i] = MovedIn(mem, handlers[f][i]) /\ MovedIn(mem, handlers[f][i]) \in Fresh
    BY <1>4, <2>4, <2>5, ReadAt
  <2> QED BY <2>6 DEF HeldMoved, Held, Read, Loc
<1>14. ASSUME NEW f \in 1..Len(ensures), NEW i \in 1..2 PROVE HeldMoved(Loc("ensure", f, i))
  <2>1. ensures[f] \in [1..2 -> W]
    BY <1>5, Elements
  <2>2. PICK q : q = ensures[f]
    OBVIOUS
  <2>3. Len(q) = 2
    BY <2>1, <2>2, Listed
  <2>4. ensures'[f] = [j \in 1..2 |-> Restored(Loc("ensure", f, j))]
    BY <1>1, <2>2, <2>3 DEF WriteBack, RestoredChain
  <2>5. Written(Loc("ensure", f, i))
    BY DEF Written, IsRoot
  <2>6. ensures'[f][i] = MovedIn(mem, ensures[f][i]) /\ MovedIn(mem, ensures[f][i]) \in Fresh
    BY <1>4, <2>4, <2>5, ReadAt
  <2> QED BY <2>6 DEF HeldMoved, Held, Read, Loc
<1>15. ASSUME NEW f \in 1..Len(log), NEW i \in 1..2 PROVE HeldMoved(Loc("log", f, i))
  <2>1. log[f] \in [1..2 -> W]
    BY <1>5, Elements
  <2>2. PICK q : q = log[f]
    OBVIOUS
  <2>3. Len(q) = 2
    BY <2>1, <2>2, Listed
  <2>4. log'[f] = [j \in 1..2 |-> Restored(Loc("log", f, j))]
    BY <1>1, <2>2, <2>3 DEF WriteBack, RestoredChain
  <2>5. Written(Loc("log", f, i))
    BY DEF Written, IsRoot
  <2>6. log'[f][i] = MovedIn(mem, log[f][i]) /\ MovedIn(mem, log[f][i]) \in Fresh
    BY <1>4, <2>4, <2>5, ReadAt
  <2> QED BY <2>6 DEF HeldMoved, Held, Read, Loc
<1>16. HeldMoved(Loc("tenured", 0, 1))
  <2>1. Tenured \in Words /\ Tenured > Fixed
    BY SpaceFacts DEF Tenured, Words
  <2>2. mem'[Tenured] = mem[Tenured] /\ mem[Tenured].fields = <<Tagged>>
    BY <2>1, FreshHeap DEF CInv, StayingOK
  <2>3. Held(Loc("tenured", 0, 1)) = Tagged /\ Held(Loc("tenured", 0, 1))' = Tagged
    BY <2>2 DEF Held, Loc, Tenured, Fixed, Tagged
  <2> QED BY <1>7, <1>8, <2>3 DEF HeldMoved
<1>17. Places' = Places
  <2>1. \A f \in 1..Len(frames) :
          Len(frames'[f].slots) = Len(frames[f].slots) /\ Len(frames'[f].args) = Len(frames[f].args)
    BY <1>10
  <2> DEFINE Frame(f) == {Loc("rcv", f, 0), Loc("code", f, 0), Loc("ctx", f, 0)} \cup
               {Loc("slot", f, i) : i \in 1..Len(frames[f].slots)} \cup
               (IF "args" \in Watch THEN {Loc("arg", f, i) : i \in 1..Len(frames[f].args)} ELSE {}) \cup
               (IF "ips" \in Watch THEN {Loc("ret", f, 0)} ELSE {})
             P1 == UNION {Frame(f) : f \in 1..Len(frames)}
  <2>2. \A f \in 1..Len(frames) : Frame(f)' = Frame(f)
    BY <2>1 DEF Loc
  <2>3. P1' = P1
    <3> HIDE DEF Frame
    <3>1. {Frame(f)' : f \in 1..Len(frames')} = {Frame(f) : f \in 1..Len(frames)}
      BY <1>12, <2>2
    <3> QED BY <3>1
  <2>4. Places = P1 \cup {Loc("handler", f, i) : f \in 1..Len(handlers), i \in 1..3}
             \cup {Loc("ensure", f, i) : f \in 1..Len(ensures), i \in 1..2}
             \cup {Loc("log", f, i) : f \in 1..Len(log), i \in 1..2}
             \cup {Loc("table", f, 0) : f \in IF "tables" \in Watch THEN 1..Len(calls) ELSE {Len(calls)}}
             \cup {Loc("ip", f, 0) : f \in IF "ips" \in Watch THEN 1..Len(calls) ELSE {Len(calls)}}
             \cup (IF "locals" \in Watch THEN {Loc(k, f, 0) : k \in {"cleanup", "result"}, f \in 1..Len(calls)} ELSE {})
             \cup (IF "tenured" \in Watch THEN {Loc("tenured", 0, 1)} ELSE {})
    BY DEF Places
  <2>5. Places' = P1' \cup {Loc("handler", f, i) : f \in 1..Len(handlers'), i \in 1..3}
             \cup {Loc("ensure", f, i) : f \in 1..Len(ensures'), i \in 1..2}
             \cup {Loc("log", f, i) : f \in 1..Len(log'), i \in 1..2}
             \cup {Loc("table", f, 0) : f \in IF "tables" \in Watch THEN 1..Len(calls') ELSE {Len(calls')}}
             \cup {Loc("ip", f, 0) : f \in IF "ips" \in Watch THEN 1..Len(calls') ELSE {Len(calls')}}
             \cup (IF "locals" \in Watch THEN {Loc(k, f, 0) : k \in {"cleanup", "result"}, f \in 1..Len(calls')} ELSE {})
             \cup (IF "tenured" \in Watch THEN {Loc("tenured", 0, 1)} ELSE {})
    BY DEF Places, Loc
  <2> HIDE DEF P1
  <2> QED BY <1>12, <2>3, <2>4, <2>5
<1>18. \A l \in Places : HeldMoved(l)
  <2> DEFINE Frame(f) == {Loc("rcv", f, 0), Loc("code", f, 0), Loc("ctx", f, 0)} \cup
               {Loc("slot", f, i) : i \in 1..Len(frames[f].slots)} \cup
               (IF "args" \in Watch THEN {Loc("arg", f, i) : i \in 1..Len(frames[f].args)} ELSE {}) \cup
               (IF "ips" \in Watch THEN {Loc("ret", f, 0)} ELSE {})
             P1 == UNION {Frame(f) : f \in 1..Len(frames)}
             P2 == {Loc("handler", f, i) : f \in 1..Len(handlers), i \in 1..3}
             P3 == {Loc("ensure", f, i) : f \in 1..Len(ensures), i \in 1..2}
             P4 == {Loc("log", f, i) : f \in 1..Len(log), i \in 1..2}
             P5 == {Loc("table", f, 0) : f \in IF "tables" \in Watch THEN 1..Len(calls) ELSE {Len(calls)}}
             P6 == {Loc("ip", f, 0) : f \in IF "ips" \in Watch THEN 1..Len(calls) ELSE {Len(calls)}}
             P7 == IF "locals" \in Watch THEN {Loc(k, f, 0) : k \in {"cleanup", "result"}, f \in 1..Len(calls)} ELSE {}
             P8 == IF "tenured" \in Watch THEN {Loc("tenured", 0, 1)} ELSE {}
  <2>1. \A f \in 1..Len(frames) : \A l \in Frame(f) : HeldMoved(l)
    <3>1. TAKE f \in 1..Len(frames)
    <3>2. TAKE l \in Frame(f)
    <3>3. \/ l \in {Loc("rcv", f, 0), Loc("code", f, 0), Loc("ctx", f, 0), Loc("ret", f, 0)}
          \/ \E i \in 1..Len(frames[f].slots) : l = Loc("slot", f, i)
          \/ \E i \in 1..Len(frames[f].args) : l = Loc("arg", f, i)
      OBVIOUS
    <3> QED BY <1>10, <3>3
  <2>2. \A l \in P1 : HeldMoved(l)
    <3> HIDE DEF Frame
    <3> QED BY <2>1
  <2>3. (\A l \in P2 : HeldMoved(l)) /\ (\A l \in P3 : HeldMoved(l)) /\ (\A l \in P4 : HeldMoved(l))
    BY <1>13, <1>14, <1>15
  <2>4. Len(calls) \in 1..Len(calls)
    BY <1>5
  <2>5. (\A l \in P5 : HeldMoved(l)) /\ (\A l \in P6 : HeldMoved(l))
    BY <1>11, <2>4
  <2>6. (\A l \in P7 : HeldMoved(l)) /\ (\A l \in P8 : HeldMoved(l))
    BY <1>11, <1>16
  <2>7. Places = P1 \cup P2 \cup P3 \cup P4 \cup P5 \cup P6 \cup P7 \cup P8
    BY DEF Places
  <2> HIDE DEF P1, P2, P3, P4, P5, P6, P7, P8
  <2> QED BY <2>2, <2>3, <2>5, <2>6, <2>7
<1> QED
  BY <1>17, <1>18

\* Every reference to an object that has moved is paired with the reference to its copy.
Arrived == {p \in Met \X Fresh : p[2] = NowIn(mem, p[1]) /\ p[2] # Tagged}

\* After the exchange these lead to what they led to.
LEMMA ArrivedCorresponds ==
  ASSUME BInv, CInv, Flip, NEW n, n = mem'
  PROVE  Corresponds(Arrived, mem, n)
<1>1. gc.phase = "scan" /\ \A a \in Words : n[a] = IF a \in Space(from) THEN NoObj ELSE mem[a]
  BY Exchanged
<1>2. n \in Heap(Fresh) /\ (\A a \in Words : n[a].fwd = 0) /\ from \in {0, SpaceWords}
  BY FreshHeap, BFacts
<1>3. Met = Referable(mem) /\ Leading(mem)
  BY <1>1, MetReferable, LeadingNow
<1>4. Fresh \subseteq Met \cup {Tagged}
  BY DEF Met
<1>5. \A v \in Fresh \ {Tagged} : v \in Words /\ n[v] = mem[v] /\ n[v].fwd = 0
  <2>1. TAKE v \in Fresh \ {Tagged}
  <2>2. v \in Words /\ v \notin Space(from)
    BY <1>2, FromFacts DEF Fresh, ObjectsOf, Staying, Tagged
  <2> QED BY <1>1, <1>2, <2>2
<1>6. \A v \in Fresh \ {Tagged} : NowIn(mem, v) = v /\ RefsIn(n, v) = WordsOf(mem[v])
  BY <1>5 DEF NowIn, RefsIn
<1>7. \A x \in Fresh : Paired(Arrived, x, x)
  BY <1>4, <1>6 DEF Paired, Arrived
<1>8. ASSUME NEW w, NEW v, Paired(Arrived, w, v), w # Tagged
      PROVE  /\ mem[w].id = n[v].id
             /\ Len(RefsIn(n, v)) = Len(RefsIn(mem, w)) /\ Len(RefsIn(mem, w)) \in Nat
             /\ \A i \in 1..Len(RefsIn(mem, w)) : Paired(Arrived, RefsIn(mem, w)[i], RefsIn(n, v)[i])
  <2>1. w \in Met /\ v \in Fresh \ {Tagged} /\ v = NowIn(mem, w)
    BY <1>8 DEF Paired, Arrived
  <2>2. mem[w].id = mem[v].id
    BY <1>3, <2>1, NowFacts
  <2>3. PICK o \in ObjectIn(Fresh) : o = n[v]
    BY <1>2, <1>5, <2>1 DEF Heap
  <2>4. PICK ws : ws = WordsOf(o)
    OBVIOUS
  <2>5. ws \in Seq(Fresh) /\ Len(ws) \in Nat
    BY <2>4, ObjectWords, Elements
  <2>6. RefsIn(mem, w) = ws /\ RefsIn(n, v) = ws
    BY <1>5, <1>6, <2>1, <2>3, <2>4 DEF RefsIn
  <2>7. \A i \in 1..Len(ws) : ws[i] \in Fresh
    BY <2>5, Elements
  <2> QED BY <1>5, <1>7, <2>1, <2>2, <2>5, <2>6, <2>7
<1> QED
  BY <1>8 DEF Corresponds

\* The exchange of the spaces is not seen.
LEMMA FlipUnseen ==
  ASSUME PlainPrograms, BInv, CInv, Flip, Seen'
  PROVE  View' = View
<1>1. gc.phase = "scan" /\ from \in {0, SpaceWords}
  BY Exchanged, BFacts
<1>2. PICK m : m = mem
  OBVIOUS
<1>3. PICK n : n = mem'
  OBVIOUS
<1>4. PICK T : T = Arrived
  OBVIOUS
<1>5. Corresponds(T, m, n)
  BY <1>2, <1>3, <1>4, ArrivedCorresponds
<1>6. PICK h : h = HeldNow
  OBVIOUS
<1>7. PICK k : k = HeldNow'
  OBVIOUS
<1>8. Places' = Places /\ \A l \in Places : HeldMoved(l)
  BY HeldMoves
<1>9. /\ DOMAIN h = Places /\ DOMAIN k = Places
      /\ \A l \in Places : h[l] = Held(l) /\ k[l] = Held(l)'
  BY <1>6, <1>7, <1>8 DEF HeldNow
<1>10. \A l \in Places : Paired(T, h[l], k[l])
  <2>1. TAKE l \in Places
  <2>2. PICK w \in Old : w = h[l]
    BY <1>9, HeldOld
  <2>3. k[l] = MovedIn(mem, w) /\ MovedIn(mem, w) \in Fresh
    BY <1>8, <1>9, <2>2 DEF HeldMoved
  <2>4. CASE w = Tagged
    <3>1. Tagged \notin Space(from)
      BY <1>1, FromFacts DEF Tagged
    <3> QED BY <2>2, <2>3, <2>4, <3>1 DEF MovedIn, Paired
  <2>5. CASE w # Tagged
    <3>1. w \in Met /\ Met = Referable(mem) /\ Leading(mem)
      BY <1>1, <2>5, MetReferable, LeadingNow DEF Met
    <3>2. NowIn(mem, w) = MovedIn(mem, w) /\ NowIn(mem, w) \in Referable(mem)
      BY <3>1, NowFacts
    <3>3. NowIn(mem, w) # Tagged
      BY <3>1, <3>2 DEF Met
    <3> QED BY <1>4, <2>2, <2>3, <2>5, <3>1, <3>2, <3>3 DEF Paired, Arrived
  <2> QED BY <2>4, <2>5
<1>11. PICK r : Searches(m, h, r) /\ View = ViewIn(m, h, r[MaxAllocs])
  <2>1. Seen
    BY SeenNow
  <2> QED BY <1>2, <1>6, <2>1 DEF Seen
<1>12. PICK s : Searches(n, k, s) /\ View' = ViewIn(n, k, s[MaxAllocs])
  <2>1. \E s : Searches(mem', HeldNow', s) /\ View' = ViewIn(mem', HeldNow', s[MaxAllocs])
    BY DEF Seen
  <2> QED BY <1>3, <1>7, <2>1
<1>13. ViewIn(m, h, r[MaxAllocs]) = ViewIn(n, k, s[MaxAllocs])
  BY <1>5, <1>9, <1>10, <1>11, <1>12, ViewsAgree
<1> QED
  BY <1>11, <1>12, <1>13

\* So no step of a collection is seen.
LEMMA CollectionUnseen ==
  ASSUME PlainPrograms, BInv, CInv, Seen', [Next]_vars
  PROVE  [gc.phase # "idle" => View' = View]_vars
<1>1. SUFFICES ASSUME gc.phase # "idle", Next
               PROVE  View' = View
  BY DEF Next
<1>2. CASE CopyRoots \/ ScanObject
  BY <1>2, CopyUnseen
<1>3. CASE Flip
  BY <1>3, FlipUnseen
<1>4. ~(\/ PushTemp \/ Duplicate \/ PushArg \/ PushSelf \/ PushLiteral \/ Pop \/ StoreTemp \/ PushField \/ StoreField
        \/ Send \/ OnDo \/ Ensure \/ Transaction \/ Return \/ Answer \/ BasicNew \/ PushClosure)
  BY <1>1 DEF Idle, PushTemp, Duplicate, PushArg, PushSelf, PushLiteral, Pop, StoreTemp, PushField, StoreField,
       Send, OnDo, Ensure, Transaction, Return, Answer, BasicNew, PushClosure
<1>5. ~(New \/ NewContext \/ NewBlock \/ AllocationFails \/ OutOfMemory)
  BY <1>1 DEF New, NewContext, NewBlock, AllocationFails, OutOfMemory
<1> QED
  BY <1>1, <1>2, <1>3, <1>4, <1>5 DEF Next

\* For the same programs, a collection changes nothing the program can see: after
\* each of its steps every reference is to the object it was to and every field
\* holds what it held (gc_copy_object, gc_collect, gc_collect_and_update).
THEOREM CollectionsAreInvisible ==
  ASSUME PlainPrograms
  PROVE  Spec => CollectionsInvisible
<1>1. BInv /\ CInv => Seen
  BY SeenNow
<1>2. BInv /\ CInv /\ Seen' /\ [Next]_vars => [gc.phase # "idle" => View' = View]_vars
  BY CollectionUnseen
<1> QED
  BY <1>1, <1>2, BasicInvariant, ReferencesInvariant, PTL DEF Spec, CollectionsInvisible

-----------------------------------------------------------------------------
(* What is copied is in use. *)

\* The objects of a space are finitely many.
LEMMA ObjectsFinite ==
  ASSUME NEW m, NEW lo \in Nat
  PROVE  IsFiniteSet(ObjectsOf(m, lo)) /\ Cardinality(ObjectsOf(m, lo)) \in Nat
<1>1. SpaceWords \in Nat
  BY SpaceFacts
<1>2. PICK x, y \in Int : x = lo + 1 /\ y = lo + SpaceWords
  BY <1>1
<1>3. IsFiniteSet(x..y)
  BY FS_Interval
<1>4. IsFiniteSet(Space(lo))
  BY <1>2, <1>3 DEF Space
<1>5. ObjectsOf(m, lo) \subseteq Space(lo)
  BY DEF ObjectsOf
<1>6. IsFiniteSet(ObjectsOf(m, lo))
  BY <1>4, <1>5, FS_Subset
<1> QED
  BY <1>6, FS_CardinalityType

\* To begin with there are the objects the program starts with.
LEMMA InitU ==
  ASSUME Init
  PROVE  UInv
<1>1. PICK young \in CodeMoves : Started(young)
  BY DEF Init
<1>2. young \in BOOLEAN
  BY UsesAssumption
<1>3. \A a \in Words : mem[a] # NoObj => a \in {1, Code(young), Table(young), Tenured}
  BY <1>1, <1>2, StartedHeap
<1>4. from = 0 /\ job = NoJob /\ gc = NoGc /\ outcome = "running" /\ made = 4
  BY DEF Init
<1>5. PICK S : S = ObjectsOf(mem, from)
  OBVIOUS
<1>6. S \subseteq {1, Code(young), Table(young), Tenured}
  BY <1>3, <1>4, <1>5, SpaceFacts DEF ObjectsOf
<1>7. Cardinality(S) <= 4
  <2>1. PICK c, t, u : c = Code(young) /\ t = Table(young) /\ u = Tenured
    OBVIOUS
  <2>2. /\ IsFiniteSet({1}) /\ Cardinality({1}) = 1
        /\ IsFiniteSet({1, c}) /\ Cardinality({1, c}) \in {1, 2}
        /\ IsFiniteSet({1, c, t}) /\ Cardinality({1, c, t}) \in {1, 2, 3}
        /\ IsFiniteSet({1, c, t, u}) /\ Cardinality({1, c, t, u}) \in {1, 2, 3, 4}
    <3>1. IsFiniteSet({1}) /\ Cardinality({1}) = 1
      BY FS_Singleton
    <3>2. {1, c} = {1} \cup {c} /\ {1, c, t} = {1, c} \cup {t} /\ {1, c, t, u} = {1, c, t} \cup {u}
      OBVIOUS
    <3>3. IsFiniteSet({1, c}) /\ Cardinality({1, c}) \in {1, 2}
      BY <3>1, <3>2, FS_AddElement
    <3>4. IsFiniteSet({1, c, t}) /\ Cardinality({1, c, t}) \in {1, 2, 3}
      BY <3>2, <3>3, FS_AddElement
    <3>5. IsFiniteSet({1, c, t, u}) /\ Cardinality({1, c, t, u}) \in {1, 2, 3, 4}
      BY <3>2, <3>4, FS_AddElement
    <3> QED BY <3>1, <3>3, <3>4, <3>5
  <2>3. S \subseteq {1, c, t, u}
    BY <1>6, <2>1
  <2>4. Cardinality(S) <= Cardinality({1, c, t, u}) /\ Cardinality(S) \in Nat
    BY <2>2, <2>3, FS_Subset, FS_CardinalityType
  <2> QED BY <2>2, <2>4
<1> QED
  BY <1>4, <1>5, <1>7 DEF UInv, Counted, CopiesUsed, ObjectsUsed, Trapped, NoGc, NoJob

\* Between collections, what leaves the objects where they are and tries no
\* allocation again.
LEMMA URest ==
  ASSUME BInv, UInv, gc.phase = "idle", outcome = "running", UNCHANGED <<from, gc, made, outcome>>,
         Stored(mem, mem'), job'.tried = FALSE
  PROVE  UInv'
<1>1. Space(from) \subseteq Words
  BY BFacts, FromFacts
<1>2. ObjectsOf(mem', from) = ObjectsOf(mem, from)
  BY <1>1 DEF ObjectsOf, Stored
<1>3. ObjectsOf(mem, from)' = ObjectsOf(mem', from)
  BY DEF ObjectsOf, Space, NoObj, Tagged
<1>4. Counted'
  BY <1>2, <1>3 DEF UInv, Counted
<1> QED
  BY <1>4 DEF UInv, CopiesUsed, ObjectsUsed, Trapped

\* The bytecodes, sends, returns and the beginning of an allocation are such steps.
LEMMA ProgramU ==
  ASSUME BInv, UInv,
         \/ PushTemp \/ Duplicate \/ PushArg \/ PushSelf \/ PushLiteral \/ Pop \/ StoreTemp \/ PushField \/ StoreField
         \/ Send \/ OnDo \/ Ensure \/ Transaction \/ Return \/ Answer \/ BasicNew \/ PushClosure
  PROVE  UInv'
<1>1. Idle /\ UNCHANGED <<from, gc, made, outcome>> /\ (UNCHANGED job \/ job'.tried = FALSE)
  <2>1. CASE PushTemp \/ Duplicate \/ PushArg \/ PushSelf \/ PushLiteral \/ PushField
    BY <2>1 DEF PushTemp, Duplicate, PushArg, PushSelf, PushLiteral, PushField, PushWord, Quiet, memory, history
  <2>2. CASE Pop \/ StoreTemp \/ StoreField
    BY <2>2 DEF Pop, StoreTemp, StoreField, Quiet, memory, history
  <2>3. CASE Send \/ OnDo \/ Ensure \/ Transaction \/ Return \/ Answer
    BY <2>3 DEF Send, OnDo, Ensure, Transaction, Return, Answer, memory, history
  <2>4. CASE BasicNew \/ PushClosure
    <3>1. Idle /\ \E kind, stage, size, local : StartJob(kind, stage, size, local)
      BY <2>4 DEF BasicNew, PushClosure
    <3> QED BY <3>1 DEF StartJob, memory, history
  <2> QED BY <2>1, <2>2, <2>3, <2>4
<1>2. gc.phase = "idle" /\ outcome = "running" /\ job'.tried = FALSE
  BY <1>1 DEF Idle, NoJob
<1>3. Stored(mem, mem')
  <2>1. CASE UNCHANGED mem
    BY <2>1, StoredSame
  <2>2. CASE StoreField /\ ~UNCHANGED mem
    <3>1. Stacks(Word) /\ mem \in Heap(Word)
      BY BFacts
    <3>2. mem' = [mem EXCEPT ![Top.rcv].fields[1] = Op(0)] /\ Operands > 0
      BY <2>2 DEF StoreField
    <3>3. PICK r, w : r = Top.rcv /\ w = Op(0)
      OBVIOUS
    <3>4. w \in Word
      BY <3>1, <3>2, <3>3, OpIn
    <3>5. PICK n : n = mem'
      OBVIOUS
    <3>6. StoredAt(Word, mem, r, w, n)
      BY <3>1, <3>2, <3>3, <3>4, <3>5, FieldStored
    <3> QED BY <3>5, <3>6 DEF StoredAt
  <2>3. CASE Answer
    <3>1. mem' = mem \/ mem' = Committed
      BY <2>3 DEF Answer
    <3>2. mem \in Heap(Word) /\ log \in Seq([1..2 -> Word])
      BY BFacts
    <3> QED BY <3>1, <3>2, CommittedFacts DEF Stored
  <2>4. UNCHANGED mem \/ StoreField \/ Answer
    BY DEF PushTemp, Duplicate, PushArg, PushSelf, PushLiteral, PushWord, Quiet, Pop, StoreTemp, PushField,
           Send, OnDo, Ensure, Transaction, Return, BasicNew, PushClosure, StartJob, memory
  <2> QED BY <2>1, <2>2, <2>3, <2>4
<1> QED
  BY <1>1, <1>2, <1>3, URest

\* An object more is one that has been made.
LEMMA AllocationsU ==
  ASSUME BInv, UInv, New \/ NewContext \/ NewBlock
  PROVE  UInv'
<1>1. /\ gc.phase = "idle" /\ outcome = "running"
      /\ UNCHANGED <<from, gc, outcome>> /\ made' = made + 1 /\ made \in Nat
      /\ mem \in Heap(Word) /\ from \in Nat
      /\ \E o : mem' = [mem EXCEPT ![free + 1] = o]
  <2>1. gc.phase = "idle" /\ outcome = "running" /\ \E class, fields : AllocateObject(class, fields)
    BY DEF New, NewContext, NewBlock
  <2>2. PICK class, fields : AllocateObject(class, fields)
    BY <2>1
  <2>3. mem' = [mem EXCEPT ![free + 1] = Object(made + 1, class, fields)] /\ made' = made + 1 /\ UNCHANGED <<from, gc, outcome>>
    BY <2>2 DEF AllocateObject
  <2>4. from \in {0, SpaceWords} /\ mem \in Heap(Word) /\ made \in 4..(MaxAllocs + 1) /\ SpaceWords \in Nat
    BY BFacts, SpaceFacts
  <2>5. made \in Nat /\ from \in Nat
    BY <2>4
  <2> QED BY <2>1, <2>3, <2>4, <2>5
<1>2. job'.tried = FALSE
  <2>1. CASE New \/ NewBlock
    BY <2>1 DEF New, NewBlock, NoJob
  <2>2. CASE NewContext
    <3>1. job' = [job EXCEPT !.stage = "block", !.tried = FALSE, !.size = 3] /\ job \in Jobs(Word)
      BY <2>2 DEF NewContext, BInv, JobIn
    <3> QED BY <3>1 DEF Jobs
  <2> QED BY <2>1, <2>2
<1>3. PICK S : S = ObjectsOf(mem, from)
  OBVIOUS
<1>4. PICK V : V = ObjectsOf(mem', from)
  OBVIOUS
<1>5. Space(from) \subseteq Words
  BY BFacts, FromFacts
<1>6. V \subseteq S \cup {free + 1}
  BY <1>1, <1>3, <1>4, <1>5 DEF ObjectsOf, Heap
<1>7. IsFiniteSet(S) /\ Cardinality(S) \in Nat /\ Cardinality(S) <= made
  BY <1>1, <1>3, ObjectsFinite DEF UInv, Counted
<1>8. PICK x : x = free + 1
  OBVIOUS
<1>9. PICK k \in Nat : k = Cardinality(S)
  BY <1>7
<1>10. IsFiniteSet(S \cup {x}) /\ (Cardinality(S \cup {x}) = k \/ Cardinality(S \cup {x}) = k + 1)
  BY <1>7, <1>9, FS_AddElement
<1>11. Cardinality(V) <= Cardinality(S \cup {x}) /\ Cardinality(V) \in Nat
  BY <1>6, <1>8, <1>10, FS_Subset, FS_CardinalityType
<1>12. Cardinality(V) <= made'
  BY <1>1, <1>7, <1>9, <1>10, <1>11
<1>13. ObjectsOf(mem, from)' = V
  BY <1>1, <1>4 DEF ObjectsOf, Space, NoObj, Tagged
<1> QED
  BY <1>1, <1>2, <1>12, <1>13 DEF UInv, Counted, CopiesUsed, ObjectsUsed, Trapped

\* Where memory stays, so do the objects in their place.
LEMMA OldUnchanged ==
  ASSUME UNCHANGED memory
  PROVE  Old' = Old
  BY DEF memory, Old, Staying, ObjectsOf, Space, Words, Fixed, NoObj, Tagged

\* An allocation fails.
LEMMA FailuresU ==
  ASSUME BInv, UInv, AllocationFails \/ OutOfMemory
  PROVE  UInv'
<1>1. UNCHANGED <<memory, stacks, chains, job, made, kept>> /\ gc.phase = "idle" /\ outcome = "running"
  BY DEF AllocationFails, OutOfMemory, StartCollection, history
<1>2. Counted'
  BY <1>1 DEF UInv, Counted, ObjectsOf, Space, NoObj, Tagged, memory
<1>3. CASE AllocationFails
  <2>1. gc'.phase = "roots" /\ UNCHANGED outcome
    BY <1>3 DEF AllocationFails, StartCollection
  <2> QED BY <1>1, <1>2, <2>1 DEF UInv, CopiesUsed, ObjectsUsed, Trapped
<1>4. CASE OutOfMemory
  <2>1. UNCHANGED gc /\ job.tried /\ ~Fits
    BY <1>4 DEF OutOfMemory
  <2>2. Trapped'
    BY <1>1, <2>1 DEF Trapped, Fits, memory
  <2>3. CopiesUsed'
    BY <1>1, <2>1 DEF CopiesUsed
  <2>4. Places' = Places /\ (\A l : Held(l)' = Held(l))
    <3>1. \A l : Read(l)' = Read(l)
      BY <1>1, ReadSame
    <3> QED BY <1>1, <3>1 DEF Places, Held, stacks, chains, memory
  <2>5. \A b : Referred(mem, from, b)' = Referred(mem, from, b)
    BY <1>1 DEF Referred, ObjectsOf, Space, NoObj, Tagged, WordsOf, memory
  <2>6. ObjectsOf(mem, from)' = ObjectsOf(mem, from)
    BY <1>1 DEF ObjectsOf, Space, NoObj, Tagged, memory
  <2>7. Old' = Old
    BY <1>1, OldUnchanged
  <2>8. ObjectsUsed'
    BY <1>1, <2>1, <2>4, <2>5, <2>6, <2>7 DEF UInv, ObjectsUsed
  <2> QED BY <1>2, <2>2, <2>3, <2>8 DEF UInv
<1> QED
  BY <1>3, <1>4

\* While objects are copied nothing is tried and the from-space keeps its objects.
LEMMA URestCopying ==
  ASSUME UInv, UNCHANGED <<from, made>>, outcome' # "trap", gc'.phase = "scan",
         NEW n, n = mem', ObjectsOf(n, from) = ObjectsOf(mem, from), NEW g, g = gc',
         \A b \in ObjectsOf(n, To) : (\E k \in 1..Len(g.roots) : g.roots[k] = b) \/ Referred(n, To, b)
  PROVE  UInv'
<1>1. ObjectsOf(mem, from)' = ObjectsOf(mem, from) /\ ObjectsOf(mem, To)' = ObjectsOf(n, To)
  BY DEF ObjectsOf, Space, To, NoObj, Tagged
<1>2. \A b : Referred(mem, To, b)' = Referred(n, To, b)
  BY <1>1 DEF Referred, WordsOf
<1>3. Counted'
  BY <1>1 DEF UInv, Counted
<1>4. CopiesUsed'
  BY <1>1, <1>2 DEF CopiesUsed
<1> QED
  BY <1>3, <1>4 DEF UInv, ObjectsUsed, Trapped

\* The first copies are for the roots.
LEMMA CopyRootsU ==
  ASSUME PlainPrograms, BInv, CInv, UInv, CopyRoots
  PROVE  UInv'
<1>1. PICK done : done = CopyAll(gc.roots)
  OBVIOUS
<1>2. RootsCopied(done)
  BY <1>1, CopyRootsFacts
<1>3. PICK n : n = mem'
  OBVIOUS
<1>4. Moves(mem, n)
  BY <1>3, RootsMove
<1>5. PICK g : g = gc'
  OBVIOUS
<1>6. /\ gc.phase = "roots" /\ gc \in Collections /\ gc.free = To /\ Tiles(mem, To, gc.free)
      /\ from \in {0, SpaceWords} /\ mem \in Heap(Word)
  BY <1>2, GcFacts, BFacts DEF RootsCopied
<1>7. /\ n = done.mem /\ g.roots = done.out /\ g.phase = "scan" /\ outcome' # "trap" /\ UNCHANGED <<from, made>>
      /\ CopyGood(done, Len(gc.roots), gc.roots) /\ Len(done.out) = Len(gc.roots)
  BY <1>2, <1>3, <1>5, <1>6 DEF RootsCopied, CopyKeeps, CopyRoots, history, Collections
<1>8. \A b \in Space(To) : mem[b] = NoObj
  <2>1. TAKE b \in Space(To)
  <2>2. SUFFICES ASSUME mem[b] # NoObj PROVE FALSE
    OBVIOUS
  <2>3. b \in Words /\ b \in Nat /\ To \in Nat
    BY <1>6, FromFacts
  <2>4. Size(mem[b]) \in 1..3
    BY <1>6, <2>3, Sizes DEF Heap
  <2>5. b + Size(mem[b]) <= To + 1 /\ b >= To + 1
    BY <1>6, <2>2, <2>3 DEF Tiles, Space
  <2> QED BY <2>3, <2>4, <2>5
<1>9. \A b \in ObjectsOf(n, To) : \E k \in 1..Len(g.roots) : g.roots[k] = b
  BY <1>7, <1>8 DEF CopyGood, CopyOf, ObjectsOf
<1> QED
  BY <1>3, <1>4, <1>5, <1>7, <1>9, URestCopying DEF Moves

\* The others are for the words of the copy that is scanned.
LEMMA ScanU ==
  ASSUME PlainPrograms, BInv, CInv, UInv, ScanObject
  PROVE  UInv'
<1>1. PICK o, done, p, m : ScanCopied(o, done, p, m)
  BY ScanCopies
<1>2. Moves(mem, m)
  BY <1>1, ScanMoves DEF ScanCopied
<1>3. PICK g : g = gc'
  OBVIOUS
<1>4. PICK s : s = gc.scan + 1
  OBVIOUS
<1>5. PICK ws : ws = WordsOf(o)
  OBVIOUS
<1>6. PICK q : q = done.mem
  BY SMTT(30)
<1>7. /\ gc.phase = "scan" /\ gc \in Collections /\ from \in {0, SpaceWords} /\ mem \in Heap(Word)
      /\ gc.scan \in Nat /\ gc.free \in Nat /\ gc.scan < gc.free
  BY <1>1, GcFacts, BFacts, ZenonT(40) DEF ScanCopied, ScanObject
<1>8. /\ m = mem' /\ s \in Space(To) /\ o = mem[s] /\ o # NoObj /\ o \in ObjectIn(Old)
      /\ CopyGood(done, Len(ws), ws) /\ CopyKeeps(done, Len(ws), ws) /\ Scanned(o, done, p)
      /\ g.roots = gc.roots /\ g.phase = "scan" /\ UNCHANGED <<from, made>>
  BY <1>1, <1>3, <1>4, <1>5, <1>7, ZenonT(40) DEF ScanCopied, Scanned, ScanObject, history, Collections
<1>9. outcome' # "trap"
  BY <1>1 DEF ScanCopied, ScanObject
<1>10. /\ ObjectsOf(m, To) = ObjectsOf(q, To)
       /\ \A b \in Words : m[b] = IF b = s THEN p ELSE q[b]
  BY <1>1, <1>4, <1>6 DEF ScanCopied, ScanLeaves
<1>11. s \in Words /\ s \in Nat /\ Space(To) \subseteq Words /\ \A b \in Space(To) : b \in Nat /\ b \notin Old
  BY <1>7, <1>8, FromFacts DEF Old, ObjectsOf
<1>12. s \in ObjectsOf(mem, To) /\ s \in ObjectsOf(m, To)
  BY <1>2, <1>8 DEF ObjectsOf, Moves
<1>13. ASSUME NEW b \in ObjectsOf(m, To)
       PROVE  (\E k \in 1..Len(g.roots) : g.roots[k] = b) \/ Referred(m, To, b)
  <2>1. CASE mem[b] # NoObj
    <3>1. b \in ObjectsOf(mem, To) /\ b \in Space(To)
      BY <2>1 DEF ObjectsOf
    <3>2. (\E k \in 1..Len(gc.roots) : gc.roots[k] = b) \/ Referred(mem, To, b)
      BY <1>7, <3>1 DEF UInv, CopiesUsed
    <3>3. ASSUME Referred(mem, To, b) PROVE Referred(m, To, b)
      <4>1. PICK c \in ObjectsOf(mem, To) : c < b /\ \E i \in 1..Len(WordsOf(mem[c])) : WordsOf(mem[c])[i] = b
        BY <3>3 DEF Referred
      <4>2. PICK i \in 1..Len(WordsOf(mem[c])) : WordsOf(mem[c])[i] = b
        BY <4>1
      <4>3. c # s
        <5>1. SUFFICES ASSUME c = s PROVE FALSE
          OBVIOUS
        <5>2. WordsOf(o)[i] = b /\ i \in 1..Len(WordsOf(o))
          BY <1>8, <4>2, <5>1
        <5>3. WordsOf(o) \in Seq(Old)
          BY <1>8, ObjectWords
        <5>4. b \in Old
          BY <5>2, <5>3, Elements
        <5> QED BY <1>11, <3>1, <5>4
      <4>4. c \in Space(To) /\ mem[c] # NoObj /\ c \in Words
        BY <1>11 DEF ObjectsOf
      <4>5. m[c] = mem[c]
        BY <1>6, <1>8, <1>10, <4>3, <4>4 DEF CopyKeeps
      <4>6. c \in ObjectsOf(m, To)
        BY <4>4, <4>5 DEF ObjectsOf
      <4> QED BY <4>1, <4>5, <4>6 DEF Referred
    <3> QED BY <1>8, <3>2, <3>3
  <2>2. CASE mem[b] = NoObj
    <3>1. b \in ObjectsOf(q, To)
      BY <1>10
    <3>2. CopyOf(done, Len(ws), b)
      BY <1>6, <1>8, <2>2, <3>1 DEF CopyGood
    <3>3. b > gc.free /\ \E j \in 1..Len(ws) : done.out[j] = b
      BY <3>2 DEF CopyOf
    <3>4. s < b
      <4>1. b \in Nat
        BY <1>11 DEF ObjectsOf
      <4> QED BY <1>4, <1>7, <3>3, <4>1
    <3>5. Len(WordsOf(p)) = Len(ws) /\ \A j \in 1..Len(ws) : WordsOf(p)[j] = done.out[j]
      BY <1>5, <1>8, ScannedWords
    <3>6. m[s] = p
      BY <1>10, <1>11
    <3>7. Referred(m, To, b)
      BY <1>12, <3>3, <3>4, <3>5, <3>6 DEF Referred
    <3> QED BY <3>7
  <2> QED BY <2>1, <2>2
<1> QED
  BY <1>2, <1>3, <1>8, <1>9, <1>13, URestCopying DEF Moves

\* The program holds what is in its frames, its chains and its last call.
LEMMA PlacesHold ==
  /\ \A f \in 1..Len(frames) :
       /\ \E l \in Places : Held(l) = frames[f].rcv
       /\ \E l \in Places : Held(l) = frames[f].code
       /\ \E l \in Places : Held(l) = frames[f].ctx
       /\ \A i \in 1..Len(frames[f].slots) : \E l \in Places : Held(l) = frames[f].slots[i]
  /\ \A f \in 1..Len(handlers), i \in 1..3 : \E l \in Places : Held(l) = handlers[f][i]
  /\ \A f \in 1..Len(ensures), i \in 1..2 : \E l \in Places : Held(l) = ensures[f][i]
  /\ \A f \in 1..Len(log), i \in 1..2 : \E l \in Places : Held(l) = log[f][i]
  /\ Len(calls) \in Nat \ {0} => \E l \in Places : Held(l) = Level.table
<1>1. ASSUME NEW f \in 1..Len(frames)
      PROVE  /\ Loc("rcv", f, 0) \in Places /\ Loc("code", f, 0) \in Places /\ Loc("ctx", f, 0) \in Places
             /\ \A i \in 1..Len(frames[f].slots) : Loc("slot", f, i) \in Places
  BY DEF Places
<1>2. \A f \in 1..Len(handlers), i \in 1..3 : Loc("handler", f, i) \in Places
  BY DEF Places
<1>3. \A f \in 1..Len(ensures), i \in 1..2 : Loc("ensure", f, i) \in Places
  BY DEF Places
<1>4. \A f \in 1..Len(log), i \in 1..2 : Loc("log", f, i) \in Places
  BY DEF Places
<1>5. Len(calls) \in Nat \ {0} => Loc("table", Len(calls), 0) \in Places
  <2>1. Len(calls) \in Nat \ {0} => Len(calls) \in IF "tables" \in Watch THEN 1..Len(calls) ELSE {Len(calls)}
    OBVIOUS
  <2> QED BY <2>1 DEF Places
<1>6. ASSUME NEW k \in {"rcv", "code", "ctx", "slot", "handler", "ensure", "log", "table"}, NEW f, NEW i
      PROVE  Held(Loc(k, f, i)) = Read(Loc(k, f, i))
  BY DEF Held, Loc
<1>7. \A f, i : /\ Held(Loc("rcv", f, i)) = frames[f].rcv /\ Held(Loc("code", f, i)) = frames[f].code
                /\ Held(Loc("ctx", f, i)) = frames[f].ctx /\ Held(Loc("slot", f, i)) = frames[f].slots[i]
  BY <1>6, ReadAt
<1>8. \A f, i : /\ Held(Loc("handler", f, i)) = handlers[f][i] /\ Held(Loc("ensure", f, i)) = ensures[f][i]
                /\ Held(Loc("log", f, i)) = log[f][i] /\ Held(Loc("table", f, i)) = calls[f].table
  BY <1>6, ReadAt
<1>9. ASSUME NEW f \in 1..Len(frames)
      PROVE  /\ \E l \in Places : Held(l) = frames[f].rcv
             /\ \E l \in Places : Held(l) = frames[f].code
             /\ \E l \in Places : Held(l) = frames[f].ctx
             /\ \A i \in 1..Len(frames[f].slots) : \E l \in Places : Held(l) = frames[f].slots[i]
  BY <1>1, <1>7
<1>10. \A f \in 1..Len(handlers), i \in 1..3 : \E l \in Places : Held(l) = handlers[f][i]
  BY <1>2, <1>8
<1>11. \A f \in 1..Len(ensures), i \in 1..2 : \E l \in Places : Held(l) = ensures[f][i]
  BY <1>3, <1>8
<1>12. \A f \in 1..Len(log), i \in 1..2 : \E l \in Places : Held(l) = log[f][i]
  BY <1>4, <1>8
<1>13. Len(calls) \in Nat \ {0} => \E l \in Places : Held(l) = Level.table
  BY <1>5, <1>8 DEF Level
<1> QED
  BY <1>9, <1>10, <1>11, <1>12, <1>13

\* A frame, and a call, of words of a smaller set.
LEMMA FrameLess ==
  ASSUME NEW W, NEW V, NEW fr \in FrameIn(W), fr.rcv \in V, fr.code \in V, fr.ctx \in V, fr.ret \in V,
         \A i \in 1..Len(fr.slots) : fr.slots[i] \in V, \A i \in 1..Len(fr.args) : fr.args[i] \in V
  PROVE  fr \in FrameIn(V)
<1>1. PICK a, s : a = fr.args /\ s = fr.slots
  OBVIOUS
<1>2. a \in Seq(W) /\ s \in Seq(W) /\ fr.rcv \in W \ {Tagged}
  BY <1>1 DEF FrameIn
<1>3. a \in Seq(V) /\ s \in Seq(V)
  <2>1. a \in [1..Len(a) -> V] /\ s \in [1..Len(s) -> V] /\ Len(a) \in Nat /\ Len(s) \in Nat
    BY <1>1, <1>2, Lists, Elements
  <2> QED BY <2>1, Listed
<1>4. fr = [rcv |-> fr.rcv, args |-> a, code |-> fr.code, ctx |-> fr.ctx, ret |-> fr.ret, slots |-> s]
  BY <1>1 DEF FrameIn
<1>5. fr.rcv \in V \ {Tagged}
  BY <1>2
<1> QED
  BY ONLY <1>3, <1>4, <1>5, fr.code \in V, fr.ctx \in V, fr.ret \in V DEF FrameIn

\* A sequence of pairs or triples of words of a smaller set.
LEMMA ChainLess ==
  ASSUME NEW W, NEW V, NEW w, NEW q \in Seq([1..w -> W]), \A f \in 1..Len(q), i \in 1..w : q[f][i] \in V
  PROVE  q \in Seq([1..w -> V])
<1>1. Len(q) \in Nat /\ q \in [1..Len(q) -> [1..w -> W]]
  BY Lists, Elements
<1>2. \A f \in 1..Len(q) : q[f] \in [1..w -> V]
  BY <1>1
<1>3. q \in [1..Len(q) -> [1..w -> V]]
  BY <1>1, <1>2
<1> QED
  BY <1>1, <1>3, Listed

\* While a collection is under way, every root is something the program holds.
LEMMA RootsHeld ==
  ASSUME PlainPrograms, BInv, CInv, gc.phase # "idle"
  PROVE  \A n \in 1..Len(Order) :
           Read(Order[n]) = Tagged \/ \E l \in Places : Held(l) = Read(Order[n])
<1>1. PICK W : W = Old
  OBVIOUS
<1>2. PICK V : V = {Tagged} \cup {Held(l) : l \in Places}
  OBVIOUS
<1>3. Stacks(W) /\ HeldIn(W)
  BY <1>1, OrderOld DEF CInv
<1>4. /\ frames \in Seq(FrameIn(W)) /\ calls \in Seq(CallIn(W)) /\ Len(frames) \in Nat \ {0} /\ Len(calls) \in Nat \ {0}
      /\ handlers \in Seq([1..3 -> W]) /\ ensures \in Seq([1..2 -> W]) /\ log \in Seq([1..2 -> W])
  BY <1>3, TopFacts DEF HeldIn
<1>5. PlainStacks /\ job # NoJob /\ \A k \in 1..Len(calls) : calls[k].kind \notin {"ensure", "cleanup"}
  BY GcFacts DEF CInv, PlainJob
<1>6. Tagged \in V /\ \A x : (\E l \in Places : Held(l) = x) => x \in V
  BY <1>2
<1>7. \A f \in 1..Len(frames) :
        /\ frames[f].rcv \in V /\ frames[f].code \in V /\ frames[f].ctx \in V
        /\ \A i \in 1..Len(frames[f].slots) : frames[f].slots[i] \in V
  BY <1>6, PlacesHold
<1>8. Level.table \in V
  BY <1>4, <1>6, PlacesHold
<1>9. \A f \in 1..Len(frames) : frames[f].ret \in V /\ \A i \in 1..Len(frames[f].args) : frames[f].args[i] \in V
  <2>1. \A f \in 1..Len(frames) : \A i \in 1..Len(frames[f].args) : frames[f].args[i] \in V
    BY <1>5, <1>6 DEF PlainStacks, NoArgs
  <2>2. CASE Young
    <3>1. Len(frames) = 1 /\ frames[1].ret = Tagged
      BY <2>2 DEF Young, Top
    <3> QED BY <1>6, <2>1, <3>1
  <2>3. CASE Settles
    <3>1. \A f \in 1..Len(frames) : frames[f].ret = Tagged \/ frames[f].ret = frames[f].code
      BY <2>3 DEF Settles, FramesSettle
    <3> QED BY <1>6, <1>7, <2>1, <3>1
  <2> QED BY <1>5, <2>2, <2>3 DEF PlainStacks
<1>10. \A k \in 1..Len(calls) : calls[k].ip \in V /\ calls[k].table \in V
  <2>0. Len(frames) \in 1..Len(frames) /\ Len(calls) \in 1..Len(calls)
    BY <1>4
  <2>1. CASE Young
    <3>1. Len(calls) = 1 /\ calls[1].ip = Top.code /\ calls[1].table = Level.table
      BY <2>1 DEF Young, Level
    <3> QED BY <1>7, <1>8, <2>0, <3>1 DEF Top
  <2>2. CASE Settles
    <3>1. \A k \in 1..Len(calls) : calls[k].ip = Top.code /\ calls[k].table = Level.table
      BY <2>0, <2>2 DEF Settles, FramesSettle, CallsSettle, Top, Level
    <3> QED BY <1>7, <1>8, <2>0, <3>1 DEF Top
  <2> QED BY <1>5, <2>1, <2>2 DEF PlainStacks
<1>11. \A k \in 1..Len(calls) : calls[k].cleanup \in V /\ calls[k].result \in V
  BY <1>5, <1>6 DEF PlainStacks, Locals
<1>12. frames \in Seq(FrameIn(V))
  <2>1. \A f \in 1..Len(frames) : frames[f] \in FrameIn(V)
    <3>1. TAKE f \in 1..Len(frames)
    <3>2. PICK fr : fr = frames[f]
      OBVIOUS
    <3>3. fr \in FrameIn(W)
      BY <1>4, <3>2, Elements
    <3>4. /\ fr.rcv \in V /\ fr.code \in V /\ fr.ctx \in V /\ fr.ret \in V
          /\ (\A i \in 1..Len(fr.slots) : fr.slots[i] \in V) /\ (\A i \in 1..Len(fr.args) : fr.args[i] \in V)
      BY <1>7, <1>9, <3>2
    <3>5. fr \in FrameIn(V)
      BY <3>3, <3>4, FrameLess
    <3> QED BY <3>2, <3>5
  <2>2. frames \in [1..Len(frames) -> FrameIn(V)]
    BY <1>4, <2>1, Lists
  <2> QED BY <1>4, <2>2, Listed
<1>13. calls \in Seq(CallIn(V))
  <2>1. \A k \in 1..Len(calls) : calls[k] \in CallIn(V)
    <3>1. TAKE k \in 1..Len(calls)
    <3>2. PICK c : c = calls[k]
      OBVIOUS
    <3>3. c \in CallIn(W)
      BY <1>4, <3>2, Elements
    <3>4. c.ip \in V /\ c.table \in V /\ c.cleanup \in V /\ c.result \in V
      BY <1>10, <1>11, <3>2
    <3>5. c \in CallIn(V)
      BY ONLY <3>3, <3>4 DEF CallIn
    <3> QED BY <3>2, <3>5
  <2>2. calls \in [1..Len(calls) -> CallIn(V)]
    BY <1>4, <2>1, Lists
  <2> QED BY <1>4, <2>2, Listed
<1>14. handlers \in Seq([1..3 -> V])
  <2>1. \A f \in 1..Len(handlers), i \in 1..3 : handlers[f][i] \in V
    BY <1>6, PlacesHold
  <2> QED BY <1>4, <2>1, ChainLess
<1>15. ensures \in Seq([1..2 -> V])
  <2>1. \A f \in 1..Len(ensures), i \in 1..2 : ensures[f][i] \in V
    BY <1>6, PlacesHold
  <2> QED BY <1>4, <2>1, ChainLess
<1>16. log \in Seq([1..2 -> V])
  <2>1. \A f \in 1..Len(log), i \in 1..2 : log[f][i] \in V
    BY <1>6, PlacesHold
  <2> QED BY <1>4, <2>1, ChainLess
<1>17. Stacks(V)
  BY <1>3, <1>12, <1>13, <1>14, <1>15, <1>16 DEF Stacks, HeldIn
<1>19. Order \in Seq(ReadsIn(V))
  BY <1>17, OrderFacts DEF Order
<1>20. \A n \in 1..Len(Order) : Read(Order[n]) \in V
  BY <1>19, Elements DEF ReadsIn
<1> QED
  BY <1>2, <1>20

\* There are no more copies than objects that lead to them.
LEMMA CopiesCounted ==
  ASSUME from \in {0, SpaceWords}, NEW m, NEW hi, Linked(m, hi)
  PROVE  Cardinality(ObjectsOf(m, To)) <= Cardinality(ObjectsOf(m, from))
<1>1. PICK S : S = Leads(m)
  OBVIOUS
<1>2. PICK T : T = ObjectsOf(m, To)
  OBVIOUS
<1>3. PICK U : U = ObjectsOf(m, from)
  OBVIOUS
<1>4. from \in Nat /\ To \in Nat
  BY FromFacts
<1>5. IsFiniteSet(U) /\ Cardinality(U) \in Nat /\ Cardinality(T) \in Nat
  BY <1>2, <1>3, <1>4, ObjectsFinite
<1>6. S \subseteq U
  BY <1>1, <1>3 DEF Leads
<1>7. IsFiniteSet(S) /\ Cardinality(S) <= Cardinality(U) /\ Cardinality(S) \in Nat
  BY <1>5, <1>6, FS_Subset, FS_CardinalityType
<1>8. PICK f : f = [a \in S |-> m[a].fwd]
  OBVIOUS
<1>9. (\A a \in S : m[a].fwd \in T) /\ (\A b \in T : \E a \in S : m[a].fwd = b)
  BY <1>1, <1>2 DEF Linked
<1>10. f \in Surjection(S, T)
  BY <1>8, <1>9 DEF Surjection
<1>11. Cardinality(T) <= Cardinality(S)
  BY <1>7, <1>10, FS_Surjection
<1> QED
  BY <1>2, <1>3, <1>5, <1>7, <1>11

\* The copies become the objects.
LEMMA FlipU ==
  ASSUME PlainPrograms, BInv, CInv, UInv, Flip
  PROVE  UInv'
<1>1. /\ gc.phase = "scan" /\ outcome = "running" /\ from' = To /\ gc' = NoGc /\ UNCHANGED <<made, outcome>>
      /\ \A a \in Space(To) : mem'[a] = mem[a]
  BY Exchanged DEF history
<1>2. from \in {0, SpaceWords} /\ CopyOK /\ RootsMoved(mem, gc, Order, Fresh) /\ made \in Nat
  <2>1. made \in 4..(MaxAllocs + 1) /\ MaxAllocs \in Nat
    BY BoundsAssumption DEF BInv
  <2> QED BY <1>1, <2>1, BFacts DEF CInv, NoGc, CopyOK
<1>3. PICK T : T = ObjectsOf(mem, To)
  OBVIOUS
<1>4. ObjectsOf(mem, from)' = T
  BY <1>1, <1>3 DEF ObjectsOf, Space, NoObj, Tagged
<1>5. Counted'
  <2>1. Cardinality(T) <= Cardinality(ObjectsOf(mem, from))
    BY <1>2, <1>3, CopiesCounted DEF CopyOK
  <2>2. Cardinality(ObjectsOf(mem, from)) <= made
    BY DEF UInv, Counted
  <2>3. from \in Nat /\ To \in Nat
    BY <1>2, FromFacts
  <2>4. Cardinality(ObjectsOf(mem, from)) \in Nat /\ Cardinality(T) \in Nat
    BY <1>3, <2>3, ObjectsFinite
  <2>5. Cardinality(T) <= made
    BY <1>2, <2>1, <2>2, <2>4
  <2> QED BY <1>1, <1>4, <2>5 DEF Counted
<1>6. Places' = Places /\ \A l \in Places : HeldMoved(l)
  BY HeldMoves
<1>7. \A b \in T : b # Tagged /\ b \in Space(To)
  BY <1>2, <1>3, FromFacts DEF ObjectsOf, Tagged
<1>61. Len(Order) \in Nat /\ Len(gc.roots) \in Nat
  <2>1. HeldIn(Old) /\ gc.roots \in Seq(Word)
    BY <1>1, GcFacts DEF CInv
  <2>2. PICK W : W = Old
    OBVIOUS
  <2>3. Len(Order) \in Nat
    BY <2>1, <2>2, OrderOld
  <2> QED BY <2>1, <2>3
<1>62. kept' = {gc.roots[n] : n \in (Len(Order) + 1)..Len(gc.roots)}
  BY SameOrder DEF Flip
<1>63. \A n \in (Len(Order) + 1)..Len(gc.roots) : gc.roots[n] \in Fresh
  <2>1. \A n \in (Len(Order) + 1)..Len(gc.roots) : ~Missing(gc.roots[n])
    BY <1>1 DEF CInv, WildOK
  <2> QED BY <1>1, <1>2, <2>1 DEF RootsMoved
<1>64. kept' \subseteq Old'
  BY <1>62, <1>63, FreshHeap
<1>8. ASSUME NEW b \in T
      PROVE  (\E l \in Places' : Held(l)' = b) \/ b \in kept' \/ Referred(mem, from, b)'
  <2>1. (\E n \in 1..Len(gc.roots) : gc.roots[n] = b) \/ Referred(mem, To, b)
    BY <1>1, <1>3 DEF UInv, CopiesUsed
  <2>2. CASE \E n \in 1..Len(gc.roots) : gc.roots[n] = b
    <3>1. PICK n \in 1..Len(gc.roots) : gc.roots[n] = b
      BY <2>2
    <3>2. CASE n \notin 1..Len(Order)
      <4>1. n \in (Len(Order) + 1)..Len(gc.roots)
        BY <1>61, <3>2
      <4> QED BY <1>62, <3>1, <4>1
    <3>3. CASE n \in 1..Len(Order)
      <4>1. b = MovedIn(mem, Read(Order[n]))
        BY <1>1, <1>2, <3>1, <3>3 DEF RootsMoved
      <4>2. Read(Order[n]) # Tagged
        <5>1. Tagged \notin Space(from)
          BY <1>2, FromFacts DEF Tagged
        <5> QED BY <1>7, <4>1, <5>1 DEF MovedIn
      <4>3. PICK l \in Places : Held(l) = Read(Order[n])
        BY <1>1, <3>3, <4>2, RootsHeld
      <4>4. Held(l)' = b
        BY <1>6, <4>1, <4>3 DEF HeldMoved
      <4> QED BY <1>6, <4>4
    <3> QED BY <3>2, <3>3
  <2>3. CASE Referred(mem, To, b)
    <3>1. PICK c \in T : c < b /\ \E i \in 1..Len(WordsOf(mem[c])) : WordsOf(mem[c])[i] = b
      BY <1>3, <2>3 DEF Referred
    <3>2. mem'[c] = mem[c]
      BY <1>1, <1>7
    <3>3. \E c2 \in T : c2 < b /\ \E i \in 1..Len(WordsOf(mem'[c2])) : WordsOf(mem'[c2])[i] = b
      BY <3>1, <3>2
    <3>4. Referred(mem, from, b)' =
            \E c2 \in ObjectsOf(mem, from)' : c2 < b /\ \E i \in 1..Len(WordsOf(mem'[c2])) : WordsOf(mem'[c2])[i] = b
      BY DEF Referred, WordsOf
    <3> QED BY <1>4, <3>3, <3>4
  <2> QED BY <2>1, <2>2, <2>3
<1>9. ObjectsUsed'
  BY <1>4, <1>64, <1>8 DEF ObjectsUsed
<1> QED
  BY <1>1, <1>5, <1>9 DEF UInv, CopiesUsed, Trapped, NoGc

\* A step of no action leaves everything as it is.
LEMMA StutterKeepsU ==
  ASSUME UInv, UNCHANGED vars
  PROVE  UInv'
<1>1. UNCHANGED <<memory, stacks, chains, job, gc, made, kept, outcome>>
  BY DEF vars, history
<1>2. Places' = Places /\ (\A l : Held(l)' = Held(l))
  <2>1. \A l : Read(l)' = Read(l)
    BY <1>1, ReadSame
  <2> QED BY <1>1, <2>1 DEF Places, Held, stacks, chains, memory
<1>3. \A b : Referred(mem, from, b)' = Referred(mem, from, b) /\ Referred(mem, To, b)' = Referred(mem, To, b)
  BY <1>1 DEF Referred, ObjectsOf, Space, To, NoObj, Tagged, WordsOf, memory
<1>4. ObjectsOf(mem, from)' = ObjectsOf(mem, from) /\ ObjectsOf(mem, To)' = ObjectsOf(mem, To)
  BY <1>1 DEF ObjectsOf, Space, To, NoObj, Tagged, memory
<1>5. Fits' = Fits
  BY <1>1 DEF Fits, memory
<1>6. Counted' /\ Trapped'
  BY <1>1, <1>4, <1>5 DEF UInv, Counted, Trapped
<1>7. CopiesUsed'
  BY <1>1, <1>3, <1>4 DEF UInv, CopiesUsed
<1>8. Old' = Old
  BY <1>1, OldUnchanged
<1>9. ObjectsUsed'
  BY <1>1, <1>2, <1>3, <1>4, <1>8 DEF UInv, ObjectsUsed
<1> QED
  BY <1>6, <1>7, <1>9 DEF UInv

\* Every step keeps what is in use in use.
LEMMA NextKeepsU ==
  ASSUME PlainPrograms, BInv, CInv, UInv, [Next]_vars
  PROVE  UInv'
<1>1. CASE \/ PushTemp \/ Duplicate \/ PushArg \/ PushSelf \/ PushLiteral \/ Pop \/ StoreTemp \/ PushField \/ StoreField
           \/ Send \/ OnDo \/ Ensure \/ Transaction \/ Return \/ Answer \/ BasicNew \/ PushClosure
  BY <1>1, ProgramU
<1>2. CASE New \/ NewContext \/ NewBlock
  BY <1>2, AllocationsU
<1>3. CASE AllocationFails \/ OutOfMemory
  BY <1>3, FailuresU
<1>4. CASE CopyRoots
  BY <1>4, CopyRootsU
<1>5. CASE ScanObject
  BY <1>5, ScanU
<1>6. CASE Flip
  BY <1>6, FlipU
<1>7. CASE UNCHANGED vars
  BY <1>7, StutterKeepsU
<1> QED
  BY <1>1, <1>2, <1>3, <1>4, <1>5, <1>6, <1>7 DEF Next

\* For the same programs: every object a collection copies is one that a root, which
\* the program holds or a stray led to, or a copy before it refers to, there are never
\* more objects than have been made, and an allocation is given up only after a
\* collection has left no room for it (gc_collect, collect_and_retry_allocation).
THEOREM UseInvariant ==
  ASSUME PlainPrograms
  PROVE  Spec => []UInv
<1>1. Init => UInv
  BY InitU
<1>2. BInv /\ CInv /\ UInv /\ [Next]_vars => UInv'
  BY NextKeepsU
<1> QED
  BY <1>1, <1>2, BasicInvariant, ReferencesInvariant, PTL DEF Spec

\* The objects of the from-space that lie before b.
Before(b) == {c \in ObjectsOf(mem, from) : c < b}

\* An object that refers to another and lies before it has fewer objects before it,
\* and there are fewer before it than have been made.
LEMMA BeforeFacts ==
  ASSUME BInv, UInv, NEW b \in ObjectsOf(mem, from)
  PROVE  /\ Cardinality(Before(b)) \in 0..MaxAllocs
         /\ \A c \in ObjectsOf(mem, from) : c < b =>
              Cardinality(Before(c)) \in Nat /\ Cardinality(Before(c)) < Cardinality(Before(b))
<1>1. PICK S : S = ObjectsOf(mem, from)
  OBVIOUS
<1>2. from \in {0, SpaceWords} /\ made \in 4..(MaxAllocs + 1) /\ MaxAllocs \in Nat
  BY BFacts, BoundsAssumption
<1>3. from \in Nat /\ \A c \in S : c \in Nat
  BY <1>1, <1>2, FromFacts DEF ObjectsOf
<1>4. IsFiniteSet(S) /\ Cardinality(S) \in Nat /\ Cardinality(S) <= made
  BY <1>1, <1>3, ObjectsFinite DEF UInv, Counted
<1>5. \A c \in S : Before(c) \subseteq S /\ c \notin Before(c)
  BY <1>1, <1>3 DEF Before
<1>6. \A c \in S : IsFiniteSet(Before(c)) /\ Cardinality(Before(c)) \in Nat
  BY <1>4, <1>5, FS_Subset, FS_CardinalityType
<1>7. \A x \in S : \A U : IsFiniteSet(U) /\ Before(x) \subseteq U /\ x \in U => Cardinality(Before(x)) < Cardinality(U)
  <2>1. TAKE x \in S
  <2>2. TAKE U
  <2>3. HAVE IsFiniteSet(U) /\ Before(x) \subseteq U /\ x \in U
  <2>4. PICK B : B = Before(x)
    OBVIOUS
  <2>5. B \in SUBSET U /\ B # U /\ Cardinality(B) \in Nat
    BY <1>5, <1>6, <2>3, <2>4
  <2>6. Cardinality(U) \in Nat
    BY <2>3, FS_CardinalityType
  <2>7. Cardinality(B) <= Cardinality(U) /\ (Cardinality(U) = Cardinality(B) => U = B)
    BY <2>3, <2>5, FS_Subset
  <2> QED BY <2>4, <2>5, <2>6, <2>7
<1>8. Cardinality(Before(b)) < Cardinality(S)
  BY <1>1, <1>4, <1>5, <1>7
<1>9. Cardinality(Before(b)) \in 0..MaxAllocs
  <2>1. Cardinality(Before(b)) \in Nat
    BY <1>1, <1>6
  <2> QED BY <1>2, <1>4, <1>8, <2>1
<1>10. ASSUME NEW c \in S, c < b
       PROVE  Cardinality(Before(c)) \in Nat /\ Cardinality(Before(c)) < Cardinality(Before(b))
  <2>1. Before(c) \subseteq Before(b) /\ c \in Before(b)
    <3>1. b \in Nat /\ c \in Nat
      BY <1>1, <1>3
    <3>2. \A d \in S : d < c => d < b
      BY <1>3, <1>10, <3>1
    <3> QED BY <1>1, <1>10, <3>2 DEF Before
  <2> QED BY <1>1, <1>6, <1>7, <2>1
<1> QED
  BY <1>1, <1>9, <1>10

\* What is there when an allocation is tried again is what the program can reach, or
\* what strays led to can.
Found == ReachedFrom(References \cup kept)

LEMMA AllReached ==
  ASSUME BInv, CInv, UInv, gc.phase = "idle", job.tried
  PROVE  ObjectsOf(mem, from) \subseteq Found
<1>1. PICK S : S = ObjectsOf(mem, from)
  OBVIOUS
<1>21. PICK ws : ws = References \cup kept
  OBVIOUS
<1>22. ws \subseteq Met \cup {Tagged}
  <2>1. kept \subseteq Met \cup {Tagged}
    BY DEF UInv, ObjectsUsed, Met
  <2> QED BY <1>21, <2>1, ReferencesMet
<1>2. PICK r : GrowWalk(r, ws) /\ Found = r[MaxAllocs] /\ \A n \in 0..MaxAllocs : r[n] \subseteq Met
  BY <1>21, <1>22, GrowExists DEF Found
<1>3. PICK N \in Nat : N = MaxAllocs
  BY BoundsAssumption
<1>4. r[0] = ws \ {Tagged} /\ \A n \in 1..N : r[n] = UNION {Closed(w) : w \in r[n - 1]}
  BY <1>2, <1>3 DEF GrowWalk
<1>5. \A n \in 1..N : r[n - 1] \subseteq r[n]
  <2>1. TAKE n \in 1..N
  <2>2. PICK q : q = r[n - 1]
    OBVIOUS
  <2>3. \A w \in q : w \in Closed(w)
    BY DEF Closed
  <2>4. r[n] = UNION {Closed(w) : w \in q}
    BY <1>4, <2>2
  <2> QED BY <2>2, <2>3, <2>4, Zenon
<1>6. \A b \in S : b # Tagged /\ b \in Met /\ b \in Words
  <2>1. from \in {0, SpaceWords}
    BY BFacts
  <2>2. \A b \in Space(from) : b # Tagged /\ b \in Words
    BY <2>1, FromFacts DEF Tagged
  <2> QED BY <1>1, <2>2 DEF ObjectsOf, Met, Old
<1>7. \A b \in S : b \in ws \/ Referred(mem, from, b)
  BY <1>1, <1>21 DEF UInv, ObjectsUsed, References
<1>8. \A b \in S : b \in ws => b \in r[0]
  BY <1>4, <1>6
<1>9. ASSUME NEW c \in S, NEW b \in S, NEW i \in 1..Len(WordsOf(mem[c])), WordsOf(mem[c])[i] = b
      PROVE  b \in Closed(c)
  <2>1. Valid(c)
    BY <1>6, MetFacts
  <2>2. mem[c].fwd = 0
    BY <1>6, IdleFacts
  <2>3. Refs(c) = WordsOf(mem[c])
    BY <2>2 DEF Refs, Now, WordsOf
  <2> QED BY <1>6, <1>9, <2>1, <2>3 DEF Closed
<1> DEFINE Good(k) == r[0] \subseteq r[k] /\ \A b \in S : Cardinality(Before(b)) <= k => b \in r[k]
           T == {k \in Nat : k <= N => Good(k)}
<1>10. 0 \in T
  <2>1. ASSUME NEW b \in S, Cardinality(Before(b)) <= 0 PROVE b \in r[0]
    <3>1. Cardinality(Before(b)) \in 0..MaxAllocs
      BY <1>1, BeforeFacts
    <3>2. \A c \in S : ~(c < b)
      <4>1. \A c \in S : c < b => Cardinality(Before(c)) \in Nat /\ Cardinality(Before(c)) < Cardinality(Before(b))
        BY <1>1, BeforeFacts
      <4> QED BY <1>3, <2>1, <3>1, <4>1
    <3>3. ~Referred(mem, from, b)
      BY <1>1, <3>2 DEF Referred
    <3> QED BY <1>7, <1>8, <3>3
  <2>2. Good(0)
    BY <2>1
  <2> HIDE DEF Good
  <2> QED BY <2>2
<1>11. ASSUME NEW k \in Nat, k \in T, k + 1 <= N PROVE Good(k + 1)
  <2>1. Good(k) /\ k + 1 \in 1..N /\ (k + 1) - 1 = k
    <3> HIDE DEF Good
    <3>1. k <= N /\ k + 1 \in 1..N /\ (k + 1) - 1 = k
      BY <1>11
    <3> QED BY <1>11, <3>1
  <2>2. r[k] \subseteq r[k + 1] /\ r[k + 1] = UNION {Closed(w) : w \in r[k]}
    BY <1>4, <1>5, <2>1
  <2>3. ASSUME NEW b \in S, Cardinality(Before(b)) <= k + 1 PROVE b \in r[k + 1]
    <3>1. CASE b \in ws
      BY <1>8, <2>1, <2>2, <3>1
    <3>2. CASE Referred(mem, from, b)
      <4>1. PICK c \in S : c < b /\ \E i \in 1..Len(WordsOf(mem[c])) : WordsOf(mem[c])[i] = b
        BY <1>1, <3>2 DEF Referred
      <4>2. b \in Closed(c)
        BY <1>9, <4>1
      <4>3. Cardinality(Before(c)) \in Nat /\ Cardinality(Before(c)) < Cardinality(Before(b))
        BY <1>1, <4>1, BeforeFacts
      <4>4. Cardinality(Before(b)) \in Nat
        BY <1>1, <1>3, BeforeFacts
      <4>5. Cardinality(Before(c)) <= k
        BY <2>3, <4>3, <4>4
      <4>6. c \in r[k]
        BY <2>1, <4>5
      <4> QED BY <2>2, <4>2, <4>6
    <3> QED BY <1>7, <3>1, <3>2
  <2> QED BY <2>1, <2>2, <2>3
<1>12. \A k \in Nat : k \in T => k + 1 \in T
  <2> HIDE DEF Good
  <2> QED BY <1>11
<1> HIDE DEF T
<1>13. Nat \subseteq T
  BY <1>10, <1>12, NatSetInduction
<1>14. Good(N)
  <2> HIDE DEF Good
  <2> QED BY <1>3, <1>13 DEF T
<1>15. \A b \in S : Cardinality(Before(b)) <= N
  <2>1. \A b \in S : Cardinality(Before(b)) \in 0..MaxAllocs
    BY <1>1, BeforeFacts
  <2> QED BY <1>3, <2>1
<1> QED
  BY <1>1, <1>2, <1>3, <1>14, <1>15

\* The last object before a place: it ends where the next one begins, or where the
\* free words do.
LEMMA LastBefore ==
  ASSUME NEW W, NEW m \in Heap(W), NEW lo \in {0, SpaceWords}, NEW hi, Tiles(m, lo, hi),
         NEW x \in (lo + 2)..(hi + 1), x = hi + 1 \/ m[x] # NoObj
  PROVE  \E a \in ObjectsOf(m, lo) : a < x /\ a + Size(m[a]) = x
<1>1. lo \in Nat /\ SpaceWords \in Nat /\ hi \in lo..(lo + SpaceWords) /\ Space(lo) \subseteq Words
  BY SpaceFacts DEF Tiles
<1>2. hi \in Nat /\ lo < hi /\ x \in Nat /\ lo + 1 < x /\ x <= hi + 1
  BY <1>1
<1>3. lo + 1 \in ObjectsOf(m, lo)
  <2>1. lo + 1 \in Space(lo)
    BY <1>1, <1>2 DEF Space
  <2> QED BY <1>2, <2>1 DEF Tiles, ObjectsOf
<1>4. PICK T : T = {a \in ObjectsOf(m, lo) : a < x}
  OBVIOUS
<1>5. \A a \in ObjectsOf(m, lo) : a \in Nat /\ a \in Space(lo) /\ m[a] # NoObj /\ a \in Words
  BY <1>1 DEF ObjectsOf, Space
<1>6. T \in SUBSET (0..x) /\ T # {}
  BY <1>2, <1>3, <1>4, <1>5
<1>7. PICK a \in T : \A k \in T : k <= a
  BY <1>2, <1>6, NatMaximum
<1>8. a \in ObjectsOf(m, lo) /\ a < x /\ a \in Nat /\ a \in Space(lo) /\ m[a] # NoObj /\ a \in Words
  BY <1>4, <1>5
<1>9. Size(m[a]) \in 1..3
  BY <1>8, Sizes DEF Heap
<1>10. PICK e \in Nat : e = a + Size(m[a])
  BY <1>8, <1>9
<1>11. e <= x
  <2>1. CASE x = hi + 1
    BY <1>8, <1>10, <2>1 DEF Tiles
  <2>2. CASE x # hi + 1
    <3>1. x \in Space(lo) /\ m[x] # NoObj
      BY <1>1, <1>2, <2>2 DEF Space
    <3> QED BY <1>8, <1>10, <3>1 DEF Tiles
  <2> QED BY <2>1, <2>2
<1>12. ~(e < x)
  <2>1. SUFFICES ASSUME e < x PROVE FALSE
    OBVIOUS
  <2>2. e <= hi /\ lo < e
    BY <1>1, <1>2, <1>8, <1>9, <1>10, <2>1 DEF Space
  <2>3. m[e] # NoObj
    BY <1>8, <1>10, <2>2 DEF Tiles
  <2>4. e \in Space(lo)
    BY <1>1, <1>2, <1>10, <2>2 DEF Space
  <2>5. e \in T
    BY <1>4, <2>1, <2>3, <2>4 DEF ObjectsOf
  <2>6. e <= a
    BY <1>7, <2>5
  <2> QED BY <1>8, <1>9, <1>10, <2>6
<1> QED
  BY <1>2, <1>8, <1>10, <1>11, <1>12

\* The words of the objects that are reached, one address after the other.
TotalWalk(t) ==
  t = [n \in 0..SpaceWords |->
         IF n = 0 THEN 0 ELSE t[n - 1] + IF from + n \in Found THEN Size(mem[from + n]) ELSE 0]

\* The recursion of OutOfMemoryIsReal has a value.
LEMMA TotalExists ==
  ASSUME BInv
  PROVE  /\ \E t : TotalWalk(t)
         /\ \A t : TotalWalk(t) =>
              /\ \A n \in 0..SpaceWords : t[n] \in Nat
              /\ t[0] = 0
              /\ \A n \in 1..SpaceWords :
                   t[n] = t[n - 1] + IF from + n \in Found THEN Size(mem[from + n]) ELSE 0
<1>1. PICK R : R = Found
  OBVIOUS
<1>2. from \in {0, SpaceWords} /\ mem \in Heap(Word) /\ SpaceWords \in Nat
  BY BFacts, SpaceFacts
<1>3. \A n \in 1..SpaceWords : Size(mem[from + n]) \in Nat
  <2>1. \A n \in 1..SpaceWords : from + n \in Words
    BY <1>2, SpaceFacts DEF Words
  <2>2. \A n \in 1..SpaceWords : Size(mem[from + n]) \in 1..3
    BY <1>2, <2>1, Sizes DEF Heap
  <2> QED BY <2>2
<1> DEFINE Add(n) == IF from + n \in R THEN Size(mem[from + n]) ELSE 0
           F == [p \in (1..SpaceWords) \X Nat |-> p[2] + Add(p[1])]
<1>4. \A n \in 1..SpaceWords : Add(n) \in Nat
  BY <1>3
<1>5. PICK t : TotalWalk(t)
  <2>1. \A n \in 1..SpaceWords, q \in Nat : F[<<n, q>>] = q + Add(n) /\ F[<<n, q>>] \in Nat
    <3> HIDE DEF Add
    <3> QED BY <1>4
  <2> HIDE DEF F
  <2>2. Solvable(SpaceWords, Nat, 0, F)
    BY <1>2, <2>1, RecursionExists
  <2>3. PICK t \in [0..SpaceWords -> Nat] : t[0] = 0 /\ \A n \in 1..SpaceWords : t[n] = F[<<n, t[n - 1]>>]
    BY <2>2 DEF Solvable
  <2>4. \A n \in 1..SpaceWords : n - 1 \in 0..SpaceWords
    BY <1>2
  <2>5. \A n \in 1..SpaceWords : t[n] = t[n - 1] + Add(n)
    <3> HIDE DEF Add
    <3> QED BY <2>1, <2>3, <2>4
  <2>6. \A n \in 0..SpaceWords : t[n] = IF n = 0 THEN 0 ELSE t[n - 1] + Add(n)
    <3> HIDE DEF Add
    <3> QED BY <1>2, <2>3, <2>5
  <2>7. t = [n \in 0..SpaceWords |-> t[n]]
    BY <2>3
  <2>8. t = [n \in 0..SpaceWords |-> IF n = 0 THEN 0 ELSE t[n - 1] + Add(n)]
    <3> HIDE DEF Add
    <3> QED BY ONLY <2>6, <2>7, Zenon
  <2> QED BY <1>1, <2>8 DEF TotalWalk
<1>6. ASSUME NEW t2, TotalWalk(t2)
      PROVE  /\ \A n \in 0..SpaceWords : t2[n] \in Nat
             /\ t2[0] = 0
             /\ \A n \in 1..SpaceWords : t2[n] = t2[n - 1] + Add(n)
  <2>1. \A n \in 0..SpaceWords : t2[n] = IF n = 0 THEN 0 ELSE t2[n - 1] + Add(n)
    BY <1>1, <1>6 DEF TotalWalk
  <2> HIDE DEF Add
  <2>2. t2[0] = 0 /\ \A n \in 1..SpaceWords : t2[n] = t2[n - 1] + Add(n)
    BY <1>2, <2>1
  <2>3. t2[0] \in Nat /\ \A n \in 1..SpaceWords : t2[n - 1] \in Nat => t2[n] \in Nat
    BY <1>4, <2>2
  <2>4. \A n \in 0..SpaceWords : t2[n] \in Nat
    BY <1>2, <2>3, RecursionStays
  <2> QED BY <2>2, <2>4
<1> QED
  BY <1>1, <1>5, <1>6

\* If every object is reached, the sum is all the space that is in use.
LEMMA TotalFills ==
  ASSUME BInv, ObjectsOf(mem, from) \subseteq Found, NEW t, TotalWalk(t)
  PROVE  t[SpaceWords] \in Nat /\ t[SpaceWords] >= free - from
<1>1. PICK R : R = Found
  OBVIOUS
<1>2. PICK S : S = ObjectsOf(mem, from)
  OBVIOUS
<1>3. /\ from \in {0, SpaceWords} /\ mem \in Heap(Word) /\ SpaceWords \in Nat /\ Tiles(mem, from, free)
      /\ from \in Nat /\ free \in from..(from + SpaceWords) /\ free \in Nat
  <2>1. from \in {0, SpaceWords} /\ mem \in Heap(Word) /\ SpaceWords \in Nat /\ Tiles(mem, from, free)
    BY BFacts, SpaceFacts
  <2>2. from \in Nat /\ free \in from..(from + SpaceWords)
    BY <2>1 DEF Tiles
  <2> QED BY <2>1, <2>2
<1>4. /\ \A n \in 0..SpaceWords : t[n] \in Nat
      /\ t[0] = 0
      /\ \A n \in 1..SpaceWords : t[n] = t[n - 1] + IF from + n \in R THEN Size(mem[from + n]) ELSE 0
  BY <1>1, TotalExists
<1>5. \A a \in S : a \in R /\ a \in Nat /\ a \in (from + 1)..(from + SpaceWords) /\ Size(mem[a]) \in 1..3 /\ mem[a] # NoObj
                    /\ a + Size(mem[a]) <= free + 1
  <2>1. TAKE a \in S
  <2>2. a \in Space(from) /\ mem[a] # NoObj /\ a \in R
    BY <1>1, <1>2 DEF ObjectsOf
  <2>3. a \in Words
    BY <1>3, <2>2, FromFacts
  <2>4. Size(mem[a]) \in 1..3
    BY <1>3, <2>3, Sizes DEF Heap
  <2>5. a + Size(mem[a]) <= free + 1
    BY <1>3, <2>2 DEF Tiles
  <2> QED BY <1>3, <2>2, <2>4, <2>5 DEF Space
<1> DEFINE Good(n) == \A a \in S : a <= from + n => t[n] >= a + Size(mem[a]) - 1 - from
           T == {n \in Nat : n <= SpaceWords => Good(n)}
<1>6. 0 \in T
  <2>1. \A a \in S : ~(a <= from)
    BY <1>3, <1>5
  <2>2. Good(0)
    BY <1>3, <2>1
  <2> HIDE DEF Good
  <2> QED BY <2>2
<1>7. ASSUME NEW n \in Nat, n \in T, n + 1 <= SpaceWords PROVE Good(n + 1)
  <2>1. Good(n)
    <3> HIDE DEF Good
    <3> QED BY <1>3, <1>7
  <2>2. n \in 0..SpaceWords /\ n + 1 \in 1..SpaceWords /\ (n + 1) - 1 = n /\ from + (n + 1) = from + n + 1
    BY <1>3, <1>7
  <2>3. PICK x, y \in Nat : x = t[n] /\ y = t[n + 1]
    BY <1>4, <2>2
  <2>4. y = x + IF from + n + 1 \in R THEN Size(mem[from + n + 1]) ELSE 0
    BY <1>4, <2>2, <2>3
  <2>5. ASSUME NEW a \in S, a <= from + n + 1 PROVE y >= a + Size(mem[a]) - 1 - from
    <3>1. PICK z \in 1..3 : z = Size(mem[a])
      BY <1>5
    <3>2. CASE a = from + n + 1
      <4>1. y = x + z
        BY <1>5, <2>4, <3>1, <3>2
      <4>2. x >= n
        <5>1. CASE n = 0
          BY <5>1
        <5>2. CASE n # 0
          <6>1. a \in (from + 2)..(free + 1) /\ mem[a] # NoObj
            BY <1>3, <1>5, <3>1, <3>2, <5>2
          <6>2. PICK c \in S : c < a /\ c + Size(mem[c]) = a
            BY <1>2, <1>3, <6>1, LastBefore
          <6>3. c <= from + n
            BY <1>3, <1>5, <3>2, <6>2
          <6>4. x >= c + Size(mem[c]) - 1 - from
            BY <2>1, <2>3, <6>3
          <6>5. PICK u \in 1..3 : u = Size(mem[c])
            BY <1>5
          <6>6. x >= c + u - 1 - from /\ c + u = a /\ c \in Nat
            BY <1>5, <6>2, <6>4, <6>5
          <6>7. x >= a - 1 - from
            BY <1>3, <6>6
          <6> QED BY <1>3, <3>2, <6>7
        <5> QED BY <5>1, <5>2
      <4> QED BY <1>3, <3>1, <3>2, <4>1, <4>2
    <3>3. CASE a # from + n + 1
      <4>1. a \in Nat /\ a <= from + n
        BY <1>3, <1>5, <2>5, <3>3
      <4>2. x >= a + z - 1 - from
        BY <2>1, <2>3, <3>1, <4>1
      <4>3. y >= x
        <5>1. CASE from + n + 1 \in R
          <6>1. from + n + 1 \in Words
            BY <1>3, <2>2, SpaceFacts DEF Words
          <6>2. Size(mem[from + n + 1]) \in 1..3
            BY <1>3, <6>1, Sizes DEF Heap
          <6> QED BY <2>4, <5>1, <6>2
        <5>2. CASE from + n + 1 \notin R
          BY <2>4, <5>2
        <5> QED BY <5>1, <5>2
      <4> QED BY <1>3, <3>1, <4>1, <4>2, <4>3
    <3> QED BY <3>2, <3>3
  <2> QED BY <1>3, <2>2, <2>3, <2>5
<1>8. \A n \in Nat : n \in T => n + 1 \in T
  <2> HIDE DEF Good
  <2> QED BY <1>7
<1> HIDE DEF T
<1>9. Nat \subseteq T
  BY <1>6, <1>8, NatSetInduction
<1>10. Good(SpaceWords)
  <2> HIDE DEF Good
  <2> QED BY <1>3, <1>9 DEF T
<1>11. t[SpaceWords] \in Nat
  BY <1>3, <1>4
<1>12. t[SpaceWords] >= free - from
  <2>1. CASE free = from
    BY <1>3, <1>11, <2>1
  <2>2. CASE free # from
    <3>1. free + 1 \in (from + 2)..(free + 1)
      BY <1>3, <2>2
    <3>2. PICK x : x = free + 1
      OBVIOUS
    <3>3. PICK a \in S : a < x /\ a + Size(mem[a]) = x
      BY <1>2, <1>3, <3>1, <3>2, LastBefore
    <3>4. a <= from + SpaceWords
      BY <1>5
    <3>5. t[SpaceWords] >= a + Size(mem[a]) - 1 - from
      BY <1>10, <3>4
    <3>6. PICK u \in 1..3 : u = Size(mem[a])
      BY <1>5
    <3>7. t[SpaceWords] >= a + u - 1 - from /\ a + u = free + 1 /\ a \in Nat
      BY <1>5, <3>2, <3>3, <3>5, <3>6
    <3>8. PICK y \in Nat : y = t[SpaceWords]
      BY <1>11
    <3>9. y >= free - from
      BY <1>3, <3>7, <3>8
    <3> QED BY <3>8, <3>9
  <2> QED BY <2>1, <2>2
<1> QED
  BY <1>11, <1>12

\* So an allocation that is given up had no room beside what is found.
LEMMA TrapIsReal ==
  ASSUME BInv, CInv, UInv
  PROVE  OutOfMemoryIsReal
<1>1. SUFFICES ASSUME outcome = "trap" PROVE OutOfMemoryIsReal
  BY DEF OutOfMemoryIsReal
<1>2. gc.phase = "idle" /\ job.tried /\ ~Fits
  BY <1>1 DEF UInv, Trapped
<1>3. ObjectsOf(mem, from) \subseteq Found
  BY <1>2, AllReached
<1>4. PICK t : t = CHOOSE q : TotalWalk(q)
  OBVIOUS
<1>5. TotalWalk(t)
  BY <1>4, TotalExists
<1>6. t[SpaceWords] \in Nat /\ t[SpaceWords] >= free - from
  BY <1>3, <1>5, TotalFills
<1>7. job.size \in Nat /\ from \in Nat /\ free \in Nat /\ SpaceWords \in Nat
  <2>1. from \in {0, SpaceWords} /\ SpaceWords \in Nat /\ Tiles(mem, from, free)
    BY BFacts, SpaceFacts
  <2>2. job \in Jobs(Word)
    BY DEF BInv, JobIn
  <2>3. from \in Nat /\ free \in from..(from + SpaceWords)
    BY <2>1 DEF Tiles
  <2> QED BY <2>1, <2>2, <2>3 DEF Jobs
<1>8. t[SpaceWords] + job.size > SpaceWords
  <2>1. PICK x \in Nat : x = t[SpaceWords]
    BY <1>6
  <2>2. x >= free - from /\ ~(free + job.size <= from + SpaceWords)
    BY <1>2, <1>6, <2>1 DEF Fits
  <2>3. x + job.size > SpaceWords
    BY <1>7, <2>2
  <2> QED BY <2>1, <2>3
<1> QED
  BY <1>4, <1>8 DEF OutOfMemoryIsReal, TotalWalk, Found

\* For the same programs, when an allocation is given up the objects that the program
\* can reach, or that the strays of the last collection led to, leave no room for what
\* was asked: no other garbage was kept, and the retry was not given up too early
\* (collect_and_retry_allocation).
THEOREM OutOfMemoryReal ==
  ASSUME PlainPrograms
  PROVE  Spec => []OutOfMemoryIsReal
<1>1. BInv /\ CInv /\ UInv => OutOfMemoryIsReal
  BY TrapIsReal
<1> QED
  BY <1>1, BasicInvariant, ReferencesInvariant, UseInvariant, PTL

=============================================================================
