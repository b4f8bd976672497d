------------------------ MODULE DecodeMemory_proofs -------------------------
(***************************************************************************)
(* The memory behind decoded values, for any number and length of arrays,  *)
(* values, arms and writes of the caller: nobody writes to what a caller   *)
(* holds, and decoding never writes to its input.                          *)
(***************************************************************************)
EXTENDS DecodeMemory, Facts_proofs

-----------------------------------------------------------------------------
(* The inductive strengthening.  The heap, the frames, the field and the    *)
(* leaves are parameters, so that a step is two values of each.             *)

Part(c, i, n) == SubSeq(c, i + 1, i + n)

ShownIn(h, s) == Part(h[s.arr], s.off, s.len)
FitsIn(h, s)  == s.len <= s.cap /\ s.off + s.cap <= Len(h[s.arr])
Apart(s, t)   == s.arr = t.arr => s.off + s.cap <= t.off \/ t.off + t.cap <= s.off

\* A value of the caller: one of src/nocopy is the input where it was decoded.
LeafOK(h, l) ==
    /\ FitsIn(h, l.at) /\ Len(l.want) = l.at.len
    /\ IF l.live THEN l.at.arr = Input /\ l.at.off = l.src
                 ELSE l.at.arr # Input /\ ShownIn(h, l.at) = l.want

HeldOK(h, lv) ==
    /\ \A i \in 1 .. Len(lv) : LeafOK(h, lv[i])
    /\ \A i, j \in 1 .. Len(lv) :
          i # j /\ ~lv[i].live /\ ~lv[j].live => Apart(lv[i].at, lv[j].at)

\* The field has an array of its own.
FieldOK(h, fr, fd, lv) == fd # None =>
    /\ LeafOK(h, fd) /\ ~fd.live
    /\ \A i \in 1 .. Len(lv) : lv[i].at.arr # fd.at.arr
    /\ \A k \in 1 .. Len(fr) : fr[k].arr # fd.at.arr

\* A frame reads within its array, behind what frames and values inside have
\* taken from it.
ReadsOK(h, fr, lv) ==
    /\ \A k \in 1 .. Len(fr) :
          /\ fr[k].pos <= fr[k].end /\ fr[k].end <= Len(h[fr[k].arr])
          /\ \A i \in 1 .. Len(lv) : ~lv[i].live /\ lv[i].at.arr = fr[k].arr =>
                lv[i].at.off + lv[i].at.cap <= fr[k].pos
    /\ \A k, m \in 1 .. Len(fr) : k < m /\ fr[k].arr = fr[m].arr => fr[m].end <= fr[k].pos

\* The arena r begins its array, which is neither read nor the field's, and the
\* values cut from it lie in front of its room.
ArenaIs(h, fr, fd, lv, r) ==
    /\ r.arr # Input /\ r.off = 0 /\ FitsIn(h, r)
    /\ \A k \in 1 .. Len(fr) : fr[k].arr # r.arr
    /\ fd # None => fd.at.arr # r.arr
    /\ \A i \in 1 .. Len(lv) : ~lv[i].live /\ lv[i].at.arr = r.arr =>
          lv[i].at.off + lv[i].at.cap <= r.len

\* Of the frames only the one on top has an arena that is up to date.
ArenaOK(h, fr, fd, lv) ==
    Len(fr) > 0 /\ fr[Len(fr)].arena # None => ArenaIs(h, fr, fd, lv, fr[Len(fr)].arena)

Typed(h, fr, fd, lv) ==
    /\ h \in [Arrays -> Seq(Cell)] /\ Len(h[Input]) = InputLen
    /\ fr \in Seq(Frame) /\ Len(fr) <= MaxDepth
    /\ fd \in Leaf \cup {None}
    /\ lv \in Seq(Leaf) /\ Len(lv) <= MaxLeaves

Good(h, fr, fd, lv) ==
    /\ Typed(h, fr, fd, lv)
    /\ HeldOK(h, lv) /\ FieldOK(h, fr, fd, lv)
    /\ ReadsOK(h, fr, lv) /\ ArenaOK(h, fr, fd, lv)

MemInv == Good(heap, frames, field, leaves) /\ fills \in 0 .. MaxFills

-----------------------------------------------------------------------------
(* Cells of arrays.                                                         *)

LEMMA SubSeqElements ==
    ASSUME NEW S, NEW c \in Seq(S), NEW i \in Nat, NEW n \in Nat, i + n <= Len(c)
    PROVE  /\ SubSeq(c, i + 1, i + n) \in Seq(S)
           /\ Len(SubSeq(c, i + 1, i + n)) = n
           /\ \A j \in 1 .. n : SubSeq(c, i + 1, i + n)[j] = c[i + j]
<1>1. Len(c) \in Nat
  OBVIOUS
<1>2. SubSeq(c, i + 1, i + n) \in Seq(S) /\ Len(SubSeq(c, i + 1, i + n)) = n
  <2>1. CASE n = 0
    BY <1>1, <2>1
  <2>2. CASE n > 0
    BY <1>1, <2>2
  <2>3. QED
    BY <2>1, <2>2
<1>3. ASSUME NEW j \in 1 .. n
      PROVE  SubSeq(c, i + 1, i + n)[j] = c[i + j]
  BY <1>1
<1>4. QED
  BY <1>2, <1>3

\* Parts of two sequences with the same elements are the same.
LEMMA SubSeqSame ==
    ASSUME NEW S, NEW c \in Seq(S), NEW d \in Seq(S), NEW i \in Nat, NEW n \in Nat,
           i + n <= Len(c), i + n <= Len(d), \A j \in i + 1 .. i + n : c[j] = d[j]
    PROVE  SubSeq(c, i + 1, i + n) = SubSeq(d, i + 1, i + n)
<1> DEFINE x == SubSeq(c, i + 1, i + n)
           y == SubSeq(d, i + 1, i + n)
<1>1. /\ x \in Seq(S) /\ Len(x) = n /\ \A j \in 1 .. n : x[j] = c[i + j]
      /\ y \in Seq(S) /\ Len(y) = n /\ \A j \in 1 .. n : y[j] = d[i + j]
  BY SubSeqElements
<1>2. \A j \in 1 .. n : c[i + j] = d[i + j]
  OBVIOUS
<1> HIDE DEF x, y
<1>3. \A j \in 1 .. Len(x) : x[j] = y[j]
  BY <1>1, <1>2
<1>4. x = y
  BY ONLY <1>1, <1>3, SeqEqual
<1>5. QED
  BY <1>4 DEF x, y

LEMMA StoredElements ==
    ASSUME NEW S, NEW c \in Seq(S), NEW off \in Nat, NEW new \in Seq(S)
    PROVE  /\ Stored(c, off, new) \in Seq(S)
           /\ Len(Stored(c, off, new)) = Len(c)
           /\ \A i \in 1 .. Len(c) : Stored(c, off, new)[i] =
                 IF i > off /\ i <= off + Len(new) THEN new[i - off] ELSE c[i]
<1>1. DOMAIN c = 1 .. Len(c) /\ Len(c) \in Nat /\ Len(new) \in Nat
  BY LenProperties
<1>2. ASSUME NEW i \in 1 .. Len(c), i > off, i <= off + Len(new)
      PROVE  new[i - off] \in S
  BY <1>1, <1>2
<1>3. \A i \in 1 .. Len(c) :
         (IF i > off /\ i <= off + Len(new) THEN new[i - off] ELSE c[i]) \in S
  BY <1>1, <1>2
<1>4. Stored(c, off, new) =
         [i \in 1 .. Len(c) |-> IF i > off /\ i <= off + Len(new) THEN new[i - off] ELSE c[i]]
  BY <1>1 DEF Stored
<1>5. QED
  BY <1>1, <1>3, <1>4

LEMMA StoredElsewhere ==
    ASSUME NEW S, NEW c \in Seq(S), NEW off \in Nat, NEW new \in Seq(S),
           NEW i \in Nat, NEW n \in Nat, i + n <= Len(c),
           i + n <= off \/ off + Len(new) <= i
    PROVE  Part(Stored(c, off, new), i, n) = Part(c, i, n)
<1> DEFINE d == Stored(c, off, new)
<1>1. /\ d \in Seq(S) /\ Len(d) = Len(c)
      /\ \A j \in 1 .. Len(c) : d[j] =
            IF j > off /\ j <= off + Len(new) THEN new[j - off] ELSE c[j]
      /\ Len(c) \in Nat /\ Len(new) \in Nat
  BY StoredElements
<1> HIDE DEF d
<1>2. \A j \in i + 1 .. i + n : d[j] = c[j]
  BY <1>1
<1>3. SubSeq(d, i + 1, i + n) = SubSeq(c, i + 1, i + n)
  BY <1>1, <1>2, SubSeqSame
<1>4. QED
  BY <1>3 DEF d, Part

LEMMA StoredThere ==
    ASSUME NEW S, NEW c \in Seq(S), NEW off \in Nat, NEW new \in Seq(S),
           off + Len(new) <= Len(c)
    PROVE  Part(Stored(c, off, new), off, Len(new)) = new
<1> DEFINE d == Stored(c, off, new)
           n == Len(new)
           x == SubSeq(d, off + 1, off + n)
<1>1. /\ d \in Seq(S) /\ Len(d) = Len(c)
      /\ \A j \in 1 .. Len(c) : d[j] =
            IF j > off /\ j <= off + n THEN new[j - off] ELSE c[j]
      /\ Len(c) \in Nat /\ n \in Nat
  BY StoredElements
<1> HIDE DEF d
<1>2. x \in Seq(S) /\ Len(x) = n /\ \A j \in 1 .. n : x[j] = d[off + j]
  BY <1>1, SubSeqElements
<1> HIDE DEF x
<1>3. \A j \in 1 .. Len(x) : x[j] = new[j]
  BY <1>1, <1>2
<1>4. x = new
  BY ONLY <1>2, <1>3, new \in Seq(S), n = Len(new), SeqEqual
<1>5. QED
  BY <1>4 DEF x, d, Part

LEMMA CellTypes ==
    ASSUME NEW by \in Nat, NEW off \in Nat, NEW n \in Nat
    PROVE  /\ Filled(by, off, n) \in Seq(Cell) /\ Len(Filled(by, off, n)) = n
           /\ Blank(n) \in Seq(Cell) /\ Len(Blank(n)) = n
BY DEF Filled, Blank, Cell

-----------------------------------------------------------------------------
(* Values and writes.                                                       *)

LEMMA LeafTypes ==
    ASSUME NEW l \in Leaf
    PROVE  /\ l.at \in Slices /\ l.at.arr \in Arrays
           /\ l.at.off \in Nat /\ l.at.len \in Nat /\ l.at.cap \in Nat
           /\ l.live \in BOOLEAN /\ l.want \in Seq(Cell) /\ l.src \in Nat
BY DEF Leaf, Slices

\* An array a value does not use is filled, or a larger one takes its place.
LEMMA LeafSame ==
    ASSUME NEW h, NEW g, NEW l \in Leaf, LeafOK(h, l), g[l.at.arr] = h[l.at.arr]
    PROVE  LeafOK(g, l)
BY DEF LeafOK, FitsIn, ShownIn

\* Cells from off on are filled, in the array of b.
WrittenTo(h, g, b, off, new) ==
    /\ b \in Arrays /\ off \in Nat /\ new \in Seq(Cell)
    /\ off + Len(new) <= Len(h[b])
    /\ g = [h EXCEPT ![b] = Stored(@, off, new)]

LEMMA WrittenHeap ==
    ASSUME NEW h \in [Arrays -> Seq(Cell)], NEW g, NEW b, NEW off, NEW new,
           WrittenTo(h, g, b, off, new)
    PROVE  /\ g \in [Arrays -> Seq(Cell)]
           /\ \A a \in Arrays : Len(g[a]) = Len(h[a]) /\ (a # b => g[a] = h[a])
           /\ g[b] = Stored(h[b], off, new)
<1>1. Stored(h[b], off, new) \in Seq(Cell) /\ Len(Stored(h[b], off, new)) = Len(h[b])
  BY StoredElements DEF WrittenTo
<1>2. QED
  BY <1>1 DEF WrittenTo

\* A value with none of the cells that are filled, or that shows the input
\* whatever is in it, stays good.
LEMMA LeafWritten ==
    ASSUME NEW h \in [Arrays -> Seq(Cell)], NEW g, NEW b, NEW off, NEW new,
           WrittenTo(h, g, b, off, new), NEW l \in Leaf, LeafOK(h, l),
           l.live \/ (l.at.arr = b =>
                         off + Len(new) <= l.at.off \/ l.at.off + l.at.cap <= off)
    PROVE  LeafOK(g, l)
<1>1. /\ g \in [Arrays -> Seq(Cell)]
      /\ \A a \in Arrays : Len(g[a]) = Len(h[a]) /\ (a # b => g[a] = h[a])
      /\ g[b] = Stored(h[b], off, new)
  BY WrittenHeap
<1>2. /\ l.at.arr \in Arrays /\ l.at.off \in Nat /\ l.at.len \in Nat /\ l.at.cap \in Nat
  BY LeafTypes
<1>3. FitsIn(g, l.at)
  BY <1>1, <1>2 DEF LeafOK, FitsIn
<1>4. CASE l.live
  BY <1>3, <1>4 DEF LeafOK
<1>5. CASE ~l.live /\ l.at.arr # b
  BY <1>1, <1>2, <1>3, <1>5 DEF LeafOK, ShownIn
<1>6. CASE ~l.live /\ l.at.arr = b
  <2>1. /\ b \in Arrays /\ off \in Nat /\ new \in Seq(Cell) /\ Len(new) \in Nat /\ h[b] \in Seq(Cell)
        /\ Len(h[b]) \in Nat
    BY LenProperties DEF WrittenTo
  <2>2. l.at.off + l.at.len <= Len(h[b]) /\ l.at.len <= l.at.cap
    BY <1>2, <1>6, <2>1 DEF LeafOK, FitsIn
  <2>3. l.at.off + l.at.len <= off \/ off + Len(new) <= l.at.off
    BY <1>2, <1>6, <2>1, <2>2
  <2>4. Part(g[b], l.at.off, l.at.len) = Part(h[b], l.at.off, l.at.len)
    <3>1. PICK c \in Seq(Cell), i \in Nat, n \in Nat : c = h[b] /\ i = l.at.off /\ n = l.at.len
      BY <1>2, <2>1
    <3>2. i + n <= Len(c) /\ (i + n <= off \/ off + Len(new) <= i)
      BY <2>2, <2>3, <3>1
    <3>3. Part(Stored(c, off, new), i, n) = Part(c, i, n)
      BY <2>1, <3>2, StoredElsewhere
    <3>4. QED
      BY <1>1, <3>1, <3>3
  <2>5. QED
    BY <1>3, <1>6, <2>4 DEF LeafOK, ShownIn
<1>7. QED
  BY <1>4, <1>5, <1>6

-----------------------------------------------------------------------------
(* The parts of the invariant, one change at a time.                        *)

LEMMA AppendLeaf ==
    ASSUME NEW lv \in Seq(Leaf), NEW l \in Leaf
    PROVE  /\ Append(lv, l) \in Seq(Leaf) /\ Len(Append(lv, l)) = Len(lv) + 1
           /\ \A i \in 1 .. Len(lv) : Append(lv, l)[i] = lv[i]
           /\ Append(lv, l)[Len(lv) + 1] = l
           /\ Len(lv) \in Nat
           /\ \A i \in 1 .. Len(lv) + 1 : i \in 1 .. Len(lv) \/ i = Len(lv) + 1
OBVIOUS

LEMMA HeldGiven ==
    ASSUME NEW h, NEW lv \in Seq(Leaf), HeldOK(h, lv), NEW l \in Leaf, LeafOK(h, l),
           ~l.live => \A i \in 1 .. Len(lv) :
              ~lv[i].live /\ lv[i].at.arr = l.at.arr => lv[i].at.off + lv[i].at.cap <= l.at.off
    PROVE  HeldOK(h, Append(lv, l))
<1> DEFINE mv == Append(lv, l)
           n == Len(lv) + 1
<1>1. /\ Len(mv) = n /\ mv[n] = l
      /\ \A i \in 1 .. Len(lv) : mv[i] = lv[i]
      /\ \A i \in 1 .. n : i \in 1 .. Len(lv) \/ i = n
  BY AppendLeaf
<1> HIDE DEF mv, n
<1>2. \A i \in 1 .. Len(mv) : LeafOK(h, mv[i])
  BY <1>1 DEF HeldOK
<1>3. ASSUME NEW i \in 1 .. Len(mv), NEW j \in 1 .. Len(mv),
             i # j, ~mv[i].live, ~mv[j].live
      PROVE  Apart(mv[i].at, mv[j].at)
  <2>1. CASE i \in 1 .. Len(lv) /\ j \in 1 .. Len(lv)
    BY <1>1, <1>3, <2>1 DEF HeldOK
  <2>2. CASE i \in 1 .. Len(lv) /\ j = n
    BY <1>1, <1>3, <2>2 DEF Apart
  <2>3. CASE i = n /\ j \in 1 .. Len(lv)
    BY <1>1, <1>3, <2>3 DEF Apart
  <2>4. QED
    BY <1>1, <1>3, <2>1, <2>2, <2>3
<1>4. QED
  BY <1>2, <1>3 DEF HeldOK, mv

LEMMA FieldGiven ==
    ASSUME NEW h, NEW fr, NEW fd, NEW lv \in Seq(Leaf), FieldOK(h, fr, fd, lv),
           NEW l \in Leaf, fd # None => l.at.arr # fd.at.arr
    PROVE  FieldOK(h, fr, fd, Append(lv, l))
<1>1. ASSUME NEW i \in 1 .. Len(Append(lv, l)), fd # None
      PROVE  Append(lv, l)[i].at.arr # fd.at.arr
  <2>1. i \in 1 .. Len(lv) \/ i = Len(lv) + 1
    BY AppendLeaf
  <2>2. QED
    BY <1>1, <2>1, AppendLeaf DEF FieldOK
<1>2. QED
  BY <1>1 DEF FieldOK

LEMMA ReadsGiven ==
    ASSUME NEW h, NEW fr, NEW lv \in Seq(Leaf), ReadsOK(h, fr, lv), NEW l \in Leaf,
           ~l.live => \A k \in 1 .. Len(fr) :
              fr[k].arr = l.at.arr => l.at.off + l.at.cap <= fr[k].pos
    PROVE  ReadsOK(h, fr, Append(lv, l))
<1>1. ASSUME NEW k \in 1 .. Len(fr), NEW i \in 1 .. Len(Append(lv, l)),
             ~Append(lv, l)[i].live, Append(lv, l)[i].at.arr = fr[k].arr
      PROVE  Append(lv, l)[i].at.off + Append(lv, l)[i].at.cap <= fr[k].pos
  <2>1. i \in 1 .. Len(lv) \/ i = Len(lv) + 1
    BY AppendLeaf
  <2>2. CASE i \in 1 .. Len(lv)
    BY <1>1, <2>2, AppendLeaf DEF ReadsOK
  <2>3. CASE i = Len(lv) + 1
    BY <1>1, <2>3, AppendLeaf
  <2>4. QED
    BY <2>1, <2>2, <2>3
<1>2. QED
  BY <1>1 DEF ReadsOK

LEMMA ArenaGiven ==
    ASSUME NEW h, NEW fr, NEW fd, NEW lv \in Seq(Leaf), NEW r, ArenaIs(h, fr, fd, lv, r),
           NEW l \in Leaf, ~l.live /\ l.at.arr = r.arr => l.at.off + l.at.cap <= r.len
    PROVE  ArenaIs(h, fr, fd, Append(lv, l), r)
<1>1. ASSUME NEW i \in 1 .. Len(Append(lv, l)),
             ~Append(lv, l)[i].live, Append(lv, l)[i].at.arr = r.arr
      PROVE  Append(lv, l)[i].at.off + Append(lv, l)[i].at.cap <= r.len
  <2>1. i \in 1 .. Len(lv) \/ i = Len(lv) + 1
    BY AppendLeaf
  <2>2. CASE i \in 1 .. Len(lv)
    BY <1>1, <2>2, AppendLeaf DEF ArenaIs
  <2>3. CASE i = Len(lv) + 1
    BY <1>1, <2>3, AppendLeaf
  <2>4. QED
    BY <2>1, <2>2, <2>3
<1>2. QED
  BY <1>1 DEF ArenaIs

\* Replacing the frame on top.
LEMMA TopFrame ==
    ASSUME NEW fr \in Seq(Frame), Len(fr) > 0, NEW f \in Frame
    PROVE  LET er == [fr EXCEPT ![Len(fr)] = f]
           IN  /\ er \in Seq(Frame) /\ Len(er) = Len(fr) /\ er[Len(fr)] = f
               /\ \A k \in 1 .. Len(fr) - 1 : er[k] = fr[k]
BY LastReplaced

\* The frame on top has read on, and its array has kept its length.
LEMMA ReadsMoved ==
    ASSUME NEW h, NEW g, NEW fr \in Seq(Frame), NEW lv \in Seq(Leaf), ReadsOK(h, fr, lv),
           Len(fr) > 0, NEW f \in Frame,
           f.arr = fr[Len(fr)].arr, f.end = fr[Len(fr)].end,
           fr[Len(fr)].pos <= f.pos, f.pos <= f.end,
           \A k \in 1 .. Len(fr) : g[fr[k].arr] = h[fr[k].arr]
    PROVE  ReadsOK(g, [fr EXCEPT ![Len(fr)] = f], lv)
<1> DEFINE er == [fr EXCEPT ![Len(fr)] = f]
           n == Len(fr)
<1>1. /\ Len(er) = n /\ er[n] = f /\ n \in Nat \ {0}
      /\ \A k \in 1 .. n - 1 : er[k] = fr[k]
  BY TopFrame
<1>2. /\ \A k \in 1 .. n : fr[k] \in Frame /\ fr[k].pos \in Nat /\ fr[k].end \in Nat
      /\ f.pos \in Nat /\ f.end \in Nat
      /\ \A i \in 1 .. Len(lv) : lv[i].at.off \in Nat /\ lv[i].at.cap \in Nat
  <2>1. \A i \in 1 .. Len(lv) : lv[i] \in Leaf
    OBVIOUS
  <2>2. \A k \in 1 .. n : fr[k] \in Frame
    OBVIOUS
  <2>3. \A e \in Frame : e.pos \in Nat /\ e.end \in Nat
    BY DEF Frame
  <2>4. QED
    BY <2>1, <2>2, <2>3, LeafTypes
<1> HIDE DEF er
<1>3. \A k \in 1 .. n : /\ er[k].arr = fr[k].arr /\ er[k].end = fr[k].end
                        /\ er[k].pos \in Nat /\ fr[k].pos <= er[k].pos
  BY <1>1, <1>2
<1>4. ASSUME NEW k \in 1 .. n
      PROVE  /\ er[k].pos <= er[k].end /\ er[k].end <= Len(g[er[k].arr])
             /\ \A i \in 1 .. Len(lv) : ~lv[i].live /\ lv[i].at.arr = er[k].arr =>
                   lv[i].at.off + lv[i].at.cap <= er[k].pos
  <2>1. /\ fr[k].pos <= fr[k].end /\ fr[k].end <= Len(h[fr[k].arr])
        /\ \A i \in 1 .. Len(lv) : ~lv[i].live /\ lv[i].at.arr = fr[k].arr =>
              lv[i].at.off + lv[i].at.cap <= fr[k].pos
    BY DEF ReadsOK
  <2>2. er[k].pos \in Nat /\ er[k].pos <= er[k].end
    BY <1>1, <1>2, <2>1
  <2>3. g[er[k].arr] = h[fr[k].arr] /\ er[k].arr = fr[k].arr /\ fr[k].pos <= er[k].pos
        /\ er[k].end = fr[k].end /\ fr[k].pos \in Nat
    BY <1>2, <1>3
  <2>4. er[k].end <= Len(g[er[k].arr])
    BY <2>1, <2>3
  <2>5. ASSUME NEW i \in 1 .. Len(lv), ~lv[i].live, lv[i].at.arr = er[k].arr
        PROVE  lv[i].at.off + lv[i].at.cap <= er[k].pos
    <3>1. lv[i].at.off + lv[i].at.cap <= fr[k].pos
      BY <2>1, <2>3, <2>5
    <3>2. lv[i].at.off \in Nat /\ lv[i].at.cap \in Nat
      BY <1>2
    <3>3. QED
      BY <2>2, <2>3, <3>1, <3>2
  <2>6. QED
    BY <2>2, <2>4, <2>5
<1>5. ASSUME NEW k \in 1 .. n, NEW m \in 1 .. n, k < m, er[k].arr = er[m].arr
      PROVE  er[m].end <= er[k].pos
  <2>1. fr[k].arr = fr[m].arr
    BY <1>3, <1>5
  <2>2. fr[m].end <= fr[k].pos
    BY <1>5, <2>1 DEF ReadsOK
  <2>3. er[m].end = fr[m].end /\ fr[k].pos <= er[k].pos
    BY <1>3
  <2>4. fr[m].end \in Nat /\ fr[k].pos \in Nat /\ er[k].pos \in Nat
    BY <1>2, <1>3
  <2>5. QED
    BY ONLY <2>2, <2>3, <2>4
<1>6. ReadsOK(g, er, lv)
  <2>1. Len(er) = n
    BY <1>1, <1>2
  <2>2. QED
    BY ONLY <1>4, <1>5, <2>1 DEF ReadsOK
<1>7. QED
  BY <1>6 DEF er

-----------------------------------------------------------------------------
(* The whole invariant, one change at a time.                               *)

\* The lengths of the arrays that are read, or that the arena lies in.
LengthsKept(h, g, fr) ==
    /\ Len(g[Input]) = Len(h[Input])
    /\ \A k \in 1 .. Len(fr) : Len(g[fr[k].arr]) = Len(h[fr[k].arr])
    /\ Len(fr) > 0 /\ fr[Len(fr)].arena # None =>
          Len(g[fr[Len(fr)].arena.arr]) = Len(h[fr[Len(fr)].arena.arr])

LEMMA HeapKept ==
    ASSUME NEW h, NEW g, NEW fr, NEW fd, NEW lv, Good(h, fr, fd, lv),
           g \in [Arrays -> Seq(Cell)], LengthsKept(h, g, fr),
           \A i \in 1 .. Len(lv) : LeafOK(g, lv[i]),
           fd # None => LeafOK(g, fd)
    PROVE  Good(g, fr, fd, lv)
<1>1. Typed(g, fr, fd, lv)
  BY DEF Good, Typed, LengthsKept
<1>2. HeldOK(g, lv)
  BY DEF Good, HeldOK
<1>3. FieldOK(g, fr, fd, lv)
  BY DEF Good, FieldOK
<1>4. ReadsOK(g, fr, lv)
  BY DEF Good, ReadsOK, LengthsKept
<1>5. ArenaOK(g, fr, fd, lv)
  BY DEF Good, ArenaOK, ArenaIs, FitsIn, LengthsKept
<1>6. QED
  BY <1>1, <1>2, <1>3, <1>4, <1>5 DEF Good

\* Nobody refers to the array a.
Fresh(a, fr, fd, lv) ==
    /\ a \in Arrays /\ a # Input
    /\ \A i \in 1 .. Len(lv) : lv[i].at.arr # a
    /\ fd # None => fd.at.arr # a
    /\ \A k \in 1 .. Len(fr) : fr[k].arr # a
    /\ Len(fr) > 0 /\ fr[Len(fr)].arena # None => fr[Len(fr)].arena.arr # a

LEMMA HeapFilled ==
    ASSUME NEW h, NEW fr, NEW fd, NEW lv, Good(h, fr, fd, lv), NEW a, Fresh(a, fr, fd, lv),
           NEW c \in Seq(Cell)
    PROVE  /\ Good([h EXCEPT ![a] = c], fr, fd, lv)
           /\ [h EXCEPT ![a] = c][a] = c
           /\ [h EXCEPT ![a] = c][Input] = h[Input]
<1> DEFINE g == [h EXCEPT ![a] = c]
<1>1. /\ h \in [Arrays -> Seq(Cell)] /\ a \in Arrays /\ a # Input /\ Input \in Arrays
      /\ fr \in Seq(Frame) /\ fd \in Leaf \cup {None} /\ lv \in Seq(Leaf)
  BY MemoryAssumption DEF Good, Typed, Fresh
<1>2. g \in [Arrays -> Seq(Cell)] /\ g[a] = c /\ \A x \in Arrays : x # a => g[x] = h[x]
  BY <1>1
<1> HIDE DEF g
<1>3. \A k \in 1 .. Len(fr) : fr[k].arr \in Arrays
           /\ (fr[k].arena # None => fr[k].arena.arr \in Arrays)
  <2>1. \A f \in Frame : f.arr \in Arrays /\ (f.arena # None => f.arena.arr \in Arrays)
    BY DEF Frame, Slices
  <2>2. QED
    BY <1>1, <2>1
<1>4. LengthsKept(h, g, fr)
  BY <1>1, <1>2, <1>3, LenProperties DEF LengthsKept, Fresh
<1>5. \A i \in 1 .. Len(lv) : LeafOK(g, lv[i])
  <2>1. ASSUME NEW i \in 1 .. Len(lv)
        PROVE  LeafOK(g, lv[i])
    <3>1. lv[i] \in Leaf /\ LeafOK(h, lv[i]) /\ lv[i].at.arr # a
      BY <1>1 DEF Good, HeldOK, Fresh
    <3>2. g[lv[i].at.arr] = h[lv[i].at.arr]
      BY <1>2, <3>1, LeafTypes
    <3>3. QED
      BY <3>1, <3>2, LeafSame
  <2>2. QED
    BY <2>1
<1>6. fd # None => LeafOK(g, fd)
  <2>1. ASSUME fd # None
        PROVE  LeafOK(g, fd)
    <3>1. fd \in Leaf /\ LeafOK(h, fd) /\ fd.at.arr # a
      BY <1>1, <2>1 DEF Good, FieldOK, Fresh
    <3>2. g[fd.at.arr] = h[fd.at.arr]
      BY <1>2, <3>1, LeafTypes
    <3>3. QED
      BY <3>1, <3>2, LeafSame
  <2>2. QED
    BY <2>1
<1>7. Good(g, fr, fd, lv)
  BY <1>2, <1>4, <1>5, <1>6, HeapKept
<1>8. QED
  BY <1>1, <1>2, <1>7 DEF g

\* Cells are filled that no value has, if it is not one that shows the input.
LEMMA HeapWritten ==
    ASSUME NEW h, NEW g, NEW fr, NEW fd, NEW lv, Good(h, fr, fd, lv),
           NEW b, NEW off, NEW new, WrittenTo(h, g, b, off, new),
           \A i \in 1 .. Len(lv) : ~lv[i].live /\ lv[i].at.arr = b =>
              off + Len(new) <= lv[i].at.off \/ lv[i].at.off + lv[i].at.cap <= off,
           fd # None => fd.at.arr # b
    PROVE  Good(g, fr, fd, lv)
<1>1. /\ h \in [Arrays -> Seq(Cell)] /\ Input \in Arrays
      /\ fr \in Seq(Frame) /\ fd \in Leaf \cup {None} /\ lv \in Seq(Leaf)
  BY MemoryAssumption DEF Good, Typed
<1>2. /\ g \in [Arrays -> Seq(Cell)]
      /\ \A a \in Arrays : Len(g[a]) = Len(h[a]) /\ (a # b => g[a] = h[a])
  BY <1>1, WrittenHeap
<1>3. \A k \in 1 .. Len(fr) : fr[k].arr \in Arrays
           /\ (fr[k].arena # None => fr[k].arena.arr \in Arrays)
  <2>1. \A f \in Frame : f.arr \in Arrays /\ (f.arena # None => f.arena.arr \in Arrays)
    BY DEF Frame, Slices
  <2>2. QED
    BY <1>1, <2>1
<1>4. LengthsKept(h, g, fr)
  <2>1. Len(fr) > 0 => Len(fr) \in 1 .. Len(fr)
    BY <1>1, LenProperties
  <2>2. \A a \in Arrays : Len(g[a]) = Len(h[a])
    BY <1>2
  <2>3. QED
    BY ONLY <1>1, <1>3, <2>1, <2>2 DEF LengthsKept
<1>5. \A i \in 1 .. Len(lv) : LeafOK(g, lv[i])
  <2>1. ASSUME NEW i \in 1 .. Len(lv)
        PROVE  LeafOK(g, lv[i])
    <3>1. lv[i] \in Leaf /\ LeafOK(h, lv[i])
      BY <1>1 DEF Good, HeldOK
    <3>2. lv[i].live \in BOOLEAN
      BY <3>1, LeafTypes
    <3>3. lv[i].live \/ (lv[i].at.arr = b =>
             off + Len(new) <= lv[i].at.off \/ lv[i].at.off + lv[i].at.cap <= off)
      BY <3>2
    <3>4. QED
      BY <1>1, <3>1, <3>3, LeafWritten
  <2>2. QED
    BY <2>1
<1>6. fd # None => LeafOK(g, fd)
  <2>1. ASSUME fd # None
        PROVE  LeafOK(g, fd)
    <3>1. fd \in Leaf /\ LeafOK(h, fd) /\ fd.at.arr # b
      BY <1>1, <2>1 DEF Good, FieldOK
    <3>2. QED
      BY <1>1, <3>1, LeafWritten
  <2>2. QED
    BY <2>1
<1>7. QED
  BY <1>2, <1>4, <1>5, <1>6, HeapKept

\* The caller is given a value.
LEMMA Given ==
    ASSUME NEW h, NEW fr, NEW fd, NEW lv, Good(h, fr, fd, lv), Len(lv) < MaxLeaves,
           NEW l \in Leaf, LeafOK(h, l), fd # None => l.at.arr # fd.at.arr,
           ~l.live => \A i \in 1 .. Len(lv) :
              ~lv[i].live /\ lv[i].at.arr = l.at.arr => lv[i].at.off + lv[i].at.cap <= l.at.off,
           ~l.live => \A k \in 1 .. Len(fr) :
              fr[k].arr = l.at.arr => l.at.off + l.at.cap <= fr[k].pos,
           Len(fr) > 0 /\ fr[Len(fr)].arena # None /\ ~l.live /\ l.at.arr = fr[Len(fr)].arena.arr =>
              l.at.off + l.at.cap <= fr[Len(fr)].arena.len,
           NEW mv, mv = Append(lv, l)
    PROVE  Good(h, fr, fd, mv)
<1>1. lv \in Seq(Leaf)
  BY DEF Good, Typed
<1>2. Typed(h, fr, fd, Append(lv, l))
  <2>1. MaxLeaves \in Nat
    BY MemoryAssumption
  <2>2. QED
    BY <1>1, <2>1, AppendLeaf DEF Good, Typed
<1>3. HeldOK(h, Append(lv, l))
  BY <1>1, HeldGiven DEF Good
<1>4. FieldOK(h, fr, fd, Append(lv, l))
  BY <1>1, FieldGiven DEF Good
<1>5. ReadsOK(h, fr, Append(lv, l))
  BY <1>1, ReadsGiven DEF Good
<1>6. ArenaOK(h, fr, fd, Append(lv, l))
  BY <1>1, ArenaGiven DEF Good, ArenaOK
<1>7. QED
  BY <1>2, <1>3, <1>4, <1>5, <1>6 DEF Good

\* The frame on top reads on, with the arena it has or another one.
LEMMA Read ==
    ASSUME NEW h, NEW fr, NEW fd, NEW lv, Good(h, fr, fd, lv), Len(fr) > 0, NEW f \in Frame,
           f.arr = fr[Len(fr)].arr, f.end = fr[Len(fr)].end,
           fr[Len(fr)].pos <= f.pos, f.pos <= f.end,
           f.arena = fr[Len(fr)].arena \/ (f.arena # None => ArenaIs(h, fr, fd, lv, f.arena)),
           NEW er, er = [fr EXCEPT ![Len(fr)] = f]
    PROVE  Good(h, er, fd, lv)
<1> DEFINE n == Len(fr)
<1>1. fr \in Seq(Frame) /\ lv \in Seq(Leaf)
  BY DEF Good, Typed
<1>2. /\ er \in Seq(Frame) /\ Len(er) = n /\ er[n] = f /\ n \in Nat \ {0}
      /\ \A k \in 1 .. n - 1 : er[k] = fr[k]
  BY <1>1, TopFrame
<1>3. ReadsOK(h, er, lv)
  BY <1>1, ReadsMoved DEF Good
<1>4. \A k \in 1 .. n : er[k].arr = fr[k].arr
  BY <1>2
<1>5. Typed(h, er, fd, lv)
  BY <1>2 DEF Good, Typed
<1>6. FieldOK(h, er, fd, lv)
  BY <1>2, <1>4 DEF Good, FieldOK
<1>7. ASSUME f.arena # None
      PROVE  ArenaIs(h, er, fd, lv, f.arena)
  <2>1. ArenaIs(h, fr, fd, lv, f.arena)
    BY <1>7 DEF Good, ArenaOK
  <2>2. QED
    BY <1>2, <1>4, <2>1 DEF ArenaIs
<1>8. ArenaOK(h, er, fd, lv)
  BY <1>2, <1>7 DEF ArenaOK
<1>9. QED
  BY <1>3, <1>5, <1>6, <1>8 DEF Good

\* Decode returns, and the caller may give it no destination next time.
LEMMA Left ==
    ASSUME NEW h, NEW fr, NEW fd, NEW lv, Good(h, fr, fd, lv)
    PROVE  Good(h, <<>>, fd, lv) /\ Good(h, fr, None, lv)
<1>1. PICK e : e = <<>>
  OBVIOUS
<1>2. e \in Seq(Frame) /\ Len(e) = 0 /\ MaxDepth \in Nat
  BY <1>1, MemoryAssumption
<1>3. Typed(h, e, fd, lv) /\ Typed(h, fr, None, lv)
  BY <1>2 DEF Good, Typed
<1>4. /\ FieldOK(h, e, fd, lv) /\ ReadsOK(h, e, lv) /\ ArenaOK(h, e, fd, lv)
      /\ FieldOK(h, fr, None, lv) /\ ArenaOK(h, fr, None, lv)
  BY <1>2 DEF Good, FieldOK, ReadsOK, ArenaOK, ArenaIs
<1>5. QED
  BY <1>1, <1>3, <1>4 DEF Good

\* A field in an array that no value, frame or arena has.
LEMMA FieldSet ==
    ASSUME NEW h, NEW fr, NEW lv, Good(h, fr, None, lv), NEW l \in Leaf, LeafOK(h, l), ~l.live,
           Fresh(l.at.arr, fr, None, lv)
    PROVE  Good(h, fr, l, lv)
<1>1. Typed(h, fr, l, lv)
  BY DEF Good, Typed
<1>2. FieldOK(h, fr, l, lv)
  BY DEF Good, FieldOK, Fresh
<1>3. ArenaOK(h, fr, l, lv)
  BY DEF Good, ArenaOK, ArenaIs, Fresh
<1>4. QED
  BY <1>1, <1>2, <1>3 DEF Good

\* A frame inside the others.
LEMMA Entered ==
    ASSUME NEW h, NEW fr, NEW fd, NEW lv, Good(h, fr, fd, lv), Len(fr) < MaxDepth,
           NEW f \in Frame, f.pos <= f.end, f.end <= Len(h[f.arr]),
           \A i \in 1 .. Len(lv) : ~lv[i].live /\ lv[i].at.arr = f.arr =>
              lv[i].at.off + lv[i].at.cap <= f.pos,
           \A k \in 1 .. Len(fr) : fr[k].arr = f.arr => f.end <= fr[k].pos,
           fd # None => fd.at.arr # f.arr,
           f.arena # None => f.arena.arr # f.arr /\ ArenaIs(h, fr, fd, lv, f.arena)
    PROVE  Good(h, fr \o <<f>>, fd, lv)
<1> DEFINE er == fr \o <<f>>
           n == Len(fr) + 1
<1>1. fr \in Seq(Frame) /\ MaxDepth \in Nat
  BY MemoryAssumption DEF Good, Typed
<1>2. /\ er \in Seq(Frame) /\ Len(er) = n /\ er[n] = f /\ n \in Nat \ {0}
      /\ \A k \in 1 .. Len(fr) : er[k] = fr[k]
      /\ \A k \in 1 .. n : k \in 1 .. Len(fr) \/ k = n
      /\ Len(fr) \in Nat
  BY <1>1
<1> HIDE DEF er
<1>3. Typed(h, er, fd, lv)
  <2>1. Len(er) <= MaxDepth
    BY <1>1, <1>2
  <2>2. QED
    BY <1>2, <2>1 DEF Good, Typed
<1>4. FieldOK(h, er, fd, lv)
  <2>1. ASSUME fd # None, NEW k \in 1 .. n
        PROVE  er[k].arr # fd.at.arr
    BY <1>2, <2>1 DEF Good, FieldOK
  <2>2. QED
    BY <1>2, <2>1 DEF Good, FieldOK
<1>5. ReadsOK(h, er, lv)
  <2>1. ASSUME NEW k \in 1 .. n
        PROVE  /\ er[k].pos <= er[k].end /\ er[k].end <= Len(h[er[k].arr])
               /\ \A i \in 1 .. Len(lv) : ~lv[i].live /\ lv[i].at.arr = er[k].arr =>
                     lv[i].at.off + lv[i].at.cap <= er[k].pos
    <3>1. CASE k \in 1 .. Len(fr)
      BY <1>2, <3>1 DEF Good, ReadsOK
    <3>2. CASE k = n
      BY <1>2, <3>2
    <3>3. QED
      BY <1>2, <3>1, <3>2
  <2>2. ASSUME NEW k \in 1 .. n, NEW m \in 1 .. n, k < m, er[k].arr = er[m].arr
        PROVE  er[m].end <= er[k].pos
    <3>1. k \in 1 .. Len(fr)
      BY <1>2, <2>2
    <3>2. CASE m \in 1 .. Len(fr)
      BY <1>2, <2>2, <3>1, <3>2 DEF Good, ReadsOK
    <3>3. CASE m = n
      BY <1>2, <2>2, <3>1, <3>3
    <3>4. QED
      BY <1>2, <3>2, <3>3
  <2>3. QED
    BY <1>2, <2>1, <2>2 DEF ReadsOK
<1>6. ArenaOK(h, er, fd, lv)
  <2>1. ASSUME f.arena # None
        PROVE  ArenaIs(h, er, fd, lv, f.arena)
    <3>1. ASSUME NEW k \in 1 .. n
          PROVE  er[k].arr # f.arena.arr
      BY <1>2, <2>1, <3>1 DEF ArenaIs
    <3>2. QED
      BY <1>2, <2>1, <3>1 DEF ArenaIs
  <2>2. QED
    BY <1>2, <2>1 DEF ArenaOK
<1>7. QED
  BY <1>3, <1>4, <1>5, <1>6 DEF Good, er

\* An arm ends, and the frame around it goes on without an arena or with the
\* one the arm has left.
LEMMA Returned ==
    ASSUME NEW h, NEW fr, NEW fd, NEW lv, Good(h, fr, fd, lv), Len(fr) > 1,
           NEW r \in {None, fr[Len(fr)].arena}
    PROVE  Good(h, [Front(fr) EXCEPT ![Len(fr) - 1].arena = r], fd, lv)
<1> DEFINE n == Len(fr) - 1
           p == Front(fr)
           f == [p[n] EXCEPT !.arena = r]
           er == [p EXCEPT ![n] = f]
<1>1. fr \in Seq(Frame) /\ Len(fr) \in Nat
  BY LenProperties DEF Good, Typed
<1>2. /\ p \in Seq(Frame) /\ Len(p) = n /\ n \in Nat \ {0}
      /\ \A k \in 1 .. n : p[k] = fr[k]
  BY <1>1, FrontProperties
<1>3. fr[Len(fr)] \in Frame /\ p[n] \in Frame
  BY <1>1, <1>2
<1>4. /\ f \in Frame /\ f.arr = fr[n].arr /\ f.pos = fr[n].pos /\ f.end = fr[n].end
      /\ f.arena = r
  <2>1. r \in Slices \cup {None}
    BY <1>3 DEF Frame
  <2>2. \A e \in Frame : LET x == [e EXCEPT !.arena = r]
                         IN  /\ x \in Frame /\ x.arr = e.arr /\ x.pos = e.pos /\ x.end = e.end
                             /\ x.arena = r
    BY <2>1 DEF Frame
  <2>3. p[n] = fr[n]
    BY <1>2
  <2>4. QED
    BY <1>3, <2>2, <2>3
<1>5. [Front(fr) EXCEPT ![Len(fr) - 1].arena = r] = er
  OBVIOUS
<1> HIDE DEF p, f
<1>6. /\ er \in Seq(Frame) /\ Len(er) = n /\ er[n] = f
      /\ \A k \in 1 .. n - 1 : er[k] = p[k]
  BY <1>2, <1>4, TopFrame
<1> HIDE DEF er
<1>7. \A k \in 1 .. n : /\ er[k].arr = fr[k].arr /\ er[k].pos = fr[k].pos
                        /\ er[k].end = fr[k].end
  BY <1>2, <1>4, <1>6
<1>8. n + 1 = Len(fr) /\ \A k \in 1 .. n : k \in 1 .. Len(fr)
  BY <1>1
<1>9. Typed(h, er, fd, lv)
  <2>1. Len(er) <= MaxDepth
    BY <1>1, <1>6, MemoryAssumption DEF Good, Typed
  <2>2. QED
    BY <1>6, <2>1 DEF Good, Typed
<1>10. FieldOK(h, er, fd, lv)
  BY <1>6, <1>7, <1>8 DEF Good, FieldOK
<1>11. ReadsOK(h, er, lv)
  BY <1>6, <1>7, <1>8 DEF Good, ReadsOK
<1>12. ArenaOK(h, er, fd, lv)
  <2>1. ASSUME r # None
        PROVE  ArenaIs(h, er, fd, lv, r)
    <3>1. ArenaIs(h, fr, fd, lv, r)
      BY <1>1, <2>1 DEF Good, ArenaOK
    <3>2. QED
      BY <1>6, <1>7, <1>8, <3>1 DEF ArenaIs
  <2>2. QED
    BY <1>4, <1>6, <2>1 DEF ArenaOK
<1>13. QED
  BY <1>5, <1>9, <1>10, <1>11, <1>12 DEF Good

\* Between two calls a value has other bytes.
LEMMA LeafReplaced ==
    ASSUME NEW h, NEW g, NEW fd, NEW lv, Good(h, <<>>, fd, lv), NEW i \in 1 .. Len(lv), NEW l \in Leaf,
           l.at.arr = lv[i].at.arr, l.at.off = lv[i].at.off, l.at.cap = lv[i].at.cap,
           l.live = lv[i].live,
           g \in [Arrays -> Seq(Cell)], Len(g[Input]) = Len(h[Input]),
           LeafOK(g, l), \A j \in 1 .. Len(lv) : j # i => LeafOK(g, lv[j]),
           fd # None => LeafOK(g, fd)
    PROVE  Good(g, <<>>, fd, [lv EXCEPT ![i] = l])
<1> DEFINE mv == [lv EXCEPT ![i] = l]
<1>1. PICK e : e = <<>>
  OBVIOUS
<1>2. Good(h, e, fd, lv) /\ lv \in Seq(Leaf) /\ Len(e) = 0
  BY <1>1 DEF Good, Typed
<1>3. /\ mv \in Seq(Leaf) /\ Len(mv) = Len(lv) /\ mv[i] = l
      /\ \A j \in 1 .. Len(lv) : j # i => mv[j] = lv[j]
  BY <1>2
<1> HIDE DEF mv
<1>4. \A j \in 1 .. Len(lv) : /\ mv[j].at.arr = lv[j].at.arr /\ mv[j].at.off = lv[j].at.off
                              /\ mv[j].at.cap = lv[j].at.cap /\ mv[j].live = lv[j].live
  BY <1>3
<1>5. Typed(g, e, fd, mv)
  BY <1>2, <1>3 DEF Good, Typed
<1>6. HeldOK(g, mv)
  <2>1. \A j \in 1 .. Len(mv) : LeafOK(g, mv[j])
    BY <1>3
  <2>2. ASSUME NEW j \in 1 .. Len(mv), NEW k \in 1 .. Len(mv), j # k, ~mv[j].live, ~mv[k].live
        PROVE  Apart(mv[j].at, mv[k].at)
    <3>1. Apart(lv[j].at, lv[k].at)
      BY <1>2, <1>3, <1>4, <2>2 DEF Good, HeldOK
    <3>2. QED
      BY <1>3, <1>4, <3>1 DEF Apart
  <2>3. QED
    BY <2>1, <2>2 DEF HeldOK
<1>7. FieldOK(g, e, fd, mv)
  BY <1>2, <1>3, <1>4 DEF Good, FieldOK
<1>8. ReadsOK(g, e, mv) /\ ArenaOK(g, e, fd, mv)
  BY <1>2 DEF ReadsOK, ArenaOK
<1>9. QED
  BY <1>1, <1>5, <1>6, <1>7, <1>8 DEF Good, mv

-----------------------------------------------------------------------------
(* What the actions are built from.                                         *)

LEMMA FreeIsFresh ==
    ASSUME MemInv, NEW a \in Free
    PROVE  Fresh(a, frames, field, leaves)
<1>1. frames \in Seq(Frame) /\ leaves \in Seq(Leaf) /\ field \in Leaf \cup {None}
  BY DEF MemInv, Good, Typed
<1>2. DOMAIN frames = 1 .. Len(frames) /\ DOMAIN leaves = 1 .. Len(leaves) /\ Len(frames) \in Nat
  BY <1>1, LenProperties
<1>3. a \in Arrays /\ a # Input /\ a \notin Referred
  BY DEF Free
<1>4. \A i \in 1 .. Len(leaves) : leaves[i].at.arr # a
  BY <1>2, <1>3 DEF Referred
<1>5. \A k \in 1 .. Len(frames) : frames[k].arr # a
  BY <1>2, <1>3 DEF Referred
<1>6. field # None => field.at.arr # a
  BY <1>3 DEF Referred
<1>7. ASSUME Len(frames) > 0, frames[Len(frames)].arena # None
      PROVE  frames[Len(frames)].arena.arr # a
  <2>1. Len(frames) \in 1 .. Len(frames)
    BY <1>2, <1>7
  <2>2. frames[Len(frames)].arena \in
           ({frames[i].arena : i \in DOMAIN frames} \cup {frames[i].vv : i \in DOMAIN frames}) \ {None}
    BY <1>2, <1>7, <2>1
  <2>3. frames[Len(frames)].arena.arr \in Referred
    BY <2>2 DEF Referred
  <2>4. QED
    BY <1>3, <2>3
<1>8. QED
  BY <1>3, <1>4, <1>5, <1>6, <1>7 DEF Fresh

LEMMA FrameTypes ==
    ASSUME NEW f \in Frame
    PROVE  /\ f.arr \in Arrays /\ f.pos \in Nat /\ f.end \in Nat /\ f.stream \in BOOLEAN
           /\ f.arena \in Slices \cup {None} /\ f.inMap \in BOOLEAN /\ f.vv \in Slices \cup {None}
BY DEF Frame

LEMMA SliceTypes ==
    ASSUME NEW s \in Slices
    PROVE  s.arr \in Arrays /\ s.off \in Nat /\ s.len \in Nat /\ s.cap \in Nat
BY DEF Slices

\* The frame on top, and the bytes it reads next.
LEMMA TopTypes ==
    ASSUME MemInv, Decoding
    PROVE  /\ frames \in Seq(Frame) /\ Len(frames) \in Nat \ {0} /\ Len(frames) \in 1 .. Len(frames)
           /\ Top = frames[Len(frames)] /\ Top \in Frame
           /\ Top.pos <= Top.end /\ Top.end <= Len(heap[Top.arr])
           /\ heap \in [Arrays -> Seq(Cell)]
<1>1. frames \in Seq(Frame) /\ Len(frames) \in Nat \ {0}
  BY DEF MemInv, Good, Typed, Decoding
<1>2. QED
  BY <1>1 DEF MemInv, Good, Typed, ReadsOK, Top

LEMMA SourceTypes ==
    ASSUME MemInv, Decoding, NEW n \in 0 .. Rest
    PROVE  /\ n \in Nat /\ Top.pos \in Nat /\ Top.end \in Nat /\ Top.pos + n <= Top.end
           /\ Source(n) = Part(heap[Top.arr], Top.pos, n)
           /\ Source(n) \in Seq(Cell) /\ Len(Source(n)) = n
<1>1. /\ Top.pos \in Nat /\ Top.end \in Nat /\ Top.pos <= Top.end /\ Top.end <= Len(heap[Top.arr])
      /\ heap[Top.arr] \in Seq(Cell)
  BY TopTypes, FrameTypes
<1>2. n \in Nat /\ Top.pos + n <= Top.end /\ Len(heap[Top.arr]) \in Nat
  BY <1>1, LenProperties DEF Rest
<1>3. PICK c \in Seq(Cell), i \in Nat : c = heap[Top.arr] /\ i = Top.pos
  BY <1>1
<1>4. i + n <= Len(c)
  BY <1>1, <1>2, <1>3
<1>5. SubSeq(c, i + 1, i + n) \in Seq(Cell) /\ Len(SubSeq(c, i + 1, i + n)) = n
  BY <1>2, <1>4, SubSeqElements
<1>6. QED
  BY <1>1, <1>2, <1>3, <1>5 DEF Source, Part

\* A new frame on top, which has only read on.
LEMMA MovedTypes ==
    ASSUME MemInv, Decoding, NEW n \in 0 .. Rest, NEW f \in Frame, f.pos = Top.pos, f.end = Top.end,
           f.arr = Top.arr
    PROVE  /\ Moved(f, n) \in Frame /\ Moved(f, n).arr = Top.arr
           /\ Moved(f, n).pos = Top.pos + n /\ Moved(f, n).end = Top.end
           /\ Top.pos <= Moved(f, n).pos /\ Moved(f, n).pos <= Moved(f, n).end
           /\ Moved(f, n).arena = f.arena
<1>1. n \in Nat /\ Top.pos \in Nat /\ Top.end \in Nat /\ Top.pos + n <= Top.end
  BY SourceTypes
<1>2. Moved(f, n) = [f EXCEPT !.pos = f.pos + n]
  BY DEF Moved
<1>3. /\ Moved(f, n) \in Frame /\ Moved(f, n).arr = f.arr
      /\ Moved(f, n).pos = f.pos + n /\ Moved(f, n).end = f.end
      /\ Moved(f, n).arena = f.arena
  BY <1>1, <1>2 DEF Frame
<1>4. QED
  BY <1>1, <1>3

LEMMA WholePart ==
    ASSUME NEW S, NEW c \in Seq(S)
    PROVE  Part(c, 0, Len(c)) = c
<1> DEFINE x == SubSeq(c, 0 + 1, 0 + Len(c))
<1>1. Len(c) \in Nat /\ 0 + Len(c) <= Len(c)
  BY LenProperties
<1>2. x \in Seq(S) /\ Len(x) = Len(c) /\ \A j \in 1 .. Len(c) : x[j] = c[0 + j]
  BY <1>1, SubSeqElements
<1> HIDE DEF x
<1>3. \A j \in 1 .. Len(x) : x[j] = c[j]
  BY <1>1, <1>2
<1>4. x = c
  BY ONLY <1>2, <1>3, c \in Seq(S), SeqEqual
<1>5. QED
  BY <1>4 DEF x, Part

LEMMA MiddlePart ==
    ASSUME NEW S, NEW x \in Seq(S), NEW y \in Seq(S), NEW z \in Seq(S)
    PROVE  /\ x \o y \o z \in Seq(S)
           /\ Len(x \o y \o z) = Len(x) + Len(y) + Len(z)
           /\ Part(x \o y \o z, Len(x), Len(y)) = y
<1> DEFINE c == x \o y \o z
           p == SubSeq(c, Len(x) + 1, Len(x) + Len(y))
<1>1. /\ c \in Seq(S) /\ Len(c) = Len(x) + Len(y) + Len(z)
      /\ \A j \in 1 .. Len(y) : c[Len(x) + j] = y[j]
      /\ Len(x) \in Nat /\ Len(y) \in Nat /\ Len(z) \in Nat
  OBVIOUS
<1> HIDE DEF c
<1>2. Len(x) + Len(y) <= Len(c)
  BY <1>1
<1>3. p \in Seq(S) /\ Len(p) = Len(y) /\ \A j \in 1 .. Len(y) : p[j] = c[Len(x) + j]
  BY <1>1, <1>2, SubSeqElements
<1> HIDE DEF p
<1>4. \A j \in 1 .. Len(p) : p[j] = y[j]
  BY <1>1, <1>3
<1>5. p = y
  BY ONLY <1>3, <1>4, y \in Seq(S), SeqEqual
<1>6. QED
  BY <1>1, <1>5 DEF c, p, Part

\* A new slice that is filled.
LEMMA StoredWhole ==
    ASSUME NEW c \in Seq(Cell)
    PROVE  Stored(Blank(Len(c)), 0, c) = c
<1>1. Len(c) \in Nat
  BY LenProperties
<1>2. PICK b \in Seq(Cell) : b = Blank(Len(c)) /\ Len(b) = Len(c)
  BY <1>1, CellTypes
<1>3. /\ Part(Stored(b, 0, c), 0, Len(c)) = c
      /\ Stored(b, 0, c) \in Seq(Cell) /\ Len(Stored(b, 0, c)) = Len(c)
  BY <1>1, <1>2, StoredThere, StoredElements
<1>4. PICK d \in Seq(Cell) : d = Stored(b, 0, c)
  BY <1>3
<1>5. Part(d, 0, Len(d)) = d
  BY WholePart
<1>6. QED
  BY <1>2, <1>3, <1>4, <1>5

Kept(w, k) == SubSeq(w, 1, k)

\* Cells of which the first k stay, and then new ones.
LEMMA StoredBehind ==
    ASSUME NEW S, NEW c \in Seq(S), NEW off \in Nat, NEW new \in Seq(S), NEW k \in Nat, NEW m \in Nat,
           k <= m, off + m <= Len(c), off + k + Len(new) <= Len(c),
           NEW to \in Nat, to <= off + k, off + k <= to,
           NEW t \in Nat, t <= k + Len(new), k + Len(new) <= t
    PROVE  Part(Stored(c, to, new), off, t) = Kept(Part(c, off, m), k) \o new
<1>a. to = off + k /\ t = k + Len(new)
  <2>1. Len(c) \in Nat /\ Len(new) \in Nat
    BY LenProperties
  <2>2. QED
    BY <2>1
<1> DEFINE d == Stored(c, off + k, new)
           n == Len(new)
           w == SubSeq(c, off + 1, off + m)
           v == SubSeq(w, 0 + 1, 0 + k)
           x == SubSeq(d, off + 1, off + (k + n))
           y == v \o new
<1>1. Len(c) \in Nat /\ n \in Nat /\ off + k \in Nat
  BY LenProperties
<1>2. /\ d \in Seq(S) /\ Len(d) = Len(c)
      /\ \A i \in 1 .. Len(c) : d[i] =
            IF i > off + k /\ i <= off + k + n THEN new[i - (off + k)] ELSE c[i]
  BY <1>1, StoredElements
<1> HIDE DEF d
<1>3. w \in Seq(S) /\ Len(w) = m /\ \A j \in 1 .. m : w[j] = c[off + j]
  BY SubSeqElements
<1> HIDE DEF w
<1>4. v \in Seq(S) /\ Len(v) = k /\ \A j \in 1 .. k : v[j] = w[0 + j]
  <2>1. 0 + k <= Len(w)
    BY <1>3
  <2>2. QED
    BY <1>3, <2>1, SubSeqElements
<1>5. x \in Seq(S) /\ Len(x) = k + n /\ \A j \in 1 .. k + n : x[j] = d[off + j]
  <2>1. off + (k + n) <= Len(d) /\ k + n \in Nat
    BY <1>1, <1>2
  <2>2. QED
    BY <1>2, <2>1, SubSeqElements
<1> HIDE DEF v, x
<1>6. /\ y \in Seq(S) /\ Len(y) = k + n
      /\ \A j \in 1 .. k : y[j] = v[j]
      /\ \A j \in 1 .. n : y[k + j] = new[j]
  <2>1. v \in Seq(S) /\ new \in Seq(S) /\ Len(v) = k /\ k \in Nat /\ n \in Nat
    BY <1>1, <1>4
  <2>2. /\ y \in Seq(S) /\ Len(y) = k + n
        /\ \A j \in 1 .. k + n : y[j] = IF j <= k THEN v[j] ELSE new[j - k]
    <3> HIDE DEF y
    <3>1. y = v \o new
      BY DEF y
    <3>2. QED
      BY ONLY <2>1, <3>1, ConcatProperties, n = Len(new)
  <2> HIDE DEF y, n
  <2>3. ASSUME NEW j \in 1 .. k
        PROVE  y[j] = v[j]
    <3>1. j \in 1 .. k + n /\ j <= k
      BY <2>1
    <3>2. QED
      BY ONLY <2>2, <3>1
  <2>4. ASSUME NEW j \in 1 .. n
        PROVE  y[k + j] = new[j]
    <3>1. k + j \in 1 .. k + n /\ ~(k + j <= k) /\ (k + j) - k = j
      BY <2>1
    <3>2. QED
      BY ONLY <2>2, <3>1
  <2>5. QED
    BY <2>2, <2>3, <2>4
<1> HIDE DEF y
<1>7. ASSUME NEW j \in 1 .. k + n
      PROVE  x[j] = y[j]
  <2>1. off + j \in 1 .. Len(c) /\ j \in Nat
    BY <1>1
  <2>2. CASE j <= k
    <3>1. j \in 1 .. k /\ j \in 1 .. m /\ ~(off + j > off + k)
      BY <2>1, <2>2
    <3>2. x[j] = c[off + j]
      BY <1>2, <1>5, <2>1, <3>1
    <3>3. y[j] = c[off + j]
      BY <1>3, <1>4, <1>6, <3>1
    <3>4. QED
      BY <3>2, <3>3
  <2>3. CASE j > k
    <3>1. PICK i \in 1 .. n : j = k + i
      <4>1. j - k \in 1 .. n /\ j = k + (j - k)
        BY <1>1, <2>1, <2>3
      <4>2. QED
        BY <4>1
    <3>2. off + j > off + k /\ off + j <= off + k + n /\ (off + j) - (off + k) = i
      BY <1>1, <2>1, <3>1
    <3>3. x[j] = new[i]
      BY <1>2, <1>5, <2>1, <3>2
    <3>4. QED
      BY <1>6, <3>1, <3>3
  <2>4. QED
    BY <2>1, <2>2, <2>3
<1>8. x = y
  BY ONLY <1>5, <1>6, <1>7, SeqEqual
<1>9. v = SubSeq(w, 1, k)
  BY DEF v
<1>10. QED
  BY <1>a, <1>8, <1>9 DEF x, y, d, w, Part, Kept

\* What is cut from an arena that begins its array.
LEMMA CutTypes ==
    ASSUME NEW s \in Slices, s.off = 0, NEW n \in Nat
    PROVE  /\ Cut(s, n) \in Slices /\ Cut(s, n).arr = s.arr /\ Cut(s, n).off = s.len
           /\ Cut(s, n).len = n /\ Cut(s, n).cap = n
<1>1. 0 + s.len = s.len /\ s.len \in Nat
  BY SliceTypes
<1>2. Cut(s, n) = [s EXCEPT !.off = s.len, !.len = n, !.cap = n]
  BY <1>1 DEF Cut
<1>3. QED
  BY <1>1, <1>2 DEF Slices

\* A value copied into an array of its own.
LEMMA CopiedLeaf ==
    ASSUME NEW h, NEW a \in Arrays, a # Input, h[a] \in Seq(Cell), NEW n, n = Len(h[a])
    PROVE  LET l == [at |-> Whole(a, n), live |-> FALSE, want |-> h[a], src |-> 0]
           IN  l \in Leaf /\ LeafOK(h, l) /\ ~l.live /\ l.at.arr = a
<1>1. n \in Nat
  BY LenProperties
<1>2. Whole(a, n) \in Slices
  BY <1>1 DEF Whole, Slices
<1>3. Part(h[a], 0, n) = h[a]
  BY WholePart
<1>4. QED
  BY <1>1, <1>2, <1>3 DEF Leaf, LeafOK, FitsIn, ShownIn, Whole

LEMMA CopyGiven ==
    ASSUME NEW h, NEW fr, NEW fd, NEW lv, Good(h, fr, fd, lv), Len(lv) < MaxLeaves,
           NEW a, Fresh(a, fr, fd, lv), NEW c \in Seq(Cell)
    PROVE  Good([h EXCEPT ![a] = c], fr, fd,
                Append(lv, [at |-> Whole(a, Len(c)), live |-> FALSE, want |-> c, src |-> 0]))
<1> DEFINE g == [h EXCEPT ![a] = c]
           l == [at |-> Whole(a, Len(c)), live |-> FALSE, want |-> c, src |-> 0]
<1>1. Good(g, fr, fd, lv) /\ g[a] = c
  BY HeapFilled
<1>2. a \in Arrays /\ a # Input
  BY DEF Fresh
<1> HIDE DEF g
<1>3. l \in Leaf /\ LeafOK(g, l) /\ ~l.live /\ l.at.arr = a
  BY <1>1, <1>2, CopiedLeaf
<1> HIDE DEF l
<1>4. Good(g, fr, fd, Append(lv, l))
  BY <1>1, <1>3, Given DEF Fresh
<1>5. QED
  BY <1>4 DEF g, l

-----------------------------------------------------------------------------
(* The actions of the decoder.                                              *)

LEMMA InitGood == Init => MemInv
<1> SUFFICES ASSUME Init PROVE MemInv
  OBVIOUS
<1> DEFINE start == Filled(0, 0, InputLen)
<1>1. start \in Seq(Cell) /\ Len(start) = InputLen /\ Input \in Arrays
      /\ InputLen \in Nat /\ MaxDepth \in Nat /\ MaxLeaves \in Nat /\ MaxFills \in Nat
  BY MemoryAssumption, CellTypes
<1> HIDE DEF start
<1>2. heap \in [Arrays -> Seq(Cell)] /\ Len(heap[Input]) = InputLen
  <2>1. heap = [a \in Arrays |-> IF a = Input THEN start ELSE <<>>]
    BY DEF Init, start
  <2>2. QED
    BY <1>1, <2>1
<1>3. PICK e : e = <<>>
  OBVIOUS
<1>4. frames = e /\ leaves = e /\ field = None /\ fills = 0
  BY <1>3 DEF Init
<1>5. e \in Seq(Frame) /\ e \in Seq(Leaf) /\ Len(e) = 0
  BY <1>3
<1>6. Good(heap, e, None, e)
  BY <1>1, <1>2, <1>5 DEF Good, Typed, HeldOK, FieldOK, ReadsOK, ArenaOK
<1>7. QED
  BY <1>1, <1>4, <1>6 DEF MemInv

LEMMA GoodBegin ==
    ASSUME MemInv, NEW stream \in BOOLEAN, NEW used \in BOOLEAN, Begin(stream, used)
    PROVE  MemInv'
<1> DEFINE f == [arr |-> Input, pos |-> 0, end |-> InputLen, stream |-> stream,
                 arena |-> None, inMap |-> FALSE, vv |-> None]
<1>1. f \in Frame /\ f.arr = Input /\ f.pos = 0 /\ f.end = InputLen /\ f.arena = None
  BY MemoryAssumption DEF Frame
<1>2. frames' = <<f>> /\ field' \in {field, None} /\ heap' = heap /\ leaves' = leaves /\ fills' = fills
  BY DEF Begin
<1> HIDE DEF f
<1>3. PICK e : e = <<>>
  OBVIOUS
<1>4. Good(heap, e, field', leaves)
  <2>1. Good(heap, frames, field', leaves)
    BY <1>2, Left DEF MemInv
  <2>2. QED
    BY <1>3, <2>1, Left
<1>5. frames' = e \o <<f>> /\ Len(e) = 0
  BY <1>2, <1>3
<1>6. /\ InputLen \in Nat \ {0} /\ MaxDepth \in Nat \ {0} /\ Len(heap[Input]) = InputLen
      /\ leaves \in Seq(Leaf) /\ field' \in Leaf \cup {None}
  BY <1>4, MemoryAssumption DEF Good, Typed
<1>7. ASSUME NEW i \in 1 .. Len(leaves), ~leaves[i].live
      PROVE  leaves[i].at.arr # Input
  BY <1>4, <1>7 DEF Good, HeldOK, LeafOK
<1>8. field' # None => field'.at.arr # Input
  BY <1>4 DEF Good, FieldOK, LeafOK
<1>9. Good(heap, e \o <<f>>, field', leaves)
  <2>1. 0 < MaxDepth /\ f.pos <= f.end /\ f.end <= Len(heap[f.arr])
    BY <1>1, <1>6
  <2>2. \A k \in 1 .. Len(e) : e[k].arr = f.arr => f.end <= e[k].pos
    BY <1>5
  <2>3. Len(e) < MaxDepth
    BY <1>5, <2>1
  <2>4. \A i \in 1 .. Len(leaves) : ~leaves[i].live => leaves[i].at.arr # f.arr
    BY <1>1, <1>7
  <2>5. f \in Frame /\ f.arena = None /\ (field' # None => field'.at.arr # f.arr)
    BY <1>1, <1>8
  <2>6. QED
    BY ONLY <1>4, <2>1, <2>2, <2>3, <2>4, <2>5, Entered
<1>10. Good(heap', frames', field', leaves')
  BY <1>2, <1>5, <1>9
<1>11. QED
  BY <1>2, <1>10 DEF MemInv

LEMMA GoodTakeCopy ==
    ASSUME MemInv, NEW n \in 1 .. InputLen, NEW a \in Free, TakeCopy(n, a)
    PROVE  MemInv' /\ heap'[Input] = heap[Input]
<1> DEFINE c == Source(n)
           l == [at |-> Whole(a, n), live |-> FALSE, want |-> c, src |-> 0]
           f == Moved(Top, n)
<1>1. Decoding /\ n \in 0 .. Rest /\ Len(leaves) < MaxLeaves
  BY DEF TakeCopy, CanTake
<1>2. /\ heap' = [heap EXCEPT ![a] = c] /\ leaves' = Append(leaves, l)
      /\ frames' = [frames EXCEPT ![Len(frames)] = f] /\ field' = field /\ fills' = fills
  BY DEF TakeCopy, Give, SetTop
<1>3. c \in Seq(Cell) /\ Len(c) = n
  BY <1>1, SourceTypes
<1>4. Fresh(a, frames, field, leaves) /\ Good(heap, frames, field, leaves)
  BY FreeIsFresh DEF MemInv
<1>5. /\ Top = frames[Len(frames)] /\ Len(frames) > 0
      /\ f \in Frame /\ f.arr = Top.arr /\ f.end = Top.end /\ Top.pos <= f.pos /\ f.pos <= f.end
      /\ f.arena = Top.arena
  BY <1>1, TopTypes, MovedTypes
<1> HIDE DEF c, f
<1>6. Good(heap', frames, field, leaves')
  BY <1>1, <1>2, <1>3, <1>4, CopyGiven
<1>7. Good(heap', frames', field, leaves')
  BY <1>2, <1>5, <1>6, Read
<1>8. heap'[Input] = heap[Input]
  BY <1>2, <1>3, <1>4, HeapFilled
<1>9. QED
  BY <1>2, <1>7, <1>8 DEF MemInv

LEMMA GoodBeginMap ==
    ASSUME MemInv, NEW a \in Free, BeginMap(a)
    PROVE  MemInv' /\ heap'[Input] = heap[Input]
<1>1. Decoding /\ Good(heap, frames, field, leaves) /\ field' = field /\ leaves' = leaves
      /\ fills' = fills
  BY DEF BeginMap, MemInv
<1>2. /\ Top = frames[Len(frames)] /\ Len(frames) > 0 /\ Top \in Frame
      /\ Top.pos \in Nat /\ Top.end \in Nat /\ Top.pos <= Top.end
  BY <1>1, TopTypes, FrameTypes
<1>3. CASE Top.arena = None /\ ~Top.stream /\ Rest > 0
  <2> DEFINE n == IF Rest < MaxArena THEN Rest ELSE MaxArena
             c == Blank(n)
             r == [Whole(a, n) EXCEPT !.len = 0]
             f == [Top EXCEPT !.arena = r, !.inMap = TRUE]
  <2>1. heap' = [heap EXCEPT ![a] = c] /\ frames' = [frames EXCEPT ![Len(frames)] = f]
    BY <1>3 DEF BeginMap, SetTop
  <2>2. n \in Nat
    BY <1>2, MemoryAssumption DEF Rest
  <2>3. Fresh(a, frames, field, leaves) /\ a \in Arrays
    BY FreeIsFresh DEF Fresh
  <2> HIDE DEF n
  <2>4. c \in Seq(Cell) /\ Len(c) = n
    BY <2>2, CellTypes
  <2>5. r \in Slices /\ r.arr = a /\ r.off = 0 /\ r.len = 0 /\ r.cap = n
    BY <2>2, <2>3 DEF Whole, Slices
  <2> HIDE DEF c, r
  <2>6. /\ f \in Frame /\ f.arr = Top.arr /\ f.end = Top.end /\ f.pos = Top.pos /\ f.arena = r
    BY <1>2, <2>5 DEF Frame
  <2> HIDE DEF f
  <2>7. Good(heap', frames, field, leaves) /\ heap'[a] = c /\ heap'[Input] = heap[Input]
    <3>1. Good(heap, frames, field, leaves) /\ Fresh(a, frames, field, leaves) /\ c \in Seq(Cell)
      BY <1>1, <2>3, <2>4
    <3>2. /\ Good([heap EXCEPT ![a] = c], frames, field, leaves)
          /\ [heap EXCEPT ![a] = c][a] = c /\ [heap EXCEPT ![a] = c][Input] = heap[Input]
      BY ONLY <3>1, HeapFilled
    <3>3. QED
      BY <2>1, <3>2
  <2>8. ArenaIs(heap', frames, field, leaves, r)
    <3>1. FitsIn(heap', r)
      BY <2>2, <2>4, <2>5, <2>7 DEF FitsIn
    <3>2. QED
      BY <2>3, <2>5, <3>1 DEF ArenaIs, Fresh
  <2>9. Good(heap', frames', field, leaves)
    <3>1. Top.pos <= f.pos /\ f.pos <= f.end
      BY <1>2, <2>6
    <3>2. QED
      BY <1>2, <2>1, <2>6, <2>7, <2>8, <3>1, Read
  <2>10. QED
    BY <1>1, <2>7, <2>9 DEF MemInv
<1>4. CASE ~(Top.arena = None /\ ~Top.stream /\ Rest > 0)
  <2> DEFINE f == [Top EXCEPT !.inMap = TRUE]
  <2>1. heap' = heap /\ frames' = [frames EXCEPT ![Len(frames)] = f]
    BY <1>4 DEF BeginMap, SetTop
  <2>2. /\ f \in Frame /\ f.arr = Top.arr /\ f.end = Top.end /\ f.pos = Top.pos /\ f.arena = Top.arena
    BY <1>2 DEF Frame
  <2> HIDE DEF f
  <2>3. Top.pos <= f.pos /\ f.pos <= f.end
    BY <1>2, <2>2
  <2>4. Good(heap, frames', field, leaves)
    BY <1>1, <1>2, <2>1, <2>2, <2>3, Read
  <2>5. QED
    BY <1>1, <2>1, <2>4 DEF MemInv
<1>5. QED
  BY <1>3, <1>4

LEMMA GoodDecodeInside ==
    ASSUME MemInv, DecodeInside
    PROVE  MemInv' /\ heap'[Input] = heap[Input]
<1> DEFINE f == [Top EXCEPT !.arena = None]
<1>1. Decoding /\ Good(heap, frames, field, leaves) /\ field' = field /\ leaves' = leaves
      /\ fills' = fills /\ heap' = heap /\ frames' = [frames EXCEPT ![Len(frames)] = f]
  BY DEF DecodeInside, MemInv, SetTop
<1>2. /\ Top = frames[Len(frames)] /\ Len(frames) > 0 /\ Top \in Frame
      /\ Top.pos \in Nat /\ Top.end \in Nat /\ Top.pos <= Top.end
  BY <1>1, TopTypes, FrameTypes
<1>3. f \in Frame /\ f.arr = Top.arr /\ f.end = Top.end /\ f.pos = Top.pos /\ f.arena = None
  BY <1>2 DEF Frame
<1> HIDE DEF f
<1>4. Top.pos <= f.pos /\ f.pos <= f.end
  BY <1>2, <1>3
<1>5. Good(heap, frames', field, leaves)
  BY <1>1, <1>2, <1>3, <1>4, Read
<1>6. QED
  BY <1>1, <1>5 DEF MemInv

LEMMA GoodLeaveArm ==
    ASSUME MemInv, LeaveArm
    PROVE  MemInv' /\ heap'[Input] = heap[Input]
<1> DEFINE r == ArenaAfter(frames[Len(frames) - 1], Top)
<1>1. /\ Good(heap, frames, field, leaves) /\ field' = field /\ leaves' = leaves
      /\ fills' = fills /\ heap' = heap /\ Len(frames) > 1
      /\ frames' = [Front(frames) EXCEPT ![Len(frames) - 1].arena = r]
  BY DEF LeaveArm, MemInv
<1>2. r \in {None, frames[Len(frames)].arena}
  BY DEF ArenaAfter, Top
<1> HIDE DEF r
<1>3. Good(heap, frames', field, leaves)
  BY <1>1, <1>2, Returned
<1>4. QED
  BY <1>1, <1>3 DEF MemInv

LEMMA GoodEnd ==
    ASSUME MemInv, End
    PROVE  MemInv' /\ heap'[Input] = heap[Input]
<1>1. /\ Good(heap, frames, field, leaves) /\ field' = field /\ leaves' = leaves
      /\ fills' = fills /\ heap' = heap /\ frames' = <<>>
  BY DEF End, MemInv
<1>2. Good(heap, frames', field, leaves)
  BY <1>1, Left
<1>3. QED
  BY <1>1, <1>2 DEF MemInv

\* The memory the reader returns, behind what values have been made of before.
LEMMA GoodTakeLive ==
    ASSUME MemInv, NEW n \in 1 .. InputLen, TakeLive(n)
    PROVE  MemInv' /\ heap'[Input] = heap[Input]
<1> DEFINE s == [arr |-> Top.arr, off |-> Top.pos, len |-> n, cap |-> n]
           l == [at |-> s, live |-> Top.arr = Input, want |-> Source(n), src |-> Top.pos]
           f == Moved(Top, n)
<1>1. Decoding /\ n \in 0 .. Rest /\ Len(leaves) < MaxLeaves
  BY DEF TakeLive, CanTake
<1>2. /\ heap' = heap /\ leaves' = Append(leaves, l) /\ field' = field /\ fills' = fills
      /\ frames' = [frames EXCEPT ![Len(frames)] = f]
  BY DEF TakeLive, Give, SetTop
<1>3. /\ Top = frames[Len(frames)] /\ Len(frames) \in Nat \ {0} /\ Len(frames) \in 1 .. Len(frames)
      /\ Top \in Frame /\ Top.arr \in Arrays /\ Top.pos \in Nat /\ Top.end \in Nat
      /\ n \in Nat /\ Top.pos + n <= Top.end /\ Top.end <= Len(heap[Top.arr])
      /\ heap[Top.arr] \in Seq(Cell)
      /\ Source(n) \in Seq(Cell) /\ Len(Source(n)) = n /\ Source(n) = Part(heap[Top.arr], Top.pos, n)
  BY <1>1, TopTypes, SourceTypes, FrameTypes
<1>4. /\ f \in Frame /\ f.arr = Top.arr /\ f.end = Top.end /\ f.pos = Top.pos + n
      /\ Top.pos <= f.pos /\ f.pos <= f.end /\ f.arena = Top.arena
  BY <1>1, <1>3, MovedTypes
<1>5. Good(heap, frames, field, leaves) /\ frames \in Seq(Frame)
  BY DEF MemInv, Good, Typed
<1> HIDE DEF f
<1>6. Good(heap, frames', field, leaves)
  <2>1. Good(heap, frames, field, leaves) /\ frames' = [frames EXCEPT ![Len(frames)] = f]
    BY <1>2, <1>5
  <2>2. /\ Len(frames) > 0 /\ f \in Frame /\ f.arr = frames[Len(frames)].arr
        /\ f.end = frames[Len(frames)].end /\ frames[Len(frames)].pos <= f.pos
        /\ f.pos <= f.end /\ f.arena = frames[Len(frames)].arena
    BY <1>3, <1>4
  <2>3. QED
    BY ONLY <2>1, <2>2, Read
<1>7. /\ l \in Leaf /\ l.at.arr = Top.arr /\ l.at.off = Top.pos /\ l.at.len = n /\ l.at.cap = n
      /\ l.live = (Top.arr = Input) /\ l.want = Source(n) /\ l.src = Top.pos
  <2>1. s \in Slices
    BY <1>3 DEF Slices
  <2>2. QED
    BY <1>3, <2>1 DEF Leaf
<1> HIDE DEF l
<1>8. LeafOK(heap, l)
  <2>1. FitsIn(heap, l.at)
    BY <1>3, <1>7, LenProperties DEF FitsIn
  <2>2. ShownIn(heap, l.at) = l.want
    BY <1>3, <1>7 DEF ShownIn
  <2>3. QED
    BY <1>3, <1>7, <2>1, <2>2 DEF LeafOK
<1>9. /\ Len(frames') = Len(frames) /\ frames'[Len(frames)] = f
      /\ \A k \in 1 .. Len(frames) - 1 : frames'[k] = frames[k]
  BY <1>2, <1>3, <1>4, <1>5, TopFrame
<1>10. field # None => l.at.arr # field.at.arr
  BY <1>3, <1>5, <1>7 DEF Good, FieldOK
<1>11. \A i \in 1 .. Len(leaves) : ~leaves[i].live /\ leaves[i].at.arr = l.at.arr =>
          leaves[i].at.off + leaves[i].at.cap <= l.at.off
  BY <1>3, <1>5, <1>7 DEF Good, ReadsOK
<1>12. ASSUME NEW k \in 1 .. Len(frames'), frames'[k].arr = l.at.arr
       PROVE  l.at.off + l.at.cap <= frames'[k].pos
  <2>1. CASE k = Len(frames)
    BY <1>3, <1>4, <1>7, <1>9, <2>1
  <2>2. CASE k # Len(frames)
    <3>1. k \in 1 .. Len(frames) - 1 /\ k \in 1 .. Len(frames) /\ k < Len(frames)
      BY <1>3, <1>9, <2>2
    <3>2. frames[k].arr = Top.arr /\ frames'[k] = frames[k]
      BY <1>7, <1>9, <1>12, <3>1
    <3>3. frames[Len(frames)].end <= frames[k].pos
      BY <1>3, <1>5, <3>1, <3>2 DEF Good, ReadsOK
    <3>4. frames[k].pos \in Nat
      BY <1>5, <3>1, FrameTypes
    <3>5. QED
      BY <1>3, <1>7, <3>2, <3>3, <3>4
  <2>3. QED
    BY <2>1, <2>2
<1>13. Top.arena # None => Top.arena.arr # l.at.arr
  BY <1>3, <1>5, <1>7 DEF Good, ArenaOK, ArenaIs
<1>14. Good(heap, frames', field, leaves')
  <2>1. /\ Good(heap, frames', field, leaves) /\ Len(leaves) < MaxLeaves
        /\ leaves' = Append(leaves, l) /\ l \in Leaf /\ LeafOK(heap, l)
    BY <1>1, <1>2, <1>6, <1>7, <1>8
  <2>2. \A k \in 1 .. Len(frames') : frames'[k].arr = l.at.arr =>
           l.at.off + l.at.cap <= frames'[k].pos
    BY <1>12
  <2>3. frames'[Len(frames')].arena # None => l.at.arr # frames'[Len(frames')].arena.arr
    BY <1>3, <1>4, <1>9, <1>13
  <2>4. QED
    BY ONLY <1>10, <1>11, <2>1, <2>2, <2>3, Given
<1>15. QED
  BY <1>2, <1>14 DEF MemInv

\* append within the arena: its room is nobody's.
LEMMA GoodTakeFromArena ==
    ASSUME MemInv, NEW n \in 1 .. InputLen, TakeFromArena(n)
    PROVE  MemInv' /\ heap'[Input] = heap[Input]
<1> DEFINE c == Source(n)
           b == Top.arena
           r == [b EXCEPT !.len = b.len + n]
           f == Moved([Top EXCEPT !.arena = r], n)
           l == [at |-> Cut(b, n), live |-> FALSE, want |-> c, src |-> 0]
<1>1. Decoding /\ n \in 0 .. Rest /\ Len(leaves) < MaxLeaves /\ n \in Nat \ {0}
  BY MemoryAssumption DEF TakeFromArena, CanTake
<1>2. /\ Top = frames[Len(frames)] /\ Len(frames) \in Nat \ {0} /\ Len(frames) \in 1 .. Len(frames)
      /\ Top \in Frame /\ Top.arena \in Slices \cup {None} /\ c \in Seq(Cell) /\ Len(c) = n
  BY <1>1, TopTypes, SourceTypes, FrameTypes
<1>3. Top.arena # None
  BY <1>1 DEF TakeFromArena, Arena
<1>4. /\ heap' = [heap EXCEPT ![b.arr] = Stored(heap[b.arr], b.len, c)]
      /\ leaves' = Append(leaves, l) /\ field' = field /\ fills' = fills
      /\ frames' = [frames EXCEPT ![Len(frames)] = f] /\ b.len + n <= b.cap
  BY <1>3 DEF TakeFromArena, Arena, Give, SetTop
<1>5. /\ b \in Slices /\ b.arr \in Arrays /\ b.off \in Nat /\ b.len \in Nat /\ b.cap \in Nat
  BY <1>2, <1>3, SliceTypes
<1>6. Good(heap, frames, field, leaves) /\ frames \in Seq(Frame) /\ heap \in [Arrays -> Seq(Cell)]
      /\ leaves \in Seq(Leaf)
  BY DEF MemInv, Good, Typed
<1>7. ArenaIs(heap, frames, field, leaves, b)
  BY <1>2, <1>3, <1>6 DEF Good, ArenaOK
<1>8. /\ b.arr # Input /\ b.off = 0 /\ b.cap <= Len(heap[b.arr]) /\ Len(heap[b.arr]) \in Nat
      /\ (field # None => field.at.arr # b.arr)
  <2>1. Len(heap[b.arr]) \in Nat
    BY <1>5, <1>6, LenProperties
  <2>2. QED
    BY <1>5, <1>7, <2>1 DEF ArenaIs, FitsIn
<1> HIDE DEF b
<1>9. WrittenTo(heap, heap', b.arr, b.len, c)
  BY <1>2, <1>4, <1>5, <1>8 DEF WrittenTo
<1>10. r \in Slices /\ r.arr = b.arr /\ r.off = 0 /\ r.cap = b.cap /\ r.len = b.len + n
  BY <1>1, <1>5, <1>8 DEF Slices
<1>11. /\ l \in Leaf /\ l.at.arr = b.arr /\ l.at.off = b.len /\ l.at.len = n /\ l.at.cap = n
       /\ ~l.live /\ l.want = c
  <2>1. /\ Cut(b, n) \in Slices /\ Cut(b, n).arr = b.arr /\ Cut(b, n).off = b.len
        /\ Cut(b, n).len = n /\ Cut(b, n).cap = n
    BY <1>1, <1>5, <1>8, CutTypes
  <2>2. QED
    BY <1>2, <2>1 DEF Leaf
<1> HIDE DEF c, r, l
<1>12. /\ f \in Frame /\ f.arr = Top.arr /\ f.end = Top.end /\ Top.pos <= f.pos /\ f.pos <= f.end
       /\ f.arena = r
  <2> DEFINE e == [Top EXCEPT !.arena = r]
  <2>1. /\ e \in Frame /\ e.arr = Top.arr /\ e.pos = Top.pos /\ e.end = Top.end /\ e.arena = r
    BY <1>2, <1>10 DEF Frame
  <2> HIDE DEF e
  <2>2. /\ Moved(e, n) \in Frame /\ Moved(e, n).arr = Top.arr
        /\ Moved(e, n).pos = Top.pos + n /\ Moved(e, n).end = Top.end
        /\ Top.pos <= Moved(e, n).pos /\ Moved(e, n).pos <= Moved(e, n).end
        /\ Moved(e, n).arena = e.arena
    BY ONLY MemInv, <1>1, <2>1, MovedTypes
  <2>3. QED
    BY <2>1, <2>2 DEF e
<1> HIDE DEF f
<1>13. \A i \in 1 .. Len(leaves) : ~leaves[i].live /\ leaves[i].at.arr = b.arr =>
          leaves[i].at.off + leaves[i].at.cap <= b.len
  BY <1>7 DEF ArenaIs
<1>14. Good(heap', frames, field, leaves)
  BY <1>6, <1>8, <1>9, <1>13, HeapWritten
<1>15. /\ heap' \in [Arrays -> Seq(Cell)] /\ Len(heap'[b.arr]) = Len(heap[b.arr])
       /\ heap'[Input] = heap[Input] /\ heap'[b.arr] = Stored(heap[b.arr], b.len, c)
  <2>1. /\ heap' \in [Arrays -> Seq(Cell)]
        /\ \A x \in Arrays : Len(heap'[x]) = Len(heap[x]) /\ (x # b.arr => heap'[x] = heap[x])
        /\ heap'[b.arr] = Stored(heap[b.arr], b.len, c)
    BY <1>6, <1>9, WrittenHeap
  <2>2. QED
    BY <1>5, <1>8, <2>1, MemoryAssumption
<1>16. ArenaIs(heap', frames, field, leaves, r)
  <2>1. FitsIn(heap', r)
    BY <1>4, <1>5, <1>8, <1>10, <1>15 DEF FitsIn
  <2>2. ASSUME NEW i \in 1 .. Len(leaves), ~leaves[i].live, leaves[i].at.arr = r.arr
        PROVE  leaves[i].at.off + leaves[i].at.cap <= r.len
    <3>1. leaves[i].at.off \in Nat /\ leaves[i].at.cap \in Nat
      BY <1>6, LeafTypes
    <3>2. QED
      BY <1>1, <1>5, <1>10, <1>13, <2>2, <3>1
  <2>3. QED
    BY <1>7, <1>8, <1>10, <2>1, <2>2 DEF ArenaIs
<1>17. Good(heap', frames', field, leaves)
  <2>1. Good(heap', frames, field, leaves) /\ frames' = [frames EXCEPT ![Len(frames)] = f]
    BY <1>4, <1>14
  <2>2. /\ Len(frames) > 0 /\ f \in Frame /\ f.arr = frames[Len(frames)].arr
        /\ f.end = frames[Len(frames)].end /\ frames[Len(frames)].pos <= f.pos
        /\ f.pos <= f.end /\ ArenaIs(heap', frames, field, leaves, f.arena)
    BY <1>2, <1>12, <1>16
  <2>3. QED
    BY ONLY <2>1, <2>2, Read
<1>18. LeafOK(heap', l)
  <2>1. FitsIn(heap', l.at)
    BY <1>1, <1>4, <1>5, <1>8, <1>11, <1>15 DEF FitsIn
  <2>2. Part(Stored(heap[b.arr], b.len, c), b.len, n) = c
    <3>1. PICK d \in Seq(Cell), k \in Nat : d = heap[b.arr] /\ k = b.len
      BY <1>5, <1>6
    <3>2. k + Len(c) <= Len(d)
      BY <1>2, <1>4, <1>5, <1>8, <3>1
    <3>3. Part(Stored(d, k, c), k, Len(c)) = c
      BY <1>2, <3>2, StoredThere
    <3>4. QED
      BY <1>2, <3>1, <3>3
  <2>3. QED
    BY <1>2, <1>8, <1>11, <1>15, <2>1, <2>2 DEF LeafOK, ShownIn
<1>19. /\ Len(frames') = Len(frames) /\ frames'[Len(frames)] = f
       /\ \A k \in 1 .. Len(frames) : frames'[k].arr # b.arr
  <2>1. /\ Len(frames') = Len(frames) /\ frames'[Len(frames)] = f
        /\ \A k \in 1 .. Len(frames) - 1 : frames'[k] = frames[k]
    BY <1>2, <1>4, <1>6, <1>12, TopFrame
  <2>2. \A k \in 1 .. Len(frames) : frames[k].arr # b.arr
    BY <1>7 DEF ArenaIs
  <2>3. QED
    BY <1>2, <1>12, <2>1, <2>2
<1>20. Good(heap', frames', field, leaves')
  <2>1. l.at.off + l.at.cap <= r.len
    BY <1>1, <1>5, <1>10, <1>11
  <2>2. field # None => l.at.arr # field.at.arr
    BY <1>8, <1>11
  <2>3. \A i \in 1 .. Len(leaves) : ~leaves[i].live /\ leaves[i].at.arr = l.at.arr =>
           leaves[i].at.off + leaves[i].at.cap <= l.at.off
    BY <1>11, <1>13
  <2>4. \A k \in 1 .. Len(frames') : frames'[k].arr # l.at.arr
    BY <1>11, <1>19
  <2>5. frames'[Len(frames')].arena = r
    BY <1>12, <1>19
  <2>6. QED
    BY <1>1, <1>4, <1>11, <1>17, <1>18, <2>1, <2>2, <2>3, <2>4, <2>5, Given
<1>21. QED
  BY <1>4, <1>15, <1>20 DEF MemInv

\* append to a larger array.
LEMMA GoodTakeFromGrown ==
    ASSUME MemInv, NEW n \in 1 .. InputLen, NEW a \in Free, NEW room \in 0 .. 1,
           TakeFromGrown(n, a, room)
    PROVE  MemInv' /\ heap'[Input] = heap[Input]
<1> DEFINE m == Arena.len
           x == Shown(Arena)
           y == Source(n)
           z == Blank(room)
           c == x \o y \o z
           grown == [Whole(a, m + n + room) EXCEPT !.len = m]
           r == [grown EXCEPT !.len = m + n]
           f == Moved([Top EXCEPT !.arena = r], n)
           l == [at |-> Cut(grown, n), live |-> FALSE, want |-> y, src |-> 0]
<1>1. Decoding /\ n \in 0 .. Rest /\ Len(leaves) < MaxLeaves /\ n \in Nat /\ room \in Nat
  BY MemoryAssumption DEF TakeFromGrown, CanTake
<1>2. /\ heap' = [heap EXCEPT ![a] = c] /\ leaves' = Append(leaves, l) /\ field' = field
      /\ fills' = fills /\ frames' = [frames EXCEPT ![Len(frames)] = f]
  BY DEF TakeFromGrown, Give, SetTop, Whole
<1>3. /\ Top = frames[Len(frames)] /\ Len(frames) \in Nat \ {0} /\ Len(frames) \in 1 .. Len(frames)
      /\ Top \in Frame /\ Top.arena \in Slices \cup {None}
      /\ y \in Seq(Cell) /\ Len(y) = n /\ z \in Seq(Cell) /\ Len(z) = room
  BY <1>1, TopTypes, SourceTypes, FrameTypes, CellTypes
<1>4. /\ Good(heap, frames, field, leaves) /\ frames \in Seq(Frame)
      /\ heap \in [Arrays -> Seq(Cell)] /\ Input \in Arrays
  BY MemoryAssumption DEF MemInv, Good, Typed
<1>5. Arena \in Slices /\ FitsIn(heap, Arena)
  <2>1. CASE Top.arena = None
    <3>1. Arena = [arr |-> Input, off |-> 0, len |-> 0, cap |-> 0]
      BY <2>1 DEF Arena
    <3>2. heap[Input] \in Seq(Cell) /\ Len(heap[Input]) \in Nat
      BY <1>4, LenProperties
    <3>3. QED
      BY <1>4, <3>1, <3>2 DEF Slices, FitsIn
  <2>2. CASE Top.arena # None
    <3>1. Arena = Top.arena /\ ArenaIs(heap, frames, field, leaves, Arena)
      BY <1>3, <1>4, <2>2 DEF Arena, Good, ArenaOK
    <3>2. QED
      BY <1>3, <2>2, <3>1 DEF ArenaIs
  <2>3. QED
    BY <2>1, <2>2
<1>6. m \in Nat /\ x \in Seq(Cell) /\ Len(x) = m
  <2>1. PICK d \in Seq(Cell), i \in Nat : d = heap[Arena.arr] /\ i = Arena.off
    BY <1>4, <1>5, SliceTypes
  <2>2. m \in Nat /\ Arena.cap \in Nat /\ Len(d) \in Nat
    BY <1>5, <2>1, SliceTypes, LenProperties
  <2>3. i + m <= Len(d)
    BY <1>5, <2>1, <2>2 DEF FitsIn
  <2>4. SubSeq(d, i + 1, i + m) \in Seq(Cell) /\ Len(SubSeq(d, i + 1, i + m)) = m
    BY <2>2, <2>3, SubSeqElements
  <2>5. QED
    BY <2>1, <2>2, <2>4 DEF Shown
<1> HIDE DEF m, x, y, z
<1>7. c \in Seq(Cell) /\ Len(c) = m + n + room /\ Part(c, m, n) = y
  BY <1>3, <1>6, MiddlePart
<1>8. Fresh(a, frames, field, leaves) /\ a \in Arrays /\ a # Input
  BY FreeIsFresh DEF Fresh
<1>9. /\ grown \in Slices /\ grown.arr = a /\ grown.off = 0 /\ grown.len = m
      /\ r \in Slices /\ r.arr = a /\ r.off = 0 /\ r.len = m + n /\ r.cap = m + n + room
  <2>1. m + n \in Nat /\ m + n + room \in Nat
    BY <1>1, <1>6
  <2>2. grown = [arr |-> a, off |-> 0, len |-> m, cap |-> m + n + room]
    BY DEF Whole
  <2> HIDE DEF grown
  <2>3. r = [arr |-> a, off |-> 0, len |-> m + n, cap |-> m + n + room]
    BY <2>2
  <2> HIDE DEF r
  <2>4. grown \in Slices /\ grown.arr = a /\ grown.off = 0 /\ grown.len = m
    BY ONLY <1>6, <1>8, <2>1, <2>2 DEF Slices
  <2>5. r \in Slices /\ r.arr = a /\ r.off = 0 /\ r.len = m + n /\ r.cap = m + n + room
    BY ONLY <1>6, <1>8, <2>1, <2>3 DEF Slices
  <2>6. QED
    BY <2>4, <2>5
<1> HIDE DEF c, grown, r
<1>10. /\ l \in Leaf /\ l.at.arr = a /\ l.at.off = m /\ l.at.len = n /\ l.at.cap = n
       /\ ~l.live /\ l.want = y
  <2>1. /\ Cut(grown, n) \in Slices /\ Cut(grown, n).arr = a /\ Cut(grown, n).off = m
        /\ Cut(grown, n).len = n /\ Cut(grown, n).cap = n
    BY <1>1, <1>9, CutTypes
  <2>2. QED
    BY <1>3, <2>1 DEF Leaf
<1>11. /\ f \in Frame /\ f.arr = Top.arr /\ f.end = Top.end /\ Top.pos <= f.pos /\ f.pos <= f.end
       /\ f.arena = r
  <2> DEFINE e == [Top EXCEPT !.arena = r]
  <2>1. /\ e \in Frame /\ e.arr = Top.arr /\ e.pos = Top.pos /\ e.end = Top.end /\ e.arena = r
    BY <1>3, <1>9 DEF Frame
  <2> HIDE DEF e
  <2>2. /\ Moved(e, n) \in Frame /\ Moved(e, n).arr = Top.arr
        /\ Moved(e, n).pos = Top.pos + n /\ Moved(e, n).end = Top.end
        /\ Top.pos <= Moved(e, n).pos /\ Moved(e, n).pos <= Moved(e, n).end
        /\ Moved(e, n).arena = e.arena
    BY ONLY MemInv, <1>1, <2>1, MovedTypes
  <2>3. QED
    BY <2>1, <2>2 DEF e
<1> HIDE DEF f, l
<1>12. Good(heap', frames, field, leaves) /\ heap'[a] = c /\ heap'[Input] = heap[Input]
  <2>1. /\ Good([heap EXCEPT ![a] = c], frames, field, leaves)
        /\ [heap EXCEPT ![a] = c][a] = c /\ [heap EXCEPT ![a] = c][Input] = heap[Input]
    BY ONLY <1>4, <1>7, <1>8, HeapFilled
  <2>2. QED
    BY <1>2, <2>1
<1>13. ArenaIs(heap', frames, field, leaves, r)
  <2>1. FitsIn(heap', r)
    BY <1>1, <1>6, <1>7, <1>9, <1>12 DEF FitsIn
  <2>2. QED
    BY <1>8, <1>9, <2>1 DEF ArenaIs, Fresh
<1>14. Good(heap', frames', field, leaves)
  <2>1. /\ Len(frames) > 0 /\ f \in Frame /\ f.arr = frames[Len(frames)].arr
        /\ f.end = frames[Len(frames)].end /\ frames[Len(frames)].pos <= f.pos
        /\ f.pos <= f.end /\ ArenaIs(heap', frames, field, leaves, f.arena)
    BY <1>3, <1>11, <1>13
  <2>2. Good(heap', frames, field, leaves) /\ frames' = [frames EXCEPT ![Len(frames)] = f]
    BY <1>2, <1>12
  <2>3. QED
    BY ONLY <2>1, <2>2, Read
<1>15. LeafOK(heap', l)
  <2>1. FitsIn(heap', l.at)
    BY <1>1, <1>6, <1>7, <1>10, <1>12 DEF FitsIn
  <2>2. QED
    BY <1>3, <1>7, <1>8, <1>10, <1>12, <2>1 DEF LeafOK, ShownIn
<1>16. /\ Len(frames') = Len(frames) /\ frames'[Len(frames)] = f
       /\ \A k \in 1 .. Len(frames) : frames'[k].arr # a
  <2>1. /\ Len(frames') = Len(frames) /\ frames'[Len(frames)] = f
        /\ \A k \in 1 .. Len(frames) - 1 : frames'[k] = frames[k]
    BY <1>2, <1>3, <1>4, <1>11, TopFrame
  <2>2. \A k \in 1 .. Len(frames) : frames[k].arr # a
    BY <1>8 DEF Fresh
  <2>3. QED
    BY <1>3, <1>11, <2>1, <2>2
<1>17. Good(heap', frames', field, leaves')
  <2>1. /\ Good(heap', frames', field, leaves) /\ Len(leaves) < MaxLeaves
        /\ leaves' = Append(leaves, l) /\ l \in Leaf /\ LeafOK(heap', l)
    BY <1>1, <1>2, <1>10, <1>14, <1>15
  <2>2. l.at.off + l.at.cap <= frames'[Len(frames')].arena.len
    BY <1>1, <1>6, <1>9, <1>10, <1>11, <1>16
  <2>3. \A k \in 1 .. Len(frames') : frames'[k].arr # l.at.arr
    BY <1>10, <1>16
  <2>4. \A i \in 1 .. Len(leaves) : leaves[i].at.arr # l.at.arr
    BY <1>8, <1>10 DEF Fresh
  <2>5. field # None => l.at.arr # field.at.arr
    BY <1>8, <1>10 DEF Fresh
  <2>6. QED
    BY ONLY <2>1, <2>2, <2>3, <2>4, <2>5, Given
<1>18. QED
  BY <1>2, <1>12, <1>17 DEF MemInv

\* A value of a map that is decoded into a variable: the variable was cleared.
LEMMA GoodTakeEntry ==
    ASSUME MemInv, NEW n \in 1 .. InputLen, NEW a \in Free, TakeEntry(n, a)
    PROVE  MemInv' /\ heap'[Input] = heap[Input]
<1> DEFINE c == Source(n)
           s == Whole(a, n)
           l == [at |-> s, live |-> FALSE, want |-> c, src |-> 0]
           f == Moved([Top EXCEPT !.vv = s], n)
<1>1. Decoding /\ n \in 0 .. Rest /\ Len(leaves) < MaxLeaves /\ a \in Arrays
  BY DEF TakeEntry, CanTake, Free
<1>2. n \in Nat /\ c \in Seq(Cell) /\ Len(c) = n /\ s \in Slices /\ s.arr = a /\ s.off = 0
  BY <1>1, SourceTypes DEF Whole, Slices
<1>3. Stored(Blank(n), 0, c) = c
  BY <1>2, StoredWhole
<1>4. /\ heap' = [heap EXCEPT ![a] = Stored(Blank(n), 0, c)] /\ leaves' = Append(leaves, l)
      /\ frames' = [frames EXCEPT ![Len(frames)] = f] /\ field' = field /\ fills' = fills
  BY <1>2 DEF TakeEntry, Give, SetTop, Zeroed
<1>5. Fresh(a, frames, field, leaves) /\ Good(heap, frames, field, leaves)
  BY FreeIsFresh DEF MemInv
<1>6. /\ Top = frames[Len(frames)] /\ Len(frames) > 0
      /\ f \in Frame /\ f.arr = Top.arr /\ f.end = Top.end /\ Top.pos <= f.pos /\ f.pos <= f.end
      /\ f.arena = Top.arena
  <2> DEFINE e == [Top EXCEPT !.vv = s]
  <2>1. Top = frames[Len(frames)] /\ Len(frames) > 0 /\ Top \in Frame
    BY <1>1, TopTypes
  <2>2. /\ e \in Frame /\ e.arr = Top.arr /\ e.pos = Top.pos /\ e.end = Top.end /\ e.arena = Top.arena
    BY <1>2, <2>1 DEF Frame
  <2> HIDE DEF e
  <2>3. /\ Moved(e, n) \in Frame /\ Moved(e, n).arr = Top.arr
        /\ Moved(e, n).pos = Top.pos + n /\ Moved(e, n).end = Top.end
        /\ Top.pos <= Moved(e, n).pos /\ Moved(e, n).pos <= Moved(e, n).end
        /\ Moved(e, n).arena = e.arena
    BY ONLY MemInv, <1>1, <2>2, MovedTypes
  <2>4. QED
    BY <2>1, <2>2, <2>3 DEF e
<1> HIDE DEF c, f
<1>7. Good(heap', frames, field, leaves')
  BY <1>1, <1>2, <1>3, <1>4, <1>5, CopyGiven
<1>8. Good(heap', frames', field, leaves')
  BY <1>4, <1>6, <1>7, Read
<1>9. heap'[Input] = heap[Input]
  BY <1>2, <1>3, <1>4, <1>5, HeapFilled
<1>10. QED
  BY <1>4, <1>8, <1>9 DEF MemInv

\* The field of the destination, in the memory it has or in a new slice.
LEMMA GoodTakeField ==
    ASSUME MemInv, NEW n \in 0 .. InputLen, NEW a \in Free, NEW direct \in BOOLEAN,
           TakeField(n, a, direct)
    PROVE  MemInv' /\ heap'[Input] = heap[Input]
<1> DEFINE c == Source(n)
           s == FieldSlice(n, a, direct)
           l == [at |-> s, live |-> FALSE, want |-> c, src |-> 0]
           f == Moved(Top, n)
<1>1. Decoding /\ n \in 0 .. Rest /\ a \in Arrays
  BY DEF TakeField, Free
<1>2. n \in Nat /\ c \in Seq(Cell) /\ Len(c) = n
  BY <1>1, SourceTypes
<1>3. /\ heap' = [heap EXCEPT ![s.arr] = Stored(IF s.arr = a THEN Blank(n) ELSE heap[s.arr], s.off, c)]
      /\ field' = l /\ frames' = [frames EXCEPT ![Len(frames)] = f]
      /\ leaves' = leaves /\ fills' = fills
  BY DEF TakeField, SetTop
<1>4. /\ Good(heap, frames, field, leaves) /\ Good(heap, frames, None, leaves)
      /\ heap \in [Arrays -> Seq(Cell)] /\ field \in Leaf \cup {None} /\ Input \in Arrays
  BY Left, MemoryAssumption DEF MemInv, Good, Typed
<1>5. Fresh(a, frames, field, leaves) /\ a # Input
  BY FreeIsFresh DEF Fresh
<1>6. /\ Top = frames[Len(frames)] /\ Len(frames) > 0
      /\ f \in Frame /\ f.arr = Top.arr /\ f.end = Top.end /\ Top.pos <= f.pos /\ f.pos <= f.end
      /\ f.arena = Top.arena
  BY <1>1, TopTypes, MovedTypes
<1> HIDE DEF c, f
<1>7. Good(heap', frames, l, leaves) /\ heap'[Input] = heap[Input]
  <2>1. CASE field # None /\ field.at.cap >= n /\ s = [field.at EXCEPT !.len = n]
    <3> DEFINE b == field.at.arr
               off == field.at.off
    <3>1. /\ field \in Leaf /\ field.at \in Slices /\ b \in Arrays /\ off \in Nat
          /\ field.at.cap \in Nat /\ LeafOK(heap, field) /\ ~field.live
      BY <1>4, <2>1, LeafTypes DEF Good, FieldOK
    <3>2. s \in Slices /\ s.arr = b /\ s.off = off /\ s.len = n /\ s.cap = field.at.cap
      BY <1>2, <2>1, <3>1 DEF Slices
    <3>3. b # a /\ b # Input /\ off + field.at.cap <= Len(heap[b]) /\ Len(heap[b]) \in Nat
      <4>1. Len(heap[b]) \in Nat
        BY <1>4, <3>1, LenProperties
      <4>2. QED
        BY <1>5, <2>1, <3>1, <4>1 DEF Fresh, LeafOK, FitsIn
    <3> HIDE DEF s
    <3>4. l \in Leaf /\ l.at = s /\ ~l.live /\ l.want = c
      BY <1>2, <3>2 DEF Leaf
    <3> HIDE DEF l
    <3>5. heap' = [heap EXCEPT ![b] = Stored(heap[b], off, c)]
      BY <1>3, <3>2, <3>3
    <3>6. off + Len(c) <= Len(heap[b])
      BY <1>2, <2>1, <3>1, <3>3
    <3> HIDE DEF b, off
    <3>7. WrittenTo(heap, heap', b, off, c)
      BY <1>2, <3>1, <3>5, <3>6 DEF WrittenTo
    <3>8. /\ Len(heap'[b]) = Len(heap[b]) /\ heap'[Input] = heap[Input]
          /\ heap'[b] = Stored(heap[b], off, c)
      <4>1. /\ \A x \in Arrays : Len(heap'[x]) = Len(heap[x]) /\ (x # b => heap'[x] = heap[x])
            /\ heap'[b] = Stored(heap[b], off, c)
        BY <1>4, <3>7, WrittenHeap
      <4>2. QED
        BY <1>4, <3>1, <3>3, <4>1
    <3>9. Fresh(b, frames, None, leaves)
      <4>1. /\ \A i \in 1 .. Len(leaves) : leaves[i].at.arr # b
            /\ \A k \in 1 .. Len(frames) : frames[k].arr # b
        BY <1>4, <2>1 DEF Good, FieldOK, b
      <4>2. frames[Len(frames)].arena # None => frames[Len(frames)].arena.arr # b
        BY <1>4, <1>6, <2>1 DEF Good, ArenaOK, ArenaIs, b
      <4>3. QED
        BY <3>1, <3>3, <4>1, <4>2 DEF Fresh
    <3>10. Good(heap', frames, None, leaves)
      <4>1. \A i \in 1 .. Len(leaves) : leaves[i].at.arr # b
        BY <3>9 DEF Fresh
      <4>2. QED
        BY ONLY <1>4, <3>7, <4>1, HeapWritten
    <3>11. LeafOK(heap', l)
      <4>1. Part(Stored(heap[b], off, c), off, Len(c)) = c
        <5>1. PICK d \in Seq(Cell), k \in Nat : d = heap[b] /\ k = off
          BY <1>4, <3>1
        <5>2. k + Len(c) <= Len(d)
          BY <3>6, <5>1
        <5>3. Part(Stored(d, k, c), k, Len(c)) = c
          BY <1>2, <5>2, StoredThere
        <5>4. QED
          BY <5>1, <5>3
      <4>2. FitsIn(heap', s)
        BY <1>2, <2>1, <3>1, <3>2, <3>3, <3>8 DEF FitsIn
      <4>3. QED
        BY <1>2, <3>2, <3>3, <3>4, <3>8, <4>1, <4>2 DEF LeafOK, ShownIn
    <3>12. l.at.arr = b
      BY <3>2, <3>4
    <3>13. Good(heap', frames, l, leaves)
      BY <3>4, <3>9, <3>10, <3>11, <3>12, FieldSet
    <3>14. QED
      BY <3>8, <3>13
  <2>2. CASE s = Whole(a, n)
    <3>1. s.arr = a /\ s.off = 0
      BY <2>2 DEF Whole
    <3> HIDE DEF s
    <3>2. heap' = [heap EXCEPT ![a] = c]
      <4>1. heap' = [heap EXCEPT ![a] = Stored(Blank(n), 0, c)]
        BY <1>3, <3>1
      <4>2. QED
        BY <1>2, <4>1, StoredWhole
    <3>3. Fresh(a, frames, None, leaves)
      BY <1>5 DEF Fresh
    <3>4. Good(heap', frames, None, leaves) /\ heap'[a] = c /\ heap'[Input] = heap[Input]
      <4>1. Good(heap, frames, None, leaves) /\ c \in Seq(Cell)
        BY <1>2, <1>4
      <4>2. /\ Good([heap EXCEPT ![a] = c], frames, None, leaves)
            /\ [heap EXCEPT ![a] = c][a] = c /\ [heap EXCEPT ![a] = c][Input] = heap[Input]
        BY ONLY <3>3, <4>1, HeapFilled
      <4>3. QED
        BY <3>2, <4>2
    <3>5. l \in Leaf /\ LeafOK(heap', l) /\ ~l.live /\ l.at.arr = a
      BY <1>1, <1>2, <1>5, <2>2, <3>4, CopiedLeaf
    <3> HIDE DEF l
    <3>6. Good(heap', frames, l, leaves)
      BY <3>3, <3>4, <3>5, FieldSet
    <3>7. QED
      BY <3>4, <3>6
  <2>3. QED
    BY <2>1, <2>2 DEF FieldSlice
<1> HIDE DEF l, s
<1>8. Good(heap', frames', l, leaves)
  BY <1>3, <1>6, <1>7, Read
<1>9. QED
  BY <1>3, <1>7, <1>8 DEF MemInv

\* The reader narrowed to the body of an arm, or a pooled decoder of a copy.
LEMMA GoodEnterArm ==
    ASSUME MemInv, NEW n \in 1 .. InputLen, NEW a \in Free, EnterArm(n, a)
    PROVE  MemInv' /\ heap'[Input] = heap[Input]
<1> DEFINE c == Source(n)
           outer == Moved(Top, n)
           inner == [Top EXCEPT !.inMap = FALSE, !.vv = None]
           er == [frames EXCEPT ![Len(frames)] = outer]
<1>1. Decoding /\ n \in 0 .. Rest /\ Len(frames) < MaxDepth
  BY DEF EnterArm
<1>2. /\ n \in Nat /\ c \in Seq(Cell) /\ Len(c) = n /\ Top.pos \in Nat /\ Top.end \in Nat
      /\ Top.pos + n <= Top.end
  BY <1>1, SourceTypes
<1>3. field' = field /\ leaves' = leaves /\ fills' = fills
  BY DEF EnterArm
<1>4. /\ frames \in Seq(Frame) /\ Top = frames[Len(frames)] /\ Len(frames) \in Nat \ {0}
      /\ Len(frames) \in 1 .. Len(frames) /\ Top \in Frame
      /\ Top.end <= Len(heap[Top.arr]) /\ heap[Top.arr] \in Seq(Cell) /\ Top.stream \in BOOLEAN
      /\ Good(heap, frames, field, leaves)
  BY <1>1, TopTypes, FrameTypes DEF MemInv
<1>5. /\ outer \in Frame /\ outer.arr = Top.arr /\ outer.end = Top.end /\ outer.pos = Top.pos + n
      /\ Top.pos <= outer.pos /\ outer.pos <= outer.end /\ outer.arena = Top.arena
  BY <1>1, <1>4, MovedTypes
<1>6. /\ inner \in Frame /\ inner.arr = Top.arr /\ inner.pos = Top.pos /\ inner.end = Top.end
      /\ inner.arena = Top.arena
  BY <1>4 DEF Frame
<1> HIDE DEF c, outer, inner
<1>7. /\ er \in Seq(Frame) /\ Len(er) = Len(frames) /\ er[Len(frames)] = outer
      /\ \A k \in 1 .. Len(frames) - 1 : er[k] = frames[k]
  BY <1>4, <1>5, TopFrame
<1>8. Good(heap, er, field, leaves)
  BY <1>4, <1>5, Read
<1>9. \A k \in 1 .. Len(frames) : er[k].arr = frames[k].arr
  BY <1>4, <1>5, <1>7
<1>10. CASE ~Top.stream
  <2> DEFINE f == [inner EXCEPT !.end = Top.pos + n]
  <2>1. frames' = er \o <<f>> /\ heap' = heap
    BY <1>10 DEF EnterArm, outer, inner
  <2> HIDE DEF er
  <2>2. /\ f \in Frame /\ f.arr = Top.arr /\ f.pos = Top.pos /\ f.end = Top.pos + n
        /\ f.arena = Top.arena
    BY <1>2, <1>6 DEF Frame
  <2> HIDE DEF f
  <2>3. f.pos <= f.end /\ f.end <= Len(heap[f.arr]) /\ Len(er) < MaxDepth
    <3>1. Len(heap[Top.arr]) \in Nat
      BY <1>4, LenProperties
    <3>2. QED
      BY <1>1, <1>2, <1>4, <1>7, <2>2, <3>1
  <2>4. \A i \in 1 .. Len(leaves) : ~leaves[i].live /\ leaves[i].at.arr = f.arr =>
           leaves[i].at.off + leaves[i].at.cap <= f.pos
    BY <1>4, <2>2 DEF Good, ReadsOK
  <2>5. ASSUME NEW k \in 1 .. Len(er), er[k].arr = f.arr
        PROVE  f.end <= er[k].pos
    <3>1. CASE k = Len(frames)
      BY <1>2, <1>5, <1>7, <2>2, <3>1
    <3>2. CASE k # Len(frames)
      <4>1. k \in 1 .. Len(frames) - 1 /\ k \in 1 .. Len(frames) /\ k < Len(frames)
        BY <1>4, <1>7, <3>2
      <4>2. frames[k].arr = Top.arr /\ er[k] = frames[k]
        BY <1>7, <2>2, <2>5, <4>1
      <4>3. frames[Len(frames)].end <= frames[k].pos
        BY <1>4, <4>1, <4>2 DEF Good, ReadsOK
      <4>4. frames[k].pos \in Nat
        BY <1>4, <4>1, FrameTypes
      <4>5. QED
        BY <1>2, <1>4, <2>2, <4>2, <4>3, <4>4
    <3>3. QED
      BY <3>1, <3>2
  <2>6. field # None => field.at.arr # f.arr
    BY <1>4, <2>2 DEF Good, FieldOK
  <2>7. f.arena # None => f.arena.arr # f.arr /\ ArenaIs(heap, er, field, leaves, f.arena)
    <3>1. f.arena # None => ArenaIs(heap, er, field, leaves, f.arena)
      BY <1>4, <1>5, <1>7, <1>8, <2>2 DEF Good, ArenaOK
    <3>2. er[Len(frames)].arr = f.arr /\ Len(frames) \in 1 .. Len(er)
      BY <1>4, <1>5, <1>7, <2>2
    <3>3. QED
      BY <3>1, <3>2 DEF ArenaIs
  <2>8. Good(heap, er \o <<f>>, field, leaves)
    BY ONLY <1>8, <2>2, <2>3, <2>4, <2>5, <2>6, <2>7, Entered
  <2>9. QED
    BY <1>3, <2>1, <2>8 DEF MemInv
<1>11. CASE Top.stream
  <2> DEFINE f == [inner EXCEPT !.arr = a, !.pos = 0, !.end = n, !.stream = FALSE, !.arena = None]
             g == [heap EXCEPT ![a] = c]
  <2>1. frames' = er \o <<f>> /\ heap' = g
    BY <1>11 DEF EnterArm, outer, inner, c
  <2>2. Fresh(a, frames, field, leaves) /\ a \in Arrays
    BY FreeIsFresh DEF Fresh
  <2>3. Fresh(a, er, field, leaves)
    BY <1>4, <1>5, <1>7, <1>9, <2>2 DEF Fresh
  <2> HIDE DEF er
  <2>4. f \in Frame /\ f.arr = a /\ f.pos = 0 /\ f.end = n /\ f.arena = None
    BY <1>2, <1>6, <2>2 DEF Frame
  <2> HIDE DEF f
  <2>5. Good(g, er, field, leaves) /\ g[a] = c /\ g[Input] = heap[Input]
    BY <1>2, <1>8, <2>3, HeapFilled
  <2> HIDE DEF g
  <2>6. f.pos <= f.end /\ f.end <= Len(g[f.arr]) /\ Len(er) < MaxDepth
    BY <1>1, <1>2, <1>7, <2>4, <2>5
  <2>7. /\ \A i \in 1 .. Len(leaves) : leaves[i].at.arr # f.arr
        /\ \A k \in 1 .. Len(er) : er[k].arr # f.arr
        /\ field # None => field.at.arr # f.arr
    BY <2>3, <2>4 DEF Fresh
  <2>8. f \in Frame /\ f.arena = None
    BY <2>4
  <2>9. Good(g, er \o <<f>>, field, leaves)
    BY ONLY <2>5, <2>6, <2>7, <2>8, Entered
  <2>10. QED
    BY <1>3, <2>1, <2>5, <2>9 DEF MemInv
<1>12. QED
  BY <1>4, <1>10, <1>11

-----------------------------------------------------------------------------
(* The actions of the caller.                                               *)

LEMMA GoodRefill ==
    ASSUME MemInv, Refill
    PROVE  MemInv'
<1>1. /\ frames = <<>> /\ frames' = frames /\ field' = field /\ leaves' = leaves
      /\ fills' = fills + 1 /\ fills < MaxFills /\ fills \in 0 .. MaxFills
      /\ heap' = [heap EXCEPT ![Input] = Filled(fills + 1, 0, InputLen)]
  BY DEF MemInv, Refill, CallerWrites, Decoding
<1>2. /\ Good(heap, frames, field, leaves) /\ heap \in [Arrays -> Seq(Cell)] /\ Input \in Arrays
      /\ Len(heap[Input]) = InputLen /\ leaves \in Seq(Leaf) /\ field \in Leaf \cup {None}
      /\ InputLen \in Nat /\ MaxFills \in Nat
  BY MemoryAssumption DEF MemInv, Good, Typed
<1>3. Filled(fills + 1, 0, InputLen) \in Seq(Cell) /\ Len(Filled(fills + 1, 0, InputLen)) = InputLen
  BY <1>1, <1>2, CellTypes
<1>4. /\ heap' \in [Arrays -> Seq(Cell)] /\ Len(heap'[Input]) = Len(heap[Input])
      /\ \A a \in Arrays : a # Input => heap'[a] = heap[a]
  BY <1>1, <1>2, <1>3
<1>5. ASSUME NEW l \in Leaf, LeafOK(heap, l)
      PROVE  LeafOK(heap', l)
  <2>1. l.at.arr \in Arrays
    BY LeafTypes
  <2>2. CASE l.live
    BY <1>4, <1>5, <2>2 DEF LeafOK, FitsIn
  <2>3. CASE ~l.live
    <3>1. heap'[l.at.arr] = heap[l.at.arr]
      BY <1>4, <1>5, <2>1, <2>3 DEF LeafOK
    <3>2. QED
      BY <1>5, <3>1, LeafSame
  <2>4. QED
    BY <2>2, <2>3
<1>6. \A i \in 1 .. Len(leaves) : LeafOK(heap', leaves[i])
  BY <1>2, <1>5 DEF Good, HeldOK
<1>7. field # None => LeafOK(heap', field)
  BY <1>2, <1>5 DEF Good, FieldOK
<1>8. LengthsKept(heap, heap', frames)
  <2>1. Len(frames) = 0
    BY <1>1
  <2>2. QED
    BY <1>4, <2>1 DEF LengthsKept
<1>9. Good(heap', frames, field, leaves)
  BY <1>2, <1>4, <1>6, <1>7, <1>8, HeapKept
<1>10. fills' \in 0 .. MaxFills
  BY <1>1, <1>2
<1>11. QED
  BY <1>1, <1>9, <1>10 DEF MemInv

Longer(l, append) == IF append THEN l.at.len + 1 ELSE l.at.len

\* How much a write of the caller keeps, and what it writes.
LEMMA WriteTypes ==
    ASSUME NEW l \in Leaf, l.at.len <= l.at.cap, NEW append \in BOOLEAN, HasRoom(l, append),
           fills \in Nat
    PROVE  /\ Keeps(l, append) \in Nat /\ Keeps(l, append) <= l.at.len
           /\ Mine(l, append) \in Seq(Cell) /\ Len(Mine(l, append)) \in Nat
           /\ Keeps(l, append) + Len(Mine(l, append)) = Longer(l, append)
           /\ Keeps(l, append) + Len(Mine(l, append)) <= l.at.cap
<1>1. l.at.len \in Nat /\ l.at.cap \in Nat /\ fills + 1 \in Nat
  BY LeafTypes
<1>2. CASE append
  <2>1. Keeps(l, append) = l.at.len /\ Mine(l, append) = Filled(fills + 1, 0, 1)
    BY <1>2 DEF Keeps, Mine
  <2>2. Filled(fills + 1, 0, 1) \in Seq(Cell) /\ Len(Filled(fills + 1, 0, 1)) = 1
    <3>1. PICK zero \in Nat, one \in Nat : zero = 0 /\ one = 1
      OBVIOUS
    <3>2. Filled(fills + 1, zero, one) \in Seq(Cell) /\ Len(Filled(fills + 1, zero, one)) = one
      BY <1>1, CellTypes
    <3>3. QED
      BY <3>1, <3>2
  <2>3. l.at.len < l.at.cap
    BY <1>2 DEF HasRoom
  <2>4. Longer(l, append) = l.at.len + 1
    BY <1>2 DEF Longer
  <2>5. PICK k, new, len, cap, d :
             /\ k = Keeps(l, append) /\ new = Mine(l, append) /\ len = l.at.len /\ cap = l.at.cap
             /\ d = Longer(l, append)
    OBVIOUS
  <2>6. /\ len \in Nat /\ cap \in Nat /\ len < cap /\ k = len /\ d = len + 1
        /\ new \in Seq(Cell) /\ Len(new) = 1
    BY <1>1, <2>1, <2>2, <2>3, <2>4, <2>5
  <2>7. /\ k \in Nat /\ k <= len /\ Len(new) \in Nat /\ k + Len(new) = d /\ k + Len(new) <= cap
    BY ONLY <2>6
  <2>8. QED
    BY <2>5, <2>6, <2>7
<1>3. CASE ~append
  <2>1. Keeps(l, append) = 0 /\ Mine(l, append) = Filled(fills + 1, 0, l.at.len)
    BY <1>3 DEF Keeps, Mine
  <2>2. /\ Filled(fills + 1, 0, l.at.len) \in Seq(Cell)
        /\ Len(Filled(fills + 1, 0, l.at.len)) = l.at.len
    BY <1>1, CellTypes
  <2>3. Longer(l, append) = l.at.len
    BY <1>3 DEF Longer
  <2>4. QED
    BY <1>1, <2>1, <2>2, <2>3
<1>4. QED
  BY <1>2, <1>3

LEMMA RewrittenTypes ==
    ASSUME NEW l \in Leaf, NEW append, Longer(l, append) \in Nat,
           Kept(l.want, Keeps(l, append)) \o Mine(l, append) \in Seq(Cell)
    PROVE  LET r == Rewritten(l, append)
           IN  /\ r \in Leaf /\ r.live = l.live /\ r.src = l.src
               /\ r.want = Kept(l.want, Keeps(l, append)) \o Mine(l, append)
               /\ r.at.arr = l.at.arr /\ r.at.off = l.at.off /\ r.at.cap = l.at.cap
               /\ r.at.len = Longer(l, append)
<1>1. l.at \in Slices
  BY LeafTypes
<1>2. PICK len2, want2 : /\ len2 = Longer(l, append)
                         /\ want2 = Kept(l.want, Keeps(l, append)) \o Mine(l, append)
  OBVIOUS
<1>3. PICK at2 : at2 = [l.at EXCEPT !.len = len2]
  OBVIOUS
<1>4. /\ at2 \in Slices /\ at2.arr = l.at.arr /\ at2.off = l.at.off /\ at2.cap = l.at.cap
      /\ at2.len = len2
  BY <1>1, <1>2, <1>3 DEF Slices
<1>5. PICK r : r = Rewritten(l, append)
  OBVIOUS
<1>6. r = [l EXCEPT !.at = at2, !.want = want2]
  BY <1>2, <1>3, <1>5 DEF Rewritten, Longer, Kept
<1>7. r \in Leaf /\ r.live = l.live /\ r.src = l.src /\ r.want = want2 /\ r.at = at2
  BY <1>2, <1>4, <1>6 DEF Leaf
<1>8. QED
  BY <1>2, <1>4, <1>5, <1>7

WriteAt(l, append) == l.at.off + Keeps(l, append)

WriteOf(h, g, l, append) ==
    g = [h EXCEPT ![l.at.arr] = Stored(@, WriteAt(l, append), Mine(l, append))]

Wrote(h, g, l, append) ==
    LET to  == WriteAt(l, append)
        new == Mine(l, append)
        r   == Rewritten(l, append)
    IN  /\ WrittenTo(h, g, l.at.arr, to, new)
        /\ to \in Nat /\ l.at.off <= to /\ Len(new) \in Nat
        /\ to + Len(new) <= l.at.off + l.at.cap
        /\ r \in Leaf /\ LeafOK(g, r)
        /\ r.at.arr = l.at.arr /\ r.at.off = l.at.off /\ r.at.cap = l.at.cap
        /\ r.live = l.live

\* A value of the caller after the caller has written into it.
LEMMA RewrittenOK ==
    ASSUME NEW h \in [Arrays -> Seq(Cell)], NEW g, NEW l \in Leaf, LeafOK(h, l),
           NEW append \in BOOLEAN, HasRoom(l, append), fills \in Nat,
           WriteOf(h, g, l, append)
    PROVE  Wrote(h, g, l, append)
<1>1. PICK k, off, len, cap, b, to, new, r :
         /\ k = Keeps(l, append) /\ off = l.at.off /\ len = l.at.len
         /\ cap = l.at.cap /\ b = l.at.arr
         /\ to = WriteAt(l, append) /\ new = Mine(l, append) /\ r = Rewritten(l, append)
         /\ g = [h EXCEPT ![b] = Stored(@, to, new)]
  BY DEF WriteOf
<1>2. /\ b \in Arrays /\ off \in Nat /\ len \in Nat /\ cap \in Nat
      /\ l.live \in BOOLEAN /\ l.want \in Seq(Cell)
  BY <1>1, LeafTypes
<1>3. h[b] \in Seq(Cell) /\ Len(h[b]) \in Nat
  BY <1>2, LenProperties
<1>4. len <= cap /\ off + cap <= Len(h[b])
  BY <1>1 DEF LeafOK, FitsIn
<1>5. /\ k \in Nat /\ k <= len /\ new \in Seq(Cell) /\ Len(new) \in Nat /\ k + Len(new) <= cap
  BY <1>1, <1>4, WriteTypes
<1>6. (~l.live => Part(h[b], off, len) = l.want) /\ Len(l.want) = len
  BY <1>1 DEF LeafOK, ShownIn
<1>7. PICK want2 : want2 = Kept(l.want, k) \o new
  OBVIOUS
<1>8. want2 \in Seq(Cell)
  <2>1. Kept(l.want, k) \in Seq(Cell)
    <3>1. k \in 0 .. Len(l.want)
      BY <1>2, <1>5, <1>6
    <3>2. QED
      BY <1>2, <3>1, PrefixOfSeq DEF Kept
  <2>2. QED
    BY <1>5, <1>7, <2>1
<1>9. /\ r \in Leaf /\ r.live = l.live /\ r.src = l.src /\ r.want = want2
      /\ r.at.arr = b /\ r.at.off = off /\ r.at.cap = cap /\ r.at.len = k + Len(new)
  <2>1. k + Len(new) \in Nat
    BY <1>5
  <2>2. k + Len(new) = Longer(l, append)
    BY <1>1, <1>4, WriteTypes
  <2>3. Longer(l, append) \in Nat /\ Kept(l.want, Keeps(l, append)) \o Mine(l, append) \in Seq(Cell)
    BY <1>1, <1>7, <1>8, <2>1, <2>2
  <2>4. LET e == Rewritten(l, append)
        IN  /\ e \in Leaf /\ e.live = l.live /\ e.src = l.src
            /\ e.want = Kept(l.want, Keeps(l, append)) \o Mine(l, append)
            /\ e.at.arr = l.at.arr /\ e.at.off = l.at.off /\ e.at.cap = l.at.cap
            /\ e.at.len = Longer(l, append)
    BY <2>3, RewrittenTypes
  <2>5. QED
    BY <1>1, <1>7, <2>2, <2>4
<1>10. /\ to = off + k /\ to \in Nat /\ off <= to /\ to + Len(new) <= off + cap
       /\ to + Len(new) <= Len(h[b])
  <2>1. to = off + k
    BY <1>1 DEF WriteAt
  <2>2. QED
    BY ONLY <1>2, <1>3, <1>4, <1>5, <2>1
<1>11. WrittenTo(h, g, b, to, new)
  BY <1>1, <1>2, <1>5, <1>10 DEF WrittenTo
<1>12. /\ Len(g[b]) = Len(h[b]) /\ g[b] = Stored(h[b], to, new)
  BY <1>2, <1>11, WrittenHeap
<1>13. FitsIn(g, r.at)
  BY <1>4, <1>5, <1>9, <1>12 DEF FitsIn
<1>14. ASSUME ~l.live
       PROVE  ShownIn(g, r.at) = r.want
  <2>1. PICK c \in Seq(Cell) : c = h[b]
    BY <1>3
  <2>2. k <= len /\ off + len <= Len(c) /\ off + k + Len(new) <= Len(c)
    BY <1>2, <1>3, <1>4, <1>5, <2>1
  <2>3. PICK t : t = k + Len(new)
    OBVIOUS
  <2>4. Part(Stored(c, to, new), off, t) = Kept(Part(c, off, len), k) \o new
    <3>1. off \in Nat /\ new \in Seq(Cell) /\ k \in Nat /\ len \in Nat /\ to = off + k
      BY <1>2, <1>5, <1>10
    <3>2. k <= len /\ off + len <= Len(c) /\ off + k + Len(new) <= Len(c)
      BY <2>2
    <3>3. /\ to \in Nat /\ to <= off + k /\ off + k <= to
          /\ t \in Nat /\ t <= k + Len(new) /\ k + Len(new) <= t
      BY <1>5, <1>10, <2>3, <3>1
    <3>4. QED
      BY ONLY c \in Seq(Cell), <3>1, <3>2, <3>3, StoredBehind
  <2>5. ShownIn(g, r.at) = Part(g[b], off, t)
    BY ONLY <1>9, <2>3 DEF ShownIn
  <2>6. g[b] = Stored(c, to, new) /\ Part(c, off, len) = l.want
    BY <1>6, <1>12, <1>14, <2>1
  <2>7. QED
    BY ONLY <1>7, <1>9, <2>4, <2>5, <2>6
<1>15. LeafOK(g, r)
  <2>1. Len(want2) = k + Len(new)
    <3>1. k \in 0 .. Len(l.want)
      BY <1>2, <1>5, <1>6
    <3>2. PICK v \in Seq(Cell) : v = Kept(l.want, k) /\ Len(v) = k
      BY <1>2, <3>1, PrefixOfSeq DEF Kept
    <3>3. want2 = v \o new /\ new \in Seq(Cell)
      BY <1>5, <1>7, <3>2
    <3>4. Len(v \o new) = Len(v) + Len(new)
      BY <3>3
    <3>5. QED
      BY <3>2, <3>3, <3>4
  <2>2. QED
    BY <1>1, <1>9, <1>13, <1>14, <2>1 DEF LeafOK
<1>16. QED
  BY <1>1, <1>5, <1>9, <1>10, <1>11, <1>15 DEF Wrote

LEMMA GoodWriteLeaf ==
    ASSUME MemInv, NEW i \in DOMAIN leaves, NEW append \in BOOLEAN, WriteLeaf(i, append)
    PROVE  MemInv'
<1>1. PICK l, to, new, r : /\ l = leaves[i] /\ to = WriteAt(l, append)
                           /\ new = Mine(l, append) /\ r = Rewritten(l, append)
  OBVIOUS
<1>2. /\ frames = <<>> /\ frames' = frames /\ field' = field /\ HasRoom(l, append)
      /\ fills' = fills + 1 /\ fills < MaxFills
      /\ leaves' = [leaves EXCEPT ![i] = r]
      /\ heap' = [heap EXCEPT ![l.at.arr] = Stored(@, to, new)]
  BY <1>1 DEF WriteLeaf, CallerWrites, Decoding, Written, WriteAt
<1>3. /\ Good(heap, frames, field, leaves) /\ heap \in [Arrays -> Seq(Cell)] /\ Input \in Arrays
      /\ leaves \in Seq(Leaf) /\ field \in Leaf \cup {None} /\ MaxFills \in Nat /\ fills \in Nat
  BY MemoryAssumption DEF MemInv, Good, Typed
<1>4. i \in 1 .. Len(leaves)
  BY <1>3, LenProperties
<1>5. l \in Leaf /\ LeafOK(heap, l) /\ l.live \in BOOLEAN
  <2>1. l \in Leaf /\ LeafOK(heap, l)
    BY <1>1, <1>3, <1>4 DEF Good, HeldOK
  <2>2. QED
    BY <2>1, LeafTypes
<1>6. /\ WrittenTo(heap, heap', l.at.arr, to, new)
      /\ to \in Nat /\ l.at.off <= to /\ Len(new) \in Nat /\ to + Len(new) <= l.at.off + l.at.cap
      /\ r \in Leaf /\ LeafOK(heap', r)
      /\ r.at.arr = l.at.arr /\ r.at.off = l.at.off /\ r.at.cap = l.at.cap
      /\ r.live = l.live
  <2>1. WriteOf(heap, heap', l, append)
    BY <1>1, <1>2 DEF WriteOf
  <2>2. Wrote(heap, heap', l, append)
    BY <1>2, <1>3, <1>5, <2>1, RewrittenOK
  <2>3. QED
    BY <1>1, <2>2 DEF Wrote
<1>7. heap' \in [Arrays -> Seq(Cell)] /\ Len(heap'[Input]) = Len(heap[Input])
  BY <1>3, <1>6, WrittenHeap
<1>8. ASSUME NEW j \in 1 .. Len(leaves), j # i
      PROVE  LeafOK(heap', leaves[j])
  <2>1. leaves[j] \in Leaf /\ LeafOK(heap, leaves[j])
    BY <1>3 DEF Good, HeldOK
  <2>2. /\ leaves[j].live \in BOOLEAN /\ leaves[j].at.off \in Nat /\ leaves[j].at.cap \in Nat
        /\ l.at.off \in Nat /\ l.at.cap \in Nat
    BY <1>5, <2>1, LeafTypes
  <2>3. ASSUME ~leaves[j].live, leaves[j].at.arr = l.at.arr
        PROVE  to + Len(new) <= leaves[j].at.off \/ leaves[j].at.off + leaves[j].at.cap <= to
    <3>1. ~l.live
      BY <1>5, <2>1, <2>3 DEF LeafOK
    <3>2. Apart(leaves[j].at, l.at)
      BY <1>1, <1>3, <1>4, <1>8, <2>3, <3>1 DEF Good, HeldOK
    <3>3. \/ leaves[j].at.off + leaves[j].at.cap <= l.at.off
          \/ l.at.off + l.at.cap <= leaves[j].at.off
      BY <2>3, <3>2 DEF Apart
    <3>4. /\ to \in Nat /\ l.at.off <= to /\ Len(new) \in Nat
          /\ to + Len(new) <= l.at.off + l.at.cap
      BY <1>6
    <3>5. /\ l.at.off \in Nat /\ l.at.cap \in Nat
          /\ leaves[j].at.off \in Nat /\ leaves[j].at.cap \in Nat
      BY <2>2
    <3>6. CASE leaves[j].at.off + leaves[j].at.cap <= l.at.off
      BY ONLY <3>4, <3>5, <3>6
    <3>7. CASE l.at.off + l.at.cap <= leaves[j].at.off
      BY ONLY <3>4, <3>5, <3>7
    <3>8. QED
      BY <3>3, <3>6, <3>7
  <2>4. leaves[j].live \/ (leaves[j].at.arr = l.at.arr =>
           to + Len(new) <= leaves[j].at.off \/ leaves[j].at.off + leaves[j].at.cap <= to)
    BY <2>2, <2>3
  <2>5. heap \in [Arrays -> Seq(Cell)] /\ WrittenTo(heap, heap', l.at.arr, to, new)
    BY <1>3, <1>6
  <2>6. QED
    BY ONLY MemoryAssumption, <2>1, <2>4, <2>5, LeafWritten
<1>9. ASSUME field # None
      PROVE  LeafOK(heap', field)
  <2>1. field \in Leaf /\ LeafOK(heap, field) /\ field.at.arr # l.at.arr
    BY <1>1, <1>3, <1>4, <1>9 DEF Good, FieldOK
  <2>2. QED
    BY <1>3, <1>6, <2>1, LeafWritten
<1>10. Good(heap', <<>>, field, leaves')
  <2>1. Good(heap, <<>>, field, leaves)
    BY <1>2, <1>3
  <2>2. /\ r.at.arr = leaves[i].at.arr /\ r.at.off = leaves[i].at.off
        /\ r.at.cap = leaves[i].at.cap /\ r.live = leaves[i].live
    BY <1>1, <1>6
  <2>3. Good(heap', <<>>, field, [leaves EXCEPT ![i] = r])
    BY <1>4, <1>6, <1>7, <1>8, <1>9, <2>1, <2>2, LeafReplaced
  <2>4. QED
    BY <1>2, <2>3
<1>11. Good(heap', frames', field', leaves')
  BY <1>2, <1>10
<1>12. fills' \in 0 .. MaxFills
  BY <1>2, <1>3
<1>13. QED
  BY <1>11, <1>12 DEF MemInv

LEMMA GoodWriteField ==
    ASSUME MemInv, NEW append \in BOOLEAN, WriteField(append)
    PROVE  MemInv'
<1>1. PICK to, new, r : /\ to = WriteAt(field, append)
                        /\ new = Mine(field, append) /\ r = Rewritten(field, append)
  OBVIOUS
<1>2. /\ frames = <<>> /\ frames' = frames /\ leaves' = leaves /\ HasRoom(field, append)
      /\ fills' = fills + 1 /\ fills < MaxFills /\ field # None
      /\ field' = r
      /\ heap' = [heap EXCEPT ![field.at.arr] = Stored(@, to, new)]
  BY <1>1 DEF WriteField, CallerWrites, Decoding, Written, WriteAt
<1>3. /\ Good(heap, frames, field, leaves) /\ Good(heap, frames, None, leaves)
      /\ heap \in [Arrays -> Seq(Cell)] /\ Input \in Arrays
      /\ leaves \in Seq(Leaf) /\ field \in Leaf \cup {None} /\ MaxFills \in Nat /\ fills \in Nat
  BY Left, MemoryAssumption DEF MemInv, Good, Typed
<1>4. /\ field \in Leaf /\ LeafOK(heap, field) /\ ~field.live /\ field.at.arr \in Arrays
      /\ field.at.arr # Input /\ \A j \in 1 .. Len(leaves) : leaves[j].at.arr # field.at.arr
  <2>1. field \in Leaf
    BY <1>2, <1>3
  <2>2. QED
    BY <1>2, <1>3, <2>1, LeafTypes DEF Good, FieldOK, LeafOK
<1>5. /\ WrittenTo(heap, heap', field.at.arr, to, new)
      /\ r \in Leaf /\ LeafOK(heap', r)
      /\ r.at.arr = field.at.arr /\ r.live = field.live
  <2>1. WriteOf(heap, heap', field, append)
    BY <1>1, <1>2 DEF WriteOf
  <2>2. Wrote(heap, heap', field, append)
    BY <1>2, <1>3, <1>4, <2>1, RewrittenOK
  <2>3. QED
    BY <1>1, <2>2 DEF Wrote
<1>6. Good(heap', frames, None, leaves)
  <2>1. Good(heap, frames, None, leaves) /\ \A j \in 1 .. Len(leaves) : leaves[j].at.arr # field.at.arr
    BY <1>3, <1>4
  <2>2. WrittenTo(heap, heap', field.at.arr, to, new)
    BY <1>5
  <2>3. QED
    BY ONLY <2>1, <2>2, HeapWritten
<1>7. Fresh(r.at.arr, frames, None, leaves)
  <2>1. Len(frames) = 0
    BY <1>2
  <2>2. QED
    BY <1>4, <1>5, <2>1 DEF Fresh
<1>8. Good(heap', frames, r, leaves)
  BY <1>4, <1>5, <1>6, <1>7, FieldSet
<1>9. Good(heap', frames', field', leaves')
  BY <1>2, <1>8
<1>10. fills' \in 0 .. MaxFills
  BY <1>2, <1>3
<1>11. QED
  BY <1>9, <1>10 DEF MemInv

-----------------------------------------------------------------------------
(* The theorems.                                                            *)

LEMMA MemNext ==
    ASSUME MemInv, Next
    PROVE  MemInv' /\ (Decoding => heap'[Input] = heap[Input])
<1>1. CASE Caller
  <2>1. ~Decoding
    BY <1>1 DEF Caller, Refill, WriteField, WriteLeaf, CallerWrites
  <2>2. CASE Refill
    BY <2>1, <2>2, GoodRefill
  <2>3. CASE \E append \in BOOLEAN :
                \/ WriteField(append)
                \/ \E i \in DOMAIN leaves : WriteLeaf(i, append)
    BY <2>1, <2>3, GoodWriteField, GoodWriteLeaf
  <2>4. QED
    BY <1>1, <2>2, <2>3 DEF Caller
<1>2. CASE Decode
  <2>1. CASE \E stream, used \in BOOLEAN : Begin(stream, used)
    <3>1. PICK stream \in BOOLEAN, used \in BOOLEAN : Begin(stream, used)
      BY <2>1
    <3>2. ~Decoding
      BY <3>1 DEF Begin
    <3>3. QED
      BY <3>1, <3>2, GoodBegin
  <2>2. CASE \E n \in 1 .. InputLen : TakeFromArena(n) \/ TakeLive(n)
    BY <2>2, GoodTakeFromArena, GoodTakeLive
  <2>3. CASE LeaveArm \/ DecodeInside \/ End
    BY <2>3, GoodLeaveArm, GoodDecodeInside, GoodEnd
  <2>4. QED
    BY <1>2, <2>1, <2>2, <2>3 DEF Decode
<1>3. CASE Free # {} /\ DecodeAllocating(CHOOSE a \in Free : TRUE)
  <2>1. PICK a \in Free : DecodeAllocating(a)
    BY <1>3
  <2>2. CASE \E n \in 0 .. InputLen, direct \in BOOLEAN : TakeField(n, a, direct)
    BY <2>2, GoodTakeField
  <2>3. CASE \E n \in 1 .. InputLen :
                \/ \E room \in 0 .. 1 : TakeFromGrown(n, a, room)
                \/ TakeCopy(n, a)
                \/ TakeEntry(n, a)
                \/ EnterArm(n, a)
    <3>1. PICK n \in 1 .. InputLen :
             \/ \E room \in 0 .. 1 : TakeFromGrown(n, a, room)
             \/ TakeCopy(n, a)
             \/ TakeEntry(n, a)
             \/ EnterArm(n, a)
      BY <2>3
    <3>2. QED
      BY <3>1, GoodTakeFromGrown, GoodTakeCopy, GoodTakeEntry, GoodEnterArm
  <2>4. CASE BeginMap(a)
    BY <2>4, GoodBeginMap
  <2>5. QED
    BY <2>1, <2>2, <2>3, <2>4 DEF DecodeAllocating
<1>4. QED
  BY <1>1, <1>2, <1>3 DEF Next

LEMMA MemAlways == Spec => []MemInv
<1>1. MemInv /\ [Next]_vars => MemInv'
  <2>1. ASSUME MemInv, UNCHANGED vars
        PROVE  MemInv'
    BY <2>1 DEF MemInv, vars
  <2>2. QED
    BY <2>1, MemNext
<1>2. QED
  BY <1>1, InitGood, PTL DEF Spec

LEMMA MemTypes == MemInv => TypeOK
<1> SUFFICES ASSUME MemInv PROVE TypeOK
  OBVIOUS
<1>1. /\ heap \in [Arrays -> Seq(Cell)] /\ Len(heap[Input]) = InputLen
      /\ frames \in Seq(Frame) /\ Len(frames) <= MaxDepth /\ Len(frames) \in Nat
      /\ DOMAIN frames = 1 .. Len(frames)
      /\ field \in Leaf \cup {None} /\ leaves \in Seq(Leaf) /\ Len(leaves) <= MaxLeaves
      /\ DOMAIN leaves = 1 .. Len(leaves) /\ fills \in 0 .. MaxFills
  BY LenProperties DEF MemInv, Good, Typed
<1>2. \A i \in DOMAIN frames :
         frames[i].pos <= frames[i].end /\ frames[i].end <= Len(heap[frames[i].arr])
  BY <1>1 DEF MemInv, Good, ReadsOK
<1>3. Decoding /\ Top.arena # None => Fits(Top.arena)
  <2>1. Decoding => Len(frames) > 0
    BY <1>1 DEF Decoding
  <2>2. QED
    BY <2>1 DEF MemInv, Good, ArenaOK, ArenaIs, Fits, FitsIn, Top
<1>4. field # None => Fits(field.at)
  BY DEF MemInv, Good, FieldOK, LeafOK, Fits, FitsIn
<1>5. \A i \in DOMAIN leaves : Fits(leaves[i].at)
  BY <1>1 DEF MemInv, Good, HeldOK, LeafOK, Fits, FitsIn
<1>6. QED
  BY <1>1, <1>2, <1>3, <1>4, <1>5 DEF TypeOK

\* No slice, frame or arena ever goes past the array it is in.
THEOREM MemoryTypes == Spec => []TypeOK
BY MemAlways, MemTypes, PTL

LEMMA MemStanding == MemInv => Standing
<1> SUFFICES ASSUME MemInv PROVE Standing
  OBVIOUS
<1>1. leaves \in Seq(Leaf) /\ DOMAIN leaves = 1 .. Len(leaves)
  BY LenProperties DEF MemInv, Good, Typed
<1>2. ASSUME NEW i \in DOMAIN leaves
      PROVE  Shown(leaves[i].at) =
                IF leaves[i].live
                THEN SubSeq(heap[Input], leaves[i].src + 1, leaves[i].src + leaves[i].at.len)
                ELSE leaves[i].want
  <2>1. LeafOK(heap, leaves[i]) /\ leaves[i] \in Leaf
    BY <1>1 DEF MemInv, Good, HeldOK
  <2>2. leaves[i].live \in BOOLEAN
    BY <2>1, LeafTypes
  <2>3. CASE leaves[i].live
    BY <2>1, <2>3 DEF LeafOK, Shown
  <2>4. CASE ~leaves[i].live
    BY <2>1, <2>4 DEF LeafOK, Shown, ShownIn, Part
  <2>5. QED
    BY <2>2, <2>3, <2>4
<1>3. field # None => Shown(field.at) = field.want
  BY DEF MemInv, Good, FieldOK, LeafOK, Shown, ShownIn, Part
<1>4. QED
  BY <1>2, <1>3 DEF Standing

\* Whatever is decoded later by the same decoder, filled into the input, or
\* written into or appended to another value, a string or byte slice that was
\* decoded stays what it was given as; and what src/nocopy decoded goes on to
\* show the input, whatever it is filled with.
THEOREM ValuesStand == Spec => []Standing
BY MemAlways, MemStanding, PTL

\* Intervals of cells, and the room behind those in use.
LEMMA ApartCells ==
    ASSUME NEW s \in Slices, NEW t \in Slices
    PROVE  /\ Apart(s, t) => Cells(s) \cap Cells(t) = {}
           /\ (s.arr = t.arr => s.off + s.cap <= t.off + t.len) => Cells(s) \cap Room(t) = {}
<1>1. /\ s.off \in Nat /\ s.len \in Nat /\ s.cap \in Nat
      /\ t.off \in Nat /\ t.len \in Nat /\ t.cap \in Nat
  BY SliceTypes
<1>2. ASSUME Apart(s, t), NEW x \in Cells(s) \cap Cells(t)
      PROVE  FALSE
  <2>1. PICK i \in s.off + 1 .. s.off + s.cap : x = <<s.arr, i>>
    BY DEF Cells
  <2>2. PICK k \in t.off + 1 .. t.off + t.cap : x = <<t.arr, k>>
    BY DEF Cells
  <2>3. s.arr = t.arr /\ i = k
    BY <2>1, <2>2
  <2>4. s.off + s.cap <= t.off \/ t.off + t.cap <= s.off
    BY <1>2, <2>3 DEF Apart
  <2>5. QED
    BY <1>1, <2>3, <2>4
<1>3. ASSUME s.arr = t.arr => s.off + s.cap <= t.off + t.len, NEW x \in Cells(s) \cap Room(t)
      PROVE  FALSE
  <2>1. PICK i \in s.off + 1 .. s.off + s.cap : x = <<s.arr, i>>
    BY DEF Cells
  <2>2. PICK k \in t.off + t.len + 1 .. t.off + t.cap : x = <<t.arr, k>>
    BY DEF Room
  <2>3. s.arr = t.arr /\ i = k
    BY <2>1, <2>2
  <2>4. QED
    BY <1>1, <1>3, <2>3
<1>4. QED
  BY <1>2, <1>3

LEMMA MemSeparate == MemInv => Separate
<1> SUFFICES ASSUME MemInv PROVE Separate
  OBVIOUS
<1>1. /\ leaves \in Seq(Leaf) /\ DOMAIN leaves = 1 .. Len(leaves)
      /\ field \in Leaf \cup {None} /\ frames \in Seq(Frame) /\ Len(frames) \in Nat
      /\ Good(heap, frames, field, leaves)
  BY LenProperties DEF MemInv, Good, Typed
<1>2. \A i \in 1 .. Len(leaves) :
         leaves[i] \in Leaf /\ leaves[i].at \in Slices
  BY <1>1, LeafTypes
<1>3. Copied = {i \in 1 .. Len(leaves) : ~leaves[i].live}
  BY <1>1 DEF Copied
<1>4. ASSUME NEW i \in Copied, NEW j \in Copied, i # j
      PROVE  Cells(leaves[i].at) \cap Cells(leaves[j].at) = {}
  <2>1. Apart(leaves[i].at, leaves[j].at)
    BY <1>1, <1>3, <1>4 DEF Good, HeldOK
  <2>2. leaves[i].at \in Slices /\ leaves[j].at \in Slices
    BY <1>2, <1>3
  <2>3. QED
    BY <2>1, <2>2, ApartCells
<1>5. ASSUME NEW i \in Copied
      PROVE  leaves[i].at.arr # Input
  BY <1>1, <1>3 DEF Good, HeldOK, LeafOK
<1>6. ASSUME NEW i \in Copied, field # None
      PROVE  Cells(leaves[i].at) \cap Cells(field.at) = {}
  <2>1. leaves[i].at.arr # field.at.arr
    BY <1>1, <1>3, <1>6 DEF Good, FieldOK
  <2>2. QED
    BY <2>1 DEF Cells
<1>7. ASSUME Decoding, Top.arena # None
      PROVE  ArenaIs(heap, frames, field, leaves, Top.arena)
  <2>1. Len(frames) > 0
    BY <1>1, <1>7 DEF Decoding
  <2>2. QED
    BY <1>1, <1>7, <2>1 DEF Good, ArenaOK, Top
<1>8. ASSUME NEW i \in Copied, Decoding, Top.arena # None
      PROVE  Cells(leaves[i].at) \cap Room(Top.arena) = {}
  <2>1. leaves[i].at.arr = Top.arena.arr =>
           leaves[i].at.off + leaves[i].at.cap <= Top.arena.len
    BY <1>3, <1>7, <1>8 DEF ArenaIs
  <2>2. Top.arena \in Slices /\ leaves[i].at \in Slices
    BY <1>2, <1>3, <1>8, TopTypes, FrameTypes
  <2>3. Top.arena.off + Top.arena.len = Top.arena.len
    BY <1>7, <1>8, <2>2, SliceTypes DEF ArenaIs
  <2>4. QED
    BY <2>1, <2>2, <2>3, ApartCells
<1>9. field # None => field.at.arr # Input
  BY <1>1 DEF Good, FieldOK, LeafOK
<1>10. Decoding /\ Top.arena # None => Top.arena.arr # Input
  BY <1>7 DEF ArenaIs
<1>11. QED
  BY <1>4, <1>5, <1>6, <1>8, <1>9, <1>10 DEF Separate

\* No two decoded values have a cell in common, not even one append would use;
\* none but those of src/nocopy has one of the input; the room of the arena is
\* nobody's.
THEOREM ValuesSeparate == Spec => []Separate
BY MemAlways, MemSeparate, PTL

\* Decoding reads the caller's input and never writes to it.
THEOREM InputNeverWritten == Spec => InputIntact
<1>1. MemInv /\ [Next]_vars => [Decoding => heap'[Input] = heap[Input]]_vars
  BY MemNext
<1>2. QED
  BY <1>1, MemAlways, PTL DEF Spec, InputIntact

=============================================================================
