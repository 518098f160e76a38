---------------------------- MODULE PrologProofs ----------------------------
(***************************************************************************)
(* Proofs about the control of the Prolog engine, for every program and    *)
(* whatever terms, unification and the building of goals do.               *)
(***************************************************************************)
EXTENDS PrologBoxes, SequenceTheorems, WellFoundedInduction, TLAPS

(* The inductive invariant.  Its parts are stated of boxes bs, a history hs and *)
(* a C stack fs, so that what a step leaves alone can be said in lemmas.       *)

Width(fn) == IF fn \in {"cat", "alt"} THEN 2 ELSE IF fn \in {"deferred", "choice"} THEN 1 ELSE 0

Shaped(bs) ==
  /\ IsSeq(bs) /\ 1 \in DOMAIN bs /\ bs[1].fn = "choice"
  /\ \A i \in DOMAIN bs :
       /\ DOMAIN bs[i] = DOMAIN BoxOf("true") /\ bs[i].ci \in Nat
       /\ \/ DOMAIN bs[i].kids = 1 .. Width(bs[i].fn)
          \/ bs[i].fn \in {"deferred", "choice"} /\ DOMAIN bs[i].kids = {}

(* No box has two parents, and the root has none.                              *)
Tree(bs) ==
  \A i \in DOMAIN bs : \A a \in DOMAIN bs[i].kids :
    /\ bs[i].kids[a] \in DOMAIN bs \ {1}
    /\ \A j \in DOMAIN bs : \A b \in DOMAIN bs[j].kids : bs[i].kids[a] = bs[j].kids[b] => i = j /\ a = b
Orphan(bs, k) == \A i \in DOMAIN bs : \A a \in DOMAIN bs[i].kids : bs[i].kids[a] # k

(* Body goals stand on the right of the chain of conjunctions that begins with  *)
(* the head of their clause.                                                   *)
Chained(bs, i, n) ==
  LET l == bs[i].kids[1]
  IN \/ l = n /\ bs[n].fn = "head"
     \/ /\ l < i /\ bs[l].fn = "cat" /\ bs[bs[l].kids[2]].fn = "deferred"
        /\ bs[bs[l].kids[2]].head = n
Clausal(bs) ==
  \A i \in DOMAIN bs : \A a \in DOMAIN bs[i].kids :
    LET d == bs[i].kids[a]
    IN bs[d].fn = "deferred" => bs[i].fn = "cat" /\ a = 2 /\ Chained(bs, i, bs[d].head)

Struct(bs) == Shaped(bs) /\ Tree(bs) /\ Clausal(bs)

(* Frame f, of a box that has called box k.                                    *)
FnAt(at) == CASE at \in {"left", "right"} -> "cat"
              [] at \in {"first", "again", "second"} -> "alt"
              [] at = "not" -> "not"
              [] at = "inner" -> "deferred"
              [] OTHER -> "choice"
Slot(at) == IF at \in {"right", "second"} THEN 2 ELSE 1
Fits(bs, f, k) ==
  /\ f.box \in DOMAIN bs /\ k \in DOMAIN bs \ {1}
  /\ f.at \in Place /\ bs[f.box].fn = FnAt(f.at)
  /\ IF f.at = "not" THEN bs[k].fn = "choice" /\ Orphan(bs, k)
     ELSE Slot(f.at) \in DOMAIN bs[f.box].kids /\ k = bs[f.box].kids[Slot(f.at)]

(* The stack fs, innermost frame first, under box b: each box is there once and *)
(* has been called by the next, the last is the root.                          *)
Under(fs, b, i) == IF i = 1 THEN b ELSE fs[i - 1].box
Stacked(bs, fs, b) ==
  /\ IsSeq(fs) /\ b \in DOMAIN bs
  /\ Under(fs, b, Len(fs) + 1) = 1
  /\ \A i \in DOMAIN fs : Fits(bs, fs[i], Under(fs, b, i))
  /\ \A i, j \in 1 .. Len(fs) + 1 : Under(fs, b, i) = Under(fs, b, j) => i = j
OnStack(fs, i) == \E j \in DOMAIN fs : fs[j].box = i

(* What a box that has succeeded and may be resumed relies on.                 *)
Rests(bs, hs, i) ==
  /\ bs[i].fn = "cat" => hs[bs[i].kids[1]].exit = "gamma" /\ hs[bs[i].kids[2]].exit = "gamma"
  /\ bs[i].fn = "alt" => /\ bs[i].phase = 0 => hs[bs[i].kids[1]].exit = "gamma"
                         /\ bs[i].phase = 2 => hs[bs[i].kids[2]].exit = "gamma"
  /\ bs[i].fn \in {"deferred", "choice"} => 1 \in DOMAIN bs[i].kids /\ hs[bs[i].kids[1]].exit = "gamma"
  /\ bs[i].fn = "head" => bs[i].fired
Settled(bs, hs, fs) == \A i \in DOMAIN bs : hs[i].exit = "gamma" /\ ~ OnStack(fs, i) => Rests(bs, hs, i)

(* What a box that waits for a child relies on.                                *)
Waits(bs, hs, f) ==
  /\ f.at = "right"  => hs[bs[f.box].kids[1]].exit = "gamma"
  /\ f.at = "again"  => bs[f.box].phase = 0
  /\ f.at = "second" => bs[f.box].phase = 2
Waiting(bs, hs, fs) == \A j \in DOMAIN fs : Waits(bs, hs, fs[j])

(* The cut target c is the innermost box that tries a clause, from frame m on,  *)
(* and each that does has saved the one outside it.                            *)
Target(fs, c, m) ==
  \/ c = 0 /\ \A i \in DOMAIN fs : i >= m => fs[i].at # "clause"
  \/ \E i \in DOMAIN fs : /\ i >= m /\ fs[i].at = "clause" /\ c = fs[i].box
                          /\ \A j \in DOMAIN fs : j >= m /\ fs[j].at = "clause" => i <= j
Nested(fs, c) ==
  /\ Target(fs, c, 1)
  /\ \A j \in DOMAIN fs : fs[j].at = "clause" => Target(fs, fs[j].saved, j + 1)

HistOK(bs, hs) == DOMAIN hs = DOMAIN bs /\ \A i \in DOMAIN hs : DOMAIN hs[i] = DOMAIN Unseen
PortOK ==
  /\ ctl.port \in {"alpha", "beta", "gamma", "omega"}
  /\ ctl.port = "beta" => hist[ctl.box].exit = "gamma"
  /\ ~ Entered => hist[ctl.box].exit = ctl.port

IInv ==
  /\ prog \in Program
  /\ Struct(boxes)
  /\ HistOK(boxes, hist)
  /\ Stacked(boxes, calls, ctl.box)
  /\ Settled(boxes, hist, calls)
  /\ Waiting(boxes, hist, calls)
  /\ Nested(calls, cutflag)
  /\ PortOK

-----------------------------------------------------------------------------
(* Sequences *)

LEMMA SeqFacts ==
  ASSUME NEW s, IsSeq(s)
  PROVE  /\ Len(s) \in Nat /\ DOMAIN s = 1 .. Len(s)
         /\ s \in [1 .. Len(s) -> Range(s)]
  BY DEF IsSeq

(* A function on 1 .. n is a sequence.                                         *)
LEMMA SeqIntro ==
  ASSUME NEW n \in Nat, NEW s, NEW S, s \in [1 .. n -> S]
  PROVE  IsSeq(s) /\ Len(s) = n /\ DOMAIN s = 1 .. n
  <1>1. s \in [1 .. n -> Range(s)]
    BY DEF Range
  <1>2. s \in Seq(Range(s))
    BY <1>1, SeqDef
  <1> QED BY <1>2, <1>1 DEF IsSeq

LEMMA ConcatIs ==
  ASSUME NEW s, NEW t, IsSeq(s), IsSeq(t)
  PROVE  /\ IsSeq(s \o t) /\ Len(s \o t) = Len(s) + Len(t)
         /\ DOMAIN (s \o t) = 1 .. Len(s) + Len(t)
         /\ \A i \in 1 .. Len(s) + Len(t) : (s \o t)[i] = IF i <= Len(s) THEN s[i] ELSE t[i - Len(s)]
  <1> DEFINE S == Range(s) \cup Range(t)
  <1>1. s \in Seq(S) /\ t \in Seq(S)
    BY SeqFacts, SeqDef
  <1>2. /\ s \o t \in Seq(S) /\ Len(s \o t) = Len(s) + Len(t)
        /\ \A i \in 1 .. Len(s) + Len(t) : (s \o t)[i] = IF i <= Len(s) THEN s[i] ELSE t[i - Len(s)]
    BY <1>1, ConcatProperties
  <1> DEFINE u == s \o t
  <1>3. u \in [1 .. Len(s) + Len(t) -> S] /\ Len(s) + Len(t) \in Nat
    <2>1. u \in Seq(S) /\ Len(u) = Len(s) + Len(t) /\ Len(s) \in Nat /\ Len(t) \in Nat
      BY <1>1, <1>2
    <2> HIDE DEF u
    <2> QED BY <2>1
  <1>4. IsSeq(s \o t)
    BY <1>3, SeqIntro
  <1> QED BY <1>2, <1>3, <1>4

LEMMA OneIs ==
  ASSUME NEW x
  PROVE  IsSeq(<<x>>) /\ Len(<<x>>) = 1 /\ <<x>>[1] = x /\ DOMAIN <<x>> = 1 .. 1
  <1>1. <<x>> \in Seq({x}) /\ Len(<<x>>) = 1 /\ <<x>>[1] = x
    OBVIOUS
  <1>2. <<x>> \in [1 .. 1 -> {x}]
    BY <1>1
  <1>3. IsSeq(<<x>>) /\ DOMAIN <<x>> = 1 .. 1
    BY <1>2, SeqIntro, 1 \in Nat
  <1> QED BY <1>1, <1>3

LEMMA AppendIs ==
  ASSUME NEW s, NEW x, IsSeq(s)
  PROVE  /\ IsSeq(Append(s, x)) /\ Len(Append(s, x)) = Len(s) + 1
         /\ DOMAIN Append(s, x) = 1 .. Len(s) + 1
         /\ \A i \in 1 .. Len(s) : Append(s, x)[i] = s[i]
         /\ Append(s, x)[Len(s) + 1] = x
  <1> DEFINE S == Range(s) \cup {x}
  <1>1. s \in Seq(S) /\ x \in S
    BY SeqFacts, SeqDef
  <1>2. Append(s, x) \in Seq(S) /\ Len(Append(s, x)) = Len(s) + 1
        /\ (\A i \in 1 .. Len(s) : Append(s, x)[i] = s[i]) /\ Append(s, x)[Len(s) + 1] = x
    BY <1>1, AppendProperties
  <1> DEFINE t == Append(s, x)
  <1>3. t \in [1 .. Len(s) + 1 -> S] /\ Len(s) + 1 \in Nat
    <2>1. t \in Seq(S) /\ Len(t) = Len(s) + 1 /\ Len(s) \in Nat
      BY <1>1, <1>2
    <2> HIDE DEF t
    <2> QED BY <2>1
  <1> QED BY <1>2, <1>3, SeqIntro

LEMMA TailIs ==
  ASSUME NEW s, IsSeq(s), s # <<>>
  PROVE  /\ IsSeq(Tail(s)) /\ Len(s) >= 1 /\ Len(Tail(s)) = Len(s) - 1 /\ Head(s) = s[1]
         /\ DOMAIN Tail(s) = 1 .. Len(s) - 1
         /\ \A i \in 1 .. Len(s) - 1 : Tail(s)[i] = s[i + 1]
  <1>1. s \in Seq(Range(s)) /\ Len(s) \in Nat /\ Len(s) >= 1
    BY SeqFacts DEF IsSeq
  <1>2. Tail(s) \in Seq(Range(s)) /\ Len(Tail(s)) = Len(s) - 1 /\ Head(s) = s[1]
        /\ \A i \in 1 .. Len(s) - 1 : Tail(s)[i] = s[i + 1]
    BY <1>1, HeadTailProperties
  <1> DEFINE t == Tail(s)
  <1>3. t \in [1 .. Len(s) - 1 -> Range(s)] /\ Len(s) - 1 \in Nat
    <2>1. t \in Seq(Range(s)) /\ Len(t) = Len(s) - 1 /\ Len(s) \in Nat
      BY <1>1, <1>2
    <2> HIDE DEF t
    <2> QED BY <2>1, <1>1
  <1> QED BY <1>1, <1>2, <1>3, SeqIntro

LEMMA ExceptIs ==
  ASSUME NEW s, NEW m, NEW x, IsSeq(s)
  PROVE  /\ IsSeq([s EXCEPT ![m] = x]) /\ Len([s EXCEPT ![m] = x]) = Len(s)
         /\ DOMAIN [s EXCEPT ![m] = x] = DOMAIN s
         /\ \A i \in DOMAIN s : [s EXCEPT ![m] = x][i] = IF i = m THEN x ELSE s[i]
  <1> DEFINE t == [s EXCEPT ![m] = x]
             S == Range(s) \cup {x}
  <1>1. s \in [1 .. Len(s) -> S] /\ Len(s) \in Nat /\ DOMAIN s = 1 .. Len(s)
    BY SeqFacts
  <1>2. t \in [1 .. Len(s) -> S]
    BY <1>1
  <1>3. IsSeq(t) /\ Len(t) = Len(s) /\ DOMAIN t = 1 .. Len(s)
    BY <1>1, <1>2, SeqIntro
  <1> QED BY <1>1, <1>3

-----------------------------------------------------------------------------
(* The stack and the tree *)

LEMMA StackPop ==
  ASSUME NEW bs, NEW fs, NEW b, Stacked(bs, fs, b), fs # <<>>
  PROVE  /\ Stacked(bs, Tail(fs), Head(fs).box) /\ Fits(bs, Head(fs), b)
         /\ Head(fs).box # b /\ ~ OnStack(Tail(fs), Head(fs).box)
  <1>1. /\ IsSeq(fs) /\ Len(fs) \in Nat /\ DOMAIN fs = 1 .. Len(fs) /\ b \in DOMAIN bs
        /\ Under(fs, b, Len(fs) + 1) = 1
        /\ \A i \in DOMAIN fs : Fits(bs, fs[i], Under(fs, b, i))
        /\ \A i, j \in 1 .. Len(fs) + 1 : Under(fs, b, i) = Under(fs, b, j) => i = j
    BY SeqFacts DEF Stacked
  <1> DEFINE t == Tail(fs)
             h == Head(fs)
  <1>2. /\ IsSeq(t) /\ Len(fs) >= 1 /\ Len(t) = Len(fs) - 1 /\ h = fs[1] /\ DOMAIN t = 1 .. Len(fs) - 1
        /\ \A i \in 1 .. Len(fs) - 1 : t[i] = fs[i + 1]
    BY <1>1, TailIs
  <1> HIDE DEF t, h
  <1>3. \A i \in 1 .. Len(fs) : Under(t, h.box, i) = Under(fs, b, i + 1)
    BY <1>1, <1>2 DEF Under
  <1>4. Fits(bs, h, b) /\ h.box \in DOMAIN bs
    BY <1>1, <1>2 DEF Under, Fits
  <1>5. Under(t, h.box, Len(t) + 1) = 1
    BY <1>1, <1>2, <1>3
  <1>6. ASSUME NEW i \in DOMAIN t PROVE Fits(bs, t[i], Under(t, h.box, i))
    <2>1. i \in 1 .. Len(fs) /\ i + 1 \in DOMAIN fs /\ t[i] = fs[i + 1]
      BY <1>1, <1>2, <1>6
    <2>2. Under(t, h.box, i) = Under(fs, b, i + 1)
      BY <2>1, <1>3
    <2> QED BY <2>1, <2>2, <1>1
  <1>7. ASSUME NEW i \in 1 .. Len(t) + 1, NEW j \in 1 .. Len(t) + 1, Under(t, h.box, i) = Under(t, h.box, j)
        PROVE  i = j
    <2>1. i \in 1 .. Len(fs) /\ j \in 1 .. Len(fs) /\ i + 1 \in 1 .. Len(fs) + 1 /\ j + 1 \in 1 .. Len(fs) + 1
      BY <1>1, <1>2
    <2>2. Under(fs, b, i + 1) = Under(fs, b, j + 1)
      BY <2>1, <1>3, <1>7
    <2>3. i + 1 = j + 1
      BY <2>1, <2>2, <1>1
    <2> QED BY <2>1, <2>3
  <1>8. h.box # b
    <2>1. Under(fs, b, 1) = b /\ Under(fs, b, 2) = h.box /\ 1 \in 1 .. Len(fs) + 1 /\ 2 \in 1 .. Len(fs) + 1
      BY <1>1, <1>2 DEF Under
    <2> QED BY <2>1, <1>1
  <1>9. ~ OnStack(t, h.box)
    <2> SUFFICES ASSUME NEW j \in DOMAIN t, t[j].box = h.box PROVE FALSE
      BY DEF OnStack
    <2>1. Under(t, h.box, j + 1) = h.box /\ Under(t, h.box, 1) = h.box
          /\ 1 \in 1 .. Len(t) + 1 /\ j + 1 \in 1 .. Len(t) + 1 /\ j + 1 # 1
      BY <1>1, <1>2 DEF Under
    <2> QED BY <2>1, <1>7
  <1> QED BY <1>2, <1>4, <1>5, <1>6, <1>7, <1>8, <1>9 DEF Stacked, t, h

LEMMA StackPush ==
  ASSUME NEW bs, NEW fs, NEW b, NEW f, NEW k, Stacked(bs, fs, b), f.box = b, Fits(bs, f, k),
         \A i \in 1 .. Len(fs) + 1 : Under(fs, b, i) # k
  PROVE  Stacked(bs, <<f>> \o fs, k)
  <1>1. /\ IsSeq(fs) /\ Len(fs) \in Nat /\ DOMAIN fs = 1 .. Len(fs)
        /\ Under(fs, b, Len(fs) + 1) = 1
        /\ \A i \in DOMAIN fs : Fits(bs, fs[i], Under(fs, b, i))
        /\ \A i, j \in 1 .. Len(fs) + 1 : Under(fs, b, i) = Under(fs, b, j) => i = j
    BY SeqFacts DEF Stacked
  <1> DEFINE p == <<f>> \o fs
  <1>2. /\ IsSeq(p) /\ Len(p) = Len(fs) + 1 /\ DOMAIN p = 1 .. Len(fs) + 1 /\ p[1] = f
        /\ \A i \in 2 .. Len(fs) + 1 : p[i] = fs[i - 1]
    BY <1>1, OneIs, ConcatIs
  <1> HIDE DEF p
  <1>3. Under(p, k, 1) = k /\ \A i \in 2 .. Len(fs) + 2 : Under(p, k, i) = Under(fs, b, i - 1)
    <2> SUFFICES ASSUME NEW i \in 2 .. Len(fs) + 2 PROVE Under(p, k, i) = Under(fs, b, i - 1)
      BY DEF Under
    <2>1. CASE i = 2
      BY <2>1, <1>1, <1>2 DEF Under
    <2>2. CASE i # 2
      <3>1. p[i - 1] = fs[i - 2] /\ i # 1 /\ i - 1 # 1 /\ i - 1 - 1 = i - 2
        BY <2>2, <1>1, <1>2
      <3> QED BY <3>1 DEF Under
    <2> QED BY <2>1, <2>2
  <1>4. ASSUME NEW i \in DOMAIN p PROVE Fits(bs, p[i], Under(p, k, i))
    <2>1. CASE i = 1
      BY <2>1, <1>2, <1>3
    <2>2. CASE i # 1
      <3>1. p[i] = fs[i - 1] /\ Under(p, k, i) = Under(fs, b, i - 1) /\ i - 1 \in DOMAIN fs
        BY <2>2, <1>1, <1>2, <1>3
      <3> QED BY <3>1, <1>1
    <2> QED BY <2>1, <2>2
  <1>5. ASSUME NEW i \in 1 .. Len(p) + 1, NEW j \in 1 .. Len(p) + 1, Under(p, k, i) = Under(p, k, j)
        PROVE  i = j
    <2>1. \A m \in 2 .. Len(p) + 1 : Under(p, k, m) = Under(fs, b, m - 1) /\ m - 1 \in 1 .. Len(fs) + 1
      BY <1>1, <1>2, <1>3
    <2>2. CASE i = 1 /\ j # 1
      BY <2>1, <2>2, <1>3, <1>5, <1>1, <1>2
    <2>3. CASE i # 1 /\ j = 1
      BY <2>1, <2>3, <1>3, <1>5, <1>1, <1>2
    <2>4. CASE i # 1 /\ j # 1
      <3>1. i \in 2 .. Len(p) + 1 /\ j \in 2 .. Len(p) + 1
        BY <2>4, <1>1, <1>2
      <3>2. i - 1 = j - 1
        BY <3>1, <2>1, <1>5, <1>1
      <3> QED BY <3>1, <3>2, <1>1, <1>2
    <2> QED BY <2>2, <2>3, <2>4
  <1>6. Under(p, k, Len(p) + 1) = 1
    BY <1>1, <1>2, <1>3
  <1> QED BY <1>2, <1>4, <1>5, <1>6 DEF Stacked, Fits, p

(* A child of b is not below b.                                                *)
LEMMA KidAbove ==
  ASSUME NEW bs, NEW fs, NEW f, NEW k, Tree(bs), Stacked(bs, fs, f.box), Fits(bs, f, k), f.at # "not"
  PROVE  \A i \in 1 .. Len(fs) + 1 : Under(fs, f.box, i) # k
  <1> DEFINE b == f.box
  <1>1. /\ Len(fs) \in Nat /\ DOMAIN fs = 1 .. Len(fs)
        /\ Under(fs, b, Len(fs) + 1) = 1
        /\ \A i \in DOMAIN fs : Fits(bs, fs[i], Under(fs, b, i))
        /\ \A i, j \in 1 .. Len(fs) + 1 : Under(fs, b, i) = Under(fs, b, j) => i = j
    BY SeqFacts DEF Stacked
  <1>2. /\ b \in DOMAIN bs /\ k # 1 /\ Slot(f.at) \in DOMAIN bs[b].kids /\ k = bs[b].kids[Slot(f.at)]
    BY DEF Fits
  <1> SUFFICES ASSUME NEW i \in 1 .. Len(fs) + 1, Under(fs, b, i) = k PROVE FALSE
    OBVIOUS
  <1>3. i \in DOMAIN fs
    BY <1>1, <1>2
  <1>4. Fits(bs, fs[i], k)
    BY <1>1, <1>3
  <1>5. fs[i].at # "not"
    BY <1>4, <1>2 DEF Fits, Orphan
  <1>6. fs[i].box = b
    BY <1>4, <1>5, <1>2 DEF Fits, Tree
  <1>7. Under(fs, b, i + 1) = b /\ Under(fs, b, 1) = b /\ i + 1 \in 1 .. Len(fs) + 1 /\ 1 \in 1 .. Len(fs) + 1
    BY <1>1, <1>3, <1>6 DEF Under
  <1>8. i + 1 = 1
    BY <1>7, <1>1
  <1> QED BY <1>8, <1>1

(* What a step of box m leaves of the boxes: it may give m other children, but  *)
(* only boxes that it has made.                                                *)
Grows(bs, b2, m) ==
  /\ DOMAIN bs \subseteq DOMAIN b2
  /\ \A i \in DOMAIN bs :
       /\ b2[i].fn = bs[i].fn
       /\ i # m => b2[i].kids = bs[i].kids /\ b2[i].phase = bs[i].phase /\ b2[i].fired = bs[i].fired
  /\ \A i \in DOMAIN b2 : \A a \in DOMAIN b2[i].kids : b2[i].kids[a] \in DOMAIN bs =>
       i \in DOMAIN bs /\ a \in DOMAIN bs[i].kids /\ bs[i].kids[a] = b2[i].kids[a]

LEMMA FitsKept ==
  ASSUME NEW bs, NEW b2, NEW m, NEW f, NEW k, Grows(bs, b2, m), Fits(bs, f, k), f.box # m
  PROVE  Fits(b2, f, k)
  <1>1. CASE f.at = "not"
    BY <1>1 DEF Fits, Grows, Orphan
  <1>2. CASE f.at # "not"
    BY <1>2 DEF Fits, Grows
  <1> QED BY <1>1, <1>2

LEMMA StackKept ==
  ASSUME NEW bs, NEW b2, NEW m, NEW fs, Grows(bs, b2, m), Stacked(bs, fs, m)
  PROVE  Stacked(b2, fs, m)
  <1>1. /\ Len(fs) \in Nat /\ DOMAIN fs = 1 .. Len(fs) /\ m \in DOMAIN b2
        /\ \A i, j \in 1 .. Len(fs) + 1 : Under(fs, m, i) = Under(fs, m, j) => i = j
    BY SeqFacts DEF Stacked, Grows
  <1>2. ASSUME NEW i \in DOMAIN fs PROVE Fits(b2, fs[i], Under(fs, m, i))
    <2>1. Under(fs, m, i + 1) = fs[i].box /\ Under(fs, m, 1) = m
          /\ i + 1 \in 1 .. Len(fs) + 1 /\ 1 \in 1 .. Len(fs) + 1 /\ i + 1 # 1
      BY <1>1 DEF Under
    <2>2. fs[i].box # m
      BY <2>1, <1>1
    <2> QED BY <2>2, FitsKept DEF Stacked
  <1> QED BY <1>1, <1>2 DEF Stacked

LEMMA StackFacts ==
  ASSUME NEW bs, NEW fs, NEW b, Stacked(bs, fs, b)
  PROVE  /\ IsSeq(fs) /\ Len(fs) \in Nat /\ DOMAIN fs = 1 .. Len(fs) /\ b \in DOMAIN bs
         /\ \A i \in 1 .. Len(fs) + 1 : Under(fs, b, i) \in DOMAIN bs
         /\ \A j \in DOMAIN fs : fs[j].box \in DOMAIN bs /\ fs[j].box # b
         /\ \A i, j \in DOMAIN fs : fs[i].box = fs[j].box => i = j
         /\ ~ OnStack(fs, b)
  <1>1. /\ IsSeq(fs) /\ Len(fs) \in Nat /\ DOMAIN fs = 1 .. Len(fs) /\ b \in DOMAIN bs
        /\ \A i \in DOMAIN fs : Fits(bs, fs[i], Under(fs, b, i))
        /\ \A i, j \in 1 .. Len(fs) + 1 : Under(fs, b, i) = Under(fs, b, j) => i = j
    BY SeqFacts DEF Stacked
  <1>2. \A j \in DOMAIN fs : /\ Under(fs, b, j + 1) = fs[j].box /\ j + 1 \in 1 .. Len(fs) + 1 /\ j + 1 # 1
                             /\ fs[j].box \in DOMAIN bs
    BY <1>1 DEF Under, Fits
  <1>3. Under(fs, b, 1) = b /\ 1 \in 1 .. Len(fs) + 1
    BY <1>1 DEF Under
  <1>4. \A j \in DOMAIN fs : fs[j].box # b
    BY <1>1, <1>2, <1>3
  <1>5. \A i, j \in DOMAIN fs : fs[i].box = fs[j].box => i = j
    <2> SUFFICES ASSUME NEW i \in DOMAIN fs, NEW j \in DOMAIN fs, fs[i].box = fs[j].box PROVE i = j
      OBVIOUS
    <2>1. i + 1 = j + 1
      BY <1>1, <1>2
    <2> QED BY <2>1, <1>1
  <1>6. ASSUME NEW i \in 1 .. Len(fs) + 1 PROVE Under(fs, b, i) \in DOMAIN bs
    <2>1. CASE i = 1
      BY <2>1, <1>1, <1>3
    <2>2. CASE i # 1
      <3>1. i - 1 \in DOMAIN fs /\ Under(fs, b, i) = fs[i - 1].box
        BY <2>2, <1>1 DEF Under
      <3> QED BY <3>1, <1>2
    <2> QED BY <2>1, <2>2
  <1> QED BY <1>1, <1>2, <1>4, <1>5, <1>6 DEF OnStack

LEMMA ParentOnStack ==
  ASSUME NEW bs, NEW fs, NEW b, Tree(bs), Stacked(bs, fs, b),
         NEW i \in DOMAIN bs, NEW a \in DOMAIN bs[i].kids, bs[i].kids[a] = b
  PROVE  1 \in DOMAIN fs /\ fs[1].box = i /\ Slot(fs[1].at) = a
  <1>1. b # 1
    BY DEF Tree
  <1>2. Len(fs) \in Nat /\ DOMAIN fs = 1 .. Len(fs) /\ Under(fs, b, Len(fs) + 1) = 1
    BY StackFacts DEF Stacked
  <1>3. 1 \in DOMAIN fs
    BY <1>1, <1>2 DEF Under
  <1>4. Fits(bs, fs[1], b)
    BY <1>3 DEF Stacked, Under
  <1>5. fs[1].at # "not"
    BY <1>4 DEF Fits, Orphan
  <1> QED BY <1>3, <1>4, <1>5 DEF Fits, Tree

LEMMA PushFacts ==
  ASSUME NEW f, NEW fs, IsSeq(fs)
  PROVE  /\ IsSeq(<<f>> \o fs) /\ Len(<<f>> \o fs) = Len(fs) + 1 /\ DOMAIN (<<f>> \o fs) = 1 .. Len(fs) + 1
         /\ Len(fs) \in Nat /\ DOMAIN fs = 1 .. Len(fs)
         /\ (<<f>> \o fs)[1] = f
         /\ \A i \in 2 .. Len(fs) + 1 : (<<f>> \o fs)[i] = fs[i - 1]
         /\ \A i : OnStack(<<f>> \o fs, i) <=> i = f.box \/ OnStack(fs, i)
  <1> DEFINE p == <<f>> \o fs
  <1>1. /\ IsSeq(p) /\ Len(p) = Len(fs) + 1 /\ DOMAIN p = 1 .. Len(fs) + 1 /\ p[1] = f
        /\ Len(fs) \in Nat /\ DOMAIN fs = 1 .. Len(fs)
        /\ \A i \in 2 .. Len(fs) + 1 : p[i] = fs[i - 1]
    BY OneIs, ConcatIs, SeqFacts
  <1> HIDE DEF p
  <1>2. ASSUME NEW i PROVE OnStack(p, i) <=> i = f.box \/ OnStack(fs, i)
    <2>1. ASSUME OnStack(p, i), i # f.box PROVE OnStack(fs, i)
      <3>1. PICK j \in DOMAIN p : p[j].box = i
        BY <2>1 DEF OnStack
      <3>2. j - 1 \in DOMAIN fs /\ fs[j - 1].box = i
        BY <3>1, <2>1, <1>1
      <3> QED BY <3>2 DEF OnStack
    <2>2. ASSUME OnStack(fs, i) PROVE OnStack(p, i)
      <3>1. PICK j \in DOMAIN fs : fs[j].box = i
        BY <2>2 DEF OnStack
      <3>2. j + 1 \in DOMAIN p /\ p[j + 1] = fs[j]
        BY <3>1, <1>1
      <3> QED BY <3>1, <3>2 DEF OnStack
    <2>3. ASSUME i = f.box PROVE OnStack(p, i)
      BY <2>3, <1>1 DEF OnStack
    <2> QED BY <2>1, <2>2, <2>3
  <1> QED BY <1>1, <1>2 DEF p

(* The box in control, and the stack under it, before and after a child returns. *)
LEMMA MyStack ==
  ASSUME IInv, Entered \/ calls # <<>>
  PROVE  /\ Stacked(boxes, Rest, Me)
         /\ Me \in DOMAIN boxes
         /\ \A i : OnStack(calls, i) => i = Me \/ OnStack(Rest, i)
         /\ Waiting(boxes, hist, Rest)
         /\ ~ Entered => /\ Fits(boxes, Head(calls), ctl.box) /\ Waits(boxes, hist, Head(calls))
                         /\ hist[ctl.box].exit = ctl.port
  <1>1. Stacked(boxes, calls, ctl.box) /\ Waiting(boxes, hist, calls) /\ PortOK
    BY DEF IInv
  <1>2. CASE Entered
    BY <1>1, <1>2, StackFacts DEF Me, Rest
  <1>3. CASE ~ Entered
    <2>1. calls # <<>> /\ Me = Head(calls).box /\ Rest = Tail(calls)
      BY <1>3 DEF Me, Rest
    <2>2. Stacked(boxes, Rest, Me) /\ Fits(boxes, Head(calls), ctl.box)
      BY <1>1, <2>1, StackPop
    <2>3. /\ IsSeq(calls) /\ Len(calls) \in Nat /\ Len(calls) >= 1 /\ DOMAIN calls = 1 .. Len(calls)
          /\ Head(calls) = calls[1] /\ DOMAIN Rest = 1 .. Len(calls) - 1
          /\ \A i \in 1 .. Len(calls) - 1 : Rest[i] = calls[i + 1]
      BY <1>1, <2>1, StackFacts, TailIs
    <2>4. ASSUME NEW i, OnStack(calls, i) PROVE i = Me \/ OnStack(Rest, i)
      <3>1. PICK j \in DOMAIN calls : calls[j].box = i
        BY <2>4 DEF OnStack
      <3>2. CASE j = 1
        BY <3>1, <3>2, <2>1, <2>3
      <3>3. CASE j # 1
        <4>1. j - 1 \in DOMAIN Rest /\ Rest[j - 1] = calls[j]
          BY <3>3, <2>3
        <4> QED BY <4>1, <3>1 DEF OnStack
      <3> QED BY <3>2, <3>3
    <2>5. Waiting(boxes, hist, Rest) /\ Waits(boxes, hist, Head(calls))
      BY <1>1, <2>3 DEF Waiting
    <2> QED BY <2>2, <2>4, <2>5, StackFacts, <1>1, <1>3 DEF PortOK
  <1> QED BY <1>2, <1>3

LEMMA EnterKeeps ==
  ASSUME IInv, Entered \/ calls # <<>>, prog' = prog,
         NEW k, NEW port \in {"alpha", "beta"}, NEW f, NEW bs, NEW h, Enter(k, port, f, bs, h),
         f.box = Me, Struct(bs), Grows(boxes, bs, Me), Fits(bs, f, k),
         f.at = "not" => k \notin DOMAIN boxes,
         f.at = "right" => bs = boxes,
         Waits(bs, hist, f),
         port = "beta" => k \in DOMAIN boxes /\ hist[k].exit = "gamma",
         Nested(<<f>> \o Rest, cutflag')
  PROVE  IInv'
  <1>1. /\ Stacked(boxes, Rest, Me) /\ Me \in DOMAIN boxes /\ Waiting(boxes, hist, Rest)
        /\ \A i : OnStack(calls, i) => i = Me \/ OnStack(Rest, i)
    BY MyStack
  <1>2. /\ Shaped(boxes) /\ Tree(boxes) /\ Shaped(bs) /\ Tree(bs) /\ HistOK(boxes, hist)
        /\ Settled(boxes, hist, calls)
    BY DEF IInv, Struct
  <1>3. /\ boxes' = bs /\ calls' = <<f>> \o Rest /\ ctl' = [port |-> port, box |-> k]
        /\ hist' = [i \in DOMAIN bs |->
                IF i = k /\ port = "alpha" THEN Begun(h, Len(open) + 1)
                ELSE IF i \in DOMAIN hist THEN hist[i] ELSE Unseen]
    BY DEF Enter
  <1>4. Stacked(bs, Rest, Me)
    BY <1>1, StackKept
  <1>5. \A i \in 1 .. Len(Rest) + 1 : Under(Rest, Me, i) # k
    <2>1. CASE f.at = "not"
      BY <2>1, <1>1, StackFacts
    <2>2. CASE f.at # "not"
      BY <2>2, <1>2, <1>4, KidAbove
    <2> QED BY <2>1, <2>2
  <1>6. Stacked(bs, <<f>> \o Rest, k)
    BY <1>4, <1>5, StackPush
  <1>7. /\ HistOK(bs, hist')
        /\ \A i \in DOMAIN boxes : hist[i].exit = "gamma" /\ ~ (i = k /\ port = "alpha") => hist'[i].exit = "gamma"
        /\ \A i \in DOMAIN bs : hist'[i].exit = "gamma" => i \in DOMAIN boxes /\ hist[i].exit = "gamma"
    BY <1>2, <1>3 DEF HistOK, Unseen, Begun, Grows
  <1>8. \A i \in DOMAIN bs : \A a \in DOMAIN bs[i].kids : bs[i].kids[a] = k => i = Me /\ a = Slot(f.at)
    BY <1>2 DEF Fits, Tree, Orphan
  <1>9. /\ IsSeq(Rest) /\ DOMAIN (<<f>> \o Rest) = 1 .. Len(Rest) + 1 /\ (<<f>> \o Rest)[1] = f
        /\ Len(Rest) \in Nat /\ DOMAIN Rest = 1 .. Len(Rest)
        /\ \A i \in 2 .. Len(Rest) + 1 : (<<f>> \o Rest)[i] = Rest[i - 1]
        /\ \A i : OnStack(<<f>> \o Rest, i) <=> i = Me \/ OnStack(Rest, i)
    BY <1>1, StackFacts, PushFacts
  <1>10. Settled(bs, hist', <<f>> \o Rest)
    <2> SUFFICES ASSUME NEW i \in DOMAIN bs, hist'[i].exit = "gamma", ~ OnStack(<<f>> \o Rest, i)
                 PROVE  Rests(bs, hist', i)
      BY DEF Settled
    <2>1. i \in DOMAIN boxes /\ hist[i].exit = "gamma" /\ i # Me /\ ~ OnStack(calls, i)
      BY <1>1, <1>7, <1>9
    <2>2. Rests(boxes, hist, i)
      BY <2>1, <1>2 DEF Settled
    <2>3. bs[i].fn = boxes[i].fn /\ bs[i].kids = boxes[i].kids /\ bs[i].phase = boxes[i].phase
          /\ bs[i].fired = boxes[i].fired
      BY <2>1 DEF Grows
    <2>4. \A a \in DOMAIN boxes[i].kids : boxes[i].kids[a] \in DOMAIN boxes /\ boxes[i].kids[a] # k
      BY <2>1, <2>3, <1>2, <1>8 DEF Tree
    <2>5. boxes[i].fn \in {"cat", "alt"} => 1 \in DOMAIN boxes[i].kids /\ 2 \in DOMAIN boxes[i].kids
      BY <2>1, <1>2 DEF Shaped, Width
    <2> QED BY <2>2, <2>3, <2>4, <2>5, <1>7 DEF Rests
  <1>11. Waiting(bs, hist', <<f>> \o Rest)
    <2> SUFFICES ASSUME NEW j \in 1 .. Len(Rest) + 1 PROVE Waits(bs, hist', (<<f>> \o Rest)[j])
      BY <1>9 DEF Waiting
    <2>1. CASE j = 1
      <3>1. ASSUME f.at = "right" PROVE hist'[bs[f.box].kids[1]].exit = "gamma"
        <4>1. bs[Me].fn = "cat" /\ 1 \in DOMAIN bs[Me].kids /\ bs = boxes
          BY <3>1, <1>1, <1>2 DEF Fits, FnAt, Shaped, Width
        <4>2. bs[Me].kids[1] # k /\ bs[Me].kids[1] \in DOMAIN boxes
          BY <3>1, <4>1, <1>1, <1>2, <1>8 DEF Slot, Tree
        <4> QED BY <3>1, <4>2, <1>7 DEF Waits
      <3> QED BY <2>1, <3>1, <1>9 DEF Waits
    <2>2. CASE j # 1
      <3> DEFINE g == Rest[j - 1]
      <3>1. j - 1 \in DOMAIN Rest /\ (<<f>> \o Rest)[j] = g
        BY <2>2, <1>9
      <3>2. g.box \in DOMAIN boxes /\ g.box # Me /\ Waits(boxes, hist, g)
            /\ Fits(boxes, g, Under(Rest, Me, j - 1))
        <4>1. \A i \in DOMAIN Rest : Rest[i].box \in DOMAIN boxes /\ Rest[i].box # Me
          BY <1>1, StackFacts
        <4>2. \A i \in DOMAIN Rest : Waits(boxes, hist, Rest[i]) /\ Fits(boxes, Rest[i], Under(Rest, Me, i))
          BY <1>1 DEF Waiting, Stacked
        <4> QED BY <3>1, <4>1, <4>2
      <3> HIDE DEF g
      <3>3. bs[g.box].kids = boxes[g.box].kids /\ bs[g.box].phase = boxes[g.box].phase
        BY <3>2 DEF Grows
      <3>4. ASSUME g.at = "right" PROVE hist'[bs[g.box].kids[1]].exit = "gamma"
        <4>1. 1 \in DOMAIN boxes[g.box].kids /\ boxes[g.box].kids[1] \in DOMAIN boxes
          BY <3>2, <3>4, <1>2 DEF Fits, FnAt, Shaped, Width, Tree
        <4>2. boxes[g.box].kids[1] # k
          BY <4>1, <3>2, <3>3, <1>8, <1>2 DEF Grows
        <4> QED BY <4>1, <4>2, <3>2, <3>3, <3>4, <1>7 DEF Waits
      <3> QED BY <3>1, <3>2, <3>3, <3>4 DEF Waits
    <2> QED BY <2>1, <2>2
  <1>12. PortOK'
    <2>1. ASSUME port = "beta" PROVE hist'[k].exit = "gamma"
      BY <2>1, <1>7
    <2> QED BY <1>3, <2>1 DEF PortOK, Entered
  <1>13. (prog \in Program)' /\ Nested(calls', cutflag') /\ ctl'.box = k
    BY <1>3 DEF IInv
  <1> QED BY <1>3, <1>6, <1>7, <1>10, <1>11, <1>12, <1>13 DEF IInv

(* What a step that returns leaves of the boxes: their shape, their children,   *)
(* and every field of the boxes other than m that the control looks at.        *)
Same(bs, b2, m) ==
  /\ IsSeq(b2) /\ DOMAIN b2 = DOMAIN bs
  /\ \A i \in DOMAIN bs :
       /\ DOMAIN b2[i] = DOMAIN bs[i] /\ b2[i].fn = bs[i].fn /\ b2[i].kids = bs[i].kids /\ b2[i].head = bs[i].head
       /\ b2[i].ci \in Nat
       /\ i # m => b2[i].phase = bs[i].phase /\ b2[i].fired = bs[i].fired

(* The left goal l of a conjunction, and the second goal c of l.                *)
LEMMA ChainedIs ==
  ASSUME NEW bs, NEW i, NEW n, NEW l, l = bs[i].kids[1], NEW c, c = bs[l].kids[2]
  PROVE  Chained(bs, i, n) <=> \/ l = n /\ bs[n].fn = "head"
                               \/ l < i /\ bs[l].fn = "cat" /\ bs[c].fn = "deferred" /\ bs[c].head = n
  BY Zenon DEF Chained

LEMMA SameStruct ==
  ASSUME NEW bs, NEW b2, NEW m, Struct(bs), Same(bs, b2, m)
  PROVE  Struct(b2) /\ Grows(bs, b2, m)
  <1>1. Shaped(b2)
    BY DEF Struct, Shaped, Same
  <1>2. Tree(b2)
    BY DEF Struct, Tree, Same
  <1>3. Clausal(b2)
    <2> SUFFICES ASSUME NEW i \in DOMAIN bs, NEW a \in DOMAIN bs[i].kids, bs[bs[i].kids[a]].fn = "deferred"
                 PROVE  b2[i].fn = "cat" /\ a = 2 /\ Chained(b2, i, b2[bs[i].kids[a]].head)
      <3>1. \A i \in DOMAIN bs : \A a \in DOMAIN bs[i].kids :
              b2[i].kids = bs[i].kids /\ b2[bs[i].kids[a]].fn = bs[bs[i].kids[a]].fn
        BY DEF Same, Struct, Tree
      <3> QED BY <3>1 DEF Clausal, Same
    <2> DEFINE d == bs[i].kids[a]
               n == bs[d].head
               l == bs[i].kids[1]
    <2>1. bs[i].fn = "cat" /\ a = 2 /\ Chained(bs, i, n) /\ d \in DOMAIN bs /\ b2[d].head = n
      BY DEF Struct, Clausal, Tree, Same
    <2>2. 1 \in DOMAIN bs[i].kids /\ l \in DOMAIN bs
      BY <2>1 DEF Struct, Shaped, Tree, Width
    <2>3. bs[l].fn = "cat" => 2 \in DOMAIN bs[l].kids /\ bs[l].kids[2] \in DOMAIN bs
      BY <2>2 DEF Struct, Shaped, Tree, Width
    <2> HIDE DEF d, n
    <2>4. Chained(b2, i, n)
      <3> DEFINE c == bs[l].kids[2]
      <3>1. \/ l = n /\ bs[n].fn = "head"
            \/ l < i /\ bs[l].fn = "cat" /\ bs[c].fn = "deferred" /\ bs[c].head = n
        BY <2>1, ChainedIs
      <3>2. b2[i].kids[1] = l
        BY DEF Same
      <3> HIDE DEF l
      <3>3. b2[l].fn = bs[l].fn /\ b2[l].kids[2] = c
        BY <2>2 DEF Same
      <3>4. bs[l].fn = "cat" => c \in DOMAIN bs
        BY <2>3
      <3> HIDE DEF c
      <3>5. bs[l].fn = "cat" => b2[c].fn = bs[c].fn /\ b2[c].head = bs[c].head
        BY <3>4 DEF Same
      <3>6. l = n => b2[n].fn = bs[n].fn
        BY <3>3
      <3> QED BY <3>1, <3>2, <3>3, <3>5, <3>6, ChainedIs
    <2> HIDE DEF l
    <2> QED BY <2>1, <2>4 DEF Same, d
  <1>4. Grows(bs, b2, m)
    BY DEF Grows, Same
  <1> QED BY <1>1, <1>2, <1>3, <1>4 DEF Struct

LEMMA LeaveKeeps ==
  ASSUME IInv, Entered \/ calls # <<>>, prog' = prog,
         NEW port \in {"gamma", "omega"}, NEW bs, NEW h, Leave(port, bs, h),
         Same(boxes, bs, Me),
         port = "gamma" => Rests(bs, hist, Me),
         Nested(Rest, cutflag')
  PROVE  IInv'
  <1>1. /\ Stacked(boxes, Rest, Me) /\ Me \in DOMAIN boxes /\ Waiting(boxes, hist, Rest)
        /\ \A i : OnStack(calls, i) => i = Me \/ OnStack(Rest, i)
    BY MyStack
  <1>2. /\ Struct(boxes) /\ HistOK(boxes, hist) /\ Settled(boxes, hist, calls)
        /\ Shaped(boxes) /\ Tree(boxes)
    BY DEF IInv, Struct
  <1>3. /\ boxes' = bs /\ calls' = Rest /\ ctl' = [port |-> port, box |-> Me]
        /\ hist' = [hist EXCEPT ![Me].exit = port, ![Me].to = Len(open)]
    BY DEF Leave
  <1>4. Struct(bs) /\ Grows(boxes, bs, Me) /\ DOMAIN bs = DOMAIN boxes
    BY <1>2, SameStruct DEF Same
  <1>5. Stacked(bs, Rest, Me)
    BY <1>1, <1>4, StackKept
  <1>6. /\ HistOK(bs, hist') /\ hist'[Me].exit = port
        /\ \A i \in DOMAIN boxes : i # Me => hist'[i].exit = hist[i].exit
    BY <1>1, <1>2, <1>3, <1>4 DEF HistOK
  <1>7. \A i \in DOMAIN boxes : \A a \in DOMAIN boxes[i].kids :
           boxes[i].kids[a] = Me => 1 \in DOMAIN Rest /\ Rest[1].box = i /\ Slot(Rest[1].at) = a
    BY <1>1, <1>2, ParentOnStack
  <1>8. Settled(bs, hist', Rest)
    <2> SUFFICES ASSUME NEW i \in DOMAIN boxes, hist'[i].exit = "gamma", ~ OnStack(Rest, i)
                 PROVE  Rests(bs, hist', i)
      BY <1>4 DEF Settled
    <2>1. bs[i].fn = boxes[i].fn /\ bs[i].kids = boxes[i].kids
      BY DEF Same
    <2>2. \A a \in DOMAIN boxes[i].kids : boxes[i].kids[a] \in DOMAIN boxes /\ boxes[i].kids[a] # Me
      BY <1>2, <1>7 DEF Tree, OnStack
    <2>3. boxes[i].fn \in {"cat", "alt"} => 1 \in DOMAIN boxes[i].kids /\ 2 \in DOMAIN boxes[i].kids
      BY <1>2 DEF Shaped, Width
    <2>4. Rests(bs, hist, i)
      <3>1. CASE i = Me
        BY <3>1, <1>6
      <3>2. CASE i # Me
        <4>1. Rests(boxes, hist, i)
          BY <3>2, <1>1, <1>2, <1>6 DEF Settled
        <4> QED BY <4>1, <2>1, <3>2 DEF Rests, Same
      <3> QED BY <3>1, <3>2
    <2> QED BY <2>1, <2>2, <2>3, <2>4, <1>6 DEF Rests
  <1>9. Waiting(bs, hist', Rest)
    <2> SUFFICES ASSUME NEW j \in DOMAIN Rest PROVE Waits(bs, hist', Rest[j])
      BY DEF Waiting
    <2> DEFINE g == Rest[j]
    <2>1. /\ g.box \in DOMAIN boxes /\ g.box # Me /\ (\A i \in DOMAIN Rest : Rest[i].box = g.box => i = j)
      BY <1>1, StackFacts
    <2>2. Waits(boxes, hist, g) /\ Fits(boxes, g, Under(Rest, Me, j))
      BY <1>1 DEF Waiting, Stacked
    <2>3. bs[g.box].kids = boxes[g.box].kids /\ bs[g.box].phase = boxes[g.box].phase
      BY <2>1 DEF Same
    <2>4. ASSUME g.at = "right" PROVE hist'[bs[g.box].kids[1]].exit = "gamma"
      <3>1. 1 \in DOMAIN boxes[g.box].kids /\ boxes[g.box].kids[1] \in DOMAIN boxes
        BY <2>1, <2>2, <2>4, <1>2 DEF Fits, FnAt, Shaped, Width, Tree
      <3>2. boxes[g.box].kids[1] # Me
        <4> SUFFICES ASSUME boxes[g.box].kids[1] = Me PROVE FALSE
          OBVIOUS
        <4>1. 1 \in DOMAIN Rest /\ Rest[1].box = g.box /\ Slot(Rest[1].at) = 1
          BY <1>7, <2>1, <3>1
        <4>2. 1 = j
          BY <4>1, <2>1
        <4> QED BY <4>1, <4>2, <2>4 DEF Slot
      <3> QED BY <3>1, <3>2, <2>2, <2>3, <2>4, <1>6 DEF Waits
    <2> QED BY <2>2, <2>3, <2>4 DEF Waits
  <1>10. PortOK'
    BY <1>3, <1>6 DEF PortOK, Entered
  <1>11. (prog \in Program)' /\ Nested(calls', cutflag') /\ ctl'.box = Me
    BY <1>3 DEF IInv
  <1> QED BY <1>3, <1>4, <1>5, <1>6, <1>8, <1>9, <1>10, <1>11 DEF IInv

-----------------------------------------------------------------------------
(* The cut target along the stack *)

LEMMA TargetShift ==
  ASSUME NEW p, NEW t, NEW c, NEW m \in Nat \ {0}, Len(t) \in Nat, DOMAIN t = 1 .. Len(t),
         DOMAIN p = 1 .. Len(t) + 1, \A i \in 1 .. Len(t) : p[i + 1] = t[i]
  PROVE  Target(p, c, m + 1) <=> Target(t, c, m)
  <1>1. \A i \in DOMAIN p : i >= m + 1 => i - 1 \in DOMAIN t /\ i - 1 >= m /\ p[i] = t[i - 1]
    OBVIOUS
  <1>2. \A i \in DOMAIN t : i + 1 \in DOMAIN p /\ p[i + 1] = t[i] /\ (i >= m => i + 1 >= m + 1)
    OBVIOUS
  <1>3. (\A i \in DOMAIN p : i >= m + 1 => p[i].at # "clause")
          <=> (\A i \in DOMAIN t : i >= m => t[i].at # "clause")
    BY <1>1, <1>2
  <1>4. ASSUME NEW i \in DOMAIN p, i >= m + 1, p[i].at = "clause", c = p[i].box,
               \A j \in DOMAIN p : j >= m + 1 /\ p[j].at = "clause" => i <= j
        PROVE  Target(t, c, m)
    <2>1. i - 1 \in DOMAIN t /\ i - 1 >= m /\ p[i] = t[i - 1]
      BY <1>4, <1>1
    <2>2. ASSUME NEW j \in DOMAIN t, j >= m, t[j].at = "clause" PROVE i - 1 <= j
      <3>1. j + 1 \in DOMAIN p /\ j + 1 >= m + 1 /\ p[j + 1].at = "clause"
        BY <2>2, <1>2
      <3>2. i <= j + 1
        BY <3>1, <1>4
      <3> QED BY <3>2
    <2> QED BY <2>1, <2>2, <1>4 DEF Target
  <1>5. ASSUME NEW i \in DOMAIN t, i >= m, t[i].at = "clause", c = t[i].box,
               \A j \in DOMAIN t : j >= m /\ t[j].at = "clause" => i <= j
        PROVE  Target(p, c, m + 1)
    <2>1. i + 1 \in DOMAIN p /\ i + 1 >= m + 1 /\ p[i + 1] = t[i]
      BY <1>5, <1>2
    <2>2. ASSUME NEW j \in DOMAIN p, j >= m + 1, p[j].at = "clause" PROVE i + 1 <= j
      <3>1. j - 1 \in DOMAIN t /\ j - 1 >= m /\ t[j - 1].at = "clause"
        BY <2>2, <1>1
      <3>2. i <= j - 1
        BY <3>1, <1>5
      <3> QED BY <3>2
    <2> QED BY <2>1, <2>2, <1>5 DEF Target
  <1> QED BY <1>3, <1>4, <1>5 DEF Target

LEMMA NestedPush ==
  ASSUME NEW fs, NEW c, NEW f, IsSeq(fs), Nested(fs, c)
  PROVE  /\ f.at # "clause" => Nested(<<f>> \o fs, c)
         /\ f.at = "clause" /\ f.saved = c => Nested(<<f>> \o fs, f.box)
  <1> DEFINE p == <<f>> \o fs
  <1>1. /\ DOMAIN p = 1 .. Len(fs) + 1 /\ p[1] = f /\ Len(fs) \in Nat /\ DOMAIN fs = 1 .. Len(fs)
        /\ \A i \in 2 .. Len(fs) + 1 : p[i] = fs[i - 1]
    BY PushFacts
  <1> HIDE DEF p
  <1>2. \A i \in 1 .. Len(fs) : p[i + 1] = fs[i]
    BY <1>1
  <1>3. \A d : \A m \in Nat \ {0} : Target(p, d, m + 1) <=> Target(fs, d, m)
    BY <1>1, <1>2, TargetShift
  <1>4. ASSUME NEW j \in 2 .. Len(fs) + 1, p[j].at = "clause" PROVE Target(p, p[j].saved, j + 1)
    <2>1. j - 1 \in DOMAIN fs /\ p[j] = fs[j - 1] /\ j \in Nat \ {0} /\ (j - 1) + 1 = j
      BY <1>1
    <2>2. Target(fs, p[j].saved, j)
      BY <2>1, <1>4 DEF Nested
    <2> QED BY <2>1, <2>2, <1>3
  <1>5. Target(p, c, 2)
    BY <1>3 DEF Nested
  <1>6. ASSUME f.at # "clause" PROVE Nested(p, c)
    <2>1. Target(p, c, 1)
      BY <1>1, <1>5, <1>6 DEF Target
    <2> QED BY <2>1, <1>1, <1>4, <1>6 DEF Nested
  <1>7. ASSUME f.at = "clause", f.saved = c PROVE Nested(p, f.box)
    <2>1. Target(p, f.box, 1)
      BY <1>1, <1>7 DEF Target
    <2> QED BY <2>1, <1>1, <1>4, <1>5, <1>7 DEF Nested
  <1> QED BY <1>6, <1>7 DEF p

LEMMA NestedPop ==
  ASSUME NEW fs, NEW c, IsSeq(fs), fs # <<>>, Nested(fs, c)
  PROVE  /\ Head(fs).at # "clause" => Nested(Tail(fs), c)
         /\ Head(fs).at = "clause" => Nested(Tail(fs), Head(fs).saved)
  <1> DEFINE t == Tail(fs)
             h == Head(fs)
  <1>1. /\ IsSeq(t) /\ Len(fs) \in Nat /\ Len(fs) >= 1 /\ Len(t) = Len(fs) - 1 /\ h = fs[1]
        /\ DOMAIN t = 1 .. Len(t) /\ DOMAIN fs = 1 .. Len(t) + 1
        /\ \A i \in 1 .. Len(t) : fs[i + 1] = t[i]
    BY SeqFacts, TailIs
  <1> HIDE DEF t, h
  <1>2. \A d : \A m \in Nat \ {0} : Target(fs, d, m + 1) <=> Target(t, d, m)
    BY <1>1, TargetShift
  <1>3. ASSUME NEW j \in DOMAIN t, t[j].at = "clause" PROVE Target(t, t[j].saved, j + 1)
    <2>1. j + 1 \in DOMAIN fs /\ fs[j + 1] = t[j] /\ j + 1 \in Nat \ {0}
      BY <1>1
    <2>2. Target(fs, t[j].saved, (j + 1) + 1)
      BY <2>1, <1>3 DEF Nested
    <2> QED BY <2>1, <2>2, <1>2
  <1>4. ASSUME h.at # "clause" PROVE Target(t, c, 1)
    <2>1. Target(fs, c, 1 + 1)
      BY SMTT(30), <1>1, <1>4 DEF Nested, Target
    <2> QED BY <2>1, <1>2
  <1>5. ASSUME h.at = "clause" PROVE Target(t, h.saved, 1)
    <2>1. Target(fs, h.saved, 1 + 1)
      BY <1>1, <1>5 DEF Nested
    <2> QED BY <2>1, <1>2
  <1> QED BY <1>3, <1>4, <1>5 DEF Nested, t, h

LEMMA MyTarget ==
  ASSUME IInv, Entered \/ calls # <<>>
  PROVE  /\ IsSeq(Rest)
         /\ Entered \/ Head(calls).at # "clause" => Nested(Rest, cutflag)
         /\ ~ Entered /\ Head(calls).at = "clause" => Nested(Rest, Head(calls).saved)
  <1>1. IsSeq(calls) /\ Nested(calls, cutflag) /\ IsSeq(Rest)
    BY MyStack, StackFacts DEF IInv
  <1>2. CASE Entered
    BY <1>1, <1>2 DEF Rest
  <1>3. CASE ~ Entered
    BY <1>1, <1>3, NestedPop DEF Rest
  <1> QED BY <1>1, <1>2, <1>3

-----------------------------------------------------------------------------
(* Steps that leave the boxes as they are *)

(* Box k is the child of Me that is called from place at.                       *)
Child(at, k) ==
  /\ boxes[Me].fn = FnAt(at) /\ Slot(at) \in DOMAIN boxes[Me].kids
  /\ k = boxes[Me].kids[Slot(at)]

(* Me calls one of its children.                                               *)
LEMMA CallKeeps ==
  ASSUME IInv, Entered \/ (calls # <<>> /\ Head(calls).at # "clause"), UNCHANGED <<prog, cutflag>>,
         NEW port \in {"alpha", "beta"}, NEW at \in Place \ {"not", "clause"}, NEW k,
         Call(k, port, at), Child(at, k),
         Waits(boxes, hist, [box |-> Me, at |-> at, saved |-> 0]),
         port = "beta" => hist[k].exit = "gamma"
  PROVE  IInv'
  <1> DEFINE f == [box |-> Me, at |-> at, saved |-> 0]
  <1>1. Enter(k, port, f, boxes, heap) /\ f.box = Me /\ f.at = at
    BY DEF Call
  <1>2. Struct(boxes) /\ Grows(boxes, boxes, Me) /\ Me \in DOMAIN boxes
    BY MyStack DEF IInv, Grows
  <1>3. k \in DOMAIN boxes \ {1} /\ Fits(boxes, f, k)
    BY <1>1, <1>2 DEF Child, Struct, Tree, Fits
  <1>4. Nested(<<f>> \o Rest, cutflag')
    BY <1>1, MyTarget, NestedPush
  <1> HIDE DEF f
  <1> QED BY <1>1, <1>2, <1>3, <1>4, EnterKeeps DEF f

(* Me returns.                                                                 *)
LEMMA ExitKeeps ==
  ASSUME IInv, Entered \/ (calls # <<>> /\ Head(calls).at # "clause"), UNCHANGED <<prog, cutflag>>,
         NEW port \in {"gamma", "omega"}, NEW h, Leave(port, boxes, h),
         port = "gamma" => Rests(boxes, hist, Me)
  PROVE  IInv'
  <1>1. Same(boxes, boxes, Me)
    BY DEF IInv, Struct, Shaped, Same
  <1>2. Nested(Rest, cutflag')
    BY MyTarget
  <1> QED BY <1>1, <1>2, LeaveKeeps

-----------------------------------------------------------------------------
(* Steps that make boxes *)

(* The boxes that b2 has and bs has not are trees of their own, and r is a root. *)
NewBoxes(bs, b2, r) ==
  \A i \in DOMAIN b2 \ DOMAIN bs :
    /\ DOMAIN b2[i] = DOMAIN BoxOf("true") /\ b2[i].ci \in Nat
    /\ \/ DOMAIN b2[i].kids = 1 .. Width(b2[i].fn)
       \/ b2[i].fn \in {"deferred", "choice"} /\ DOMAIN b2[i].kids = {}
    /\ \A a \in DOMAIN b2[i].kids :
         /\ b2[i].kids[a] \in DOMAIN b2 \ DOMAIN bs /\ b2[i].kids[a] # r
         /\ \A j \in DOMAIN b2 \ DOMAIN bs : \A b \in DOMAIN b2[j].kids :
              b2[i].kids[a] = b2[j].kids[b] => i = j /\ a = b
         /\ LET d == b2[i].kids[a]
            IN b2[d].fn = "deferred" => b2[i].fn = "cat" /\ a = 2 /\ Chained(b2, i, b2[d].head)

(* Box m may take the root r of new boxes as its child.                        *)
LEMMA Attach ==
  ASSUME NEW bs, NEW b2, NEW m \in DOMAIN bs, NEW r,
         Struct(bs), IsSeq(b2), DOMAIN bs \subseteq DOMAIN b2,
         \A i \in DOMAIN bs :
           /\ DOMAIN b2[i] = DOMAIN bs[i] /\ b2[i].fn = bs[i].fn /\ b2[i].head = bs[i].head
           /\ b2[i].ci \in Nat
           /\ i # m => b2[i].kids = bs[i].kids /\ b2[i].phase = bs[i].phase /\ b2[i].fired = bs[i].fired,
         \/ b2[m].kids = bs[m].kids
         \/ /\ b2[m].kids = <<r>> /\ r \in DOMAIN b2 \ DOMAIN bs
            /\ b2[r].fn # "deferred" /\ bs[m].fn \in {"deferred", "choice"},
         NewBoxes(bs, b2, r)
  PROVE  Struct(b2) /\ Grows(bs, b2, m)
  <1> DEFINE New2 == DOMAIN b2 \ DOMAIN bs
  <1>1. Shaped(bs) /\ Tree(bs) /\ Clausal(bs)
    BY DEF Struct
  <1> USE DEF NewBoxes
  <1>2. \A i \in DOMAIN bs : \A a \in DOMAIN b2[i].kids :
          \/ b2[i].kids = bs[i].kids /\ b2[i].kids[a] \in DOMAIN bs
          \/ i = m /\ a = 1 /\ b2[i].kids[a] = r /\ r \in New2 /\ b2[r].fn # "deferred"
    <2> SUFFICES ASSUME NEW i \in DOMAIN bs, NEW a \in DOMAIN b2[i].kids, b2[i].kids # bs[i].kids
                 PROVE  i = m /\ a = 1 /\ b2[i].kids[a] = r /\ r \in New2 /\ b2[r].fn # "deferred"
      BY <1>1 DEF Tree
    <2>1. i = m /\ b2[i].kids = <<r>> /\ r \in New2 /\ b2[r].fn # "deferred"
      OBVIOUS
    <2> QED BY <2>1, OneIs
  <1>3. Shaped(b2)
    <2>1. ASSUME NEW i \in DOMAIN bs
          PROVE  /\ DOMAIN b2[i] = DOMAIN BoxOf("true") /\ b2[i].ci \in Nat
                 /\ \/ DOMAIN b2[i].kids = 1 .. Width(b2[i].fn)
                    \/ b2[i].fn \in {"deferred", "choice"} /\ DOMAIN b2[i].kids = {}
      <3>1. CASE b2[i].kids = bs[i].kids
        BY <3>1, <1>1 DEF Shaped
      <3>2. CASE b2[i].kids # bs[i].kids
        <4>1. DOMAIN b2[i].kids = 1 .. 1 /\ bs[i].fn \in {"deferred", "choice"}
          BY <3>2, OneIs
        <4> QED BY <4>1, <1>1 DEF Shaped, Width
      <3> QED BY <3>1, <3>2
    <2> QED BY <2>1, <1>1 DEF Shaped
  <1>4. Tree(b2)
    <2>1. ASSUME NEW i \in DOMAIN b2, NEW a \in DOMAIN b2[i].kids
          PROVE  b2[i].kids[a] \in DOMAIN b2 \ {1}
      BY <1>1, <1>2 DEF Tree, Shaped
    <2>2. ASSUME NEW i \in DOMAIN b2, NEW a \in DOMAIN b2[i].kids,
                 NEW j \in DOMAIN b2, NEW b \in DOMAIN b2[j].kids, b2[i].kids[a] = b2[j].kids[b]
          PROVE  i = j /\ a = b
      <3>1. CASE i \in DOMAIN bs /\ j \in DOMAIN bs
        BY <3>1, <2>2, <1>1, <1>2 DEF Tree
      <3>2. CASE i \in DOMAIN bs /\ j \notin DOMAIN bs
        BY <3>2, <2>2, <1>2
      <3>3. CASE i \notin DOMAIN bs /\ j \in DOMAIN bs
        BY <3>3, <2>2, <1>2
      <3>4. CASE i \notin DOMAIN bs /\ j \notin DOMAIN bs
        BY <3>4, <2>2
      <3> QED BY <3>1, <3>2, <3>3, <3>4
    <2> QED BY <2>1, <2>2 DEF Tree
  <1>5. Clausal(b2)
    <2> SUFFICES ASSUME NEW i \in DOMAIN b2, NEW a \in DOMAIN b2[i].kids, b2[b2[i].kids[a]].fn = "deferred"
                 PROVE  b2[i].fn = "cat" /\ a = 2 /\ Chained(b2, i, b2[b2[i].kids[a]].head)
      BY DEF Clausal
    <2>1. CASE i \notin DOMAIN bs
      BY <2>1
    <2>2. CASE i \in DOMAIN bs
      <3> DEFINE d == bs[i].kids[a]
                 n == bs[d].head
                 l == bs[i].kids[1]
      <3>1. b2[i].kids = bs[i].kids /\ d \in DOMAIN bs
        BY <2>2, <1>2
      <3>2. bs[i].fn = "cat" /\ a = 2 /\ Chained(bs, i, n) /\ b2[d].head = n
        BY <2>2, <3>1, <1>1 DEF Clausal
      <3>3. 1 \in DOMAIN bs[i].kids /\ l \in DOMAIN bs
        BY SMTT(30), <2>2, <3>2, <1>1 DEF Shaped, Tree, Width
      <3>4. bs[l].fn = "cat" => /\ 2 \in DOMAIN bs[l].kids /\ bs[l].kids[2] \in DOMAIN bs
                                /\ b2[l].kids = bs[l].kids
        BY SMTT(30), <3>3, <1>1 DEF Shaped, Tree, Width
      <3>5. b2[i].fn = bs[i].fn /\ b2[l].fn = bs[l].fn
        BY <2>2, <3>3
      <3>6. ASSUME l = n, bs[n].fn = "head" PROVE b2[n].fn = "head"
        BY <3>3, <3>6
      <3>7. ASSUME l < i, bs[l].fn = "cat", bs[bs[l].kids[2]].fn = "deferred", bs[bs[l].kids[2]].head = n
            PROVE  b2[l].fn = "cat" /\ b2[b2[l].kids[2]].fn = "deferred" /\ b2[b2[l].kids[2]].head = n
        <4> DEFINE c == bs[l].kids[2]
        <4>1. b2[l].kids = bs[l].kids /\ c \in DOMAIN bs /\ bs[c].fn = "deferred" /\ bs[c].head = n
          BY <3>4, <3>7
        <4>2. b2[l].fn = "cat" /\ b2[l].kids[2] = c
          BY <3>3, <3>7, <4>1
        <4> HIDE DEF c, d, n, l
        <4>3. b2[c].fn = bs[c].fn /\ b2[c].head = bs[c].head
          BY <4>1
        <4> QED BY <4>1, <4>2, <4>3
      <3>8. Chained(b2, i, n)
        <4> HIDE DEF d, n
        <4> QED BY ZenonT(30), <3>1, <3>2, <3>6, <3>7 DEF Chained
      <3> QED BY <3>1, <3>2, <3>5, <3>8
    <2> QED BY <2>1, <2>2
  <1>6. Grows(bs, b2, m)
    BY <1>2 DEF Grows
  <1> QED BY <1>3, <1>4, <1>5, <1>6 DEF Struct

(* The fields of a box that the control does not rely on.                        *)
PlainBox(b, S) ==
  /\ b.fn \in FnName /\ b.head \in S \cup {0} /\ b.mark \in Nat
  /\ b.fired \in BOOLEAN /\ b.cut \in BOOLEAN /\ b.phase \in {0, 2}
PlainNew(bs, b2) == \A i \in DOMAIN b2 \ DOMAIN bs : PlainBox(b2[i], DOMAIN b2)

(* The boxes of a clause.                                                      *)
HeadOf(x, y)     == [BoxOf("head") EXCEPT !.goal = x, !.args = y]
DeferredOf(x, y) == [BoxOf("deferred") EXCEPT !.goal = x, !.head = y]
CatOf(x, y)      == [BoxOf("cat") EXCEPT !.kids = <<x, y>>]

(* b2 has, beside the boxes of bs, those of a clause with m goals: the head, the *)
(* goals, and their chain, which ends in box r.                                *)
Made(bs, b2, r, m, clause, args) ==
  LET n   == Len(bs) + 1
      top == n + m
  IN /\ IsSeq(b2) /\ DOMAIN bs = 1 .. Len(bs) /\ Len(bs) \in Nat /\ m \in Nat
     /\ DOMAIN b2 = 1 .. top + m
     /\ r = IF m = 0 THEN n ELSE top + m
     /\ \A i \in DOMAIN bs : b2[i] = bs[i]
     /\ b2[n] = HeadOf(clause, args)
     /\ \A i \in 1 .. m : b2[n + i] = DeferredOf(clause.body[i], n)
     /\ \A i \in 1 .. m : b2[top + i] = CatOf(IF i = 1 THEN n ELSE top + i - 1, n + i)

LEMMA ClauseShape ==
  ASSUME NEW s0, s0 = [boxes |-> s0.boxes, heap |-> s0.heap, id |-> s0.id], IsSeq(s0.boxes),
         NEW clause, IsSeq(clause.body), NEW args
  PROVE  Made(s0.boxes, ClauseBox(s0, clause, args).boxes, ClauseBox(s0, clause, args).id,
              Len(clause.body), clause, args)
  <1> DEFINE bs == s0.boxes
             n == Len(bs) + 1
             m == Len(clause.body)
             top == n + m
             head == [BoxOf("head") EXCEPT !.goal = clause, !.args = args]
             body == [i \in DOMAIN clause.body |-> [BoxOf("deferred") EXCEPT !.goal = clause.body[i], !.head = n]]
             all  == <<head>> \o body
             ids  == [i \in DOMAIN all |-> n + i - 1]
             s1 == [s0 EXCEPT !.boxes = @ \o all]
             made == bs \o all
             chain == [i \in 1 .. Len(ids) - 1 |->
                        [BoxOf("cat") EXCEPT !.kids = <<IF i = 1 THEN ids[1] ELSE Len(s1.boxes) + i - 1, ids[i + 1]>>]]
             s == ClauseBox(s0, clause, args)
  <1>0. m \in Nat /\ DOMAIN clause.body = 1 .. m
    BY SeqFacts
  <1>a. s1 = [boxes |-> made, heap |-> s0.heap, id |-> s0.id]
    <2> HIDE DEF all
    <2> QED BY SMTT(30)
  <1>b. IsSeq(bs)
    OBVIOUS
  <1> HIDE DEF bs, m, head, body, all, ids, s1, made, chain, s
  <1>1. /\ m \in Nat /\ DOMAIN clause.body = 1 .. m /\ Len(bs) \in Nat /\ DOMAIN bs = 1 .. Len(bs)
        /\ n = Len(bs) + 1 /\ n \in Nat /\ top = n + m /\ top \in Nat
    BY <1>0, <1>b, SeqFacts
  <1> HIDE DEF n, top
  <1>2. IsSeq(body) /\ Len(body) = m /\ DOMAIN body = 1 .. m
    <2>1. body \in [1 .. m -> {body[i] : i \in 1 .. m}]
      BY <1>1 DEF body
    <2> QED BY <2>1, <1>1, SeqIntro
  <1>3. /\ IsSeq(all) /\ Len(all) = m + 1 /\ DOMAIN all = 1 .. m + 1
        /\ all[1] = head /\ \A i \in 2 .. m + 1 : all[i] = body[i - 1]
    <2>1. IsSeq(<<head>>) /\ Len(<<head>>) = 1 /\ <<head>>[1] = head
      BY OneIs
    <2> DEFINE one == <<head>>
    <2> HIDE DEF one
    <2>2. /\ IsSeq(one \o body) /\ Len(one \o body) = 1 + m /\ DOMAIN (one \o body) = 1 .. 1 + m
          /\ \A i \in 1 .. 1 + m : (one \o body)[i] = IF i <= 1 THEN one[i] ELSE body[i - 1]
      BY <2>1, <1>2, ConcatIs DEF one
    <2>3. all = one \o body /\ one[1] = head
      BY <2>1 DEF all, one
    <2>4. IsSeq(all) /\ Len(all) = m + 1 /\ DOMAIN all = 1 .. m + 1
      BY <2>2, <2>3, <1>1
    <2>5. all[1] = head
      BY <2>1, <2>2, <2>3, <1>1
    <2>6. \A i \in 2 .. m + 1 : i \in 1 .. 1 + m /\ ~ (i <= 1)
      BY <1>1
    <2>7. \A i \in 2 .. m + 1 : all[i] = body[i - 1]
      BY <2>2, <2>3, <2>6
    <2> QED BY <2>4, <2>5, <2>7
  <1>4. /\ IsSeq(made) /\ Len(made) = top /\ DOMAIN made = 1 .. top
        /\ \A i \in 1 .. top : made[i] = IF i < n THEN bs[i] ELSE all[i - Len(bs)]
    <2>1. /\ IsSeq(bs \o all) /\ Len(bs \o all) = Len(bs) + (m + 1) /\ DOMAIN (bs \o all) = 1 .. Len(bs) + (m + 1)
          /\ \A i \in 1 .. Len(bs) + (m + 1) :
               (bs \o all)[i] = IF i <= Len(bs) THEN bs[i] ELSE all[i - Len(bs)]
      BY <1>b, <1>3, ConcatIs
    <2>2. top = Len(bs) + (m + 1) /\ \A i \in 1 .. top : i < n <=> i <= Len(bs)
      BY <1>1
    <2> QED BY <2>1, <2>2 DEF made
  <1>5. IsSeq(ids) /\ Len(ids) = m + 1 /\ DOMAIN ids = 1 .. m + 1 /\ \A i \in 1 .. m + 1 : ids[i] = n + i - 1
    <2>1. ids \in [1 .. m + 1 -> Nat] /\ m + 1 \in Nat
      BY <1>1, <1>3 DEF ids
    <2>2. \A i \in 1 .. m + 1 : ids[i] = n + i - 1
      BY <1>3 DEF ids
    <2> QED BY <2>1, <2>2, SeqIntro
  <1>6. /\ IsSeq(chain) /\ Len(chain) = m /\ DOMAIN chain = 1 .. m
        /\ \A i \in 1 .. m : chain[i] =
             [BoxOf("cat") EXCEPT !.kids = <<IF i = 1 THEN n ELSE top + i - 1, n + i>>]
    <2>1. \A i \in 1 .. m : ids[i + 1] = n + i /\ ids[1] = n
      <3> SUFFICES ASSUME NEW i \in 1 .. m PROVE ids[i + 1] = n + i /\ ids[1] = n
        OBVIOUS
      <3>1. i + 1 \in 1 .. m + 1 /\ 1 \in 1 .. m + 1 /\ n + (i + 1) - 1 = n + i /\ n + 1 - 1 = n
        BY <1>1
      <3> QED BY <3>1, <1>5
    <2>2. Len(ids) - 1 = m /\ Len(s1.boxes) = top
      BY <1>a, <1>1, <1>4, <1>5
    <2>3. \A i \in 1 .. m : chain[i] =
             [BoxOf("cat") EXCEPT !.kids = <<IF i = 1 THEN n ELSE top + i - 1, n + i>>]
      BY <2>1, <2>2 DEF chain
    <2>4. chain \in [1 .. m -> {chain[i] : i \in 1 .. m}]
      BY <2>2 DEF chain
    <2> QED BY <1>1, <2>3, <2>4, SeqIntro
  <1>7. ids # <<>>
    BY <1>1, <1>5
  <1>8. s = [boxes |-> made \o chain, heap |-> s0.heap,
             id |-> IF Len(ids) = 1 THEN ids[1] ELSE Len(made) + Len(ids) - 1]
    <2>1. s = CatList(s1, ids)
      BY DEF ClauseBox, s, s1, ids, all, body, head, n, bs
    <2>2. s = [s1 EXCEPT !.boxes = @ \o chain, !.id = IF Len(ids) = 1 THEN ids[1] ELSE Len(s1.boxes) + Len(ids) - 1]
      BY <1>7, <2>1 DEF CatList, chain
    <2> QED BY <2>2, <1>a
  <1>9. s.boxes = made \o chain /\ s.id = IF m = 0 THEN n ELSE top + m
    <2>1. (Len(ids) = 1 <=> m = 0) /\ Len(made) + Len(ids) - 1 = top + m
      BY <1>1, <1>4, <1>5
    <2>2. ids[1] = n
      <3>1. 1 \in 1 .. m + 1 /\ n + 1 - 1 = n
        BY <1>1
      <3> QED BY <3>1, <1>5
    <2> QED BY <1>8, <2>1, <2>2
  <1>10. /\ IsSeq(s.boxes) /\ DOMAIN s.boxes = 1 .. top + m
         /\ \A i \in 1 .. top + m : s.boxes[i] = IF i <= top THEN made[i] ELSE chain[i - top]
    <2>1. /\ IsSeq(made \o chain) /\ DOMAIN (made \o chain) = 1 .. top + m
          /\ \A i \in 1 .. top + m : (made \o chain)[i] = IF i <= top THEN made[i] ELSE chain[i - top]
      BY <1>4, <1>6, ConcatIs
    <2> QED BY <1>9, <2>1
  <1>11. \A i \in DOMAIN bs : s.boxes[i] = bs[i]
    <2> SUFFICES ASSUME NEW i \in DOMAIN bs PROVE s.boxes[i] = bs[i]
      OBVIOUS
    <2>1. i \in 1 .. top /\ i \in 1 .. top + m /\ i <= top /\ i < n
      BY <1>1
    <2> QED BY <2>1, <1>4, <1>10
  <1>12. s.boxes[n] = head
    <2>1. n \in 1 .. top /\ n \in 1 .. top + m /\ n - Len(bs) = 1
      BY <1>1
    <2>2. s.boxes[n] = made[n]
      BY <2>1, <1>10
    <2> QED BY <1>1, <1>3, <1>4, <2>1, <2>2
  <1>13. ASSUME NEW i \in 1 .. m
         PROVE  s.boxes[n + i] = [BoxOf("deferred") EXCEPT !.goal = clause.body[i], !.head = n]
    <2>1. /\ i \in Nat /\ 1 <= i /\ i <= m /\ m \in Nat /\ n \in Nat /\ Len(bs) \in Nat
          /\ n = Len(bs) + 1 /\ top = n + m
      BY <1>1
    <2>4. n + i \in 1 .. top /\ n + i \in 1 .. top + m /\ ~ (n + i < n)
      BY <2>1
    <2>5. (n + i) - Len(bs) = i + 1 /\ i + 1 \in 2 .. m + 1 /\ (i + 1) - 1 = i
      BY <2>1
    <2>2. s.boxes[n + i] = all[i + 1]
      BY <2>4, <2>5, <1>4, <1>10
    <2>3. all[i + 1] = body[i]
      BY <2>5, <1>3
    <2> QED BY <2>2, <2>3, <1>1 DEF body
  <1>14. ASSUME NEW i \in 1 .. m PROVE s.boxes[top + i] = chain[i]
    <2>1. top + i \in 1 .. top + m /\ ~ (top + i <= top) /\ (top + i) - top = i
      BY SMTT(30), <1>1
    <2> QED BY <2>1, <1>10
  <1>15. /\ IsSeq(s.boxes) /\ DOMAIN bs = 1 .. Len(bs) /\ Len(bs) \in Nat /\ m \in Nat
         /\ DOMAIN s.boxes = 1 .. top + m
         /\ s.id = IF m = 0 THEN n ELSE top + m
         /\ \A i \in DOMAIN bs : s.boxes[i] = bs[i]
         /\ s.boxes[n] = [BoxOf("head") EXCEPT !.goal = clause, !.args = args]
         /\ \A i \in 1 .. m : s.boxes[n + i] = [BoxOf("deferred") EXCEPT !.goal = clause.body[i], !.head = n]
         /\ \A i \in 1 .. m : s.boxes[top + i] =
              [BoxOf("cat") EXCEPT !.kids = <<IF i = 1 THEN n ELSE top + i - 1, n + i>>]
    <2>1. \A i \in 1 .. m : s.boxes[top + i] =
              [BoxOf("cat") EXCEPT !.kids = <<IF i = 1 THEN n ELSE top + i - 1, n + i>>]
      BY <1>6, <1>14
    <2>2. \A i \in 1 .. m : s.boxes[n + i] = [BoxOf("deferred") EXCEPT !.goal = clause.body[i], !.head = n]
      BY <1>13
    <2>3. s.boxes[n] = [BoxOf("head") EXCEPT !.goal = clause, !.args = args]
      BY <1>12 DEF head
    <2> QED BY <1>1, <1>9, <1>10, <1>11, <2>1, <2>2, <2>3
  <1> QED BY <1>15 DEF s, top, n, m, bs, Made, HeadOf, DeferredOf, CatOf

LEMMA NewKept ==
  ASSUME NEW bs, NEW b2, NEW b3, NEW r, NewBoxes(bs, b2, r), DOMAIN b3 = DOMAIN b2,
         \A i \in DOMAIN b2 \ DOMAIN bs : b3[i] = b2[i]
  PROVE  NewBoxes(bs, b3, r)
  <1> SUFFICES ASSUME NEW i \in DOMAIN b2 \ DOMAIN bs, NEW a \in DOMAIN b2[i].kids,
                      b2[b2[i].kids[a]].fn = "deferred"
               PROVE  Chained(b3, i, b2[b2[i].kids[a]].head)
    BY DEF NewBoxes
  <1> DEFINE d == b2[i].kids[a]
             n == b2[d].head
             l == b2[i].kids[1]
  <1>1. b2[i].fn = "cat" /\ Chained(b2, i, n) /\ b3[i] = b2[i]
    BY DEF NewBoxes
  <1>2. l \in DOMAIN b2 \ DOMAIN bs /\ b3[l] = b2[l]
    BY <1>1 DEF NewBoxes, Width
  <1>3. b2[l].fn = "cat" => b2[l].kids[2] \in DOMAIN b2 \ DOMAIN bs /\ b3[b2[l].kids[2]] = b2[b2[l].kids[2]]
    BY <1>2 DEF NewBoxes, Width
  <1> HIDE DEF d, n
  <1>4. Chained(b3, i, n)
    BY <1>1, <1>2, <1>3 DEF Chained
  <1> QED BY <1>4 DEF n, d

LEMMA PlainIs ==
  ASSUME NEW b, NEW S, b.fn \in FnName, b.head \in S \cup {0}, b.mark = 0,
         b.fired = FALSE, b.cut = FALSE, b.phase = 0
  PROVE  PlainBox(b, S)
  <1>1. b.fired \in BOOLEAN
    BY Zenon
  <1>2. b.cut \in BOOLEAN
    BY Zenon
  <1>3. b.mark \in Nat /\ b.phase \in {0, 2}
    OBVIOUS
  <1> QED BY <1>1, <1>2, <1>3 DEF PlainBox

LEMMA HeadIs ==
  ASSUME NEW x, NEW y
  PROVE  /\ HeadOf(x, y).fn = "head" /\ DOMAIN HeadOf(x, y).kids = {}
         /\ DOMAIN HeadOf(x, y) = DOMAIN BoxOf("true") /\ HeadOf(x, y).ci = 0
         /\ \A S : PlainBox(HeadOf(x, y), S)
  <1>1. HeadOf(x, y).fn = "head" /\ HeadOf(x, y).kids = <<>> /\ HeadOf(x, y).ci = 0
    BY DEF BoxOf, HeadOf
  <1>2. DOMAIN HeadOf(x, y) = DOMAIN BoxOf("true")
    BY DEF BoxOf, HeadOf
  <1>4. /\ HeadOf(x, y).fn = "head" /\ HeadOf(x, y).head = 0 /\ HeadOf(x, y).mark = 0
        /\ HeadOf(x, y).fired = FALSE /\ HeadOf(x, y).cut = FALSE /\ HeadOf(x, y).phase = 0
    BY DEF BoxOf, HeadOf
  <1>5. ASSUME NEW S PROVE PlainBox(HeadOf(x, y), S)
    <2>1. HeadOf(x, y).fn \in FnName /\ HeadOf(x, y).head \in S \cup {0}
      BY <1>4 DEF FnName
    <2> QED BY <2>1, <1>4, PlainIs
  <1> QED BY <1>1, <1>2, <1>5

LEMMA DeferredIs ==
  ASSUME NEW x, NEW y
  PROVE  /\ DeferredOf(x, y).fn = "deferred" /\ DOMAIN DeferredOf(x, y).kids = {} /\ DeferredOf(x, y).head = y
         /\ DOMAIN DeferredOf(x, y) = DOMAIN BoxOf("true") /\ DeferredOf(x, y).ci = 0
         /\ \A S : y \in S => PlainBox(DeferredOf(x, y), S)
  <1>1. DeferredOf(x, y).fn = "deferred" /\ DeferredOf(x, y).kids = <<>> /\ DeferredOf(x, y).head = y /\ DeferredOf(x, y).ci = 0
    BY DEF BoxOf, DeferredOf
  <1>2. DOMAIN DeferredOf(x, y) = DOMAIN BoxOf("true")
    BY DEF BoxOf, DeferredOf
  <1>4. /\ DeferredOf(x, y).fn = "deferred" /\ DeferredOf(x, y).head = y /\ DeferredOf(x, y).mark = 0
        /\ DeferredOf(x, y).fired = FALSE /\ DeferredOf(x, y).cut = FALSE /\ DeferredOf(x, y).phase = 0
    BY DEF BoxOf, DeferredOf
  <1>5. ASSUME NEW S, y \in S PROVE PlainBox(DeferredOf(x, y), S)
    <2>1. DeferredOf(x, y).fn \in FnName /\ DeferredOf(x, y).head \in S \cup {0}
      BY <1>4, <1>5 DEF FnName
    <2> QED BY <2>1, <1>4, PlainIs
  <1> QED BY <1>1, <1>2, <1>5

LEMMA CatIs ==
  ASSUME NEW x, NEW y
  PROVE  /\ CatOf(x, y).fn = "cat" /\ DOMAIN CatOf(x, y).kids = 1 .. 2
         /\ CatOf(x, y).kids[1] = x /\ CatOf(x, y).kids[2] = y
         /\ DOMAIN CatOf(x, y) = DOMAIN BoxOf("true") /\ CatOf(x, y).ci = 0
         /\ \A S : PlainBox(CatOf(x, y), S)
  <1>1. CatOf(x, y).fn = "cat" /\ CatOf(x, y).kids = <<x, y>> /\ CatOf(x, y).ci = 0
    BY DEF BoxOf, CatOf
  <1>2. DOMAIN CatOf(x, y) = DOMAIN BoxOf("true")
    BY DEF BoxOf, CatOf
  <1>4. /\ CatOf(x, y).fn = "cat" /\ CatOf(x, y).head = 0 /\ CatOf(x, y).mark = 0
        /\ CatOf(x, y).fired = FALSE /\ CatOf(x, y).cut = FALSE /\ CatOf(x, y).phase = 0
    BY DEF BoxOf, CatOf
  <1>5. ASSUME NEW S PROVE PlainBox(CatOf(x, y), S)
    <2>1. CatOf(x, y).fn \in FnName /\ CatOf(x, y).head \in S \cup {0}
      BY <1>4 DEF FnName
    <2> QED BY <2>1, <1>4, PlainIs
  <1>3. DOMAIN <<x, y>> = 1 .. 2 /\ <<x, y>>[1] = x /\ <<x, y>>[2] = y
    OBVIOUS
  <1> QED BY <1>1, <1>2, <1>3, <1>5

LEMMA ChoiceIs ==
  ASSUME NEW x, NEW y
  PROVE  /\ Choice(x, y).fn = "choice" /\ DOMAIN Choice(x, y).kids = {} /\ Choice(x, y).pred = x
         /\ DOMAIN Choice(x, y) = DOMAIN BoxOf("true") /\ Choice(x, y).ci = 0
         /\ \A S : PlainBox(Choice(x, y), S)
  <1>1. Choice(x, y).fn = "choice" /\ Choice(x, y).kids = <<>> /\ Choice(x, y).pred = x /\ Choice(x, y).ci = 0
    BY DEF BoxOf, Choice
  <1>2. DOMAIN Choice(x, y) = DOMAIN BoxOf("true")
    BY DEF BoxOf, Choice
  <1>4. /\ Choice(x, y).fn = "choice" /\ Choice(x, y).head = 0 /\ Choice(x, y).mark = 0
        /\ Choice(x, y).fired = FALSE /\ Choice(x, y).cut = FALSE /\ Choice(x, y).phase = 0
    BY DEF BoxOf, Choice
  <1>5. ASSUME NEW S PROVE PlainBox(Choice(x, y), S)
    <2>1. Choice(x, y).fn \in FnName /\ Choice(x, y).head \in S \cup {0}
      BY <1>4 DEF FnName
    <2> QED BY <2>1, <1>4, PlainIs
  <1> QED BY <1>1, <1>2, <1>5

LEMMA ClausePlain ==
  ASSUME NEW bs, NEW b2, NEW r, NEW m, NEW clause, NEW args, Made(bs, b2, r, m, clause, args)
  PROVE  PlainNew(bs, b2)
  <1> DEFINE n == Len(bs) + 1
  <1>1. /\ DOMAIN bs = 1 .. n - 1 /\ n \in Nat /\ m \in Nat /\ DOMAIN b2 = 1 .. n + m + m
        /\ b2[n] = HeadOf(clause, args)
        /\ \A i \in 1 .. m : b2[n + i] = DeferredOf(clause.body[i], n)
        /\ \A i \in 1 .. m : b2[n + m + i] = CatOf(IF i = 1 THEN n ELSE n + m + i - 1, n + i)
    BY DEF Made
  <1> HIDE DEF n
  <1> SUFFICES ASSUME NEW i \in DOMAIN b2 \ DOMAIN bs PROVE PlainBox(b2[i], DOMAIN b2)
    BY DEF PlainNew
  <1>b. n \in Nat /\ m \in Nat
    BY <1>1
  <1>2. i \in n .. n + m + m /\ n \in DOMAIN b2
    <2>1. i \in 1 .. n + m + m /\ i \notin 1 .. n - 1
      BY <1>1
    <2>2. 1 <= n
      BY <1>1, SeqFacts DEF n, Made
    <2>3. n \in 1 .. n + m + m
      BY <2>2, <1>b
    <2> QED BY <2>1, <2>2, <2>3, <1>1
  <1>3. CASE i = n
    BY <1>1, <1>3, HeadIs
  <1>4. CASE i \in n + 1 .. n + m
    <2>1. i - n \in 1 .. m /\ n + (i - n) = i
      BY <1>b, <1>4
    <2>2. b2[i] = DeferredOf(clause.body[i - n], n)
      BY <2>1, <1>1
    <2> QED BY <2>2, <1>2, DeferredIs
  <1>5. CASE i \in n + m + 1 .. n + m + m
    <2>1. i - n - m \in 1 .. m /\ n + m + (i - n - m) = i
      BY SMTT(30), <1>b, <1>5
    <2> DEFINE j == i - n - m
    <2>2. b2[i] = CatOf(IF j = 1 THEN n ELSE n + m + j - 1, n + j)
      BY <2>1, <1>1
    <2> QED BY <2>2, CatIs
  <1>6. i = n \/ i \in n + 1 .. n + m \/ i \in n + m + 1 .. n + m + m
    BY <1>b, <1>2
  <1> QED BY <1>3, <1>4, <1>5, <1>6

LEMMA ClauseTree ==
  ASSUME NEW bs, NEW b2, NEW r, NEW m, NEW clause, NEW args, Made(bs, b2, r, m, clause, args)
  PROVE  /\ IsSeq(b2) /\ DOMAIN bs \subseteq DOMAIN b2
         /\ r \in DOMAIN b2 \ DOMAIN bs /\ b2[r].fn # "deferred"
         /\ \A i \in DOMAIN bs : b2[i] = bs[i]
         /\ NewBoxes(bs, b2, r)
  <1> DEFINE n == Len(bs) + 1
             top == n + m
  <1>1. /\ IsSeq(b2) /\ DOMAIN bs = 1 .. Len(bs) /\ Len(bs) \in Nat /\ m \in Nat
        /\ DOMAIN b2 = 1 .. top + m
        /\ r = IF m = 0 THEN n ELSE top + m
        /\ \A i \in DOMAIN bs : b2[i] = bs[i]
    BY DEF Made
  <1>2. /\ b2[n] = HeadOf(clause, args)
        /\ \A i \in 1 .. m : b2[n + i] = DeferredOf(clause.body[i], n)
        /\ \A i \in 1 .. m : b2[top + i] = CatOf(IF i = 1 THEN n ELSE top + i - 1, n + i)
    BY DEF Made
  <1>6. n = Len(bs) + 1 /\ n \in Nat /\ top = n + m /\ top \in Nat
    BY <1>1
  <1> HIDE DEF n, top
  <1>3. b2[n].fn = "head" /\ DOMAIN b2[n].kids = {} /\ DOMAIN b2[n] = DOMAIN BoxOf("true") /\ b2[n].ci = 0
    BY <1>2, HeadIs
  <1>4. \A i \in 1 .. m : /\ b2[n + i].fn = "deferred" /\ DOMAIN b2[n + i].kids = {} /\ b2[n + i].head = n
                          /\ DOMAIN b2[n + i] = DOMAIN BoxOf("true") /\ b2[n + i].ci = 0
    <2> SUFFICES ASSUME NEW i \in 1 .. m
                 PROVE  /\ b2[n + i].fn = "deferred" /\ DOMAIN b2[n + i].kids = {} /\ b2[n + i].head = n
                        /\ DOMAIN b2[n + i] = DOMAIN BoxOf("true") /\ b2[n + i].ci = 0
      OBVIOUS
    <2>1. b2[n + i] = DeferredOf(clause.body[i], n)
      BY <1>2
    <2> QED BY <2>1, DeferredIs
  <1>5. \A i \in 1 .. m : /\ b2[top + i].fn = "cat" /\ DOMAIN b2[top + i].kids = 1 .. 2
                          /\ b2[top + i].kids[1] = IF i = 1 THEN n ELSE top + i - 1
                          /\ b2[top + i].kids[2] = n + i
                          /\ DOMAIN b2[top + i] = DOMAIN BoxOf("true") /\ b2[top + i].ci = 0
    <2> SUFFICES ASSUME NEW i \in 1 .. m
                 PROVE  /\ b2[top + i].fn = "cat" /\ DOMAIN b2[top + i].kids = 1 .. 2
                        /\ b2[top + i].kids[1] = IF i = 1 THEN n ELSE top + i - 1
                        /\ b2[top + i].kids[2] = n + i
                        /\ DOMAIN b2[top + i] = DOMAIN BoxOf("true") /\ b2[top + i].ci = 0
      OBVIOUS
    <2> DEFINE l == IF i = 1 THEN n ELSE top + i - 1
    <2>1. b2[top + i] = CatOf(l, n + i)
      BY <1>2
    <2> HIDE DEF l
    <2>2. /\ b2[top + i].fn = "cat" /\ DOMAIN b2[top + i].kids = 1 .. 2 /\ b2[top + i].kids[1] = l
          /\ b2[top + i].kids[2] = n + i /\ DOMAIN b2[top + i] = DOMAIN BoxOf("true") /\ b2[top + i].ci = 0
      BY <2>1, CatIs
    <2> QED BY <2>2 DEF l
  <1>7. \A x \in DOMAIN b2 \ DOMAIN bs : \/ x = n
                                         \/ \E i \in 1 .. m : x = n + i
                                         \/ \E i \in 1 .. m : x = top + i
    <2> SUFFICES ASSUME NEW x \in DOMAIN b2 \ DOMAIN bs, x # n,
                        ~ \E i \in 1 .. m : x = n + i, ~ \E i \in 1 .. m : x = top + i
                 PROVE  FALSE
      OBVIOUS
    <2>1. x \in Nat /\ n < x /\ x <= top + m
      BY <1>1, <1>6
    <2>2. x <= top => x - n \in 1 .. m /\ x = n + (x - n)
      BY <2>1, <1>1, <1>6
    <2>3. x > top => x - top \in 1 .. m /\ x = top + (x - top)
      BY <2>1, <1>1, <1>6
    <2> QED BY <2>1, <2>2, <2>3, <1>6
  <1>8. \A i \in 1 .. m : /\ n + i \in DOMAIN b2 \ DOMAIN bs
                          /\ top + i \in DOMAIN b2 \ DOMAIN bs
    BY <1>1, <1>6
  <1>9. n \in DOMAIN b2 \ DOMAIN bs
    BY <1>1, <1>6
  <1>10. r \in DOMAIN b2 \ DOMAIN bs /\ b2[r].fn # "deferred"
    <2>1. CASE m = 0
      BY <2>1, <1>1, <1>3, <1>9
    <2>2. CASE m # 0
      <3>1. m \in 1 .. m /\ r = top + m
        BY <2>2, <1>1
      <3> QED BY <3>1, <1>5, <1>8
    <2> QED BY <2>1, <2>2
  <1>11. ASSUME NEW x \in DOMAIN b2 \ DOMAIN bs, NEW a \in DOMAIN b2[x].kids
         PROVE  \E i \in 1 .. m : /\ x = top + i
                                  /\ \/ a = 1 /\ i = 1 /\ b2[x].kids[a] = n
                                     \/ a = 1 /\ i # 1 /\ b2[x].kids[a] = top + (i - 1)
                                     \/ a = 2 /\ b2[x].kids[a] = n + i
    <2>1. PICK i \in 1 .. m : x = top + i
      BY <1>3, <1>4, <1>7
    <2>2. a \in {1, 2} /\ top + i - 1 = top + (i - 1)
      BY <2>1, <1>5, <1>6
    <2> QED BY <2>1, <2>2, <1>5
  <1>12. ASSUME NEW x \in DOMAIN b2 \ DOMAIN bs, NEW a \in DOMAIN b2[x].kids,
                NEW y \in DOMAIN b2 \ DOMAIN bs, NEW b \in DOMAIN b2[y].kids, b2[x].kids[a] = b2[y].kids[b]
         PROVE  x = y /\ a = b
    <2>1. PICK i \in 1 .. m : /\ x = top + i
                              /\ \/ a = 1 /\ i = 1 /\ b2[x].kids[a] = n
                                 \/ a = 1 /\ i # 1 /\ b2[x].kids[a] = top + (i - 1)
                                 \/ a = 2 /\ b2[x].kids[a] = n + i
      BY <1>11
    <2>2. PICK j \in 1 .. m : /\ y = top + j
                              /\ \/ b = 1 /\ j = 1 /\ b2[y].kids[b] = n
                                 \/ b = 1 /\ j # 1 /\ b2[y].kids[b] = top + (j - 1)
                                 \/ b = 2 /\ b2[y].kids[b] = n + j
      BY <1>11
    <2>3. i \in Nat /\ j \in Nat /\ 1 <= i /\ i <= m /\ 1 <= j /\ j <= m
      BY <1>1
    <2>4. i = j /\ a = b
      BY SMTT(30), <2>1, <2>2, <2>3, <1>12, <1>6, <1>1
    <2> QED BY <2>1, <2>2, <2>4
  <1>13. ASSUME NEW x \in DOMAIN b2 \ DOMAIN bs, NEW a \in DOMAIN b2[x].kids
         PROVE  /\ b2[x].kids[a] \in DOMAIN b2 \ DOMAIN bs /\ b2[x].kids[a] # r
                /\ LET d == b2[x].kids[a]
                   IN b2[d].fn = "deferred" => b2[x].fn = "cat" /\ a = 2 /\ Chained(b2, x, b2[d].head)
    <2>1. PICK i \in 1 .. m : /\ x = top + i
                              /\ \/ a = 1 /\ i = 1 /\ b2[x].kids[a] = n
                                 \/ a = 1 /\ i # 1 /\ b2[x].kids[a] = top + (i - 1)
                                 \/ a = 2 /\ b2[x].kids[a] = n + i
      BY <1>11
    <2>2. i \in Nat /\ 1 <= i /\ i <= m /\ (i # 1 => i - 1 \in 1 .. m) /\ r = top + m
      BY <1>1
    <2>3. b2[x].kids[a] \in DOMAIN b2 \ DOMAIN bs
      BY <2>1, <2>2, <1>8, <1>9
    <2>4. b2[x].kids[a] # r
      <3>1. /\ i \in Nat /\ i <= m /\ m \in Nat /\ n \in Nat /\ top \in Nat /\ top = n + m /\ 1 <= i /\ r = top + m
        BY <1>1, <1>6, <2>2
      <3>2. n # top + m /\ top + (i - 1) # top + m /\ n + i # top + m
        BY <3>1
      <3> QED BY <2>1, <3>1, <3>2
    <2>5. ASSUME b2[b2[x].kids[a]].fn = "deferred"
          PROVE  a = 2 /\ b2[b2[x].kids[a]].head = n
      <3>1. a = 2
        BY <2>1, <2>2, <2>5, <1>3, <1>5
      <3> QED BY <3>1, <2>1, <1>4
    <2>6. b2[x].fn = "cat"
      BY <2>1, <1>5
    <2>7. Chained(b2, x, n)
      <3>1. CASE i = 1
        <4>1. b2[x].kids[1] = n
          BY <2>1, <3>1, <1>5
        <4> QED BY <4>1, <1>3 DEF Chained
      <3>2. CASE i # 1
        <4>1. b2[x].kids[1] = top + (i - 1) /\ i - 1 \in 1 .. m
          BY <2>1, <2>2, <3>2, <1>5, <1>6
        <4>2. b2[top + (i - 1)].fn = "cat" /\ b2[top + (i - 1)].kids[2] = n + (i - 1)
          BY <4>1, <1>5
        <4>3. b2[n + (i - 1)].fn = "deferred" /\ b2[n + (i - 1)].head = n
          BY <4>1, <1>4
        <4>4. top + (i - 1) < x
          BY <2>1, <2>2, <1>6
        <4> QED BY <4>1, <4>2, <4>3, <4>4 DEF Chained
      <3> QED BY <3>1, <3>2
    <2> QED BY <2>3, <2>4, <2>5, <2>6, <2>7
  <1>14. ASSUME NEW x \in DOMAIN b2 \ DOMAIN bs
         PROVE  /\ DOMAIN b2[x] = DOMAIN BoxOf("true") /\ b2[x].ci \in Nat
                /\ \/ DOMAIN b2[x].kids = 1 .. Width(b2[x].fn)
                   \/ b2[x].fn \in {"deferred", "choice"} /\ DOMAIN b2[x].kids = {}
    <2>1. b2[x].ci = 0
      BY <1>3, <1>4, <1>5, <1>7
    <2>2. CASE x = n
      BY <2>1, <2>2, <1>3 DEF Width
    <2>3. CASE \E i \in 1 .. m : x = n + i
      BY <2>1, <2>3, <1>4
    <2>4. CASE \E i \in 1 .. m : x = top + i
      <3>1. b2[x].fn = "cat" /\ DOMAIN b2[x].kids = 1 .. 2 /\ DOMAIN b2[x] = DOMAIN BoxOf("true")
        BY <2>4, <1>5
      <3>2. Width("cat") = 2 /\ 0 \in Nat
        BY DEF Width
      <3> QED BY <2>1, <3>1, <3>2
    <2> QED BY <2>2, <2>3, <2>4, <1>7
  <1>15. NewBoxes(bs, b2, r)
    BY <1>12, <1>13, <1>14 DEF NewBoxes
  <1>16. DOMAIN bs \subseteq DOMAIN b2
    BY <1>1, <1>6
  <1> QED BY <1>1, <1>10, <1>15, <1>16

-----------------------------------------------------------------------------
(* The steps, one lemma for each kind of box                                    *)

LEMMA BetaRests ==
  ASSUME IInv, ctl.port = "beta"
  PROVE  Entered /\ Me = ctl.box /\ Rests(boxes, hist, Me)
  <1>1. Entered /\ Me = ctl.box
    BY DEF Entered, Me
  <1>2. hist[ctl.box].exit = "gamma" /\ ctl.box \in DOMAIN boxes /\ ~ OnStack(calls, ctl.box)
    BY StackFacts DEF IInv, PortOK
  <1> QED BY <1>1, <1>2 DEF IInv, Settled

(* The children of the box in control, if it is a conjunction or disjunction.   *)
LEMMA MyKids ==
  ASSUME IInv, Entered \/ calls # <<>>
  PROVE  /\ boxes[Me].fn \in {"cat", "alt"} => DOMAIN boxes[Me].kids = 1 .. 2
         /\ Me \in DOMAIN boxes
  BY MyStack DEF IInv, Struct, Shaped, Width

(* The box in control is the one that waited for the child that returns.        *)
LEMMA Back ==
  ASSUME IInv, NEW port \in {"gamma", "omega"}, NEW fn, NEW at, BackAt(port, fn, at)
  PROVE  /\ calls # <<>> /\ ~ Entered /\ ctl.port = port /\ Me = Head(calls).box /\ Head(calls).at = at
         /\ boxes[Me].fn = fn /\ fn = FnAt(at) /\ Waits(boxes, hist, Head(calls))
         /\ hist[ctl.box].exit = port
         /\ at # "not" => Slot(at) \in DOMAIN boxes[Me].kids /\ ctl.box = boxes[Me].kids[Slot(at)]
  <1>1. calls # <<>> /\ ~ Entered /\ ctl.port = port /\ Me = Head(calls).box /\ Head(calls).at = at
    BY DEF BackAt, Entered, Me
  <1>2. Fits(boxes, Head(calls), ctl.box) /\ Waits(boxes, hist, Head(calls)) /\ hist[ctl.box].exit = port
    BY <1>1, MyStack
  <1> QED BY <1>1, <1>2 DEF BackAt, Fits

LEMMA LeafKeeps ==
  ASSUME IInv, UNCHANGED prog, TrueAlpha \/ FailAlpha \/ BuiltinAlpha \/ LeafBeta
  PROVE  IInv'
  <1>1. Entered /\ UNCHANGED <<prog, cutflag>>
    BY DEF TrueAlpha, FailAlpha, BuiltinAlpha, LeafBeta, EnteredAt, Entered
  <1>2. Me = ctl.box
    BY <1>1 DEF Me
  <1>3. CASE TrueAlpha
    <2>1. Leave("gamma", boxes, heap) /\ boxes[Me].fn = "true"
      BY <1>2, <1>3 DEF TrueAlpha, EnteredAt, Exit
    <2> QED BY <2>1, <1>1, ExitKeeps DEF Rests
  <1>4. CASE FailAlpha
    BY <1>1, <1>4, ExitKeeps DEF FailAlpha, Exit
  <1>5. CASE BuiltinAlpha
    <2>1. PICK h, ok : Leave(Verdict(ok), boxes, h)
      BY <1>5 DEF BuiltinAlpha
    <2>2. boxes[Me].fn = "is" /\ Verdict(ok) \in {"gamma", "omega"}
      BY <1>2, <1>5 DEF BuiltinAlpha, EnteredAt, Verdict
    <2>3. Rests(boxes, hist, Me)
      BY <2>2 DEF Rests
    <2> QED BY <2>1, <2>2, <2>3, <1>1, ExitKeeps
  <1>6. CASE LeafBeta
    BY <1>1, <1>6, ExitKeeps DEF LeafBeta, Exit
  <1> QED BY <1>3, <1>4, <1>5, <1>6

LEMMA CatKeeps ==
  ASSUME IInv, UNCHANGED prog,
         CatAlpha \/ CatBeta \/ CatLeftGamma \/ CatLeftOmega \/ CatRightGamma \/ CatRightOmega
  PROVE  IInv'
  <1>1. UNCHANGED <<prog, cutflag>>
    BY DEF CatAlpha, CatBeta, CatLeftGamma, CatLeftOmega, CatRightGamma, CatRightOmega
  <1>2. CASE CatAlpha
    <2>1. Entered /\ Me = ctl.box /\ boxes[Me].fn = "cat" /\ Call(boxes[Me].kids[1], "alpha", "left")
      BY <1>2 DEF CatAlpha, EnteredAt, Entered, Me, My
    <2>2. Slot("left") = 1 /\ FnAt("left") = "cat" /\ "left" \in Place \ {"not", "clause"}
      BY DEF Slot, FnAt, Place
    <2>3. DOMAIN boxes[Me].kids = 1 .. 2
      BY <2>1, MyKids
    <2>4. Waits(boxes, hist, [box |-> Me, at |-> "left", saved |-> 0])
      BY DEF Waits
    <2>5. Child("left", boxes[Me].kids[1])
      BY <2>1, <2>2, <2>3 DEF Child
    <2> QED BY <2>1, <2>2, <2>4, <2>5, <1>1, CallKeeps
  <1>3. CASE CatBeta
    <2>1. Entered /\ Me = ctl.box /\ boxes[Me].fn = "cat" /\ Call(boxes[Me].kids[2], "beta", "right")
          /\ ctl.port = "beta"
      BY <1>3 DEF CatBeta, EnteredAt, Entered, Me, My
    <2>2. Slot("right") = 2 /\ FnAt("right") = "cat" /\ "right" \in Place \ {"not", "clause"}
      BY DEF Slot, FnAt, Place
    <2>3. DOMAIN boxes[Me].kids = 1 .. 2
      BY <2>1, MyKids
    <2>4. hist[boxes[Me].kids[1]].exit = "gamma" /\ hist[boxes[Me].kids[2]].exit = "gamma"
      BY <2>1, BetaRests DEF Rests
    <2>5. Waits(boxes, hist, [box |-> Me, at |-> "right", saved |-> 0])
      BY <2>4 DEF Waits
    <2>6. Child("right", boxes[Me].kids[2])
      BY <2>1, <2>2, <2>3 DEF Child
    <2> QED BY <2>1, <2>2, <2>4, <2>5, <2>6, <1>1, CallKeeps
  <1>4. CASE CatLeftGamma
    <2>1. BackAt("gamma", "cat", "left") /\ Call(boxes[Me].kids[2], "alpha", "right")
      BY <1>4 DEF CatLeftGamma, My
    <2>2. /\ calls # <<>> /\ Head(calls).at = "left" /\ boxes[Me].fn = "cat"
          /\ hist[boxes[Me].kids[1]].exit = "gamma"
      BY <2>1, Back DEF Slot
    <2>3. Slot("right") = 2 /\ FnAt("right") = "cat" /\ "right" \in Place \ {"not", "clause"}
      BY DEF Slot, FnAt, Place
    <2>4. DOMAIN boxes[Me].kids = 1 .. 2
      BY <2>2, MyKids
    <2>5. Waits(boxes, hist, [box |-> Me, at |-> "right", saved |-> 0])
      BY <2>2 DEF Waits
    <2>6. Child("right", boxes[Me].kids[2])
      BY <2>2, <2>3, <2>4 DEF Child
    <2> QED BY <2>1, <2>2, <2>3, <2>5, <2>6, <1>1, CallKeeps
  <1>5. CASE CatLeftOmega
    <2>1. BackAt("omega", "cat", "left") /\ Leave(ctl.port, boxes, heap)
      BY <1>5 DEF CatLeftOmega, Pass
    <2>2. calls # <<>> /\ Head(calls).at = "left" /\ ctl.port = "omega"
      BY <2>1, Back
    <2> QED BY <2>1, <2>2, <1>1, ExitKeeps
  <1>6. CASE CatRightGamma
    <2>1. BackAt("gamma", "cat", "right") /\ Leave(ctl.port, boxes, heap)
      BY <1>6 DEF CatRightGamma, Pass
    <2>2. /\ calls # <<>> /\ Head(calls).at = "right" /\ ctl.port = "gamma" /\ boxes[Me].fn = "cat"
          /\ Me = Head(calls).box /\ Waits(boxes, hist, Head(calls))
          /\ hist[boxes[Me].kids[2]].exit = "gamma"
      BY <2>1, Back DEF Slot
    <2>3. Rests(boxes, hist, Me)
      BY <2>2 DEF Rests, Waits
    <2> QED BY <2>1, <2>2, <2>3, <1>1, ExitKeeps
  <1>7. CASE CatRightOmega
    <2>1. BackAt("omega", "cat", "right") /\ Call(boxes[Me].kids[1], "beta", "left")
      BY <1>7 DEF CatRightOmega, My
    <2>2. /\ calls # <<>> /\ Head(calls).at = "right" /\ boxes[Me].fn = "cat"
          /\ Me = Head(calls).box /\ Waits(boxes, hist, Head(calls))
      BY <2>1, Back
    <2>3. Slot("left") = 1 /\ FnAt("left") = "cat" /\ "left" \in Place \ {"not", "clause"}
      BY DEF Slot, FnAt, Place
    <2>4. DOMAIN boxes[Me].kids = 1 .. 2
      BY <2>2, MyKids
    <2>5. hist[boxes[Me].kids[1]].exit = "gamma" /\ Waits(boxes, hist, [box |-> Me, at |-> "left", saved |-> 0])
      BY <2>2 DEF Waits
    <2>6. Child("left", boxes[Me].kids[1])
      BY <2>2, <2>3, <2>4 DEF Child
    <2> QED BY <2>1, <2>2, <2>3, <2>5, <2>6, <1>1, CallKeeps
  <1> QED BY <1>2, <1>3, <1>4, <1>5, <1>6, <1>7

(* A box of which fields are assigned that the control does not rely on.        *)
LEMMA PutSame ==
  ASSUME NEW bs, NEW m \in DOMAIN bs, NEW b, Struct(bs),
         DOMAIN b = DOMAIN bs[m], b.fn = bs[m].fn, b.kids = bs[m].kids, b.head = bs[m].head, b.ci \in Nat
  PROVE  /\ Same(bs, [bs EXCEPT ![m] = b], m)
         /\ [bs EXCEPT ![m] = b][m] = b
         /\ \A i \in DOMAIN bs : i # m => [bs EXCEPT ![m] = b][i] = bs[i]
  <1>1. IsSeq(bs) /\ \A i \in DOMAIN bs : bs[i].ci \in Nat
    BY DEF Struct, Shaped
  <1> DEFINE b2 == [bs EXCEPT ![m] = b]
  <1>2. IsSeq(b2) /\ DOMAIN b2 = DOMAIN bs /\ \A i \in DOMAIN bs : b2[i] = IF i = m THEN b ELSE bs[i]
    BY <1>1, ExceptIs
  <1> HIDE DEF b2
  <1>3. Same(bs, b2, m)
    BY <1>1, <1>2 DEF Same
  <1> QED BY <1>2, <1>3 DEF b2

(* The fields of a box of the graph.                                            *)
LEMMA FieldsIs ==
  ASSUME NEW bs, NEW m \in DOMAIN bs, Struct(bs)
  PROVE  /\ "phase" \in DOMAIN bs[m] /\ "mark" \in DOMAIN bs[m] /\ "fired" \in DOMAIN bs[m] /\ "env" \in DOMAIN bs[m]
         /\ "kids" \in DOMAIN bs[m] /\ "ci" \in DOMAIN bs[m] /\ "cut" \in DOMAIN bs[m]
         /\ bs[m].ci \in Nat
  BY DEF Struct, Shaped, BoxOf

LEMMA AltKeeps ==
  ASSUME IInv, UNCHANGED prog, AltAlpha \/ AltBeta \/ AltLeftGamma \/ AltLeftOmega \/ AltRight
  PROVE  IInv'
  <1>1. UNCHANGED <<prog, cutflag>>
    BY DEF AltAlpha, AltBeta, AltLeftGamma, AltLeftOmega, AltRight
  <1>a. /\ Slot("first") = 1 /\ FnAt("first") = "alt" /\ "first" \in Place \ {"not", "clause"}
        /\ Slot("again") = 1 /\ FnAt("again") = "alt" /\ "again" \in Place \ {"not", "clause"}
        /\ Slot("second") = 2 /\ FnAt("second") = "alt" /\ "second" \in Place \ {"not", "clause"}
    BY DEF Slot, FnAt, Place
  <1>2. CASE AltAlpha
    <2>1. Entered /\ Me = ctl.box /\ boxes[Me].fn = "alt" /\ Call(boxes[Me].kids[1], "alpha", "first")
      BY <1>2 DEF AltAlpha, EnteredAt, Entered, Me, My
    <2>2. DOMAIN boxes[Me].kids = 1 .. 2
      BY <2>1, MyKids
    <2>3. Waits(boxes, hist, [box |-> Me, at |-> "first", saved |-> 0])
      BY DEF Waits
    <2>4. Child("first", boxes[Me].kids[1])
      BY <2>1, <2>2, <1>a DEF Child
    <2> QED BY <2>1, <2>2, <2>3, <2>4, <1>a, <1>1, CallKeeps
  <1>3. CASE AltBeta
    <2>1. Entered /\ Me = ctl.box /\ boxes[Me].fn = "alt" /\ ctl.port = "beta"
      BY <1>3 DEF AltBeta, EnteredAt, Entered, Me
    <2>2. \/ boxes[Me].phase = 0 /\ Call(boxes[Me].kids[1], "beta", "again")
          \/ boxes[Me].phase = 2 /\ Call(boxes[Me].kids[2], "beta", "second")
      BY <1>3 DEF AltBeta, My
    <2>3. DOMAIN boxes[Me].kids = 1 .. 2
      BY <2>1, MyKids
    <2>4. /\ boxes[Me].phase = 0 => hist[boxes[Me].kids[1]].exit = "gamma"
          /\ boxes[Me].phase = 2 => hist[boxes[Me].kids[2]].exit = "gamma"
      BY <2>1, BetaRests DEF Rests
    <2>5. /\ boxes[Me].phase = 0 => Waits(boxes, hist, [box |-> Me, at |-> "again", saved |-> 0])
          /\ boxes[Me].phase = 2 => Waits(boxes, hist, [box |-> Me, at |-> "second", saved |-> 0])
      BY DEF Waits
    <2>6. CASE boxes[Me].phase = 0 /\ Call(boxes[Me].kids[1], "beta", "again")
      <3>1. Child("again", boxes[Me].kids[1])
        BY <2>1, <2>3, <1>a DEF Child
      <3> QED BY <2>1, <2>4, <2>5, <2>6, <3>1, <1>a, <1>1, CallKeeps
    <2>7. CASE boxes[Me].phase = 2 /\ Call(boxes[Me].kids[2], "beta", "second")
      <3>1. Child("second", boxes[Me].kids[2])
        BY <2>1, <2>3, <1>a DEF Child
      <3> QED BY <2>1, <2>4, <2>5, <2>7, <3>1, <1>a, <1>1, CallKeeps
    <2> QED BY <2>2, <2>6, <2>7
  <1>4. CASE AltLeftGamma
    <2> DEFINE bs == [boxes EXCEPT ![Me].phase = IF Head(calls).at = "first" THEN 0 ELSE @]
    <2>1. Leave("gamma", bs, heap)
      BY <1>4 DEF AltLeftGamma
    <2>2. BackAt("gamma", "alt", "first") \/ BackAt("gamma", "alt", "again")
      BY <1>4 DEF AltLeftGamma
    <2>3. /\ calls # <<>> /\ Head(calls).at \in {"first", "again"} /\ boxes[Me].fn = "alt"
          /\ hist[boxes[Me].kids[1]].exit = "gamma" /\ Me = Head(calls).box /\ Waits(boxes, hist, Head(calls))
      BY <2>2, Back, <1>a
    <2>4. Same(boxes, bs, Me) /\ bs[Me].phase = (IF Head(calls).at = "first" THEN 0 ELSE boxes[Me].phase)
          /\ bs[Me].fn = boxes[Me].fn /\ bs[Me].kids = boxes[Me].kids
      <3> DEFINE b == [boxes[Me] EXCEPT !.phase = IF Head(calls).at = "first" THEN 0 ELSE boxes[Me].phase]
      <3>1. Struct(boxes) /\ Me \in DOMAIN boxes /\ "phase" \in DOMAIN boxes[Me] /\ boxes[Me].ci \in Nat
        BY <2>3, MyKids, FieldsIs DEF IInv
      <3>2. bs = [boxes EXCEPT ![Me] = b]
        BY <3>1
      <3>3. /\ DOMAIN b = DOMAIN boxes[Me] /\ b.fn = boxes[Me].fn /\ b.kids = boxes[Me].kids /\ b.head = boxes[Me].head
            /\ b.ci = boxes[Me].ci /\ b.phase = (IF Head(calls).at = "first" THEN 0 ELSE boxes[Me].phase)
        BY <3>1
      <3> HIDE DEF bs, b
      <3> QED BY <3>1, <3>2, <3>3, PutSame
    <2> HIDE DEF bs
    <2>5. Rests(bs, hist, Me)
      <3>1. boxes[Me].phase = 0 \/ Head(calls).at = "first"
        BY <2>3 DEF Waits
      <3>2. bs[Me].fn = "alt" /\ bs[Me].phase = 0
        BY <2>3, <2>4, <3>1
      <3>3. hist[bs[Me].kids[1]].exit = "gamma"
        BY <2>3, <2>4
      <3> QED BY <3>2, <3>3 DEF Rests
    <2>6. Nested(Rest, cutflag')
      BY <2>3, <1>1, MyTarget
    <2> QED BY <2>1, <2>3, <2>4, <2>5, <2>6, <1>1, LeaveKeeps
  <1>5. CASE AltLeftOmega
    <2> DEFINE bs == [boxes EXCEPT ![Me].phase = 2]
               f  == [box |-> Me, at |-> "second", saved |-> 0]
               k  == boxes[Me].kids[2]
    <2>1. Enter(k, "alpha", f, bs, heap)
      BY <1>5 DEF AltLeftOmega, My
    <2>2. BackAt("omega", "alt", "first") \/ BackAt("omega", "alt", "again")
      BY <1>5 DEF AltLeftOmega, LeftExhausted
    <2>3. calls # <<>> /\ Head(calls).at \in {"first", "again"} /\ boxes[Me].fn = "alt"
      BY <2>2, Back
    <2>4. Same(boxes, bs, Me) /\ bs[Me].phase = 2 /\ bs[Me].fn = boxes[Me].fn /\ bs[Me].kids = boxes[Me].kids
      <3> DEFINE b == [boxes[Me] EXCEPT !.phase = 2]
      <3>1. Struct(boxes) /\ Me \in DOMAIN boxes /\ "phase" \in DOMAIN boxes[Me] /\ boxes[Me].ci \in Nat
        BY <2>3, MyKids, FieldsIs DEF IInv
      <3>2. bs = [boxes EXCEPT ![Me] = b]
        BY <3>1
      <3>3. /\ DOMAIN b = DOMAIN boxes[Me] /\ b.fn = boxes[Me].fn /\ b.kids = boxes[Me].kids /\ b.head = boxes[Me].head
            /\ b.ci = boxes[Me].ci /\ b.phase = 2
        BY <3>1
      <3> HIDE DEF bs, b
      <3> QED BY <3>1, <3>2, <3>3, PutSame
    <2>5. Struct(boxes) /\ Struct(bs) /\ Grows(boxes, bs, Me)
      BY <2>4, SameStruct DEF IInv
    <2>6. f.box = Me /\ f.at = "second" /\ Waits(bs, hist, f)
      BY <2>4 DEF Waits
    <2>7. Fits(bs, f, k)
      <3>1. Me \in DOMAIN boxes /\ DOMAIN boxes[Me].kids = 1 .. 2 /\ DOMAIN bs = DOMAIN boxes
        BY <2>3, <2>4, MyKids DEF Same
      <3>2. k \in DOMAIN boxes \ {1}
        BY <2>5, <3>1 DEF Struct, Tree
      <3> HIDE DEF bs, f
      <3> QED BY <2>3, <2>4, <2>6, <3>1, <3>2, <1>a DEF Fits
    <2>8. Nested(<<f>> \o Rest, cutflag')
      BY <2>3, <2>6, <1>1, MyTarget, NestedPush
    <2> HIDE DEF bs, f, k
    <2> QED BY <2>1, <2>3, <2>5, <2>6, <2>7, <2>8, <1>1, EnterKeeps
  <1>6. CASE AltRight
    <2>1. PICK port \in {"gamma", "omega"} : BackAt(port, "alt", "second")
      BY <1>6 DEF AltRight
    <2>2. Leave(ctl.port, boxes, heap)
      BY <1>6 DEF AltRight, Pass
    <2>3. /\ calls # <<>> /\ Head(calls).at = "second" /\ ctl.port = port /\ boxes[Me].fn = "alt"
          /\ Me = Head(calls).box /\ Waits(boxes, hist, Head(calls))
          /\ hist[boxes[Me].kids[2]].exit = port
      BY <2>1, Back, <1>a
    <2>4. port = "gamma" => Rests(boxes, hist, Me)
      BY SMTT(30), <2>3 DEF Rests, Waits
    <2> QED BY <2>2, <2>3, <2>4, <1>1, ExitKeeps
  <1> QED BY <1>2, <1>3, <1>4, <1>5, <1>6

LEMMA UnifyKeeps ==
  ASSUME IInv, UNCHANGED prog, UnifyAlpha \/ HeadAlpha \/ UnifyBeta \/ CutAlpha
  PROVE  IInv'
  <1>1. Entered /\ Me = ctl.box /\ UNCHANGED <<prog, cutflag>>
    BY ZenonT(30) DEF UnifyAlpha, HeadAlpha, UnifyBeta, CutAlpha, EnteredAt, Entered, Me
  <1>2. Struct(boxes) /\ Me \in DOMAIN boxes /\ Nested(Rest, cutflag')
    BY <1>1, MyKids, MyTarget DEF IInv
  <1>3. /\ "mark" \in DOMAIN boxes[Me] /\ "fired" \in DOMAIN boxes[Me] /\ "env" \in DOMAIN boxes[Me]
        /\ boxes[Me].ci \in Nat
    BY <1>2, FieldsIs
  <1>4. CASE UnifyAlpha
    <2>1. PICK h, ok, mark : Leave(Verdict(ok), [boxes EXCEPT ![Me].mark = mark, ![Me].fired = ok], h)
      BY <1>4 DEF UnifyAlpha
    <2> DEFINE b  == [boxes[Me] EXCEPT !.mark = mark, !.fired = ok]
               bs == [boxes EXCEPT ![Me].mark = mark, ![Me].fired = ok]
    <2>2. bs = [boxes EXCEPT ![Me] = b]
      BY <1>2, <1>3
    <2>3. /\ DOMAIN b = DOMAIN boxes[Me] /\ b.fn = boxes[Me].fn /\ b.kids = boxes[Me].kids
          /\ b.head = boxes[Me].head /\ b.ci = boxes[Me].ci
      BY SMTT(30), <1>3
    <2>4. boxes[Me].fn = "unify" /\ Verdict(ok) \in {"gamma", "omega"}
      BY <1>1, <1>4 DEF UnifyAlpha, EnteredAt, Verdict
    <2>5. Leave(Verdict(ok), bs, h)
      BY <2>1
    <2> HIDE DEF b, bs
    <2>6. Same(boxes, bs, Me) /\ bs[Me].fn = "unify"
      BY ZenonT(30), <2>2, <2>3, <2>4, <1>2, <1>3, PutSame
    <2>7. Rests(bs, hist, Me)
      BY <2>6 DEF Rests
    <2> QED BY SMTT(30), <2>4, <2>5, <2>6, <2>7, <1>1, <1>2, LeaveKeeps
  <1>5. CASE HeadAlpha
    <2>1. PICK h, ok, mark, env :
            Leave(Verdict(ok), [boxes EXCEPT ![Me].mark = mark, ![Me].fired = ok, ![Me].env = env], h)
      BY ZenonT(30), <1>5 DEF HeadAlpha
    <2> DEFINE b  == [boxes[Me] EXCEPT !.mark = mark, !.fired = ok, !.env = env]
               bs == [boxes EXCEPT ![Me].mark = mark, ![Me].fired = ok, ![Me].env = env]
    <2>2. bs = [boxes EXCEPT ![Me] = b]
      BY <1>2, <1>3
    <2>3. /\ DOMAIN b = DOMAIN boxes[Me] /\ b.fn = boxes[Me].fn /\ b.kids = boxes[Me].kids
          /\ b.head = boxes[Me].head /\ b.ci = boxes[Me].ci /\ b.fired = ok
      BY <1>3
    <2>4. boxes[Me].fn = "head" /\ Verdict(ok) \in {"gamma", "omega"} /\ (Verdict(ok) = "gamma" => ok)
      BY ZenonT(30), <1>1, <1>5 DEF HeadAlpha, EnteredAt, Verdict
    <2>5. Leave(Verdict(ok), bs, h)
      BY <2>1
    <2> HIDE DEF b, bs
    <2>6. Same(boxes, bs, Me) /\ bs[Me].fn = "head" /\ bs[Me].fired = ok
      BY <2>2, <2>3, <2>4, <1>2, <1>3, PutSame
    <2>7. Verdict(ok) = "gamma" => Rests(bs, hist, Me)
      BY <2>4, <2>6 DEF Rests
    <2> QED BY <2>4, <2>5, <2>6, <2>7, <1>1, <1>2, LeaveKeeps
  <1>6. CASE UnifyBeta
    <2>1. PICK h : Leave("omega", [boxes EXCEPT ![Me].fired = FALSE], h)
      BY <1>6 DEF UnifyBeta
    <2> DEFINE b  == [boxes[Me] EXCEPT !.fired = FALSE]
               bs == [boxes EXCEPT ![Me].fired = FALSE]
    <2>2. bs = [boxes EXCEPT ![Me] = b]
      BY <1>2, <1>3
    <2>3. /\ DOMAIN b = DOMAIN boxes[Me] /\ b.fn = boxes[Me].fn /\ b.kids = boxes[Me].kids
          /\ b.head = boxes[Me].head /\ b.ci = boxes[Me].ci
      BY <1>3
    <2>4. Leave("omega", bs, h)
      BY <2>1
    <2> HIDE DEF b, bs
    <2>5. Same(boxes, bs, Me)
      BY <2>2, <2>3, <1>2, <1>3, PutSame
    <2> QED BY <2>4, <2>5, <1>1, <1>2, LeaveKeeps
  <1>7. CASE CutAlpha
    <2> DEFINE b  == [boxes[cutflag] EXCEPT !.cut = TRUE]
               bs == [boxes EXCEPT ![cutflag].cut = TRUE]
    <2>1. Leave("gamma", bs, heap) /\ boxes[Me].fn = "cut"
      BY <1>1, <1>7 DEF CutAlpha, EnteredAt
    <2>2. Same(boxes, bs, Me)
      <3>1. CASE cutflag \in DOMAIN boxes
        <4>1. "cut" \in DOMAIN boxes[cutflag] /\ boxes[cutflag].ci \in Nat /\ IsSeq(boxes)
              /\ \A i \in DOMAIN boxes : boxes[i].ci \in Nat
          BY <3>1, <1>2, FieldsIs DEF Struct, Shaped
        <4>2. bs = [boxes EXCEPT ![cutflag] = b]
          BY <3>1, <4>1
        <4>3. /\ DOMAIN b = DOMAIN boxes[cutflag] /\ b.fn = boxes[cutflag].fn /\ b.kids = boxes[cutflag].kids
              /\ b.head = boxes[cutflag].head /\ b.ci = boxes[cutflag].ci
              /\ b.phase = boxes[cutflag].phase /\ b.fired = boxes[cutflag].fired
          BY <4>1
        <4> HIDE DEF b, bs
        <4>4. IsSeq(bs) /\ DOMAIN bs = DOMAIN boxes
              /\ \A i \in DOMAIN boxes : bs[i] = IF i = cutflag THEN b ELSE boxes[i]
          BY <4>1, <4>2, ExceptIs
        <4> QED BY <4>1, <4>3, <4>4 DEF Same
      <3>2. CASE cutflag \notin DOMAIN boxes
        <4>1. IsSeq(boxes) /\ \A i \in DOMAIN boxes : boxes[i].ci \in Nat
          BY <1>2 DEF Struct, Shaped
        <4> DEFINE x == [boxes[cutflag] EXCEPT !.cut = TRUE]
        <4>2. bs = [boxes EXCEPT ![cutflag] = x]
          OBVIOUS
        <4> HIDE DEF x, bs
        <4>3. IsSeq(bs) /\ DOMAIN bs = DOMAIN boxes /\ \A i \in DOMAIN boxes : bs[i] = boxes[i]
          BY <4>1, <4>2, <3>2, ExceptIs
        <4> QED BY <4>1, <4>3 DEF Same
      <3> QED BY <3>1, <3>2
    <2> HIDE DEF b, bs
    <2>3. Rests(bs, hist, Me)
      BY <2>1, <2>2, <1>2 DEF Rests, Same
    <2> QED BY <2>1, <2>2, <2>3, <1>1, <1>2, LeaveKeeps
  <1> QED BY <1>4, <1>5, <1>6, <1>7

(* Me calls box k, which it has made.                                           *)
Calls(f, k) ==
  /\ Enter(k, "alpha", f, boxes', heap') /\ f.box = Me /\ k \notin DOMAIN boxes
  /\ Struct(boxes') /\ Grows(boxes, boxes', Me) /\ Fits(boxes', f, k)
  /\ PlainNew(boxes, boxes') /\ \A i \in DOMAIN boxes : i # Me => boxes'[i] = boxes[i]

LEMMA NotMade ==
  ASSUME IInv, NotAlpha
  PROVE  /\ Entered /\ Me = ctl.box /\ boxes[Me].fn = "not" /\ ctl.port = "alpha"
         /\ Calls([box |-> Me, at |-> "not", saved |-> 0], Len(boxes) + 1)
         /\ boxes'[Me] = [boxes[Me] EXCEPT !.mark = Len(heap.trail)] /\ boxes'[Me].mark = Len(heap.trail)
         /\ heap' = MakeTerms(My.goal.kids[1].args, My.env, heap).h
  <1> DEFINE f == [box |-> Me, at |-> "not", saved |-> 0]
             k == Len(boxes) + 1
             mark == Len(heap.trail)
             h == MakeTerms(My.goal.kids[1].args, My.env, heap).h
  <1>1. Entered /\ Me = ctl.box /\ boxes[Me].fn = "not" /\ ctl.port = "alpha"
    BY ZenonT(30) DEF NotAlpha, EnteredAt, Entered, Me
  <1>2. PICK pred, args : Enter(k, "alpha", f, [Append(boxes, Choice(pred, args)) EXCEPT ![Me].mark = mark], h)
    BY DEF NotAlpha, New, trail_mark
  <1> HIDE DEF mark, h
  <1> DEFINE bn == Append(boxes, Choice(pred, args))
             bs == [bn EXCEPT ![Me].mark = mark]
             b  == [boxes[Me] EXCEPT !.mark = mark]
  <1>3. Struct(boxes) /\ Me \in DOMAIN boxes /\ "mark" \in DOMAIN boxes[Me] /\ boxes[Me].ci \in Nat
        /\ IsSeq(boxes) /\ \A i \in DOMAIN boxes : boxes[i].ci \in Nat
    BY <1>1, MyKids, FieldsIs DEF IInv, Struct, Shaped
  <1>4. /\ DOMAIN b = DOMAIN boxes[Me] /\ b.fn = boxes[Me].fn /\ b.kids = boxes[Me].kids
        /\ b.head = boxes[Me].head /\ b.ci = boxes[Me].ci /\ b.mark = mark
    BY <1>3
  <1>5. /\ IsSeq(bn) /\ DOMAIN bn = DOMAIN boxes \cup {k} /\ k \notin DOMAIN boxes /\ k # 1
        /\ \A i \in DOMAIN boxes : bn[i] = boxes[i]
        /\ bn[k] = Choice(pred, args)
    <2>1. DOMAIN boxes = 1 .. Len(boxes) /\ Len(boxes) \in Nat /\ 1 \in DOMAIN boxes
      BY <1>3, SeqFacts DEF Struct, Shaped
    <2>2. /\ IsSeq(bn) /\ DOMAIN bn = 1 .. Len(boxes) + 1 /\ bn[Len(boxes) + 1] = Choice(pred, args)
          /\ \A i \in 1 .. Len(boxes) : bn[i] = boxes[i]
      BY <1>3, AppendIs
    <2> HIDE DEF bn
    <2> QED BY <2>1, <2>2
  <1> HIDE DEF bn
  <1>6. bs = [bn EXCEPT ![Me] = b]
    BY <1>3, <1>5
  <1>7. Enter(k, "alpha", f, bs, h)
    BY <1>2 DEF bn
  <1> HIDE DEF bs, b, k
  <1>8. IsSeq(bs) /\ DOMAIN bs = DOMAIN bn /\ \A i \in DOMAIN bn : bs[i] = IF i = Me THEN b ELSE bn[i]
    BY <1>5, <1>6, ExceptIs
  <1>9. /\ bs[k].fn = "choice" /\ DOMAIN bs[k].kids = {} /\ DOMAIN bs[k] = DOMAIN BoxOf("true")
        /\ bs[k].ci \in Nat /\ PlainNew(boxes, bs)
    BY <1>3, <1>5, <1>8, ChoiceIs DEF PlainNew
  <1>10. NewBoxes(boxes, bs, k)
    BY <1>5, <1>8, <1>9 DEF NewBoxes
  <1>11. Struct(bs) /\ Grows(boxes, bs, Me)
    <2>1. \A i \in DOMAIN boxes :
            /\ DOMAIN bs[i] = DOMAIN boxes[i] /\ bs[i].fn = boxes[i].fn /\ bs[i].head = boxes[i].head
            /\ bs[i].ci \in Nat
            /\ i # Me => bs[i].kids = boxes[i].kids /\ bs[i].phase = boxes[i].phase /\ bs[i].fired = boxes[i].fired
      BY <1>3, <1>4, <1>5, <1>8
    <2>2. bs[Me].kids = boxes[Me].kids /\ DOMAIN boxes \subseteq DOMAIN bs
      BY <1>3, <1>4, <1>5, <1>8
    <2> QED BY <2>1, <2>2, <1>3, <1>8, <1>10, Attach
  <1>12. f.box = Me /\ f.at = "not"
    OBVIOUS
  <1> HIDE DEF f
  <1>13. Orphan(bs, k)
    <2> SUFFICES ASSUME NEW i \in DOMAIN bs, NEW a \in DOMAIN bs[i].kids, bs[i].kids[a] = k PROVE FALSE
      BY DEF Orphan
    <2>1. i \in DOMAIN boxes /\ bs[i].kids = boxes[i].kids
      BY <1>4, <1>5, <1>8, <1>9
    <2> QED BY <2>1, <1>3, <1>5 DEF Struct, Tree
  <1>14. Fits(bs, f, k)
    BY <1>1, <1>3, <1>4, <1>5, <1>8, <1>9, <1>12, <1>13 DEF Fits, FnAt, Place
  <1>15. boxes' = bs /\ heap' = h
    BY <1>7 DEF Enter
  <1>16. bs[Me] = b /\ bs[Me].mark = mark /\ \A i \in DOMAIN boxes : i # Me => bs[i] = boxes[i]
    BY <1>3, <1>4, <1>5, <1>8
  <1>17. Calls(f, k)
    BY <1>5, <1>7, <1>9, <1>11, <1>12, <1>14, <1>15, <1>16 DEF Calls
  <1>18. Calls([box |-> Me, at |-> "not", saved |-> 0], Len(boxes) + 1)
    BY <1>17 DEF f, k
  <1>19. /\ boxes'[Me] = [boxes[Me] EXCEPT !.mark = Len(heap.trail)] /\ boxes'[Me].mark = Len(heap.trail)
         /\ heap' = MakeTerms(My.goal.kids[1].args, My.env, heap).h
    BY <1>15, <1>16 DEF mark, h, b
  <1> QED BY <1>1, <1>18, <1>19

LEMMA NotKeeps ==
  ASSUME IInv, UNCHANGED prog, NotAlpha \/ NotBack
  PROVE  IInv'
  <1>1. UNCHANGED <<prog, cutflag>>
    BY ZenonT(30) DEF NotAlpha, NotBack
  <1>2. CASE NotBack
    <2>1. PICK port \in {"gamma", "omega"} : BackAt(port, "not", "not")
      BY <1>2 DEF NotBack
    <2>2. PICK h : Leave(Verdict(ctl.port = "omega"), boxes, h)
      BY <1>2 DEF NotBack
    <2>3. calls # <<>> /\ Head(calls).at = "not" /\ boxes[Me].fn = "not"
      BY <2>1, Back
    <2>4. Verdict(ctl.port = "omega") \in {"gamma", "omega"} /\ Rests(boxes, hist, Me)
      BY <2>3 DEF Verdict, Rests
    <2> QED BY <2>2, <2>3, <2>4, <1>1, ExitKeeps
  <1>3. CASE NotAlpha
    <2> DEFINE f == [box |-> Me, at |-> "not", saved |-> 0]
               k == Len(boxes) + 1
    <2>1. Entered /\ Calls(f, k)
      BY <1>3, NotMade
    <2>2. f.at = "not" /\ Waits(boxes', hist, f)
      BY DEF Waits
    <2> HIDE DEF f, k
    <2>3. Nested(<<f>> \o Rest, cutflag')
      BY <2>1, <2>2, <1>1, MyTarget, NestedPush
    <2> QED BY <2>1, <2>2, <2>3, <1>1, EnterKeeps DEF Calls
  <1> QED BY SMTT(30), <1>2, <1>3

LEMMA DeferredMade ==
  ASSUME IInv, GoalsBuilt, DeferredAlpha
  PROVE  /\ Entered /\ Me = ctl.box /\ boxes[Me].fn = "deferred" /\ ctl.port = "alpha"
         /\ \E k : Calls([box |-> Me, at |-> "inner", saved |-> 0], k)
         /\ PlainBox(boxes[Me], DOMAIN boxes) => PlainBox(boxes'[Me], DOMAIN boxes')
         /\ heap' = MakeGoal([boxes |-> boxes, heap |-> heap, id |-> 0], My.goal, boxes[My.head].env).heap
  <1>a. Slot("inner") = 1 /\ FnAt("inner") = "deferred" /\ "inner" \in Place \ {"not", "clause"}
    BY DEF Slot, FnAt, Place
  <1>1. Entered /\ Me = ctl.box /\ boxes[Me].fn = "deferred" /\ ctl.port = "alpha" /\ Exits("alpha", {"deferred"})
    BY DEF DeferredAlpha, EnteredAt, Entered, Me, Exits
  <1> DEFINE s == MakeGoal([boxes |-> boxes, heap |-> heap, id |-> 0], My.goal, boxes[My.head].env)
             r == s.id
             f == [box |-> Me, at |-> "inner", saved |-> 0]
             b2 == s.boxes
             bs == [b2 EXCEPT ![Me].kids = <<r>>]
             b  == [boxes[Me] EXCEPT !.kids = <<r>>]
  <1>2. Enter(r, "alpha", f, bs, s.heap)
    BY DEF DeferredAlpha
  <1>3. NewTree(b2, r)
    BY <1>1 DEF GoalsBuilt
  <1> DEFINE h == s.heap
  <1> HIDE DEF s, h
  <1>4. Struct(boxes) /\ Me \in DOMAIN boxes /\ "kids" \in DOMAIN boxes[Me]
        /\ IsSeq(boxes) /\ \A i \in DOMAIN boxes : boxes[i].ci \in Nat
    BY <1>1, MyKids, FieldsIs DEF IInv, Struct, Shaped
  <1>5. /\ DOMAIN b = DOMAIN boxes[Me] /\ b.fn = boxes[Me].fn /\ b.kids = <<r>>
        /\ b.head = boxes[Me].head /\ b.ci = boxes[Me].ci /\ b.mark = boxes[Me].mark
        /\ b.fired = boxes[Me].fired /\ b.cut = boxes[Me].cut /\ b.phase = boxes[Me].phase
    BY <1>4
  <1>6. /\ IsSeq(b2) /\ DOMAIN boxes \subseteq DOMAIN b2
        /\ DOMAIN b2 \ DOMAIN boxes = Len(boxes) + 1 .. Len(b2)
        /\ r \in DOMAIN b2 \ DOMAIN boxes /\ \A i \in DOMAIN boxes : b2[i] = boxes[i]
    <2> DEFINE n == Len(boxes)
               m == Len(b2)
    <2>1. /\ IsSeq(b2) /\ r \in n + 1 .. m /\ n <= m /\ \A i \in DOMAIN boxes : b2[i] = boxes[i]
      BY <1>3 DEF NewTree, Id
    <2>2. DOMAIN boxes = 1 .. n /\ DOMAIN b2 = 1 .. m /\ n \in Nat /\ m \in Nat
      BY <1>4, <2>1, SeqFacts
    <2> HIDE DEF n, m, r, b2
    <2>3. DOMAIN b2 \ DOMAIN boxes = n + 1 .. m /\ DOMAIN boxes \subseteq DOMAIN b2
      BY <2>1, <2>2
    <2> QED BY <2>1, <2>3 DEF n, m
  <1>7. /\ NewBoxes(boxes, b2, r)
        /\ b2[r].fn # "deferred"
    <2> DEFINE N == DOMAIN b2 \ DOMAIN boxes
    <2> DEFINE M == Len(boxes) + 1 .. Len(b2)
    <2>0. \A i \in M :
            /\ DOMAIN b2[i] = DOMAIN BoxOf("true") /\ b2[i].ci = 0
            /\ b2[i].fn \in FnName \ {"head", "deferred"}
            /\ DOMAIN b2[i].kids = 1 .. (IF b2[i].fn \in {"cat", "alt"} THEN 2 ELSE 0)
            /\ \A a \in DOMAIN b2[i].kids :
                 /\ b2[i].kids[a] \in M \ {r}
                 /\ \A j \in M : \A c \in DOMAIN b2[j].kids : b2[i].kids[a] = b2[j].kids[c] => i = j /\ a = c
      BY <1>3 DEF NewTree
    <2>b. N = M
      BY <1>6
    <2> HIDE DEF N, M
    <2>1. \A i \in N :
            /\ DOMAIN b2[i] = DOMAIN BoxOf("true") /\ b2[i].ci = 0
            /\ b2[i].fn \in FnName \ {"head", "deferred"}
            /\ DOMAIN b2[i].kids = 1 .. (IF b2[i].fn \in {"cat", "alt"} THEN 2 ELSE 0)
            /\ \A a \in DOMAIN b2[i].kids :
                 /\ b2[i].kids[a] \in N \ {r}
                 /\ \A j \in N : \A c \in DOMAIN b2[j].kids : b2[i].kids[a] = b2[j].kids[c] => i = j /\ a = c
      BY <2>0, <2>b
    <2> USE DEF N
    <2>2. \A i \in N : \/ DOMAIN b2[i].kids = 1 .. Width(b2[i].fn)
                       \/ b2[i].fn \in {"deferred", "choice"} /\ DOMAIN b2[i].kids = {}
      <3> SUFFICES ASSUME NEW i \in N
                   PROVE  \/ DOMAIN b2[i].kids = 1 .. Width(b2[i].fn)
                          \/ b2[i].fn \in {"deferred", "choice"} /\ DOMAIN b2[i].kids = {}
        OBVIOUS
      <3>1. CASE b2[i].fn \in {"cat", "alt"}
        BY <3>1, <2>1 DEF Width
      <3>2. CASE b2[i].fn = "choice"
        BY <3>2, <2>1
      <3>3. CASE b2[i].fn \notin {"cat", "alt", "choice"}
        <4>1. Width(b2[i].fn) = 0 /\ DOMAIN b2[i].kids = 1 .. 0
          BY <3>3, <2>1 DEF Width
        <4> QED BY <4>1
      <3> QED BY <3>1, <3>2, <3>3
    <2>3. 0 \in Nat
      OBVIOUS
    <2> HIDE DEF b2, r
    <2> QED BY <2>1, <2>2, <2>3, <1>6 DEF NewBoxes
  <1>c. PlainNew(boxes, b2)
    <2>1. \A i \in Len(boxes) + 1 .. Len(b2) :
            /\ b2[i].fn \in FnName /\ b2[i].head = 0 /\ b2[i].mark = 0 /\ b2[i].phase = 0
            /\ b2[i].fired = FALSE /\ b2[i].cut = FALSE
      BY <1>3 DEF NewTree
    <2> HIDE DEF b2
    <2>2. \A i \in DOMAIN b2 \ DOMAIN boxes : PlainBox(b2[i], DOMAIN b2)
      BY <2>1, <1>6, PlainIs
    <2> QED BY <2>2 DEF PlainNew
  <1>8. bs = [b2 EXCEPT ![Me] = b]
    BY <1>4, <1>6
  <1> HIDE DEF b2, bs, b, r
  <1>9. IsSeq(bs) /\ DOMAIN bs = DOMAIN b2 /\ \A i \in DOMAIN b2 : bs[i] = IF i = Me THEN b ELSE b2[i]
    BY <1>6, <1>8, ExceptIs
  <1>10. NewBoxes(boxes, bs, r)
    <2>1. \A i \in DOMAIN b2 \ DOMAIN boxes : bs[i] = b2[i]
      BY <1>4, <1>9
    <2> QED BY <2>1, <1>7, <1>9, NewKept
  <1>11. Struct(bs) /\ Grows(boxes, bs, Me)
    <2>1. \A i \in DOMAIN boxes :
            /\ DOMAIN bs[i] = DOMAIN boxes[i] /\ bs[i].fn = boxes[i].fn /\ bs[i].head = boxes[i].head
            /\ bs[i].ci \in Nat
            /\ i # Me => bs[i].kids = boxes[i].kids /\ bs[i].phase = boxes[i].phase /\ bs[i].fired = boxes[i].fired
      BY <1>4, <1>5, <1>6, <1>9
    <2>2. bs[Me].kids = <<r>> /\ r \in DOMAIN bs \ DOMAIN boxes /\ bs[r].fn # "deferred"
      BY <1>4, <1>5, <1>6, <1>7, <1>9
    <2>3. DOMAIN boxes \subseteq DOMAIN bs
      BY <1>6, <1>9
    <2> QED BY <2>1, <2>2, <2>3, <1>1, <1>4, <1>9, <1>10, Attach
  <1>12. f.box = Me /\ f.at = "inner"
    OBVIOUS
  <1> HIDE DEF f
  <1>13. Fits(bs, f, r)
    <2>1. bs[Me].kids = <<r>> /\ bs[Me].fn = "deferred" /\ Me \in DOMAIN bs
      BY <1>1, <1>4, <1>5, <1>6, <1>9
    <2>2. 1 \in DOMAIN bs[Me].kids /\ bs[Me].kids[1] = r
      BY <2>1, OneIs
    <2>3. r \in DOMAIN bs \ {1}
      BY <1>4, <1>6, <1>9 DEF Struct, Shaped
    <2> QED BY <2>1, <2>2, <2>3, <1>12, <1>a DEF Fits
  <1>14. Enter(r, "alpha", f, bs, h)
    BY <1>2 DEF bs, b2, r, h, f
  <1>15. boxes' = bs /\ heap' = h
    BY <1>14 DEF Enter
  <1>16. PlainNew(boxes, bs) /\ \A i \in DOMAIN boxes : i # Me => bs[i] = boxes[i]
    BY <1>4, <1>6, <1>9, <1>c DEF PlainNew
  <1>17. Calls(f, r)
    BY <1>6, <1>11, <1>12, <1>13, <1>14, <1>15, <1>16 DEF Calls
  <1>18. PlainBox(boxes[Me], DOMAIN boxes) => PlainBox(bs[Me], DOMAIN bs)
    BY <1>4, <1>5, <1>6, <1>9 DEF PlainBox
  <1> QED BY <1>1, <1>15, <1>17, <1>18 DEF f, h, s

LEMMA DeferredKeeps ==
  ASSUME IInv, GoalsBuilt, UNCHANGED prog, DeferredAlpha \/ DeferredBeta \/ DeferredBack
  PROVE  IInv'
  <1>1. UNCHANGED <<prog, cutflag>>
    BY DEF DeferredAlpha, DeferredBeta, DeferredBack
  <1>a. Slot("inner") = 1 /\ FnAt("inner") = "deferred" /\ "inner" \in Place \ {"not", "clause"}
    BY DEF Slot, FnAt, Place
  <1>2. CASE DeferredAlpha
    <2> DEFINE f == [box |-> Me, at |-> "inner", saved |-> 0]
    <2>1. Entered /\ \E k : Calls(f, k)
      BY <1>2, DeferredMade
    <2>2. PICK k : Calls(f, k)
      BY <2>1
    <2>3. f.at = "inner" /\ Waits(boxes', hist, f)
      BY DEF Waits
    <2> HIDE DEF f
    <2>4. Nested(<<f>> \o Rest, cutflag')
      BY <2>1, <2>3, <1>1, MyTarget, NestedPush
    <2> QED BY <2>1, <2>2, <2>3, <2>4, <1>1, EnterKeeps DEF Calls
  <1>3. CASE DeferredBeta
    <2>1. Entered /\ Me = ctl.box /\ boxes[Me].fn = "deferred" /\ ctl.port = "beta"
          /\ Call(boxes[Me].kids[1], "beta", "inner")
      BY <1>3 DEF DeferredBeta, EnteredAt, Entered, Me, My
    <2>2. 1 \in DOMAIN boxes[Me].kids /\ hist[boxes[Me].kids[1]].exit = "gamma"
      BY <2>1, BetaRests DEF Rests
    <2>3. Waits(boxes, hist, [box |-> Me, at |-> "inner", saved |-> 0])
      BY DEF Waits
    <2>4. Child("inner", boxes[Me].kids[1])
      BY <2>1, <2>2, <1>a DEF Child
    <2> QED BY <2>1, <2>2, <2>3, <2>4, <1>a, <1>1, CallKeeps
  <1>4. CASE DeferredBack
    <2>1. PICK port \in {"gamma", "omega"} : BackAt(port, "deferred", "inner")
      BY <1>4 DEF DeferredBack
    <2>2. Leave(ctl.port, boxes, heap)
      BY <1>4 DEF DeferredBack, Pass
    <2>3. /\ calls # <<>> /\ Head(calls).at = "inner" /\ ctl.port = port /\ boxes[Me].fn = "deferred"
          /\ 1 \in DOMAIN boxes[Me].kids /\ hist[boxes[Me].kids[1]].exit = port
      BY <2>1, Back, <1>a
    <2>4. port = "gamma" => Rests(boxes, hist, Me)
      BY <2>3 DEF Rests
    <2> QED BY <2>2, <2>3, <2>4, <1>1, ExitKeeps
  <1> QED BY <1>2, <1>3, <1>4

(* A choice tries the next clause, or gives up.                                 *)
Tries(b, saved) ==
  /\ b.ci < Len(Clauses(b))
  /\ LET s == ClauseBox([boxes |-> boxes, heap |-> trail_unwind(heap, b.mark), id |-> 0],
                        Clauses(b)[b.ci + 1], b.args)
     IN Enter(s.id, "alpha", [box |-> Me, at |-> "clause", saved |-> saved],
              [s.boxes EXCEPT ![Me] = [b EXCEPT !.kids = <<s.id>>]], s.heap)
  /\ cutflag' = Me
GivesUp(b, saved) ==
  cutflag' = saved /\ Leave("omega", [boxes EXCEPT ![Me] = b], trail_unwind(heap, b.mark))

LEMMA LoopIs ==
  ASSUME NEW b, NEW saved, Loop(b, saved)
  PROVE  Tries(b, saved) \/ GivesUp(b, saved)
  BY DEF Loop, Tries, GivesUp

LEMMA LoopMade ==
  ASSUME IInv, GoalsBuilt, Entered \/ calls # <<>>,
         NEW b, NEW saved, Tries(b, saved), boxes[Me].fn = "choice",
         DOMAIN b = DOMAIN boxes[Me], b.fn = "choice", b.kids = boxes[Me].kids, b.head = boxes[Me].head,
         b.pred = boxes[Me].pred, b.ci \in Nat
  PROVE  /\ \E k : Calls([box |-> Me, at |-> "clause", saved |-> saved], k)
         /\ PlainBox(b, DOMAIN boxes) => PlainBox(boxes'[Me], DOMAIN boxes')
         /\ boxes'[Me].mark = b.mark /\ heap' = trail_unwind(heap, b.mark)
  <1>a. Struct(boxes) /\ Me \in DOMAIN boxes /\ "kids" \in DOMAIN boxes[Me] /\ "mark" \in DOMAIN boxes[Me]
        /\ IsSeq(boxes) /\ \A i \in DOMAIN boxes : boxes[i].ci \in Nat
    BY MyKids, FieldsIs DEF IInv, Struct, Shaped
  <1> DEFINE s0 == [boxes |-> boxes, heap |-> trail_unwind(heap, b.mark), id |-> 0]
             clause == Clauses(b)[b.ci + 1]
             s == ClauseBox(s0, clause, b.args)
             r == s.id
             f == [box |-> Me, at |-> "clause", saved |-> saved]
             b2 == s.boxes
             bb == [b EXCEPT !.kids = <<r>>]
             bs == [b2 EXCEPT ![Me] = bb]
  <1>1. Enter(r, "alpha", f, bs, s.heap) /\ cutflag' = Me
    BY DEF Tries
  <1>2. IsSeq(clause.body)
    <2>1. prog \in Program /\ b.pred \in DOMAIN prog.preds
      BY <1>a DEF IInv, GoalsBuilt, Id
    <2> DEFINE cs == prog.preds[b.pred]
    <2>2. IsSeq(cs) /\ \A i \in DOMAIN cs : IsSeq(cs[i].body)
      BY SMTT(30), <2>1, PrologAssumption
    <2>3. b.ci < Len(cs) /\ clause = cs[b.ci + 1]
      BY ZenonT(30) DEF Tries, Clauses
    <2> HIDE DEF cs, clause
    <2> DEFINE n == Len(cs)
    <2>4. DOMAIN cs = 1 .. n /\ n \in Nat /\ b.ci < n
      BY <2>2, <2>3, SeqFacts
    <2> HIDE DEF n
    <2>5. b.ci + 1 \in DOMAIN cs
      BY <2>4
    <2> QED BY <2>2, <2>3, <2>5
  <1> DEFINE m == Len(clause.body)
             args == b.args
  <1>3. Made(boxes, b2, r, m, clause, args)
    <2>1. s0 = [boxes |-> s0.boxes, heap |-> s0.heap, id |-> s0.id] /\ s0.boxes = boxes
      OBVIOUS
    <2> HIDE DEF s0, clause
    <2> QED BY <2>1, <1>2, <1>a, ClauseShape
  <1> DEFINE h == s.heap
  <1>b. h = trail_unwind(heap, b.mark)
    BY DEF ClauseBox, CatList, New
  <1> HIDE DEF s0, clause, s, r, b2, m, args, h
  <1>4. /\ IsSeq(b2) /\ DOMAIN boxes \subseteq DOMAIN b2
        /\ r \in DOMAIN b2 \ DOMAIN boxes /\ b2[r].fn # "deferred"
        /\ \A i \in DOMAIN boxes : b2[i] = boxes[i]
        /\ NewBoxes(boxes, b2, r) /\ PlainNew(boxes, b2)
    BY <1>3, ClauseTree, ClausePlain
  <1>5. /\ DOMAIN bb = DOMAIN boxes[Me] /\ bb.fn = "choice" /\ bb.kids = <<r>>
        /\ bb.head = boxes[Me].head /\ bb.ci \in Nat /\ bb.mark = b.mark
        /\ bb.fired = b.fired /\ bb.cut = b.cut /\ bb.phase = b.phase
    BY <1>a
  <1> HIDE DEF bb, bs
  <1>6. IsSeq(bs) /\ DOMAIN bs = DOMAIN b2 /\ \A i \in DOMAIN b2 : bs[i] = IF i = Me THEN bb ELSE b2[i]
    BY <1>4, ExceptIs DEF bs
  <1>7. NewBoxes(boxes, bs, r)
    <2>1. \A i \in DOMAIN b2 \ DOMAIN boxes : bs[i] = b2[i]
      BY <1>a, <1>6
    <2> QED BY <2>1, <1>4, <1>6, NewKept
  <1>8. Struct(bs) /\ Grows(boxes, bs, Me)
    <2>1. \A i \in DOMAIN boxes :
            /\ DOMAIN bs[i] = DOMAIN boxes[i] /\ bs[i].fn = boxes[i].fn /\ bs[i].head = boxes[i].head
            /\ bs[i].ci \in Nat
            /\ i # Me => bs[i].kids = boxes[i].kids /\ bs[i].phase = boxes[i].phase /\ bs[i].fired = boxes[i].fired
      BY <1>a, <1>4, <1>5, <1>6
    <2>2. bs[Me].kids = <<r>> /\ r \in DOMAIN bs \ DOMAIN boxes /\ bs[r].fn # "deferred"
      BY <1>a, <1>4, <1>5, <1>6
    <2>3. DOMAIN boxes \subseteq DOMAIN bs
      BY <1>4, <1>6
    <2> QED BY <2>1, <2>2, <2>3, <1>a, <1>6, <1>7, Attach
  <1>9. f.box = Me /\ f.at = "clause" /\ f.saved = saved
    OBVIOUS
  <1> HIDE DEF f
  <1>10. Fits(bs, f, r)
    <2>1. bs[Me].kids = <<r>> /\ bs[Me].fn = "choice" /\ Me \in DOMAIN bs
      BY <1>a, <1>4, <1>5, <1>6
    <2>2. 1 \in DOMAIN bs[Me].kids /\ bs[Me].kids[1] = r
      BY <2>1, OneIs
    <2>3. r \in DOMAIN bs \ {1}
      BY <1>a, <1>4, <1>6 DEF Struct, Shaped
    <2> QED BY <2>1, <2>2, <2>3, <1>9 DEF Fits, FnAt, Slot, Place
  <1>11. Enter(r, "alpha", f, bs, h)
    BY <1>1 DEF bs, bb, b2, r, h, f
  <1>12. boxes' = bs /\ heap' = h
    BY <1>11 DEF Enter
  <1>13. bs[Me].mark = b.mark /\ PlainNew(boxes, bs) /\ \A i \in DOMAIN boxes : i # Me => bs[i] = boxes[i]
    BY <1>a, <1>4, <1>5, <1>6 DEF PlainNew
  <1>14. Calls(f, r)
    BY <1>4, <1>8, <1>9, <1>10, <1>11, <1>12, <1>13 DEF Calls
  <1>15. PlainBox(b, DOMAIN boxes) => PlainBox(bs[Me], DOMAIN bs)
    BY <1>a, <1>4, <1>5, <1>6 DEF PlainBox
  <1> QED BY <1>b, <1>12, <1>13, <1>14, <1>15 DEF f

LEMMA LoopKeeps ==
  ASSUME IInv, GoalsBuilt, UNCHANGED prog, Entered \/ calls # <<>>,
         NEW b, NEW saved, Loop(b, saved), boxes[Me].fn = "choice",
         DOMAIN b = DOMAIN boxes[Me], b.fn = "choice", b.kids = boxes[Me].kids, b.head = boxes[Me].head,
         b.pred = boxes[Me].pred, b.ci \in Nat,
         Nested(Rest, saved)
  PROVE  IInv'
  <1>1. CASE GivesUp(b, saved)
    <2>1. Struct(boxes) /\ Me \in DOMAIN boxes
      BY MyKids DEF IInv
    <2>2. Same(boxes, [boxes EXCEPT ![Me] = b], Me)
      BY <2>1, PutSame
    <2> QED BY <1>1, <2>2, LeaveKeeps DEF GivesUp
  <1>2. CASE Tries(b, saved)
    <2> DEFINE f == [box |-> Me, at |-> "clause", saved |-> saved]
    <2>1. PICK k : Calls(f, k)
      BY <1>2, LoopMade
    <2>2. f.box = Me /\ f.at = "clause" /\ f.saved = saved /\ Waits(boxes', hist, f)
      BY DEF Waits
    <2> HIDE DEF f
    <2>3. Nested(<<f>> \o Rest, cutflag')
      BY <2>2, <1>2, MyTarget, NestedPush DEF Tries
    <2> QED BY <2>1, <2>2, <2>3, EnterKeeps DEF Calls
  <1> QED BY <1>1, <1>2, LoopIs

LEMMA ChoiceKeeps ==
  ASSUME IInv, GoalsBuilt, UNCHANGED prog,
         ChoiceAlpha \/ ChoiceBeta \/ ChoiceResumed \/ ChoiceExhausted \/ ChoiceGamma \/ ChoiceOmega
  PROVE  IInv'
  <1>a. /\ Slot("clause") = 1 /\ FnAt("clause") = "choice" /\ Slot("resume") = 1 /\ FnAt("resume") = "choice"
        /\ "resume" \in Place \ {"not", "clause"}
    BY DEF Slot, FnAt, Place
  <1>1. CASE ChoiceAlpha
    <2>1. Entered /\ Me = ctl.box /\ boxes[Me].fn = "choice"
      BY <1>1 DEF ChoiceAlpha, EnteredAt, Entered, Me
    <2>2. PICK mark : Loop([boxes[Me] EXCEPT !.mark = mark, !.ci = 0, !.cut = FALSE], cutflag)
      BY <1>1 DEF ChoiceAlpha, My
    <2> DEFINE b == [boxes[Me] EXCEPT !.mark = mark, !.ci = 0, !.cut = FALSE]
    <2>3. /\ "mark" \in DOMAIN boxes[Me] /\ "ci" \in DOMAIN boxes[Me] /\ "cut" \in DOMAIN boxes[Me]
      BY <2>1, MyKids, FieldsIs DEF IInv
    <2>4. /\ DOMAIN b = DOMAIN boxes[Me] /\ b.fn = "choice" /\ b.kids = boxes[Me].kids
          /\ b.head = boxes[Me].head /\ b.pred = boxes[Me].pred /\ b.ci \in Nat
      BY <2>1, <2>3
    <2>5. Nested(Rest, cutflag)
      BY <2>1, MyTarget
    <2>6. Loop(b, cutflag)
      BY <2>2
    <2> HIDE DEF b
    <2> QED BY <2>1, <2>4, <2>5, <2>6, LoopKeeps
  <1>2. CASE ChoiceBeta
    <2>1. Entered /\ Me = ctl.box /\ boxes[Me].fn = "choice" /\ ctl.port = "beta"
          /\ Call(boxes[Me].kids[1], "beta", "resume") /\ UNCHANGED cutflag
      BY <1>2 DEF ChoiceBeta, EnteredAt, Entered, Me, My
    <2>2. 1 \in DOMAIN boxes[Me].kids /\ hist[boxes[Me].kids[1]].exit = "gamma"
      BY <2>1, BetaRests DEF Rests
    <2>3. Waits(boxes, hist, [box |-> Me, at |-> "resume", saved |-> 0])
      BY DEF Waits
    <2>4. Child("resume", boxes[Me].kids[1])
      BY <2>1, <2>2, <1>a DEF Child
    <2> QED BY <2>1, <2>2, <2>3, <2>4, <1>a, CallKeeps
  <1>3. CASE ChoiceResumed
    <2>1. BackAt("gamma", "choice", "resume") /\ Leave(ctl.port, boxes, heap) /\ UNCHANGED cutflag
      BY <1>3 DEF ChoiceResumed, Pass
    <2>2. /\ calls # <<>> /\ Head(calls).at = "resume" /\ ctl.port = "gamma" /\ boxes[Me].fn = "choice"
          /\ 1 \in DOMAIN boxes[Me].kids /\ hist[boxes[Me].kids[1]].exit = "gamma"
      BY <2>1, Back, <1>a
    <2>3. Rests(boxes, hist, Me)
      BY <2>2 DEF Rests
    <2> QED BY <2>1, <2>2, <2>3, ExitKeeps
  <1>4. CASE ChoiceGamma
    <2>1. BackAt("gamma", "choice", "clause") /\ Leave(ctl.port, boxes, heap) /\ cutflag' = Head(calls).saved
      BY <1>4 DEF ChoiceGamma, Pass
    <2>2. /\ calls # <<>> /\ Head(calls).at = "clause" /\ ctl.port = "gamma" /\ boxes[Me].fn = "choice"
          /\ 1 \in DOMAIN boxes[Me].kids /\ hist[boxes[Me].kids[1]].exit = "gamma" /\ ~ Entered
      BY <2>1, Back, <1>a
    <2>3. Rests(boxes, hist, Me)
      BY <2>2 DEF Rests
    <2>4. Same(boxes, boxes, Me)
      BY DEF IInv, Struct, Shaped, Same
    <2>5. Nested(Rest, cutflag')
      BY <2>1, <2>2, MyTarget
    <2> QED BY <2>1, <2>2, <2>3, <2>4, <2>5, LeaveKeeps
  <1>5. CASE ChoiceExhausted \/ ChoiceOmega
    <2> DEFINE saved == IF Head(calls).at = "clause" THEN Head(calls).saved ELSE cutflag
               b == [boxes[Me] EXCEPT !.ci = @ + 1]
    <2>1. PICK at \in {"clause", "resume"} : BackAt("omega", "choice", at) /\ Loop(b, saved)
      <3>1. CASE ChoiceExhausted
        BY <3>1 DEF ChoiceExhausted, BackAt, My
      <3>2. CASE ChoiceOmega
        BY <3>2 DEF ChoiceOmega, BackAt, My
      <3> QED BY <1>5, <3>1, <3>2
    <2>2. calls # <<>> /\ Head(calls).at = at /\ boxes[Me].fn = "choice" /\ ~ Entered
      BY <2>1, Back
    <2>3. boxes[Me].ci \in Nat /\ "ci" \in DOMAIN boxes[Me]
      BY <2>2, MyKids, FieldsIs DEF IInv
    <2>4. /\ DOMAIN b = DOMAIN boxes[Me] /\ b.fn = "choice" /\ b.kids = boxes[Me].kids
          /\ b.head = boxes[Me].head /\ b.pred = boxes[Me].pred /\ b.ci \in Nat
      BY <2>2, <2>3
    <2>5. Nested(Rest, saved)
      BY <2>2, MyTarget
    <2> HIDE DEF b, saved
    <2> QED BY <2>1, <2>2, <2>4, <2>5, LoopKeeps
  <1> QED BY <1>1, <1>2, <1>3, <1>4, <1>5

-----------------------------------------------------------------------------
(* The invariant and what follows from it                                       *)

LEMMA InitKeeps ==
  ASSUME Init
  PROVE  IInv
  <1> DEFINE b == Choice(prog.main, MainArgs(prog))
             h == Begun(heap, 1)
  <1>1. /\ prog \in Program /\ boxes = <<b>> /\ ctl = [port |-> "alpha", box |-> 1] /\ calls = <<>>
        /\ cutflag = 0 /\ hist = <<h>>
    BY DEF Init
  <1>2. b.fn = "choice" /\ DOMAIN b.kids = {} /\ DOMAIN b = DOMAIN BoxOf("true") /\ b.ci = 0
    BY ChoiceIs
  <1>3. DOMAIN h = DOMAIN Unseen /\ h.exit = "none"
    BY DEF Begun, Unseen
  <1> HIDE DEF b, h
  <1>4. IsSeq(boxes) /\ DOMAIN boxes = {1} /\ boxes[1] = b /\ DOMAIN hist = {1} /\ hist[1] = h
    <2>1. IsSeq(<<b>>) /\ DOMAIN <<b>> = 1 .. 1 /\ <<b>>[1] = b /\ DOMAIN <<h>> = 1 .. 1 /\ <<h>>[1] = h
      BY OneIs
    <2> QED BY <2>1, <1>1
  <1>5. Struct(boxes)
    BY <1>2, <1>4 DEF Struct, Shaped, Tree, Clausal
  <1>6. HistOK(boxes, hist) /\ Settled(boxes, hist, calls)
    BY <1>3, <1>4 DEF HistOK, Settled
  <1>7. IsSeq(calls) /\ Len(calls) = 0 /\ DOMAIN calls = {}
    BY <1>1, SeqIntro DEF IsSeq, Range
  <1>8. Stacked(boxes, calls, ctl.box)
    <2>1. ctl.box = 1 /\ \A i \in 1 .. Len(calls) + 1 : i = 1
      BY <1>1, <1>7
    <2> QED BY <2>1, <1>4, <1>7 DEF Stacked, Under
  <1>9. Waiting(boxes, hist, calls) /\ Nested(calls, cutflag)
    BY <1>1, <1>7 DEF Waiting, Nested, Target
  <1>10. PortOK
    BY <1>1 DEF PortOK, Entered
  <1> QED BY <1>1, <1>5, <1>6, <1>8, <1>9, <1>10 DEF IInv

LEMMA StepKeeps ==
  ASSUME IInv, GoalsBuilt, [Next]_vars
  PROVE  IInv'
  <1>1. CASE UNCHANGED vars
    BY <1>1 DEF vars, IInv, PortOK, Entered
  <1>2. CASE Answer
    BY <1>2 DEF Answer, IInv, PortOK, Entered
  <1>3. CASE Done
    BY <1>3 DEF Done, vars, IInv, PortOK, Entered
  <1>4. CASE BoxStep
    <2>1. UNCHANGED prog
      BY <1>4 DEF BoxStep
    <2> QED BY <1>4, <2>1, LeafKeeps, UnifyKeeps, CatKeeps, AltKeeps, NotKeeps, DeferredKeeps, ChoiceKeeps DEF BoxStep
  <1> QED BY <1>1, <1>2, <1>3, <1>4 DEF Next

(* The boxes have one parent each, the C stack is a path of the tree that the   *)
(* boxes are, and every box that has succeeded rests on children that have.    *)
THEOREM Invariance == Spec /\ []GoalsBuilt => []IInv
  <1>1. Init => IInv
    BY InitKeeps
  <1>2. IInv /\ GoalsBuilt /\ [Next]_vars => IInv'
    BY StepKeeps
  <1> QED BY <1>1, <1>2, PTL DEF Spec

(* The cut target is the choice that is trying a clause from the start, the     *)
(* innermost of them: the choices save and restore g_pl_cur_cut_flag.          *)
THEOREM TargetKept == Spec /\ []GoalsBuilt => []CutTargetRestored
  <1>1. IInv => CutTargetRestored
    <2> SUFFICES ASSUME IInv PROVE CutTargetRestored
      OBVIOUS
    <2>1. Target(calls, cutflag, 1) /\ DOMAIN calls = 1 .. Len(calls)
      BY SeqFacts DEF IInv, Nested, Stacked
    <2>2. \A i \in DOMAIN calls : i >= 1
      BY <2>1
    <2> QED BY <2>1, <2>2 DEF Target, CutTargetRestored
  <1> QED BY <1>1, Invariance, PTL

LEMMA Least ==
  ASSUME NEW T, T \subseteq Nat, T # {}
  PROVE  \E x \in T : \A y \in T : ~ (y < x)
  <1> DEFINE R == OpToRel(<, Nat)
  <1>1. IsWellFoundedOn(R, Nat)
    BY NatLessThanWellFounded
  <1>2. \A x, y \in Nat : x < y => <<x, y>> \in R
    BY DEF OpToRel
  <1> HIDE DEF R
  <1>3. PICK x \in T : \A y \in T : ~ (<<y, x>> \in R)
    BY <1>1, WFMin
  <1>4. \A y \in T : x \in Nat /\ y \in Nat /\ ~ (y < x)
    BY <1>2, <1>3
  <1> QED BY <1>4

(* A box on the stack that has a parent was called by it.                       *)
LEMMA ParentBelow ==
  ASSUME NEW bs, NEW fs, NEW b, Tree(bs), Stacked(bs, fs, b),
         NEW i \in DOMAIN bs, NEW a \in DOMAIN bs[i].kids, OnStack(fs, bs[i].kids[a])
  PROVE  \E j \in DOMAIN fs : j # 1 /\ fs[j].box = i
  <1>1. /\ Len(fs) \in Nat /\ DOMAIN fs = 1 .. Len(fs) /\ Under(fs, b, Len(fs) + 1) = 1
        /\ \A j \in DOMAIN fs : Fits(bs, fs[j], Under(fs, b, j))
    BY SeqFacts DEF Stacked
  <1> DEFINE k == bs[i].kids[a]
  <1>2. k # 1
    BY DEF Tree
  <1>3. PICK j \in DOMAIN fs : fs[j].box = k
    BY DEF OnStack
  <1>4. Under(fs, b, j + 1) = k
    BY <1>1, <1>3 DEF Under
  <1>5. j + 1 \in DOMAIN fs /\ j + 1 # 1
    BY <1>1, <1>2, <1>3, <1>4
  <1>6. Fits(bs, fs[j + 1], k)
    BY <1>1, <1>4, <1>5
  <1>7. fs[j + 1].at # "not"
    BY <1>6 DEF Fits, Orphan
  <1>8. fs[j + 1].box = i
    BY <1>6, <1>7 DEF Fits, Tree
  <1> QED BY <1>5, <1>8

(* The chain of a clause that has succeeded up to box i begins with a head that *)
(* has succeeded.                                                              *)
LEMMA ChainFired ==
  ASSUME IInv, NEW i \in DOMAIN boxes, NEW n, Chained(boxes, i, n),
         1 \in DOMAIN boxes[i].kids, hist[boxes[i].kids[1]].exit = "gamma",
         ~ OnStack(calls, boxes[i].kids[1])
  PROVE  boxes[n].fired
  <1>1. /\ IsSeq(boxes) /\ DOMAIN boxes \subseteq Nat /\ Tree(boxes) /\ Clausal(boxes)
        /\ \A x \in DOMAIN boxes : boxes[x].fn = "cat" => DOMAIN boxes[x].kids = 1 .. 2
        /\ Stacked(boxes, calls, ctl.box) /\ Settled(boxes, hist, calls)
    <2>1. IsSeq(boxes)
      BY DEF IInv, Struct, Shaped
    <2>2. DOMAIN boxes \subseteq Nat
      BY <2>1, SeqFacts
    <2> QED BY <2>1, <2>2 DEF IInv, Struct, Shaped, Width
  <1> DEFINE Good(x) == hist[x].exit = "gamma" /\ ~ OnStack(calls, x)
             Link(x) == boxes[x].fn = "cat" /\ boxes[boxes[x].kids[2]].fn = "deferred"
                        /\ boxes[boxes[x].kids[2]].head = n
             T == {x \in DOMAIN boxes : Good(x) /\ Link(x)}
  <1>2. ASSUME NEW x \in DOMAIN boxes, Good(x), boxes[x].fn = "head" PROVE boxes[x].fired
    BY <1>1, <1>2 DEF Settled, Rests
  <1>3. boxes[i].kids[1] \in DOMAIN boxes /\ Good(boxes[i].kids[1])
    BY <1>1 DEF Tree
  <1>4. CASE T = {}
    <2>1. boxes[i].kids[1] = n /\ boxes[n].fn = "head"
      BY <1>3, <1>4 DEF Chained
    <2> QED BY <2>1, <1>2, <1>3
  <1>5. CASE T # {}
    <2>1. T \subseteq Nat
      BY <1>1
    <2>2. PICK x \in T : \A y \in T : ~ (y < x)
      <3> HIDE DEF T
      <3> QED BY <1>5, <2>1, Least
    <2>3. x \in DOMAIN boxes /\ Good(x) /\ Link(x)
      BY <2>2
    <2> DEFINE l == boxes[x].kids[1]
    <2>4. 1 \in DOMAIN boxes[x].kids /\ 2 \in DOMAIN boxes[x].kids
      BY <2>3, <1>1
    <2>5. Chained(boxes, x, n)
      BY <2>3, <2>4, <1>1 DEF Clausal
    <2>6. l \in DOMAIN boxes
      BY <2>3, <2>4, <1>1 DEF Tree
    <2>7. hist[l].exit = "gamma"
      BY <2>3, <1>1 DEF Settled, Rests
    <2>8. ~ OnStack(calls, l)
      BY <2>3, <2>4, <1>1, ParentBelow DEF OnStack
    <2>9. CASE l = n /\ boxes[n].fn = "head"
      BY <2>6, <2>7, <2>8, <2>9, <1>2
    <2>10. CASE l < x /\ Link(l)
      BY <2>2, <2>6, <2>7, <2>8, <2>10
    <2> QED BY <2>5, <2>9, <2>10 DEF Chained
  <1> QED BY <1>4, <1>5

-----------------------------------------------------------------------------
(* The open boxes, which were entered and have not failed since.  Box i is open *)
(* when the sequence op has it at the place that its history names.            *)
IsOpen(op, hs, i) == hs[i].from \in DOMAIN op /\ op[hs[i].from] = i
Listed(op, hs) ==
  /\ IsSeq(op)
  /\ \A n \in DOMAIN op : op[n] \in DOMAIN hs /\ hs[op[n]].from = n
  /\ \A i \in DOMAIN hs : hs[i].from \in Nat /\ hs[i].to \in Nat

(* The record r of a box is what unwinding heap h to its mark gives.           *)
Recalled(h, r) ==
  /\ r.mark \in 0 .. Len(h.trail) /\ DOMAIN r.refs \subseteq DOMAIN h.cells
  /\ \A c \in DOMAIN r.refs :
       /\ r.refs[c] = [ref |-> r.refs[c].ref, named |-> h.cells[c].named]
       /\ r.refs[c].named => IF c \in Trailed(h, r.mark) THEN r.refs[c].ref = Free ELSE h.cells[c] = r.refs[c]
Kept(h, op, hs) ==
  /\ IsHeap(h)
  /\ \A n \in DOMAIN op : Recalled(h, hs[op[n]])
  /\ \A m, n \in DOMAIN op : m <= n => hs[op[m]].mark <= hs[op[n]].mark

KidsAfter(bs, hs, op) ==
  \A i \in DOMAIN bs : \A a \in DOMAIN bs[i].kids :
    IsOpen(op, hs, bs[i].kids[a]) => IsOpen(op, hs, i) /\ hs[i].from < hs[bs[i].kids[a]].from

Covers(hs, op, k, m, n) == IsOpen(op, hs, k) /\ hs[k].from = m /\ hs[k].to = n /\ m <= n
Until(bs, hs, f) == IF f.at = "right" THEN hs[bs[f.box].kids[1]].to ELSE hs[f.box].from
Placed(bs, hs, op, f, n) ==
  /\ IsOpen(op, hs, f.box) /\ n = Until(bs, hs, f) + 1
  /\ f.at = "right" => Covers(hs, op, bs[f.box].kids[1], hs[f.box].from + 1, Until(bs, hs, f))
  /\ f.at \in {"left", "first", "again"} => ~ IsOpen(op, hs, bs[f.box].kids[2])
  /\ bs[f.box].fn \in {"choice", "not"} => bs[f.box].mark = hs[f.box].mark
Path(bs, hs, op, fs, b) ==
  /\ \A i, j \in 1 .. Len(fs) + 1 : i < j => hs[Under(fs, b, j)].from < hs[Under(fs, b, i)].from
  /\ \A j \in DOMAIN fs : Placed(bs, hs, op, fs[j], hs[Under(fs, b, j)].from)

Resting(hs, op, fs, i) == i \in DOMAIN hs /\ IsOpen(op, hs, i) /\ hs[i].exit = "gamma" /\ ~ OnStack(fs, i)
Spanned(bs, hs, op, i) ==
  LET m    == hs[i].from + 1
      n    == hs[i].to
      kids == bs[i].kids
  IN /\ hs[i].from <= n /\ n <= Len(op)
     /\ bs[i].fn = "cat" => /\ Covers(hs, op, kids[1], m, hs[kids[1]].to)
                            /\ Covers(hs, op, kids[2], hs[kids[1]].to + 1, n)
     /\ bs[i].fn = "alt" => /\ bs[i].phase = 0 => Covers(hs, op, kids[1], m, n) /\ ~ IsOpen(op, hs, kids[2])
                            /\ bs[i].phase = 2 => Covers(hs, op, kids[2], m, n)
     /\ bs[i].fn \in {"deferred", "choice"} => Covers(hs, op, kids[1], m, n)
     /\ bs[i].fn \in {"head", "unify"} => bs[i].fired
     /\ bs[i].fn \in {"head", "unify", "choice"} => bs[i].mark = hs[i].mark
InOrder(bs, hs, op, fs) ==
  /\ \A i \in DOMAIN hs : Resting(hs, op, fs, i) => Spanned(bs, hs, op, i)
  /\ \A i, j \in DOMAIN hs : Resting(hs, op, fs, i) /\ Resting(hs, op, fs, j) /\ hs[i].from < hs[j].from
                               => hs[i].to < hs[j].from \/ hs[j].to <= hs[i].to
Apart(hs, op, fs, q) ==
  \A i \in DOMAIN hs : Resting(hs, op, fs, i) /\ hs[i].from < hs[q].from => hs[i].to < hs[q].from
Undone(h, r) == \A c \in DOMAIN r.refs : h.cells[c].named => h.cells[c] = r.refs[c]
OpenPort ==
  /\ ctl.port = "omega" => hist[ctl.box].from = Len(open) + 1
  /\ ctl.port # "omega" => IsOpen(open, hist, ctl.box)
  /\ ctl.port = "alpha" => /\ hist[ctl.box].from = Len(open) /\ hist[ctl.box].mark = Len(heap.trail)
                           /\ hist[ctl.box].refs = heap.cells
  /\ ctl.port \in {"beta", "gamma"} => hist[ctl.box].to = Len(open)
  /\ Entered => Apart(hist, open, calls, ctl.box)
  /\ \/ ctl.port = "omega" /\ boxes[ctl.box].fn \in {"choice", "head", "unify"}
     \/ ctl.port = "gamma" /\ boxes[ctl.box].fn = "not"
     => Undone(heap, hist[ctl.box])

OInv ==
  /\ Listed(open, hist)
  /\ Kept(heap, open, hist)
  /\ KidsAfter(boxes, hist, open)
  /\ Path(boxes, hist, open, calls, ctl.box)
  /\ InOrder(boxes, hist, open, calls)
  /\ \A j \in DOMAIN calls : Apart(hist, open, calls, calls[j].box)
  /\ OpenPort

-----------------------------------------------------------------------------
(* Heaps *)

LEMMA HeapFacts ==
  ASSUME NEW h, IsHeap(h)
  PROVE  /\ Len(h.cells) \in Nat /\ DOMAIN h.cells = 1 .. Len(h.cells)
         /\ Len(h.trail) \in Nat /\ DOMAIN h.trail = 1 .. Len(h.trail)
         /\ Trailed(h, Len(h.trail)) = {}
  <1>1. /\ Len(h.cells) \in Nat /\ DOMAIN h.cells = 1 .. Len(h.cells)
        /\ Len(h.trail) \in Nat /\ DOMAIN h.trail = 1 .. Len(h.trail)
    BY SeqFacts DEF IsHeap
  <1>2. Len(h.trail) + 1 .. Len(h.trail) = {}
    BY <1>1
  <1> QED BY <1>1, <1>2 DEF Trailed

(* A record is what unwinding gives also when more has been bound since.        *)
LEMMA BindRecalls ==
  ASSUME NEW h, NEW g, NEW r, IsHeap(h), Binds(h, g), Recalled(h, r)
  PROVE  Recalled(g, r)
  <1>1. /\ Len(h.cells) \in Nat /\ DOMAIN h.cells = 1 .. Len(h.cells)
        /\ Len(h.trail) \in Nat /\ DOMAIN h.trail = 1 .. Len(h.trail)
        /\ Len(g.cells) \in Nat /\ DOMAIN g.cells = 1 .. Len(g.cells)
        /\ Len(g.trail) \in Nat /\ DOMAIN g.trail = 1 .. Len(g.trail)
    BY HeapFacts DEF Binds
  <1>2. Len(h.cells) <= Len(g.cells) /\ Len(h.trail) <= Len(g.trail)
        /\ \A i \in DOMAIN h.trail : g.trail[i] = h.trail[i]
    BY DEF Binds
  <1>3. r.mark \in 0 .. Len(h.trail) /\ DOMAIN r.refs \subseteq DOMAIN h.cells
    BY DEF Recalled
  <1>4. ASSUME NEW c PROVE c \in Trailed(g, r.mark) <=> c \in Trailed(h, r.mark) \/ c \in Trailed(g, Len(h.trail))
    <2>1. ASSUME NEW i \in r.mark + 1 .. Len(g.trail), c = g.trail[i], c \notin Trailed(g, Len(h.trail))
          PROVE  c \in Trailed(h, r.mark)
      <3>1. i \in r.mark + 1 .. Len(h.trail) /\ i \in DOMAIN h.trail
        BY <2>1, <1>1, <1>2, <1>3 DEF Trailed
      <3> QED BY <3>1, <2>1, <1>2 DEF Trailed
    <2>2. ASSUME NEW i \in r.mark + 1 .. Len(h.trail), c = h.trail[i] PROVE c \in Trailed(g, r.mark)
      <3>1. i \in r.mark + 1 .. Len(g.trail) /\ i \in DOMAIN h.trail
        BY <1>1, <1>2, <1>3
      <3> QED BY <3>1, <2>2, <1>2 DEF Trailed
    <2>3. ASSUME NEW i \in Len(h.trail) + 1 .. Len(g.trail), c = g.trail[i] PROVE c \in Trailed(g, r.mark)
      <3>1. i \in r.mark + 1 .. Len(g.trail)
        BY <1>1, <1>2, <1>3
      <3> QED BY <3>1, <2>3 DEF Trailed
    <2> QED BY <2>1, <2>2, <2>3 DEF Trailed
  <1>5. ASSUME NEW c \in DOMAIN r.refs
        PROVE  /\ r.refs[c] = [ref |-> r.refs[c].ref, named |-> g.cells[c].named]
               /\ r.refs[c].named => IF c \in Trailed(g, r.mark) THEN r.refs[c].ref = Free ELSE g.cells[c] = r.refs[c]
    <2>1. /\ c \in DOMAIN h.cells
          /\ r.refs[c] = [ref |-> r.refs[c].ref, named |-> h.cells[c].named]
          /\ r.refs[c].named => IF c \in Trailed(h, r.mark) THEN r.refs[c].ref = Free ELSE h.cells[c] = r.refs[c]
      BY <1>3 DEF Recalled
    <2>2. /\ g.cells[c].named = h.cells[c].named
          /\ h.cells[c].named => IF c \in Trailed(g, Len(h.trail)) THEN h.cells[c].ref = Free
                                 ELSE g.cells[c] = h.cells[c]
      BY <2>1 DEF Binds
    <2>3. r.refs[c].named = h.cells[c].named
      BY <2>1
    <2> QED BY <1>4, <2>1, <2>2, <2>3
  <1>6. r.mark \in 0 .. Len(g.trail) /\ DOMAIN r.refs \subseteq DOMAIN g.cells
    <2>1. r.mark \in 0 .. Len(g.trail)
      BY <1>1, <1>2, <1>3
    <2>2. DOMAIN h.cells \subseteq DOMAIN g.cells
      BY <1>1, <1>2
    <2> QED BY <2>1, <2>2, <1>3
  <1> QED BY <1>5, <1>6 DEF Recalled

LEMMA BindsAll ==
  ASSUME NEW h, NEW g, NEW k, IsHeap(h), Binds(h, g), Binds(g, k)
  PROVE  Binds(h, k)
  <1>1. /\ Len(h.cells) \in Nat /\ DOMAIN h.cells = 1 .. Len(h.cells)
        /\ Len(h.trail) \in Nat /\ DOMAIN h.trail = 1 .. Len(h.trail)
        /\ Len(g.cells) \in Nat /\ DOMAIN g.cells = 1 .. Len(g.cells)
        /\ Len(g.trail) \in Nat /\ DOMAIN g.trail = 1 .. Len(g.trail)
        /\ Len(k.cells) \in Nat /\ DOMAIN k.cells = 1 .. Len(k.cells)
        /\ Len(k.trail) \in Nat /\ DOMAIN k.trail = 1 .. Len(k.trail)
    BY HeapFacts DEF Binds
  <1>2. /\ Len(h.cells) <= Len(g.cells) /\ Len(h.trail) <= Len(g.trail)
        /\ Len(g.cells) <= Len(k.cells) /\ Len(g.trail) <= Len(k.trail)
        /\ \A i \in DOMAIN h.trail : g.trail[i] = h.trail[i]
        /\ \A i \in DOMAIN g.trail : k.trail[i] = g.trail[i]
    BY DEF Binds
  <1>3. \A i \in DOMAIN h.trail : k.trail[i] = h.trail[i]
    BY <1>1, <1>2
  <1>4. ASSUME NEW c
        PROVE  c \in Trailed(k, Len(h.trail)) <=> c \in Trailed(g, Len(h.trail)) \/ c \in Trailed(k, Len(g.trail))
    <2>1. ASSUME NEW i \in Len(h.trail) + 1 .. Len(k.trail), c = k.trail[i], c \notin Trailed(k, Len(g.trail))
          PROVE  c \in Trailed(g, Len(h.trail))
      <3>1. i \in Len(h.trail) + 1 .. Len(g.trail) /\ i \in DOMAIN g.trail
        BY <2>1, <1>1, <1>2 DEF Trailed
      <3> QED BY <3>1, <2>1, <1>2 DEF Trailed
    <2>2. ASSUME NEW i \in Len(h.trail) + 1 .. Len(g.trail), c = g.trail[i] PROVE c \in Trailed(k, Len(h.trail))
      <3>1. i \in Len(h.trail) + 1 .. Len(k.trail) /\ i \in DOMAIN g.trail
        BY <1>1, <1>2
      <3> QED BY <3>1, <2>2, <1>2 DEF Trailed
    <2>3. ASSUME NEW i \in Len(g.trail) + 1 .. Len(k.trail), c = k.trail[i] PROVE c \in Trailed(k, Len(h.trail))
      <3>1. i \in Len(h.trail) + 1 .. Len(k.trail)
        BY <1>1, <1>2
      <3> QED BY <3>1, <2>3 DEF Trailed
    <2> QED BY <2>1, <2>2, <2>3 DEF Trailed
  <1>5. ASSUME NEW c \in DOMAIN h.cells
        PROVE  /\ k.cells[c].named = h.cells[c].named
               /\ h.cells[c].named => IF c \in Trailed(k, Len(h.trail)) THEN h.cells[c].ref = Free
                                      ELSE k.cells[c] = h.cells[c]
    <2>1. c \in DOMAIN g.cells
      BY <1>1, <1>2
    <2>2. /\ g.cells[c].named = h.cells[c].named
          /\ h.cells[c].named => IF c \in Trailed(g, Len(h.trail)) THEN h.cells[c].ref = Free
                                 ELSE g.cells[c] = h.cells[c]
      BY DEF Binds
    <2>3. /\ k.cells[c].named = g.cells[c].named
          /\ g.cells[c].named => IF c \in Trailed(k, Len(g.trail)) THEN g.cells[c].ref = Free
                                 ELSE k.cells[c] = g.cells[c]
      BY <2>1 DEF Binds
    <2> QED BY <2>2, <2>3, <1>4
  <1> QED BY <1>1, <1>2, <1>3, <1>5 DEF Binds

(* Unwinding to a mark restores every record made at that mark or before.       *)
LEMMA UnwindIs ==
  ASSUME NEW h, NEW m \in Nat, IsHeap(h)
  PROVE  LET u == trail_unwind(h, m)
         IN /\ IsHeap(u) /\ DOMAIN u.cells = DOMAIN h.cells
            /\ m <= Len(h.trail) => Len(u.trail) = m
            /\ \A i \in DOMAIN u.trail : i \in DOMAIN h.trail /\ i <= m /\ u.trail[i] = h.trail[i]
            /\ \A c \in DOMAIN h.cells :
                 u.cells[c] = IF c \in Trailed(h, m) THEN [ref |-> Free, named |-> h.cells[c].named] ELSE h.cells[c]
  <1> DEFINE u == trail_unwind(h, m)
  <1>1. /\ Len(h.cells) \in Nat /\ DOMAIN h.cells = 1 .. Len(h.cells)
        /\ Len(h.trail) \in Nat /\ DOMAIN h.trail = 1 .. Len(h.trail)
        /\ IsSeq(h.trail) /\ \A c \in DOMAIN h.cells : /\ h.cells[c] = [ref |-> h.cells[c].ref, named |-> h.cells[c].named]
                                                    /\ h.cells[c].named \in BOOLEAN
        /\ \A i \in DOMAIN h.trail : h.trail[i] \in DOMAIN h.cells
    BY HeapFacts DEF IsHeap
  <1>2. /\ u.cells = [c \in DOMAIN h.cells |->
                        IF c \in Trailed(h, m) THEN [h.cells[c] EXCEPT !.ref = Free] ELSE h.cells[c]]
        /\ u.trail = IF m < Len(h.trail) THEN SubSeq(h.trail, 1, m) ELSE h.trail
        /\ u = [cells |-> u.cells, trail |-> u.trail]
    BY DEF trail_unwind
  <1> HIDE DEF u
  <1>3. ASSUME NEW c \in DOMAIN h.cells
        PROVE  /\ u.cells[c] = IF c \in Trailed(h, m) THEN [ref |-> Free, named |-> h.cells[c].named] ELSE h.cells[c]
               /\ u.cells[c] = [ref |-> u.cells[c].ref, named |-> u.cells[c].named]
               /\ u.cells[c].named \in BOOLEAN
    <2>1. u.cells[c] = IF c \in Trailed(h, m) THEN [h.cells[c] EXCEPT !.ref = Free] ELSE h.cells[c]
      BY <1>2
    <2>2. PICK a, b : b \in BOOLEAN /\ h.cells[c] = [ref |-> a, named |-> b]
      BY <1>1
    <2>3. [h.cells[c] EXCEPT !.ref = Free] = [ref |-> Free, named |-> b] /\ h.cells[c].named = b
      BY <2>2
    <2>6. /\ [ref |-> Free, named |-> b].named = b /\ [ref |-> Free, named |-> b].ref = Free
          /\ [ref |-> a, named |-> b].named = b /\ [ref |-> a, named |-> b].ref = a
      OBVIOUS
    <2>4. CASE c \in Trailed(h, m)
      <3>1. u.cells[c] = [ref |-> Free, named |-> b]
        BY <2>1, <2>3, <2>4
      <3> QED BY <2>2, <2>3, <2>4, <2>6, <3>1
    <2>5. CASE c \notin Trailed(h, m)
      <3>1. u.cells[c] = [ref |-> a, named |-> b]
        BY <2>1, <2>2, <2>5
      <3> QED BY <2>2, <2>5, <2>6, <3>1
    <2> QED BY <2>4, <2>5
  <1>4. IsSeq(u.cells) /\ DOMAIN u.cells = DOMAIN h.cells
    <2>1. u.cells \in [1 .. Len(h.cells) -> Range(u.cells)]
      BY <1>1, <1>2 DEF Range
    <2> QED BY <2>1, <1>1, SeqIntro
  <1>5. /\ IsSeq(u.trail) /\ (m <= Len(h.trail) => Len(u.trail) = m)
        /\ \A i \in DOMAIN u.trail : i \in DOMAIN h.trail /\ i <= m /\ u.trail[i] = h.trail[i]
    <2>1. CASE m < Len(h.trail)
      <3>1. u.trail = SubSeq(h.trail, 1, m) /\ h.trail \in Seq(Range(h.trail))
        BY <2>1, <1>1, <1>2 DEF IsSeq
      <3>2. /\ SubSeq(h.trail, 1, m) \in Seq(Range(h.trail)) /\ Len(SubSeq(h.trail, 1, m)) = m
            /\ \A i \in 1 .. m : SubSeq(h.trail, 1, m)[i] = h.trail[i]
        BY <2>1, <3>1, <1>1
      <3> DEFINE t == SubSeq(h.trail, 1, m)
      <3>5. t \in Seq(Range(h.trail)) /\ Len(t) = m
        BY <3>2
      <3> HIDE DEF t
      <3>6. t \in [1 .. m -> Range(h.trail)]
        BY <3>5
      <3>3. u.trail \in [1 .. m -> Range(h.trail)]
        BY <3>1, <3>6 DEF t
      <3>4. IsSeq(u.trail) /\ Len(u.trail) = m /\ DOMAIN u.trail = 1 .. m
        BY <3>3, SeqIntro
      <3> QED BY <3>1, <3>2, <3>4, <2>1, <1>1
    <2>2. CASE ~ (m < Len(h.trail))
      BY <2>2, <1>1, <1>2
    <2> QED BY <2>1, <2>2
  <1>6. \A i \in DOMAIN u.trail : u.trail[i] \in DOMAIN u.cells
    BY <1>1, <1>4, <1>5
  <1>7. IsHeap(u)
    BY <1>2, <1>3, <1>4, <1>5, <1>6 DEF IsHeap
  <1> QED BY <1>3, <1>4, <1>5, <1>7 DEF u

LEMMA UnwindRecalls ==
  ASSUME NEW h, NEW m \in Nat, NEW r, IsHeap(h), m <= Len(h.trail), Recalled(h, r), r.mark <= m
  PROVE  Recalled(trail_unwind(h, m), r)
  <1> DEFINE u == trail_unwind(h, m)
  <1>1. /\ Len(h.trail) \in Nat /\ DOMAIN h.trail = 1 .. Len(h.trail)
        /\ IsHeap(u) /\ DOMAIN u.cells = DOMAIN h.cells /\ Len(u.trail) = m /\ DOMAIN u.trail = 1 .. m
        /\ \A i \in 1 .. m : u.trail[i] = h.trail[i]
        /\ \A c \in DOMAIN h.cells :
             u.cells[c] = IF c \in Trailed(h, m) THEN [ref |-> Free, named |-> h.cells[c].named] ELSE h.cells[c]
    BY HeapFacts, UnwindIs
  <1>2. r.mark \in Nat /\ DOMAIN r.refs \subseteq DOMAIN h.cells
    BY <1>1 DEF Recalled
  <1> HIDE DEF u
  <1>3. ASSUME NEW c PROVE c \in Trailed(h, r.mark) <=> c \in Trailed(u, r.mark) \/ c \in Trailed(h, m)
    <2>1. ASSUME NEW i \in r.mark + 1 .. Len(h.trail), c = h.trail[i], c \notin Trailed(h, m)
          PROVE  c \in Trailed(u, r.mark)
      <3>1. i \in r.mark + 1 .. m /\ i \in 1 .. m
        BY <2>1, <1>1, <1>2 DEF Trailed
      <3> QED BY <3>1, <2>1, <1>1 DEF Trailed
    <2>2. ASSUME NEW i \in r.mark + 1 .. m, c = u.trail[i] PROVE c \in Trailed(h, r.mark)
      <3>1. i \in r.mark + 1 .. Len(h.trail) /\ i \in 1 .. m
        BY <1>1, <1>2
      <3> QED BY <3>1, <2>2, <1>1 DEF Trailed
    <2>3. ASSUME NEW i \in m + 1 .. Len(h.trail), c = h.trail[i] PROVE c \in Trailed(h, r.mark)
      <3>1. i \in r.mark + 1 .. Len(h.trail)
        BY <1>1, <1>2
      <3> QED BY <3>1, <2>3 DEF Trailed
    <2> QED BY <2>1, <2>2, <2>3, <1>1 DEF Trailed
  <1>4. ASSUME NEW c \in DOMAIN r.refs
        PROVE  /\ r.refs[c] = [ref |-> r.refs[c].ref, named |-> u.cells[c].named]
               /\ r.refs[c].named => IF c \in Trailed(u, r.mark) THEN r.refs[c].ref = Free ELSE u.cells[c] = r.refs[c]
    <2>1. /\ c \in DOMAIN h.cells
          /\ r.refs[c] = [ref |-> r.refs[c].ref, named |-> h.cells[c].named]
          /\ r.refs[c].named => IF c \in Trailed(h, r.mark) THEN r.refs[c].ref = Free ELSE h.cells[c] = r.refs[c]
      BY <1>2 DEF Recalled
    <2>2. u.cells[c] = IF c \in Trailed(h, m) THEN [ref |-> Free, named |-> h.cells[c].named] ELSE h.cells[c]
      BY <2>1, <1>1
    <2>3. u.cells[c].named = h.cells[c].named /\ r.refs[c].named = h.cells[c].named
      BY <2>1, <2>2
    <2>4. CASE c \in Trailed(h, m)
      <3>1. u.cells[c] = [ref |-> Free, named |-> h.cells[c].named]
        BY <2>2, <2>4
      <3> QED BY <3>1, <2>1, <2>3, <2>4, <1>3
    <2>5. CASE c \notin Trailed(h, m)
      BY <2>1, <2>2, <2>3, <2>5, <1>3
    <2> QED BY <2>4, <2>5
  <1> QED BY <1>1, <1>2, <1>4 DEF Recalled, u

LEMMA UnwindUndoes ==
  ASSUME NEW h, NEW r, IsHeap(h), Recalled(h, r)
  PROVE  Undone(trail_unwind(h, r.mark), r)
  <1>1. r.mark \in Nat /\ r.mark <= Len(h.trail) /\ Len(h.trail) \in Nat
    BY HeapFacts DEF Recalled
  <1> DEFINE u == trail_unwind(h, r.mark)
  <1>2. \A c \in DOMAIN h.cells :
          u.cells[c] = IF c \in Trailed(h, r.mark) THEN [ref |-> Free, named |-> h.cells[c].named] ELSE h.cells[c]
    BY <1>1, UnwindIs
  <1> HIDE DEF u
  <1>3. ASSUME NEW c \in DOMAIN r.refs, u.cells[c].named PROVE u.cells[c] = r.refs[c]
    <2>1. /\ c \in DOMAIN h.cells
          /\ r.refs[c] = [ref |-> r.refs[c].ref, named |-> h.cells[c].named]
          /\ r.refs[c].named => IF c \in Trailed(h, r.mark) THEN r.refs[c].ref = Free ELSE h.cells[c] = r.refs[c]
      BY DEF Recalled
    <2>2. u.cells[c] = IF c \in Trailed(h, r.mark) THEN [ref |-> Free, named |-> h.cells[c].named] ELSE h.cells[c]
      BY <2>1, <1>2
    <2>3. u.cells[c].named = h.cells[c].named /\ r.refs[c].named = h.cells[c].named
      BY <2>1, <2>2
    <2>4. CASE c \in Trailed(h, r.mark)
      <3>1. u.cells[c] = [ref |-> Free, named |-> h.cells[c].named] /\ r.refs[c].ref = Free
        BY <2>1, <2>2, <2>3, <2>4, <1>3
      <3> QED BY <3>1, <2>1
    <2>5. CASE c \notin Trailed(h, r.mark)
      BY <2>1, <2>2, <2>3, <2>5, <1>3
    <2> QED BY <2>4, <2>5
  <1> QED BY <1>3 DEF Undone, u

LEMMA BegunRecalled ==
  ASSUME NEW h, NEW n, IsHeap(h)
  PROVE  /\ Recalled(h, Begun(h, n)) /\ Begun(h, n).mark = Len(h.trail) /\ Begun(h, n).refs = h.cells
         /\ Begun(h, n).from = n /\ Begun(h, n).exit = "none" /\ Begun(h, n).to = 0
  <1> DEFINE r == Begun(h, n)
  <1>1. r.mark = Len(h.trail) /\ r.refs = h.cells /\ r.from = n /\ r.exit = "none" /\ r.to = 0
    BY DEF Begun, trail_mark
  <1> HIDE DEF r
  <1>2. Len(h.trail) \in Nat /\ Trailed(h, Len(h.trail)) = {}
    BY HeapFacts
  <1>3. Recalled(h, r)
    BY <1>1, <1>2 DEF Recalled, IsHeap
  <1> QED BY <1>1, <1>3 DEF r

LEMMA KeptBinds ==
  ASSUME NEW h, NEW g, NEW op, NEW hs, Kept(h, op, hs), Binds(h, g)
  PROVE  Kept(g, op, hs)
  BY BindRecalls DEF Kept, Binds

LEMMA KeptSame ==
  ASSUME NEW h, NEW op, NEW hs, NEW hs2, Kept(h, op, hs),
         \A n \in DOMAIN op : hs2[op[n]].mark = hs[op[n]].mark /\ hs2[op[n]].refs = hs[op[n]].refs
  PROVE  Kept(h, op, hs2)
  <1>1. ASSUME NEW n \in DOMAIN op PROVE Recalled(h, hs2[op[n]])
    <2>1. Recalled(h, hs[op[n]])
      BY DEF Kept
    <2> QED BY <2>1 DEF Recalled
  <1> QED BY <1>1 DEF Kept

LEMMA KeptUnwinds ==
  ASSUME NEW h, NEW m \in Nat, NEW op, NEW hs, Kept(h, op, hs), m <= Len(h.trail),
         \A n \in DOMAIN op : hs[op[n]].mark <= m
  PROVE  Kept(trail_unwind(h, m), op, hs)
  BY UnwindRecalls, UnwindIs DEF Kept

-----------------------------------------------------------------------------
(* The open boxes                                                              *)

LEMMA PrefixIs ==
  ASSUME NEW s, IsSeq(s), NEW n \in 0 .. Len(s)
  PROVE  /\ IsSeq(SubSeq(s, 1, n)) /\ Len(SubSeq(s, 1, n)) = n /\ DOMAIN SubSeq(s, 1, n) = 1 .. n
         /\ \A i \in 1 .. n : SubSeq(s, 1, n)[i] = s[i]
  <1> DEFINE t == SubSeq(s, 1, n)
  <1>1. Len(s) \in Nat /\ s \in Seq(Range(s)) /\ n \in Nat
    BY SeqFacts DEF IsSeq
  <1>2. t \in Seq(Range(s)) /\ Len(t) = n /\ \A i \in 1 .. n : t[i] = s[i]
    BY <1>1
  <1> HIDE DEF t
  <1>3. t \in [1 .. n -> Range(s)]
    BY <1>2
  <1> QED BY <1>1, <1>2, <1>3, SeqIntro DEF t

(* The boxes at rest beside the one in control, m, and those on the stack fs.   *)
Aside(hs, op, fs, m, i) == Resting(hs, op, fs, i) /\ i # m

LEMMA OpenFacts ==
  ASSUME NEW op, NEW hs, Listed(op, hs)
  PROVE  /\ IsSeq(op) /\ Len(op) \in Nat /\ DOMAIN op = 1 .. Len(op)
         /\ \A i \in DOMAIN hs : hs[i].from \in Nat /\ hs[i].to \in Nat
         /\ \A i : IsOpen(op, hs, i) => hs[i].from \in 1 .. Len(op) /\ i \in DOMAIN hs
         /\ \A i, j : IsOpen(op, hs, i) /\ IsOpen(op, hs, j) /\ hs[i].from = hs[j].from => i = j
         /\ \A n \in DOMAIN op : IsOpen(op, hs, op[n])
  <1>1. IsSeq(op) /\ Len(op) \in Nat /\ DOMAIN op = 1 .. Len(op)
    BY SeqFacts DEF Listed
  <1> QED BY <1>1 DEF Listed, IsOpen

(* The box in control, or the one that waited for the box that has returned.    *)
LEMMA MyOpen ==
  ASSUME IInv, OInv, Entered \/ calls # <<>>
  PROVE  /\ Listed(open, hist) /\ Kept(heap, open, hist) /\ KidsAfter(boxes, hist, open)
         /\ IsOpen(open, hist, Me) /\ Path(boxes, hist, open, Rest, Me)
         /\ \A i \in DOMAIN hist : Aside(hist, open, Rest, Me, i) =>
              /\ Spanned(boxes, hist, open, i)
              /\ hist[i].from < hist[Me].from => hist[i].to < hist[Me].from
              /\ \A j \in DOMAIN Rest :
                   hist[i].from < hist[Rest[j].box].from => hist[i].to < hist[Rest[j].box].from
         /\ \A i, j \in DOMAIN hist : /\ Aside(hist, open, Rest, Me, i) /\ Aside(hist, open, Rest, Me, j)
                                      /\ hist[i].from < hist[j].from
                                      => hist[i].to < hist[j].from \/ hist[j].to <= hist[i].to
         /\ ~ Entered => Placed(boxes, hist, open, Head(calls), hist[ctl.box].from)
  <1>1. /\ Listed(open, hist) /\ Kept(heap, open, hist) /\ KidsAfter(boxes, hist, open)
        /\ Path(boxes, hist, open, calls, ctl.box) /\ InOrder(boxes, hist, open, calls)
        /\ \A j \in DOMAIN calls : Apart(hist, open, calls, calls[j].box)
        /\ Entered => IsOpen(open, hist, ctl.box) /\ Apart(hist, open, calls, ctl.box)
    BY DEF OInv, OpenPort, Entered
  <1>2. \A i : Aside(hist, open, Rest, Me, i) => Resting(hist, open, calls, i)
    BY MyStack DEF Aside, Resting
  <1>3. IsSeq(calls) /\ Len(calls) \in Nat /\ DOMAIN calls = 1 .. Len(calls)
    BY StackFacts DEF IInv
  <1>4. CASE Entered
    <2>1. Me = ctl.box /\ Rest = calls
      BY <1>4 DEF Me, Rest
    <2> QED BY <1>1, <1>2, <1>4, <2>1 DEF Apart, InOrder
  <1>5. CASE ~ Entered
    <2>1. calls # <<>> /\ Me = Head(calls).box /\ Rest = Tail(calls)
      BY <1>5 DEF Me, Rest
    <2>2. /\ Len(calls) >= 1 /\ Len(Rest) = Len(calls) - 1 /\ Head(calls) = calls[1]
          /\ DOMAIN Rest = 1 .. Len(calls) - 1
          /\ \A i \in 1 .. Len(calls) - 1 : Rest[i] = calls[i + 1]
      BY <1>3, <2>1, TailIs
    <2>3. \A i \in 1 .. Len(Rest) + 1 : /\ Under(Rest, Me, i) = Under(calls, ctl.box, i + 1)
                                        /\ i + 1 \in 1 .. Len(calls) + 1
      BY <1>3, <2>1, <2>2 DEF Under
    <2>4. 1 \in DOMAIN calls /\ Under(calls, ctl.box, 1) = ctl.box
      BY <1>3, <2>2 DEF Under
    <2>5. Placed(boxes, hist, open, Head(calls), hist[ctl.box].from)
      BY <1>1, <2>2, <2>4 DEF Path
    <2>6. IsOpen(open, hist, Me) /\ Me = calls[1].box
      BY <2>1, <2>2, <2>5 DEF Placed
    <2>7. Path(boxes, hist, open, Rest, Me)
      <3>1. ASSUME NEW i \in 1 .. Len(Rest) + 1, NEW j \in 1 .. Len(Rest) + 1, i < j
            PROVE  hist[Under(Rest, Me, j)].from < hist[Under(Rest, Me, i)].from
        <4>1. /\ i + 1 \in 1 .. Len(calls) + 1 /\ j + 1 \in 1 .. Len(calls) + 1 /\ i + 1 < j + 1
              /\ Under(Rest, Me, i) = Under(calls, ctl.box, i + 1)
              /\ Under(Rest, Me, j) = Under(calls, ctl.box, j + 1)
          BY <3>1, <2>3, <1>3, <2>2
        <4>2. \A x, y \in 1 .. Len(calls) + 1 :
                x < y => hist[Under(calls, ctl.box, y)].from < hist[Under(calls, ctl.box, x)].from
          BY <1>1 DEF Path
        <4> QED BY <4>1, <4>2
      <3>2. ASSUME NEW j \in DOMAIN Rest
            PROVE  Placed(boxes, hist, open, Rest[j], hist[Under(Rest, Me, j)].from)
        <4>1. j + 1 \in DOMAIN calls /\ Rest[j] = calls[j + 1] /\ j \in 1 .. Len(Rest) + 1
          BY <1>3, <2>2
        <4> QED BY <4>1, <1>1, <2>3 DEF Path
      <3> QED BY <3>1, <3>2 DEF Path
    <2>8. ASSUME NEW i \in DOMAIN hist, Aside(hist, open, Rest, Me, i)
          PROVE  /\ Spanned(boxes, hist, open, i)
                 /\ hist[i].from < hist[Me].from => hist[i].to < hist[Me].from
                 /\ \A j \in DOMAIN Rest :
                      hist[i].from < hist[Rest[j].box].from => hist[i].to < hist[Rest[j].box].from
      <3>1. Resting(hist, open, calls, i)
        BY <2>8, <1>2
      <3>2. \A j \in DOMAIN Rest : j + 1 \in DOMAIN calls /\ Rest[j] = calls[j + 1]
        BY <1>3, <2>2
      <3> QED BY <3>1, <3>2, <1>1, <2>4, <2>6 DEF InOrder, Apart
    <2> QED BY <1>1, <1>2, <1>5, <2>5, <2>6, <2>7, <2>8 DEF InOrder
  <1> QED BY <1>4, <1>5

(* The record of the box that a step leaves.                                    *)
LEMMA LeaveHist ==
  ASSUME IInv, Entered \/ calls # <<>>, NEW port, NEW bs, NEW h, Leave(port, bs, h)
  PROVE  /\ DOMAIN hist' = DOMAIN hist /\ Me \in DOMAIN hist
         /\ hist'[Me].from = hist[Me].from /\ hist'[Me].mark = hist[Me].mark /\ hist'[Me].refs = hist[Me].refs
         /\ hist'[Me].exit = port /\ hist'[Me].to = Len(open)
         /\ \A i \in DOMAIN hist : i # Me => hist'[i] = hist[i]
  <1>1. Me \in DOMAIN hist /\ DOMAIN hist[Me] = {"refs", "mark", "from", "to", "exit"}
    BY MyStack DEF IInv, HistOK, Unseen
  <1>2. hist' = [hist EXCEPT ![Me].exit = port, ![Me].to = Len(open)]
    BY DEF Leave
  <1> QED BY <1>1, <1>2

LEMMA LeaveOpen ==
  ASSUME IInv, OInv, Entered \/ calls # <<>>,
         NEW port \in {"gamma", "omega"}, NEW bs, NEW h, Leave(port, bs, h),
         Same(boxes, bs, Me), \A i \in DOMAIN boxes : i # Me => bs[i].mark = boxes[i].mark,
         Kept(h, IF port = "gamma" THEN open ELSE SubSeq(open, 1, hist[Me].from - 1), hist),
         port = "gamma" => Spanned(bs, hist', open, Me),
         \/ port = "omega" /\ boxes[Me].fn \in {"choice", "head", "unify"}
         \/ port = "gamma" /\ boxes[Me].fn = "not"
         => Undone(h, hist[Me])
  PROVE  OInv'
  <1> DEFINE F(i) == hist[i].from
             T(i) == hist[i].to
  <1>1. /\ Stacked(boxes, Rest, Me) /\ Me \in DOMAIN boxes /\ Waiting(boxes, hist, Rest)
        /\ Shaped(boxes) /\ Tree(boxes) /\ DOMAIN hist = DOMAIN boxes
    BY MyStack DEF IInv, Struct, HistOK
  <1>2. /\ boxes' = bs /\ calls' = Rest /\ ctl' = [port |-> port, box |-> Me] /\ heap' = h
        /\ open' = IF port = "omega" THEN SubSeq(open, 1, F(Me) - 1) ELSE open
    BY DEF Leave
  <1>3. /\ DOMAIN hist' = DOMAIN hist /\ Me \in DOMAIN hist
        /\ hist'[Me].from = F(Me) /\ hist'[Me].mark = hist[Me].mark /\ hist'[Me].refs = hist[Me].refs
        /\ hist'[Me].exit = port /\ hist'[Me].to = Len(open)
        /\ \A i \in DOMAIN hist : i # Me => hist'[i] = hist[i]
    BY LeaveHist
  <1>4. /\ Listed(open, hist) /\ KidsAfter(boxes, hist, open)
        /\ IsOpen(open, hist, Me) /\ Path(boxes, hist, open, Rest, Me)
        /\ \A i \in DOMAIN hist : Aside(hist, open, Rest, Me, i) =>
              /\ Spanned(boxes, hist, open, i)
              /\ F(i) < F(Me) => T(i) < F(Me)
              /\ \A j \in DOMAIN Rest : F(i) < F(Rest[j].box) => T(i) < F(Rest[j].box)
        /\ \A i, j \in DOMAIN hist : /\ Aside(hist, open, Rest, Me, i) /\ Aside(hist, open, Rest, Me, j)
                                     /\ F(i) < F(j)
                                     => T(i) < F(j) \/ T(j) <= T(i)
    BY MyOpen
  <1>5. /\ IsSeq(open) /\ Len(open) \in Nat /\ DOMAIN open = 1 .. Len(open)
        /\ \A i \in DOMAIN hist : F(i) \in Nat /\ T(i) \in Nat
        /\ F(Me) \in 1 .. Len(open)
    BY <1>4, OpenFacts
  <1> DEFINE p == IF port = "omega" THEN F(Me) - 1 ELSE Len(open)
  <1>6. /\ IsSeq(open') /\ Len(open') = p /\ DOMAIN open' = 1 .. p /\ p \in 0 .. Len(open)
        /\ \A n \in 1 .. p : open'[n] = open[n]
    <2>1. CASE port = "omega"
      <3>1. F(Me) - 1 \in 0 .. Len(open)
        BY <1>5
      <3> QED BY <3>1, <2>1, <1>2, <1>5, PrefixIs
    <2>2. CASE port # "omega"
      BY <2>2, <1>2, <1>5
    <2> QED BY <2>1, <2>2
  <1>7. \A i \in DOMAIN hist : hist'[i].from = F(i) /\ hist'[i].mark = hist[i].mark /\ hist'[i].refs = hist[i].refs
    BY <1>3
  <1>8. \A i \in DOMAIN hist : IsOpen(open', hist', i) <=> IsOpen(open, hist, i) /\ F(i) <= p
    BY <1>5, <1>6, <1>7 DEF IsOpen
  <1>9. Listed(open, hist)'
    <2>1. \A n \in DOMAIN open' : n \in DOMAIN open /\ open'[n] = open[n]
      BY <1>5, <1>6
    <2>2. \A i \in DOMAIN hist' : hist'[i].from \in Nat /\ hist'[i].to \in Nat
      BY <1>3, <1>5, <1>7
    <2> QED BY <2>1, <2>2, <1>3, <1>4, <1>6, <1>7 DEF Listed
  <1>10. Kept(heap, open, hist)'
    <2>1. Kept(h, open', hist)
      BY <1>2
    <2>2. \A n \in DOMAIN open' : open'[n] \in DOMAIN hist
      BY <1>9, <1>3 DEF Listed
    <2>3. \A n \in DOMAIN open' : /\ hist'[open'[n]].mark = hist[open'[n]].mark
                                  /\ hist'[open'[n]].refs = hist[open'[n]].refs
      BY <2>2, <1>7
    <2>4. Kept(h, open', hist')
      BY <2>1, <2>3, KeptSame
    <2> QED BY <2>4, <1>2
  <1>11. \A i \in DOMAIN boxes : bs[i].kids = boxes[i].kids /\ bs[i].fn = boxes[i].fn
    BY DEF Same
  <1>12. KidsAfter(boxes, hist, open)'
    <2> SUFFICES ASSUME NEW i \in DOMAIN boxes, NEW a \in DOMAIN boxes[i].kids,
                        IsOpen(open', hist', boxes[i].kids[a])
                 PROVE  IsOpen(open', hist', i) /\ hist'[i].from < hist'[boxes[i].kids[a]].from
      BY <1>2, <1>11 DEF KidsAfter, Same
    <2>1. boxes[i].kids[a] \in DOMAIN hist
      BY <1>1 DEF Tree
    <2>2. IsOpen(open, hist, i) /\ F(i) < F(boxes[i].kids[a]) /\ F(boxes[i].kids[a]) <= p
      BY <2>1, <1>4, <1>8 DEF KidsAfter
    <2> QED BY <2>1, <2>2, <1>1, <1>5, <1>6, <1>7, <1>8
  (* the boxes that wait *)
  <1>13. /\ IsSeq(Rest) /\ Len(Rest) \in Nat /\ DOMAIN Rest = 1 .. Len(Rest)
         /\ \A j \in DOMAIN Rest : Rest[j].box \in DOMAIN boxes /\ Rest[j].box # Me
         /\ \A j \in DOMAIN Rest : F(Rest[j].box) < F(Me)
         /\ \A j \in 1 .. Len(Rest) + 1 : Under(Rest, Me, j) \in DOMAIN boxes /\ F(Under(Rest, Me, j)) <= F(Me)
    <2>1. /\ IsSeq(Rest) /\ Len(Rest) \in Nat /\ DOMAIN Rest = 1 .. Len(Rest)
          /\ \A j \in DOMAIN Rest : Rest[j].box \in DOMAIN boxes /\ Rest[j].box # Me
          /\ \A j \in 1 .. Len(Rest) + 1 : Under(Rest, Me, j) \in DOMAIN boxes
      BY <1>1, StackFacts
    <2>2. ASSUME NEW j \in 1 .. Len(Rest) + 1, j # 1 PROVE F(Under(Rest, Me, j)) < F(Me)
      <3>1. Under(Rest, Me, 1) = Me /\ 1 \in 1 .. Len(Rest) + 1 /\ 1 < j
        BY <2>1, <2>2 DEF Under
      <3> QED BY <3>1, <1>4 DEF Path
    <2>3. \A j \in DOMAIN Rest : j + 1 \in 1 .. Len(Rest) + 1 /\ j + 1 # 1 /\ Under(Rest, Me, j + 1) = Rest[j].box
      BY <2>1 DEF Under
    <2>4. \A j \in 1 .. Len(Rest) + 1 : F(Under(Rest, Me, j)) <= F(Me)
      BY <2>1, <2>2, <1>1, <1>5 DEF Under
    <2> QED BY <2>1, <2>2, <2>3, <2>4
  <1>14. \A i \in DOMAIN boxes : \A a \in DOMAIN boxes[i].kids :
           boxes[i].kids[a] = Me => 1 \in DOMAIN Rest /\ Rest[1].box = i /\ Slot(Rest[1].at) = a
    BY <1>1, ParentOnStack
  <1>15. ASSUME NEW q \in DOMAIN hist, q # Me, NEW m, NEW n \in Nat, Covers(hist, open, q, m, n), n <= p
         PROVE  Covers(hist', open', q, m, n)
    BY <1>15, <1>3, <1>5, <1>6, <1>8 DEF Covers
  <1>16. Path(boxes, hist, open, calls, ctl.box)'
    <2>1. \A i, j \in 1 .. Len(Rest) + 1 :
             i < j => hist'[Under(Rest, Me, j)].from < hist'[Under(Rest, Me, i)].from
      BY <1>1, <1>4, <1>7, <1>13 DEF Path
    <2>2. ASSUME NEW j \in DOMAIN Rest
          PROVE  Placed(bs, hist', open', Rest[j], hist'[Under(Rest, Me, j)].from)
      <3> DEFINE g == Rest[j]
                 u == Under(Rest, Me, j)
                 l == boxes[g.box].kids[1]
      <3>1. /\ g.box \in DOMAIN boxes /\ g.box # Me /\ F(g.box) < F(Me) /\ Fits(boxes, g, u)
            /\ u \in DOMAIN hist /\ F(u) <= F(Me) /\ (\A i \in DOMAIN Rest : Rest[i].box = g.box => i = j)
            /\ Placed(boxes, hist, open, g, F(u))
        <4>1. j \in 1 .. Len(Rest) + 1
          BY <1>13
        <4> QED BY <4>1, <1>1, <1>4, <1>13, StackFacts DEF Stacked, Path
      <3> HIDE DEF g, u
      <3>2. hist'[g.box] = hist[g.box] /\ bs[g.box].kids = boxes[g.box].kids /\ bs[g.box].mark = boxes[g.box].mark
            /\ bs[g.box].fn = boxes[g.box].fn
        BY <3>1, <1>1, <1>3, <1>11
      <3>3. ASSUME g.at = "right" PROVE l \in DOMAIN boxes /\ l # Me
        <4>1. 1 \in DOMAIN boxes[g.box].kids /\ l \in DOMAIN boxes
          BY <3>1, <3>3, <1>1 DEF Fits, FnAt, Shaped, Width, Tree
        <4>2. l # Me
          <5> SUFFICES ASSUME l = Me PROVE FALSE
            OBVIOUS
          <5>1. 1 \in DOMAIN Rest /\ Rest[1].box = g.box /\ Slot(Rest[1].at) = 1
            BY <1>14, <3>1, <4>1
          <5>2. 1 = j
            BY <5>1, <3>1
          <5> QED BY <5>1, <5>2, <3>3 DEF Slot, g
        <4> QED BY <4>1, <4>2
      <3> HIDE DEF l
      <3>4. Until(bs, hist', g) = Until(boxes, hist, g) /\ Until(boxes, hist, g) \in Nat
        BY <3>1, <3>2, <3>3, <1>1, <1>3, <1>5 DEF Until, l
      <3>5. F(u) = Until(boxes, hist, g) + 1 /\ IsOpen(open, hist, g.box) /\ F(g.box) <= p /\ Until(boxes, hist, g) <= p
        BY <3>1, <3>4, <1>1, <1>5 DEF Placed
      <3>6. IsOpen(open', hist', g.box)
        BY <3>1, <3>5, <1>1, <1>8
      <3>7. ASSUME g.at = "right" PROVE Covers(hist', open', l, hist'[g.box].from + 1, Until(bs, hist', g))
        <4>1. Covers(hist, open, l, F(g.box) + 1, Until(boxes, hist, g))
          BY <3>1, <3>7 DEF Placed, l
        <4> QED BY <4>1, <3>2, <3>3, <3>4, <3>5, <3>7, <1>1, <1>15
      <3>8. ASSUME g.at \in {"left", "first", "again"} PROVE ~ IsOpen(open', hist', boxes[g.box].kids[2])
        <4>1. 2 \in DOMAIN boxes[g.box].kids
          BY <3>1, <3>8, <1>1 DEF Fits, FnAt, Shaped, Width
        <4>2. boxes[g.box].kids[2] \in DOMAIN hist /\ ~ IsOpen(open, hist, boxes[g.box].kids[2])
          BY <4>1, <3>1, <3>8, <1>1 DEF Tree, Placed
        <4> QED BY <4>2, <1>8
      <3>9. boxes[g.box].fn \in {"choice", "not"} => boxes[g.box].mark = hist[g.box].mark
        BY <3>1 DEF Placed
      <3>10. hist'[u].from = F(u)
        BY <3>1, <1>7
      <3> QED BY <3>2, <3>4, <3>5, <3>6, <3>7, <3>8, <3>9, <3>10 DEF Placed, g, u, l
    <2> QED BY <2>1, <2>2, <1>2 DEF Path
  (* the boxes at rest *)
  <1>17. \A i \in DOMAIN hist : Resting(hist', open', Rest, i) =>
           \/ Aside(hist, open, Rest, Me, i) /\ F(i) <= p /\ hist'[i] = hist[i]
           \/ i = Me /\ port = "gamma"
    BY <1>3, <1>8 DEF Resting, Aside
  <1>18. ASSUME NEW i \in DOMAIN hist, Aside(hist, open, Rest, Me, i), F(i) <= p
         PROVE  T(i) <= p
    <2>1. CASE port = "omega"
      BY <2>1, <1>18, <1>4, <1>5
    <2>2. CASE port # "omega"
      BY <2>2, <1>18, <1>4 DEF Spanned
    <2> QED BY <2>1, <2>2
  <1>19. ASSUME NEW i \in DOMAIN hist, Resting(hist', open', Rest, i)
         PROVE  Spanned(bs, hist', open', i)
    <2>1. CASE i = Me /\ port = "gamma"
      BY <2>1, <1>2
    <2>2. CASE Aside(hist, open, Rest, Me, i) /\ F(i) <= p /\ hist'[i] = hist[i]
      <3>1. Spanned(boxes, hist, open, i) /\ i # Me /\ T(i) <= p /\ ~ OnStack(Rest, i)
        BY <2>2, <1>4, <1>18 DEF Aside, Resting
      <3>2. \A a \in DOMAIN boxes[i].kids : boxes[i].kids[a] \in DOMAIN hist /\ boxes[i].kids[a] # Me
        BY <3>1, <1>1, <1>14 DEF Tree, OnStack
      <3>3. bs[i].kids = boxes[i].kids /\ bs[i].fn = boxes[i].fn /\ bs[i].phase = boxes[i].phase
            /\ bs[i].fired = boxes[i].fired /\ bs[i].mark = boxes[i].mark
        BY <3>1, <1>1 DEF Same
      <3>4. /\ boxes[i].fn \in {"cat", "alt"} => 1 \in DOMAIN boxes[i].kids /\ 2 \in DOMAIN boxes[i].kids
        BY <1>1 DEF Shaped, Width
      <3>5. T(i) \in Nat /\ p \in Nat /\ F(i) \in Nat
        BY <1>5, <1>6
      <3>6. boxes[i].fn \in {"deferred", "choice"} => 1 \in DOMAIN boxes[i].kids
        <4>1. Rests(boxes, hist, i)
          <5>1. hist[i].exit = "gamma" /\ ~ OnStack(calls, i)
            BY <2>2, MyStack DEF Aside, Resting
          <5> QED BY <5>1, <1>1 DEF IInv, Settled
        <4> QED BY <4>1 DEF Rests
      <3>7. F(i) <= T(i) /\ T(i) <= Len(open')
        BY <3>1, <1>6 DEF Spanned
      <3> DEFINE l == boxes[i].kids[1]
                 r == boxes[i].kids[2]
      <3>8. ASSUME boxes[i].fn = "cat"
            PROVE  Covers(hist', open', l, F(i) + 1, hist'[l].to) /\ Covers(hist', open', r, hist'[l].to + 1, T(i))
        <4>1. /\ l \in DOMAIN hist /\ l # Me /\ r \in DOMAIN hist /\ r # Me
              /\ Covers(hist, open, l, F(i) + 1, T(l)) /\ Covers(hist, open, r, T(l) + 1, T(i))
          BY <3>8, <3>1, <3>2, <3>4 DEF Spanned
        <4>2. T(l) \in Nat /\ T(l) + 1 <= T(i) /\ T(l) <= p /\ hist'[l].to = T(l)
          BY SMTT(30), <4>1, <3>1, <3>5, <1>3, <1>5 DEF Covers
        <4> QED BY <4>1, <4>2, <3>1, <3>5, <1>15
      <3>9. ASSUME boxes[i].fn = "alt", boxes[i].phase = 0
            PROVE  Covers(hist', open', l, F(i) + 1, T(i)) /\ ~ IsOpen(open', hist', r)
        <4>1. /\ l \in DOMAIN hist /\ l # Me /\ r \in DOMAIN hist
              /\ Covers(hist, open, l, F(i) + 1, T(i)) /\ ~ IsOpen(open, hist, r)
          BY <3>9, <3>1, <3>2, <3>4 DEF Spanned
        <4> QED BY <4>1, <3>1, <3>5, <1>8, <1>15
      <3>10. ASSUME boxes[i].fn = "alt", boxes[i].phase = 2
             PROVE  Covers(hist', open', r, F(i) + 1, T(i))
        <4>1. r \in DOMAIN hist /\ r # Me /\ Covers(hist, open, r, F(i) + 1, T(i))
          BY <3>10, <3>1, <3>2, <3>4 DEF Spanned
        <4> QED BY <4>1, <3>1, <3>5, <1>15
      <3>11. ASSUME boxes[i].fn \in {"deferred", "choice"}
             PROVE  Covers(hist', open', l, F(i) + 1, T(i))
        <4>1. l \in DOMAIN hist /\ l # Me /\ Covers(hist, open, l, F(i) + 1, T(i))
          BY <3>11, <3>1, <3>2, <3>6 DEF Spanned
        <4> QED BY <4>1, <3>1, <3>5, <1>15
      <3> HIDE DEF l, r
      <3>12. /\ boxes[i].fn \in {"head", "unify"} => boxes[i].fired
             /\ boxes[i].fn \in {"head", "unify", "choice"} => boxes[i].mark = hist[i].mark
        BY <3>1 DEF Spanned
      <3> QED BY <2>2, <3>3, <3>7, <3>8, <3>9, <3>10, <3>11, <3>12 DEF Spanned, l, r
    <2> QED BY <2>1, <2>2, <1>17, <1>19
  <1>20. ASSUME NEW i \in DOMAIN hist, NEW j \in DOMAIN hist,
                Resting(hist', open', Rest, i), Resting(hist', open', Rest, j), hist'[i].from < hist'[j].from
         PROVE  hist'[i].to < hist'[j].from \/ hist'[j].to <= hist'[i].to
    <2>1. CASE i = Me /\ j = Me
      BY <2>1, <1>20, <1>3, <1>5
    <2>2. CASE i = Me /\ j # Me
      <3>1. Aside(hist, open, Rest, Me, j) /\ hist'[j] = hist[j]
        BY <2>2, <1>17, <1>20
      <3>2. T(j) <= Len(open)
        BY <3>1, <1>4 DEF Spanned
      <3> QED BY <3>1, <3>2, <2>2, <1>3
    <2>3. CASE i # Me /\ j = Me
      <3>1. Aside(hist, open, Rest, Me, i) /\ hist'[i] = hist[i]
        BY <2>3, <1>17, <1>20
      <3> QED BY <3>1, <2>3, <1>3, <1>4, <1>20
    <2>4. CASE i # Me /\ j # Me
      BY <2>4, <1>4, <1>17, <1>20
    <2> QED BY <2>1, <2>2, <2>3, <2>4
  <1>21. InOrder(boxes, hist, open, calls)'
    BY <1>2, <1>3, <1>19, <1>20 DEF InOrder
  <1>22. (\A j \in DOMAIN calls : Apart(hist, open, calls, calls[j].box))'
    <2> SUFFICES ASSUME NEW j \in DOMAIN Rest, NEW i \in DOMAIN hist, Resting(hist', open', Rest, i),
                        hist'[i].from < hist'[Rest[j].box].from
                 PROVE  hist'[i].to < hist'[Rest[j].box].from
      BY <1>2, <1>3 DEF Apart
    <2>1. Rest[j].box \in DOMAIN hist /\ F(Rest[j].box) < F(Me) /\ hist'[Rest[j].box].from = F(Rest[j].box)
      BY <1>1, <1>7, <1>13
    <2>2. i # Me
      BY <2>1, <1>1, <1>5, <1>7
    <2> QED BY <2>1, <2>2, <1>4, <1>17
  <1>23. OpenPort'
    <2>1. CASE port = "gamma"
      <3>1. IsOpen(open', hist', Me) /\ hist'[Me].to = Len(open')
        BY <2>1, <1>3, <1>4, <1>5, <1>6, <1>8
      <3> QED BY <3>1, <2>1, <1>1, <1>2, <1>3, <1>11 DEF OpenPort, Entered, Undone
    <2>2. CASE port = "omega"
      <3>1. hist'[Me].from = Len(open') + 1
        BY <2>2, <1>3, <1>5, <1>6
      <3>2. ctl'.port = "omega" /\ ctl'.box = Me
        BY <2>2, <1>2
      <3>3. ~ Entered'
        BY <3>2 DEF Entered
      <3>4. boxes'[ctl'.box].fn \in {"choice", "head", "unify"} => Undone(h, hist'[Me])
        BY <3>2, <2>2, <1>1, <1>2, <1>3, <1>11 DEF Undone
      <3> QED BY <3>1, <3>2, <3>3, <3>4, <1>2 DEF OpenPort
    <2> QED BY <2>1, <2>2
  <1> QED BY <1>9, <1>10, <1>12, <1>16, <1>21, <1>22, <1>23 DEF OInv

(* A child k is resumed only if whatever succeeded after it has failed, and tried *)
(* from the start only if it has failed itself.                                *)
Resumes(k) ==
  /\ k \in DOMAIN boxes /\ IsOpen(open, hist, k) /\ hist[k].exit = "gamma" /\ hist[k].to = Len(open)
  /\ \A i \in DOMAIN hist : Aside(hist, open, Rest, Me, i) /\ hist[i].from < hist[k].from => hist[i].to < hist[k].from

LEMMA EnterOpen ==
  ASSUME IInv, IInv', OInv, Entered \/ calls # <<>>,
         NEW k, NEW port \in {"alpha", "beta"}, NEW f, NEW bs, NEW h, Enter(k, port, f, bs, h),
         f.box = Me, Grows(boxes, bs, Me), Fits(bs, f, k),
         \A i \in DOMAIN boxes : i # Me => bs[i].mark = boxes[i].mark,
         Kept(h, open, hist),
         port = "alpha" => ~ IsOpen(open, hist, k) /\ Len(open) = Until(bs, hist, f),
         port = "beta"  => Resumes(k) /\ hist[k].from = Until(bs, hist, f) + 1,
         f.at = "right" => bs = boxes /\ Covers(hist, open, boxes[Me].kids[1], hist[Me].from + 1, Until(boxes, hist, f)),
         f.at \in {"left", "first", "again"} => ~ IsOpen(open, hist, bs[Me].kids[2]),
         boxes[Me].fn \in {"choice", "not"} => bs[Me].mark = hist[Me].mark
  PROVE  OInv'
  <1> DEFINE F(i) == hist[i].from
             T(i) == hist[i].to
             fs == <<f>> \o Rest
  <1>1. /\ Stacked(boxes, Rest, Me) /\ Me \in DOMAIN boxes
        /\ Shaped(boxes) /\ Tree(boxes) /\ DOMAIN hist = DOMAIN boxes
    BY MyStack DEF IInv, Struct, HistOK
  <1>2. /\ boxes' = bs /\ calls' = fs /\ ctl' = [port |-> port, box |-> k] /\ heap' = h
        /\ open' = IF port = "alpha" THEN Append(open, k) ELSE open
        /\ hist' = [i \in DOMAIN bs |->
                IF i = k /\ port = "alpha" THEN Begun(h, Len(open) + 1)
                ELSE IF i \in DOMAIN hist THEN hist[i] ELSE Unseen]
    BY DEF Enter
  <1>3. /\ Listed(open, hist) /\ KidsAfter(boxes, hist, open)
        /\ IsOpen(open, hist, Me) /\ Path(boxes, hist, open, Rest, Me)
        /\ \A i \in DOMAIN hist : Aside(hist, open, Rest, Me, i) =>
              /\ Spanned(boxes, hist, open, i)
              /\ F(i) < F(Me) => T(i) < F(Me)
              /\ \A j \in DOMAIN Rest : F(i) < F(Rest[j].box) => T(i) < F(Rest[j].box)
        /\ \A i, j \in DOMAIN hist : /\ Aside(hist, open, Rest, Me, i) /\ Aside(hist, open, Rest, Me, j)
                                     /\ F(i) < F(j)
                                     => T(i) < F(j) \/ T(j) <= T(i)
    BY MyOpen
  <1>4. /\ IsSeq(open) /\ Len(open) \in Nat /\ DOMAIN open = 1 .. Len(open)
        /\ \A i \in DOMAIN hist : F(i) \in Nat /\ T(i) \in Nat
        /\ F(Me) \in 1 .. Len(open)
    BY <1>3, OpenFacts
  <1>5. /\ Shaped(bs) /\ Tree(bs) /\ Stacked(bs, fs, k) /\ DOMAIN boxes \subseteq DOMAIN bs
    BY <1>2 DEF IInv, Struct, Grows
  <1> HIDE DEF fs
  <1>6. /\ k \in DOMAIN bs /\ k # Me
        /\ IsSeq(Rest) /\ DOMAIN fs = 1 .. Len(Rest) + 1 /\ Len(fs) = Len(Rest) + 1 /\ fs[1] = f
        /\ Len(Rest) \in Nat /\ DOMAIN Rest = 1 .. Len(Rest)
        /\ \A i \in 2 .. Len(Rest) + 1 : fs[i] = Rest[i - 1]
        /\ \A i : OnStack(fs, i) <=> i = Me \/ OnStack(Rest, i)
        /\ ~ OnStack(fs, k)
    <2>1. k \in DOMAIN bs /\ ~ OnStack(fs, k)
      BY <1>5, StackFacts
    <2>2. IsSeq(Rest)
      BY <1>1, StackFacts
    <2> QED BY <2>1, <2>2, PushFacts DEF fs
  <1>7. /\ DOMAIN hist' = DOMAIN bs
        /\ \A i \in DOMAIN hist : i # k \/ port = "beta" => hist'[i] = hist[i]
        /\ port = "alpha" => hist'[k] = Begun(h, Len(open) + 1)
        /\ \A i \in DOMAIN bs \ DOMAIN hist : i # k \/ port = "beta" => hist'[i] = Unseen
    BY <1>1, <1>2, <1>5, <1>6
  <1>8. IsHeap(h) /\ Len(h.trail) \in Nat
    BY HeapFacts DEF Kept
  <1>9. port = "alpha" => /\ Recalled(h, hist'[k]) /\ hist'[k].mark = Len(h.trail) /\ hist'[k].refs = h.cells
                          /\ hist'[k].from = Len(open) + 1 /\ hist'[k].exit = "none" /\ hist'[k].to = 0
    BY <1>7, <1>8, BegunRecalled
  <1> DEFINE p == IF port = "alpha" THEN Len(open) + 1 ELSE Len(open)
  <1>10. /\ IsSeq(open') /\ Len(open') = p /\ DOMAIN open' = 1 .. p /\ p \in Nat
         /\ \A n \in 1 .. Len(open) : open'[n] = open[n]
         /\ port = "alpha" => open'[p] = k
    <2>1. CASE port = "alpha"
      BY <2>1, <1>2, <1>4, AppendIs
    <2>2. CASE port # "alpha"
      BY <2>2, <1>2, <1>4
    <2> QED BY <2>1, <2>2
  <1>11. Unseen.from = 0 /\ Unseen.to = 0 /\ Unseen.exit = "none"
    BY DEF Unseen
  <1>12. /\ \A i \in DOMAIN bs : IsOpen(open', hist', i) <=> i = k \/ IsOpen(open, hist, i)
         /\ \A i : IsOpen(open, hist, i) => i \in DOMAIN hist
    <2>1. ASSUME NEW i \in DOMAIN hist, i # k PROVE IsOpen(open', hist', i) <=> IsOpen(open, hist, i)
      <3>1. hist'[i].from = F(i) /\ F(i) \in Nat
        BY <2>1, <1>4, <1>7
      <3>2. F(i) <= Len(open) => open'[F(i)] = open[F(i)] \/ F(i) = 0
        BY <3>1, <1>4, <1>10
      <3> QED BY <2>1, <3>1, <3>2, <1>4, <1>10 DEF IsOpen
    <2>2. IsOpen(open', hist', k)
      <3>1. CASE port = "alpha"
        BY <3>1, <1>4, <1>9, <1>10 DEF IsOpen
      <3>2. CASE port = "beta"
        BY <3>2, <1>1, <1>4, <1>7, <1>10 DEF IsOpen, Resumes
      <3> QED BY <3>1, <3>2
    <2>3. \A i : IsOpen(open, hist, i) => i \in DOMAIN hist
      BY <1>3, OpenFacts
    <2>4. ASSUME NEW i \in DOMAIN bs \ DOMAIN hist, i # k PROVE ~ IsOpen(open', hist', i)
      BY <2>4, <1>7, <1>10, <1>11 DEF IsOpen
    <2> QED BY <2>1, <2>2, <2>3, <2>4
  <1>13. \A n \in DOMAIN open : open[n] \in DOMAIN hist /\ (open[n] # k \/ port = "beta") /\ hist'[open[n]] = hist[open[n]]
    <2>1. \A n \in DOMAIN open : open[n] \in DOMAIN hist /\ IsOpen(open, hist, open[n])
      BY <1>3, OpenFacts DEF Listed
    <2> QED BY <2>1, <1>7
  <1>14. Listed(open, hist)'
    <2>1. ASSUME NEW n \in DOMAIN open' PROVE open'[n] \in DOMAIN hist' /\ hist'[open'[n]].from = n
      <3>1. CASE n \in DOMAIN open
        BY <3>1, <1>1, <1>3, <1>4, <1>5, <1>7, <1>10, <1>13 DEF Listed
      <3>2. CASE n \notin DOMAIN open
        <4>1. port = "alpha" /\ n = p
          BY <3>2, <1>4, <1>10
        <4> QED BY <4>1, <1>6, <1>7, <1>9, <1>10
      <3> QED BY <3>1, <3>2
    <2>2. ASSUME NEW i \in DOMAIN bs PROVE hist'[i].from \in Nat /\ hist'[i].to \in Nat
      BY <1>4, <1>7, <1>9, <1>11
    <2> QED BY <2>1, <2>2, <1>7, <1>10 DEF Listed
  <1>15. Kept(heap, open, hist)'
    <2>1. ASSUME NEW n \in 1 .. Len(open)
          PROVE  Recalled(h, hist'[open'[n]]) /\ hist'[open'[n]] = hist[open[n]]
                 /\ hist[open[n]].mark \in 0 .. Len(h.trail)
      <3>1. n \in DOMAIN open /\ open'[n] = open[n] /\ hist'[open[n]] = hist[open[n]]
        BY <1>4, <1>10, <1>13
      <3> QED BY <3>1 DEF Kept, Recalled
    <2>2. ASSUME NEW m \in DOMAIN open', NEW n \in DOMAIN open', m <= n
          PROVE  hist'[open'[m]].mark <= hist'[open'[n]].mark
      <3>1. CASE n \in DOMAIN open
        BY <3>1, <2>1, <2>2, <1>4, <1>10 DEF Kept
      <3>2. CASE n \notin DOMAIN open
        <4>1. port = "alpha" /\ n = p /\ (m = p \/ m \in 1 .. Len(open))
          BY <3>2, <1>4, <1>10
        <4> QED BY <4>1, <2>1, <1>8, <1>9, <1>10
      <3> QED BY <3>1, <3>2
    <2>3. \A n \in DOMAIN open' : Recalled(h, hist'[open'[n]])
      <3> SUFFICES ASSUME NEW n \in DOMAIN open' PROVE Recalled(h, hist'[open'[n]])
        OBVIOUS
      <3>1. n \in 1 .. Len(open) \/ (port = "alpha" /\ n = p)
        BY <1>4, <1>10
      <3> QED BY <3>1, <2>1, <1>9, <1>10
    <2> QED BY <2>2, <2>3, <1>2, <1>8 DEF Kept
  <1>16. \A i \in DOMAIN bs : \A a \in DOMAIN bs[i].kids :
            /\ bs[i].kids[a] \in DOMAIN bs
            /\ bs[i].kids[a] = k => i = Me /\ a = Slot(f.at)
            /\ bs[i].kids[a] \in DOMAIN boxes => /\ i \in DOMAIN boxes /\ a \in DOMAIN boxes[i].kids
                                                 /\ boxes[i].kids[a] = bs[i].kids[a]
    BY <1>5 DEF Fits, Tree, Orphan, Grows
  <1>17. IsOpen(open, hist, k) => F(k) > F(Me)
    <2>1. CASE port = "alpha"
      BY <2>1
    <2>2. CASE port = "beta"
      <3>1. k \in DOMAIN boxes
        BY <2>2 DEF Resumes
      <3>2. F(k) = Until(bs, hist, f) + 1
        BY <2>2
      <3>3. CASE f.at = "right"
        <4> DEFINE n == Until(bs, hist, f)
        <4>1. n \in Nat /\ F(Me) + 1 <= n
          <5>1. bs = boxes /\ Covers(hist, open, boxes[Me].kids[1], F(Me) + 1, n)
            BY <3>3
          <5>2. boxes[Me].kids[1] \in DOMAIN hist
            BY <5>1, <1>12 DEF Covers
          <5> QED BY <5>1, <5>2, <1>4 DEF Covers
        <4> HIDE DEF n
        <4>2. F(k) = n + 1
          BY <3>2 DEF n
        <4> QED BY <4>1, <4>2, <1>1, <1>4
      <3>4. CASE f.at # "right"
        BY <3>2, <3>4, <1>1, <1>4 DEF Until
      <3> QED BY <3>3, <3>4
    <2> QED BY <2>1, <2>2
  <1>18. hist'[k].from > F(Me) /\ hist'[k].from \in Nat /\ hist'[Me] = hist[Me]
    <2>1. CASE port = "alpha"
      BY <2>1, <1>1, <1>4, <1>6, <1>7, <1>9
    <2>2. CASE port = "beta"
      BY <2>2, <1>1, <1>4, <1>6, <1>7, <1>17 DEF Resumes
    <2> QED BY <2>1, <2>2
  <1>19. KidsAfter(boxes, hist, open)'
    <2> SUFFICES ASSUME NEW i \in DOMAIN bs, NEW a \in DOMAIN bs[i].kids, IsOpen(open', hist', bs[i].kids[a])
                 PROVE  IsOpen(open', hist', i) /\ hist'[i].from < hist'[bs[i].kids[a]].from
      BY <1>2 DEF KidsAfter
    <2>1. CASE bs[i].kids[a] = k
      <3>1. i = Me
        BY <2>1, <1>16
      <3> QED BY <3>1, <2>1, <1>3, <1>5, <1>12, <1>18, <1>1
    <2>2. CASE bs[i].kids[a] # k
      <3> DEFINE d == bs[i].kids[a]
      <3>1. IsOpen(open, hist, d) /\ d \in DOMAIN hist
        BY <2>2, <1>12, <1>16
      <3>2. i \in DOMAIN boxes /\ a \in DOMAIN boxes[i].kids /\ boxes[i].kids[a] = d
        BY <3>1, <1>1, <1>16
      <3>3. IsOpen(open, hist, i) /\ F(i) < F(d)
        BY <3>1, <3>2, <1>3 DEF KidsAfter
      <3>4. i # k \/ port = "beta"
        BY <3>3
      <3> QED BY <2>2, <3>1, <3>2, <3>3, <3>4, <1>1, <1>5, <1>7, <1>12
    <2> QED BY <2>1, <2>2
  (* the boxes that wait *)
  <1>20. ASSUME NEW q \in DOMAIN hist, q # k, NEW m, NEW n, Covers(hist, open, q, m, n)
         PROVE  Covers(hist', open', q, m, n)
    BY <1>20, <1>1, <1>5, <1>7, <1>12 DEF Covers
  <1>21. ASSUME f.at = "right"
         PROVE  boxes[Me].kids[1] \in DOMAIN hist /\ boxes[Me].kids[1] # k
    <2>1. bs = boxes /\ bs[Me].fn = "cat"
      BY <1>21 DEF Fits, FnAt
    <2>2. 1 \in DOMAIN boxes[Me].kids
      BY <2>1, <1>1 DEF Shaped, Width
    <2> QED BY <2>1, <2>2, <1>1, <1>16, <1>21 DEF Tree, Slot
  <1>22. Placed(bs, hist', open', f, hist'[k].from)
    <2>1. Until(bs, hist', f) = Until(bs, hist, f) /\ Until(bs, hist, f) \in Nat
      BY <1>1, <1>4, <1>7, <1>18, <1>21 DEF Until
    <2>2. hist'[k].from = Until(bs, hist, f) + 1
      <3>1. CASE port = "alpha"
        BY <3>1, <1>9
      <3>2. CASE port = "beta"
        BY <3>2, <1>1, <1>7 DEF Resumes
      <3> QED BY <3>1, <3>2
    <2>3. IsOpen(open', hist', Me)
      BY <1>1, <1>3, <1>5, <1>12
    <2>4. ASSUME f.at = "right"
          PROVE  Covers(hist', open', bs[Me].kids[1], hist'[Me].from + 1, Until(bs, hist', f))
      BY <2>1, <2>4, <1>18, <1>20, <1>21
    <2>5. ASSUME f.at \in {"left", "first", "again"} PROVE ~ IsOpen(open', hist', bs[Me].kids[2])
      <3>1. 2 \in DOMAIN bs[Me].kids
        BY <2>5, <1>5 DEF Fits, FnAt, Shaped, Width
      <3>2. bs[Me].kids[2] \in DOMAIN bs /\ bs[Me].kids[2] # k
        BY <3>1, <2>5, <1>1, <1>5, <1>16 DEF Slot
      <3> QED BY <3>2, <2>5, <1>12
    <2>6. bs[Me].fn \in {"choice", "not"} => bs[Me].mark = hist'[Me].mark
      BY <1>1, <1>18 DEF Grows
    <2> QED BY <2>1, <2>2, <2>3, <2>4, <2>5, <2>6 DEF Placed
  <1>23. \A j \in 1 .. Len(Rest) + 1 : /\ Under(Rest, Me, j) \in DOMAIN hist /\ F(Under(Rest, Me, j)) <= F(Me)
                                       /\ hist'[Under(Rest, Me, j)] = hist[Under(Rest, Me, j)]
    <2> SUFFICES ASSUME NEW j \in 1 .. Len(Rest) + 1
                 PROVE  /\ Under(Rest, Me, j) \in DOMAIN hist /\ F(Under(Rest, Me, j)) <= F(Me)
                        /\ hist'[Under(Rest, Me, j)] = hist[Under(Rest, Me, j)]
      OBVIOUS
    <2> DEFINE u == Under(Rest, Me, j)
    <2>1. u \in DOMAIN hist
      BY <1>1, StackFacts
    <2>2. CASE j = 1
      BY <2>1, <2>2, <1>1, <1>4, <1>18 DEF Under
    <2>3. CASE j # 1
      <3>1. Under(Rest, Me, 1) = Me /\ 1 \in 1 .. Len(Rest) + 1 /\ 1 < j
        BY <2>3, <1>6 DEF Under
      <3>2. F(u) < F(Me)
        BY <3>1, <1>3 DEF Path
      <3>3. u # k \/ port = "beta"
        <4>1. j - 1 \in DOMAIN Rest /\ u = Rest[j - 1].box
          BY <2>3, <1>6 DEF Under
        <4> QED BY <4>1, <1>6 DEF OnStack
      <3> QED BY <2>1, <3>2, <3>3, <1>1, <1>4, <1>7
    <2> QED BY <2>2, <2>3
  <1>24. ASSUME NEW j \in DOMAIN Rest
         PROVE  Placed(bs, hist', open', Rest[j], hist'[Under(Rest, Me, j)].from)
    <2> DEFINE g == Rest[j]
               u == Under(Rest, Me, j)
               l == boxes[g.box].kids[1]
    <2>1. /\ g.box \in DOMAIN boxes /\ g.box # Me /\ g.box # k /\ Fits(boxes, g, u)
          /\ Placed(boxes, hist, open, g, F(u)) /\ hist'[u].from = F(u) /\ F(u) \in Nat
      <3>1. j \in 1 .. Len(Rest) + 1
        BY <1>6
      <3>2. OnStack(Rest, g.box)
        BY DEF OnStack
      <3>3. g.box \in DOMAIN boxes /\ g.box # Me
        BY <1>1, StackFacts
      <3> QED BY <3>1, <3>2, <3>3, <1>1, <1>3, <1>4, <1>6, <1>23 DEF Stacked, Path
    <2> HIDE DEF g, u
    <2>2. hist'[g.box] = hist[g.box] /\ bs[g.box].kids = boxes[g.box].kids /\ bs[g.box].mark = boxes[g.box].mark
          /\ bs[g.box].fn = boxes[g.box].fn
      BY <2>1, <1>1, <1>7 DEF Grows
    <2>3. \A a \in DOMAIN boxes[g.box].kids : boxes[g.box].kids[a] \in DOMAIN hist /\ boxes[g.box].kids[a] # k
      BY <2>1, <2>2, <1>1, <1>5, <1>16 DEF Tree
    <2>4. g.at = "right" => 1 \in DOMAIN boxes[g.box].kids
      BY <2>1, <1>1 DEF Fits, FnAt, Shaped, Width
    <2>5. g.at \in {"left", "first", "again"} => 2 \in DOMAIN boxes[g.box].kids
      BY <2>1, <1>1 DEF Fits, FnAt, Shaped, Width
    <2>6. g.at = "right" => l \in DOMAIN hist /\ l # k
      BY <2>3, <2>4
    <2> HIDE DEF l
    <2>7. Until(bs, hist', g) = Until(boxes, hist, g)
      BY <2>1, <2>2, <2>6, <1>1, <1>7 DEF Until, l
    <2>8. IsOpen(open', hist', g.box)
      BY <2>1, <1>1, <1>5, <1>12 DEF Placed
    <2>9. ASSUME g.at = "right" PROVE Covers(hist', open', l, hist'[g.box].from + 1, Until(bs, hist', g))
      BY <2>1, <2>2, <2>6, <2>7, <2>9, <1>20 DEF Placed, l
    <2>10. ASSUME g.at \in {"left", "first", "again"} PROVE ~ IsOpen(open', hist', boxes[g.box].kids[2])
      BY <2>1, <2>3, <2>5, <2>10, <1>1, <1>5, <1>12 DEF Placed
    <2>11. boxes[g.box].fn \in {"choice", "not"} => boxes[g.box].mark = hist[g.box].mark
      BY <2>1 DEF Placed
    <2>12. F(u) = Until(boxes, hist, g) + 1
      BY <2>1 DEF Placed
    <2> QED BY <2>1, <2>2, <2>7, <2>8, <2>9, <2>10, <2>11, <2>12 DEF Placed, g, u, l
  <1>25. Under(fs, k, 1) = k /\ \A i \in 2 .. Len(Rest) + 2 : Under(fs, k, i) = Under(Rest, Me, i - 1)
    <2> SUFFICES ASSUME NEW i \in 2 .. Len(Rest) + 2 PROVE Under(fs, k, i) = Under(Rest, Me, i - 1)
      BY DEF Under
    <2>1. CASE i = 2
      BY <2>1, <1>6 DEF Under
    <2>2. CASE i # 2
      <3>1. fs[i - 1] = Rest[i - 2] /\ i # 1 /\ i - 1 # 1 /\ i - 1 - 1 = i - 2
        BY <2>2, <1>6
      <3> QED BY <3>1 DEF Under
    <2> QED BY <2>1, <2>2
  <1>26. Path(boxes, hist, open, calls, ctl.box)'
    <2>1. ASSUME NEW i \in 1 .. Len(fs) + 1, NEW j \in 1 .. Len(fs) + 1, i < j
          PROVE  hist'[Under(fs, k, j)].from < hist'[Under(fs, k, i)].from
      <3>1. j \in 2 .. Len(Rest) + 2 /\ j - 1 \in 1 .. Len(Rest) + 1 /\ Under(fs, k, j) = Under(Rest, Me, j - 1)
        BY <2>1, <1>6, <1>25
      <3>2. hist'[Under(fs, k, j)] = hist[Under(Rest, Me, j - 1)] /\ F(Under(Rest, Me, j - 1)) <= F(Me)
            /\ F(Under(Rest, Me, j - 1)) \in Nat
        BY <3>1, <1>4, <1>23
      <3>3. CASE i = 1
        BY <3>2, <3>3, <1>4, <1>18, <1>25
      <3>4. CASE i # 1
        <4>1. i \in 2 .. Len(Rest) + 2 /\ i - 1 \in 1 .. Len(Rest) + 1 /\ Under(fs, k, i) = Under(Rest, Me, i - 1)
              /\ i - 1 < j - 1
          BY <2>1, <3>4, <1>6, <1>25
        <4>2. hist'[Under(fs, k, i)] = hist[Under(Rest, Me, i - 1)]
          BY <4>1, <1>23
        <4>3. F(Under(Rest, Me, j - 1)) < F(Under(Rest, Me, i - 1))
          BY <3>1, <4>1, <1>3 DEF Path
        <4> QED BY <3>2, <4>2, <4>3
      <3> QED BY <3>3, <3>4
    <2>2. ASSUME NEW j \in DOMAIN fs PROVE Placed(bs, hist', open', fs[j], hist'[Under(fs, k, j)].from)
      <3>1. CASE j = 1
        BY <3>1, <1>6, <1>22, <1>25
      <3>2. CASE j # 1
        <4>1. j - 1 \in DOMAIN Rest /\ fs[j] = Rest[j - 1] /\ j \in 2 .. Len(Rest) + 2
          BY <3>2, <1>6
        <4> QED BY <4>1, <1>24, <1>25
      <3> QED BY <3>1, <3>2
    <2> QED BY <2>1, <2>2, <1>2 DEF Path, fs
  (* the boxes at rest *)
  <1>27. \A i \in DOMAIN bs : Resting(hist', open', fs, i) =>
           i \in DOMAIN hist /\ Aside(hist, open, Rest, Me, i) /\ hist'[i] = hist[i] /\ (i # k \/ port = "beta")
    <2> SUFFICES ASSUME NEW i \in DOMAIN bs, Resting(hist', open', fs, i)
                 PROVE  /\ i \in DOMAIN hist /\ Aside(hist, open, Rest, Me, i) /\ hist'[i] = hist[i]
                        /\ i # k \/ port = "beta"
      OBVIOUS
    <2>1. hist'[i].exit = "gamma" /\ IsOpen(open', hist', i) /\ i # Me /\ ~ OnStack(Rest, i)
      BY <1>6 DEF Resting
    <2>2. i # k \/ port = "beta"
      BY <2>1, <1>9
    <2>3. IsOpen(open, hist, i)
      BY <2>1, <2>2, <1>12 DEF Resumes
    <2>4. i \in DOMAIN hist /\ hist'[i] = hist[i]
      BY <2>2, <2>3, <1>7, <1>12
    <2> QED BY <2>1, <2>2, <2>3, <2>4 DEF Resting, Aside
  <1>28. ASSUME NEW i \in DOMAIN hist, Aside(hist, open, Rest, Me, i), hist'[i] = hist[i]
         PROVE  Spanned(bs, hist', open', i)
    <2> DEFINE l == boxes[i].kids[1]
               r == boxes[i].kids[2]
    <2>1. Spanned(boxes, hist, open, i) /\ i # Me
      BY <1>28, <1>3 DEF Aside
    <2>2. bs[i].kids = boxes[i].kids /\ bs[i].fn = boxes[i].fn /\ bs[i].phase = boxes[i].phase
          /\ bs[i].fired = boxes[i].fired /\ bs[i].mark = boxes[i].mark
      BY <2>1, <1>1 DEF Grows
    <2>3. \A a \in DOMAIN boxes[i].kids : boxes[i].kids[a] \in DOMAIN hist /\ boxes[i].kids[a] # k
      BY <2>1, <2>2, <1>1, <1>5, <1>16 DEF Tree
    <2>4. boxes[i].fn \in {"cat", "alt"} => 1 \in DOMAIN boxes[i].kids /\ 2 \in DOMAIN boxes[i].kids
      BY <1>1 DEF Shaped, Width
    <2>5. boxes[i].fn \in {"deferred", "choice"} => 1 \in DOMAIN boxes[i].kids
      <3>1. hist[i].exit = "gamma" /\ ~ OnStack(calls, i)
        BY <1>28, MyStack DEF Aside, Resting
      <3> QED BY <3>1, <1>1 DEF IInv, Settled, Rests
    <2>6. /\ boxes[i].fn \in {"cat", "alt", "deferred", "choice"} => l \in DOMAIN hist /\ l # k
          /\ boxes[i].fn \in {"cat", "alt"} => r \in DOMAIN hist /\ r # k
      BY <2>3, <2>4, <2>5
    <2>7. F(i) <= T(i) /\ T(i) <= Len(open')
      BY <2>1, <1>1, <1>4, <1>10 DEF Spanned
    <2> HIDE DEF l, r
    <2>8. ASSUME boxes[i].fn = "cat"
          PROVE  Covers(hist', open', l, F(i) + 1, hist'[l].to) /\ Covers(hist', open', r, hist'[l].to + 1, T(i))
      <3>1. Covers(hist, open, l, F(i) + 1, T(l)) /\ Covers(hist, open, r, T(l) + 1, T(i))
        BY <2>1, <2>8 DEF Spanned, l, r
      <3>2. hist'[l] = hist[l]
        BY <2>6, <2>8, <1>7
      <3> QED BY <3>1, <3>2, <2>6, <2>8, <1>20
    <2>9. ASSUME boxes[i].fn = "alt", boxes[i].phase = 0
          PROVE  Covers(hist', open', l, F(i) + 1, T(i)) /\ ~ IsOpen(open', hist', r)
      <3>1. Covers(hist, open, l, F(i) + 1, T(i)) /\ ~ IsOpen(open, hist, r)
        BY <2>1, <2>9 DEF Spanned, l, r
      <3> QED BY <3>1, <2>6, <2>9, <1>1, <1>5, <1>12, <1>20
    <2>10. ASSUME boxes[i].fn = "alt", boxes[i].phase = 2
           PROVE  Covers(hist', open', r, F(i) + 1, T(i))
      <3>1. Covers(hist, open, r, F(i) + 1, T(i))
        BY <2>1, <2>10 DEF Spanned, r
      <3> QED BY <3>1, <2>6, <2>10, <1>20
    <2>11. ASSUME boxes[i].fn \in {"deferred", "choice"}
           PROVE  Covers(hist', open', l, F(i) + 1, T(i))
      <3>1. Covers(hist, open, l, F(i) + 1, T(i))
        BY <2>1, <2>11 DEF Spanned, l
      <3> QED BY <3>1, <2>6, <2>11, <1>20
    <2>12. /\ boxes[i].fn \in {"head", "unify"} => boxes[i].fired
           /\ boxes[i].fn \in {"head", "unify", "choice"} => boxes[i].mark = hist[i].mark
      BY <2>1 DEF Spanned
    <2> QED BY <1>28, <2>2, <2>7, <2>8, <2>9, <2>10, <2>11, <2>12 DEF Spanned, l, r
  <1>29. InOrder(boxes, hist, open, calls)'
    <2>1. ASSUME NEW i \in DOMAIN bs, Resting(hist', open', fs, i) PROVE Spanned(bs, hist', open', i)
      BY <2>1, <1>27, <1>28
    <2>2. ASSUME NEW i \in DOMAIN bs, NEW j \in DOMAIN bs,
                 Resting(hist', open', fs, i), Resting(hist', open', fs, j), hist'[i].from < hist'[j].from
          PROVE  hist'[i].to < hist'[j].from \/ hist'[j].to <= hist'[i].to
      BY <2>2, <1>3, <1>27
    <2> QED BY <2>1, <2>2, <1>2, <1>7 DEF InOrder, fs
  <1>30. (\A j \in DOMAIN calls : Apart(hist, open, calls, calls[j].box))'
    <2> SUFFICES ASSUME NEW j \in DOMAIN fs, NEW i \in DOMAIN bs, Resting(hist', open', fs, i),
                        hist'[i].from < hist'[fs[j].box].from
                 PROVE  hist'[i].to < hist'[fs[j].box].from
      BY <1>2, <1>7 DEF Apart, fs
    <2>1. i \in DOMAIN hist /\ Aside(hist, open, Rest, Me, i) /\ hist'[i] = hist[i]
      BY <1>27
    <2>2. CASE j = 1
      BY <2>1, <2>2, <1>3, <1>6, <1>18
    <2>3. CASE j # 1
      <3>1. j - 1 \in DOMAIN Rest /\ fs[j] = Rest[j - 1] /\ j \in 1 .. Len(Rest) + 1
            /\ Under(Rest, Me, j) = Rest[j - 1].box
        BY <2>3, <1>6 DEF Under
      <3>2. hist'[fs[j].box] = hist[Rest[j - 1].box]
        BY <3>1, <1>23
      <3> QED BY <3>1, <3>2, <2>1, <1>3
    <2> QED BY <2>2, <2>3
  <1>31. OpenPort'
    <2>1. IsOpen(open', hist', k)
      BY <1>6, <1>12
    <2>2. ASSUME NEW i \in DOMAIN bs, Resting(hist', open', fs, i), hist'[i].from < hist'[k].from
          PROVE  hist'[i].to < hist'[k].from
      <3>1. i \in DOMAIN hist /\ Aside(hist, open, Rest, Me, i) /\ hist'[i] = hist[i]
        BY <2>2, <1>27
      <3>2. CASE port = "alpha"
        <4>1. T(i) <= Len(open) /\ T(i) \in Nat
          BY <3>1, <1>3, <1>4 DEF Spanned
        <4> QED BY <3>1, <3>2, <4>1, <1>4, <1>9
      <3>3. CASE port = "beta"
        <4>1. hist'[k] = hist[k]
          BY <3>3, <1>1, <1>7 DEF Resumes
        <4> QED BY <3>1, <3>3, <4>1, <2>2 DEF Resumes
      <3> QED BY <3>2, <3>3
    <2>3. Apart(hist', open', fs, k)
      BY <2>2, <1>7 DEF Apart
    <2>4. CASE port = "alpha"
      BY <2>1, <2>3, <2>4, <1>2, <1>9, <1>10 DEF OpenPort, Entered, fs
    <2>5. CASE port = "beta"
      <3>1. hist'[k].to = Len(open')
        BY <2>5, <1>1, <1>7, <1>10 DEF Resumes
      <3> QED BY <2>1, <2>3, <2>5, <3>1, <1>2 DEF OpenPort, Entered, fs
    <2> QED BY <2>4, <2>5
  <1> QED BY <1>14, <1>15, <1>19, <1>26, <1>29, <1>30, <1>31 DEF OInv

-----------------------------------------------------------------------------
(* What a box finds at its ports                                                *)

LEMMA KeptPrefix ==
  ASSUME NEW h, NEW op, NEW hs, Kept(h, op, hs), IsSeq(op), NEW n \in 0 .. Len(op)
  PROVE  Kept(h, SubSeq(op, 1, n), hs)
  <1>1. Len(op) \in Nat /\ DOMAIN op = 1 .. Len(op)
    BY SeqFacts
  <1> DEFINE s == SubSeq(op, 1, n)
  <1>2. DOMAIN s = 1 .. n /\ \A i \in 1 .. n : s[i] = op[i] /\ i \in DOMAIN op
    BY <1>1, PrefixIs
  <1>3. \A i \in DOMAIN op : Recalled(h, hs[op[i]])
    BY DEF Kept
  <1>4. \A i, j \in DOMAIN op : i <= j => hs[op[i]].mark <= hs[op[j]].mark
    BY DEF Kept
  <1>5. IsHeap(h)
    BY DEF Kept
  <1> HIDE DEF s
  <1>6. \A i \in DOMAIN s : Recalled(h, hs[s[i]])
    BY <1>2, <1>3
  <1>7. ASSUME NEW i \in DOMAIN s, NEW j \in DOMAIN s, i <= j PROVE hs[s[i]].mark <= hs[s[j]].mark
    BY <1>2, <1>4, <1>7
  <1>8. Kept(h, s, hs)
    BY <1>5, <1>6, <1>7 DEF Kept
  <1> QED BY <1>8 DEF s

LEMMA AtAlpha ==
  ASSUME IInv, OInv, ctl.port = "alpha"
  PROVE  /\ Entered /\ Me = ctl.box
         /\ hist[Me].from = Len(open) /\ hist[Me].mark = Len(heap.trail)
         /\ \A a \in DOMAIN boxes[Me].kids : ~ IsOpen(open, hist, boxes[Me].kids[a])
  <1>1. Entered /\ Me = ctl.box
    BY DEF Entered, Me
  <1>2. hist[Me].from = Len(open) /\ hist[Me].mark = Len(heap.trail) /\ KidsAfter(boxes, hist, open)
        /\ Listed(open, hist)
    BY <1>1 DEF OInv, OpenPort
  <1>3. Me \in DOMAIN boxes
    BY <1>1, MyStack
  <1> QED BY <1>1, <1>2, <1>3, OpenFacts DEF KidsAfter

LEMMA AtBeta ==
  ASSUME IInv, OInv, ctl.port = "beta"
  PROVE  /\ Entered /\ Me = ctl.box /\ hist[Me].to = Len(open)
         /\ Spanned(boxes, hist, open, Me) /\ Rests(boxes, hist, Me)
         /\ \A i \in DOMAIN hist : Resting(hist, open, calls, i) => Spanned(boxes, hist, open, i)
         /\ \A i, j \in DOMAIN hist : Resting(hist, open, calls, i) /\ Resting(hist, open, calls, j)
                                      /\ hist[i].from < hist[j].from
                                      => hist[i].to < hist[j].from \/ hist[j].to <= hist[i].to
  <1>1. Entered /\ Me = ctl.box /\ Rests(boxes, hist, Me)
    BY BetaRests
  <1>2. /\ hist[Me].to = Len(open) /\ InOrder(boxes, hist, open, calls) /\ hist[Me].exit = "gamma"
        /\ IsOpen(open, hist, Me)
    BY <1>1 DEF OInv, OpenPort, IInv, PortOK
  <1>3. Me \in DOMAIN hist /\ ~ OnStack(calls, Me)
    BY <1>1, StackFacts DEF IInv, HistOK
  <1> QED BY <1>1, <1>2, <1>3 DEF InOrder, Resting

LEMMA UntilNat ==
  ASSUME Listed(open, hist), NEW f, NEW m, Placed(boxes, hist, open, f, m)
  PROVE  Until(boxes, hist, f) \in Nat
  <1> DEFINE n == Until(boxes, hist, f)
             l == boxes[f.box].kids[1]
  <1>1. CASE f.at = "right"
    <2>1. Covers(hist, open, l, hist[f.box].from + 1, n)
      BY <1>1 DEF Placed
    <2> HIDE DEF l, n
    <2>2. IsOpen(open, hist, l) /\ hist[l].to = n
      BY <2>1 DEF Covers
    <2>3. n \in Nat
      BY <2>2, OpenFacts
    <2> QED BY <2>3 DEF n
  <1>2. CASE f.at # "right"
    <2>1. IsOpen(open, hist, f.box) /\ n = hist[f.box].from
      BY <1>2 DEF Placed, Until
    <2> QED BY <2>1, OpenFacts
  <1> QED BY <1>1, <1>2

LEMMA AtGamma ==
  ASSUME IInv, OInv, calls # <<>>, ctl.port = "gamma"
  PROVE  LET n == Until(boxes, hist, Head(calls))
         IN Covers(hist, open, ctl.box, n + 1, Len(open)) /\ n \in Nat
  <1>1. ~ Entered
    BY DEF Entered
  <1>2. /\ IsOpen(open, hist, ctl.box) /\ hist[ctl.box].to = Len(open) /\ Listed(open, hist)
    BY DEF OInv, OpenPort
  <1>3. Placed(boxes, hist, open, Head(calls), hist[ctl.box].from)
    BY <1>1, MyOpen
  <1> DEFINE n == Until(boxes, hist, Head(calls))
  <1>4. hist[ctl.box].from = n + 1 /\ hist[ctl.box].from \in 1 .. Len(open)
    BY <1>2, <1>3, OpenFacts DEF Placed
  <1>5. n \in Nat
    BY <1>2, <1>3, UntilNat
  <1> HIDE DEF n
  <1>6. Covers(hist, open, ctl.box, n + 1, Len(open))
    BY <1>2, <1>4 DEF Covers
  <1> QED BY <1>5, <1>6 DEF n

LEMMA AtOmega ==
  ASSUME IInv, OInv, calls # <<>>, ctl.port = "omega"
  PROVE  Until(boxes, hist, Head(calls)) = Len(open) /\ ~ IsOpen(open, hist, ctl.box)
  <1>1. ~ Entered
    BY DEF Entered
  <1>2. hist[ctl.box].from = Len(open) + 1 /\ Listed(open, hist)
    BY DEF OInv, OpenPort
  <1>3. Placed(boxes, hist, open, Head(calls), hist[ctl.box].from)
    BY <1>1, MyOpen
  <1> DEFINE n == Until(boxes, hist, Head(calls))
  <1>4. Len(open) + 1 = n + 1 /\ Len(open) \in Nat
    BY <1>2, <1>3, OpenFacts DEF Placed
  <1>5. n \in Nat
    BY <1>2, <1>3, UntilNat
  <1> HIDE DEF n
  <1>6. n = Len(open)
    BY <1>4, <1>5
  <1> QED BY <1>2, <1>4, <1>6, OpenFacts DEF n, IsOpen

(* What was made and bound since the box was entered, it may unwind.            *)
LEMMA UnwindMine ==
  ASSUME IInv, OInv, Entered \/ calls # <<>>
  PROVE  LET u == trail_unwind(heap, hist[Me].mark)
         IN /\ Kept(u, SubSeq(open, 1, hist[Me].from - 1), hist)
            /\ hist[Me].from = Len(open) => Kept(u, open, hist)
            /\ Undone(u, hist[Me])
            /\ Kept(heap, SubSeq(open, 1, hist[Me].from - 1), hist)
  <1> DEFINE m == hist[Me].mark
             p == hist[Me].from
             u == trail_unwind(heap, m)
  <1>1. Kept(heap, open, hist) /\ IsOpen(open, hist, Me) /\ Listed(open, hist)
    BY MyOpen
  <1>2. /\ IsSeq(open) /\ Len(open) \in Nat /\ DOMAIN open = 1 .. Len(open) /\ p \in 1 .. Len(open) /\ open[p] = Me
    BY <1>1, OpenFacts DEF IsOpen
  <1>3. IsHeap(heap) /\ Recalled(heap, hist[Me])
    BY <1>1, <1>2 DEF Kept
  <1>4. m \in Nat /\ m <= Len(heap.trail)
    BY <1>3, HeapFacts DEF Recalled
  <1>5. Undone(u, hist[Me])
    BY <1>3, UnwindUndoes
  <1>6. ASSUME NEW n \in 0 .. Len(open), n <= p PROVE Kept(u, SubSeq(open, 1, n), hist)
    <2> DEFINE s == SubSeq(open, 1, n)
    <2>1. Kept(heap, s, hist)
      BY <1>1, <1>2, KeptPrefix
    <2>2. DOMAIN s = 1 .. n /\ \A i \in 1 .. n : s[i] = open[i] /\ i \in DOMAIN open /\ i <= p
      BY <1>2, <1>6, PrefixIs
    <2>3. \A i \in DOMAIN s : hist[s[i]].mark <= m
      BY <1>1, <1>2, <2>2 DEF Kept
    <2> HIDE DEF s
    <2> QED BY <1>4, <2>1, <2>3, KeptUnwinds DEF s
  <1>7. p - 1 \in 0 .. Len(open) /\ p - 1 <= p
    BY <1>2
  <1>8. Kept(heap, SubSeq(open, 1, p - 1), hist)
    BY <1>1, <1>2, <1>7, KeptPrefix
  <1>9. ASSUME p = Len(open) PROVE Kept(u, open, hist)
    <2>1. \A i \in DOMAIN open : hist[open[i]].mark <= m
      BY <1>1, <1>2, <1>9 DEF Kept
    <2> QED BY <1>1, <1>4, <2>1, KeptUnwinds
  <1>10. Kept(u, SubSeq(open, 1, p - 1), hist)
    BY <1>6, <1>7
  <1> QED BY <1>5, <1>8, <1>9, <1>10

LEMMA UnwindMade ==
  ASSUME IInv, OInv, ctl.port = "alpha", NEW h, NEW g, Makes(heap, h), Binds(h, g)
  PROVE  LET u == trail_unwind(g, Len(heap.trail))
         IN /\ Kept(h, open, hist) /\ Kept(g, open, hist) /\ Kept(u, open, hist) /\ Undone(u, hist[Me])
            /\ h.trail = heap.trail
  <1>1. /\ Kept(heap, open, hist) /\ IsOpen(open, hist, Me) /\ Listed(open, hist)
        /\ hist[Me].mark = Len(heap.trail)
    BY AtAlpha, MyOpen
  <1>2. IsHeap(heap) /\ Binds(heap, h) /\ h.trail = heap.trail
    BY <1>1 DEF Kept, Makes
  <1>3. Kept(h, open, hist) /\ Kept(g, open, hist)
    BY <1>1, <1>2, KeptBinds
  <1>4. IsHeap(g) /\ Recalled(g, hist[Me]) /\ \A n \in DOMAIN open : Recalled(heap, hist[open[n]])
    BY <1>1, <1>3 DEF Kept, IsOpen
  <1>5. Undone(trail_unwind(g, Len(heap.trail)), hist[Me])
    BY <1>1, <1>4, UnwindUndoes
  <1>6. Len(heap.trail) \in Nat /\ Len(heap.trail) <= Len(g.trail)
    BY <1>2, HeapFacts DEF Binds
  <1>7. \A n \in DOMAIN open : hist[open[n]].mark <= Len(heap.trail)
    BY <1>4, <1>6 DEF Recalled
  <1>8. Kept(trail_unwind(g, Len(heap.trail)), open, hist)
    BY <1>3, <1>6, <1>7, KeptUnwinds
  <1> QED BY <1>2, <1>3, <1>5, <1>8

(* A box that covers the last of the open boxes may be resumed.                 *)
LEMMA MayResume ==
  ASSUME IInv, OInv, Entered \/ calls # <<>>,
         NEW k, Covers(hist, open, k, hist[Me].from + 1, Len(open)), hist[k].exit = "gamma"
  PROVE  Resumes(k)
  <1>1. Listed(open, hist) /\ IsOpen(open, hist, Me) /\ DOMAIN hist = DOMAIN boxes
    BY MyOpen DEF IInv, HistOK
  <1>2. IsOpen(open, hist, k) /\ hist[k].from = hist[Me].from + 1 /\ hist[k].to = Len(open)
        /\ k \in DOMAIN boxes /\ hist[Me].from \in Nat /\ Me \in DOMAIN hist
    BY <1>1, OpenFacts DEF Covers
  <1>3. ASSUME NEW i \in DOMAIN hist, Aside(hist, open, Rest, Me, i), hist[i].from < hist[k].from
        PROVE  hist[i].to < hist[k].from
    <2>1. IsOpen(open, hist, i) /\ i # Me
      BY <1>3 DEF Aside, Resting
    <2>2. hist[i].from # hist[Me].from /\ hist[i].from \in Nat /\ hist[i].to \in Nat
      BY <2>1, <1>1, OpenFacts
    <2>3. hist[i].from < hist[Me].from
      BY <2>2, <1>2, <1>3
    <2>4. hist[i].to < hist[Me].from
      BY <2>3, <1>3, MyOpen
    <2> QED BY <2>2, <2>4, <1>2
  <1> QED BY <1>2, <1>3 DEF Resumes

(* The boxes that the children of Me cover, when Me itself succeeds.            *)
LEMMA CoversMine ==
  ASSUME IInv, OInv, Entered \/ calls # <<>>, NEW port, NEW bs, NEW h, Leave(port, bs, h),
         NEW q, NEW m, NEW n, Covers(hist, open, q, m, n), m > hist[Me].from
  PROVE  Covers(hist', open, q, m, n) /\ hist'[q] = hist[q]
  <1>1. Listed(open, hist) /\ IsOpen(open, hist, Me)
    BY MyOpen
  <1>2. q \in DOMAIN hist /\ q # Me
    BY <1>1, OpenFacts DEF Covers
  <1>3. hist'[q] = hist[q]
    BY <1>2, LeaveHist
  <1> QED BY <1>3 DEF Covers, IsOpen

(* Where the boxes end that are entered before the child at place at.           *)
Since(at, n) == n = IF at = "right" THEN hist[boxes[Me].kids[1]].to ELSE hist[Me].from

(* Me calls one of its children.                                               *)
LEMMA CallOpen ==
  ASSUME IInv, IInv', OInv, Entered \/ calls # <<>>,
         NEW port \in {"alpha", "beta"}, NEW at \in Place \ {"not", "clause"}, NEW k,
         Call(k, port, at), Child(at, k), NEW n, Since(at, n),
         port = "alpha" => ~ IsOpen(open, hist, k) /\ Len(open) = n,
         port = "beta"  => Resumes(k) /\ hist[k].from = n + 1,
         at = "right" => Covers(hist, open, boxes[Me].kids[1], hist[Me].from + 1, n),
         at \in {"left", "first", "again"} => ~ IsOpen(open, hist, boxes[Me].kids[2]),
         boxes[Me].fn = "choice" => boxes[Me].mark = hist[Me].mark
  PROVE  OInv'
  <1> DEFINE f == [box |-> Me, at |-> at, saved |-> 0]
  <1>1. Enter(k, port, f, boxes, heap) /\ f.box = Me /\ f.at = at
    BY DEF Call
  <1>2. Struct(boxes) /\ Grows(boxes, boxes, Me) /\ Me \in DOMAIN boxes
    BY MyStack DEF IInv, Grows
  <1>3. k \in DOMAIN boxes \ {1} /\ Fits(boxes, f, k)
    BY <1>1, <1>2 DEF Child, Struct, Tree, Fits
  <1> HIDE DEF f
  <1>4. Until(boxes, hist, f) = n
    BY <1>1 DEF Since, Until
  <1>5. boxes[Me].fn # "not"
    BY DEF Child, FnAt
  <1>6. Kept(heap, open, hist)
    BY MyOpen
  <1> QED BY <1>1, <1>2, <1>3, <1>4, <1>5, <1>6, EnterOpen

(* The calls of a first child, of the right goal of a conjunction, and of a     *)
(* child that succeeded and is entered again.                                  *)
LEMMA CallFirstOpen ==
  ASSUME IInv, IInv', OInv, Entered \/ calls # <<>>, NEW at \in {"left", "first"},
         Call(boxes[Me].kids[1], "alpha", at), boxes[Me].fn = FnAt(at), DOMAIN boxes[Me].kids = 1 .. 2,
         Len(open) = hist[Me].from,
         ~ IsOpen(open, hist, boxes[Me].kids[1]), ~ IsOpen(open, hist, boxes[Me].kids[2])
  PROVE  OInv'
  <1> DEFINE k == boxes[Me].kids[1]
             n == hist[Me].from
  <1>1. at \in Place \ {"not", "clause"} /\ at # "right" /\ Slot(at) = 1 /\ boxes[Me].fn # "choice"
    BY DEF Place, Slot, FnAt
  <1>2. Child(at, k) /\ Since(at, n) /\ ~ IsOpen(open, hist, k) /\ Len(open) = n /\ Call(k, "alpha", at)
    BY <1>1 DEF Child, Since
  <1> HIDE DEF k, n
  <1> QED BY <1>1, <1>2, CallOpen

LEMMA CallRightOpen ==
  ASSUME IInv, IInv', OInv, Entered \/ calls # <<>>, NEW port \in {"alpha", "beta"},
         Call(boxes[Me].kids[2], port, "right"), boxes[Me].fn = "cat", DOMAIN boxes[Me].kids = 1 .. 2,
         NEW n, n = hist[boxes[Me].kids[1]].to,
         Covers(hist, open, boxes[Me].kids[1], hist[Me].from + 1, n),
         port = "alpha" => ~ IsOpen(open, hist, boxes[Me].kids[2]) /\ Len(open) = n,
         port = "beta"  => Resumes(boxes[Me].kids[2]) /\ hist[boxes[Me].kids[2]].from = n + 1
  PROVE  OInv'
  <1> DEFINE k  == boxes[Me].kids[2]
             at == "right"
  <1>1. at \in Place \ {"not", "clause"} /\ at \notin {"left", "first", "again"} /\ boxes[Me].fn # "choice"
    BY DEF Place
  <1>2. Child(at, k) /\ Since(at, n) /\ Call(k, port, at)
    BY DEF Child, Since, Slot, FnAt
  <1>3. /\ port = "alpha" => ~ IsOpen(open, hist, k) /\ Len(open) = n
        /\ port = "beta"  => Resumes(k) /\ hist[k].from = n + 1
    OBVIOUS
  <1> HIDE DEF k, at
  <1> QED BY <1>1, <1>2, <1>3, CallOpen

LEMMA CallAgainOpen ==
  ASSUME IInv, IInv', OInv, Entered \/ calls # <<>>, NEW at \in Place \ {"not", "clause", "right"},
         NEW k, Call(k, "beta", at), Child(at, k), Resumes(k), hist[k].from = hist[Me].from + 1,
         at \in {"left", "first", "again"} => ~ IsOpen(open, hist, boxes[Me].kids[2]),
         boxes[Me].fn = "choice" => boxes[Me].mark = hist[Me].mark
  PROVE  OInv'
  <1> DEFINE n == hist[Me].from
  <1>1. at \in Place \ {"not", "clause"} /\ at # "right"
    OBVIOUS
  <1>2. hist[k].from = n + 1 /\ Since(at, n)
    BY DEF Since
  <1> HIDE DEF n
  <1> QED BY <1>1, <1>2, CallOpen

(* Me returns, and leaves the boxes and the bindings as they are.               *)
LEMMA ExitOpen ==
  ASSUME IInv, OInv, Entered \/ calls # <<>>,
         NEW port \in {"gamma", "omega"}, Leave(port, boxes, heap),
         port = "gamma" => Spanned(boxes, hist', open, Me) /\ boxes[Me].fn # "not",
         port = "omega" => boxes[Me].fn \notin {"choice", "head", "unify"}
  PROVE  OInv'
  <1>1. Same(boxes, boxes, Me)
    BY DEF IInv, Struct, Shaped, Same
  <1>2. Kept(heap, open, hist) /\ Kept(heap, SubSeq(open, 1, hist[Me].from - 1), hist)
    BY MyOpen, UnwindMine
  <1> QED BY <1>1, <1>2, LeaveOpen

(* A box that rests on nothing.                                                *)
LEMMA SpannedLeaf ==
  ASSUME IInv, OInv, Entered \/ calls # <<>>, NEW port, NEW bs, NEW h, Leave(port, bs, h),
         bs[Me].fn \in {"true", "is", "not", "cut"}
  PROVE  Spanned(bs, hist', open, Me)
  <1>1. Listed(open, hist) /\ IsOpen(open, hist, Me)
    BY MyOpen
  <1>2. hist[Me].from <= Len(open) /\ Len(open) \in Nat
    BY <1>1, OpenFacts
  <1> QED BY <1>2, LeaveHist DEF Spanned

(* A unification has bound, and trailed, or has been undone.                    *)
LEMMA BindLeaves ==
  ASSUME IInv, OInv, ctl.port = "alpha", NEW h, NEW g, Makes(heap, h), Binds(h, g),
         NEW ok, NEW u, ok => u = g, ~ ok => u = trail_unwind(g, Len(heap.trail))
  PROVE  /\ Verdict(ok) \in {"gamma", "omega"} /\ (Verdict(ok) = "gamma" <=> ok)
         /\ Kept(u, IF Verdict(ok) = "gamma" THEN open ELSE SubSeq(open, 1, hist[Me].from - 1), hist)
         /\ Verdict(ok) = "omega" => Undone(u, hist[Me])
  <1>1. Kept(g, open, hist) /\ Kept(trail_unwind(g, Len(heap.trail)), open, hist)
        /\ Undone(trail_unwind(g, Len(heap.trail)), hist[Me])
    BY UnwindMade
  <1>2. Listed(open, hist) /\ IsOpen(open, hist, Me)
    BY AtAlpha, MyOpen
  <1>3. IsSeq(open) /\ hist[Me].from - 1 \in 0 .. Len(open)
    <2>1. IsSeq(open) /\ Len(open) \in Nat /\ hist[Me].from \in 1 .. Len(open)
      BY <1>2, OpenFacts
    <2> QED BY <2>1
  <1>4. CASE ok
    BY <1>1, <1>4 DEF Verdict
  <1>5. CASE ~ ok
    <2>1. Kept(u, SubSeq(open, 1, hist[Me].from - 1), hist)
      BY <1>1, <1>3, <1>5, KeptPrefix
    <2> QED BY <2>1, <1>1, <1>5 DEF Verdict
  <1> QED BY <1>4, <1>5

LEMMA UnifiedIs ==
  ASSUME NEW t1, NEW t2, NEW h
  PROVE  LET g == UnifyArgs(<<t1>>, <<t2>>, h).h
             r == Unified(t1, t2, h)
         IN (r.ok => r.h = g) /\ (~ r.ok => r.h = trail_unwind(g, Len(h.trail)))
  <1> DEFINE g == UnifyArgs(<<t1>>, <<t2>>, h)
  <1>1. Unified(t1, t2, h) = IF g.ok THEN g ELSE [ok |-> FALSE, h |-> trail_unwind(g.h, Len(h.trail))]
    BY DEF Unified, trail_mark
  <1> HIDE DEF g
  <1>2. CASE g.ok
    BY <1>1, <1>2 DEF g
  <1>3. CASE ~ g.ok
    BY <1>1, <1>3 DEF g
  <1> QED BY <1>2, <1>3

LEMMA LeafOpen ==
  ASSUME IInv, OInv, BindingsTrailed, TrueAlpha \/ FailAlpha \/ BuiltinAlpha \/ LeafBeta
  PROVE  OInv'
  <1>1. Entered /\ Me = ctl.box
    BY DEF TrueAlpha, FailAlpha, BuiltinAlpha, LeafBeta, EnteredAt, Entered, Me
  <1>2. CASE TrueAlpha
    <2>1. Leave("gamma", boxes, heap) /\ boxes[Me].fn = "true"
      BY <1>1, <1>2 DEF TrueAlpha, EnteredAt, Exit
    <2>2. Spanned(boxes, hist', open, Me)
      BY <2>1, <1>1, SpannedLeaf
    <2> QED BY <2>1, <2>2, <1>1, ExitOpen
  <1>3. CASE FailAlpha \/ LeafBeta
    <2>1. Leave("omega", boxes, heap) /\ boxes[Me].fn \notin {"choice", "head", "unify"}
      BY <1>1, <1>3 DEF FailAlpha, LeafBeta, EnteredAt, Exit
    <2> QED BY <2>1, <1>1, ExitOpen
  <1>4. CASE BuiltinAlpha
    <2> DEFINE ts == MakeTerms(My.goal.args, My.env, heap)
               r == Unified(ts.t[1], ts.t[2], ts.h)
               g == UnifyArgs(<<ts.t[1]>>, <<ts.t[2]>>, ts.h).h
    <2>1. ctl.port = "alpha" /\ boxes[Me].fn = "is" /\ Exits("alpha", {"is", "unify"})
      BY <1>1, <1>4 DEF BuiltinAlpha, EnteredAt, Exits
    <2>2. Leave(Verdict(r.ok), boxes, r.h)
      BY <1>4 DEF BuiltinAlpha
    <2>3. Makes(heap, ts.h) /\ Binds(ts.h, g)
      BY <2>1 DEF BindingsTrailed
    <2>4. (r.ok => r.h = g) /\ (~ r.ok => r.h = trail_unwind(g, Len(heap.trail)))
      <3>1. ts.h.trail = heap.trail
        BY <2>3 DEF Makes
      <3> HIDE DEF ts
      <3> QED BY <3>1, UnifiedIs
    <2> HIDE DEF ts, r, g
    <2>5. /\ Verdict(r.ok) \in {"gamma", "omega"}
          /\ Kept(r.h, IF Verdict(r.ok) = "gamma" THEN open ELSE SubSeq(open, 1, hist[Me].from - 1), hist)
      BY <2>1, <2>3, <2>4, BindLeaves
    <2>6. Same(boxes, boxes, Me)
      BY DEF IInv, Struct, Shaped, Same
    <2>7. Spanned(boxes, hist', open, Me)
      BY <2>1, <2>2, <1>1, SpannedLeaf
    <2> QED BY <2>1, <2>2, <2>5, <2>6, <2>7, <1>1, LeaveOpen
  <1> QED BY <1>2, <1>3, <1>4

(* A head or a unification that has succeeded.                                  *)
LEMMA SpannedUnify ==
  ASSUME IInv, OInv, Entered \/ calls # <<>>, NEW port, NEW bs, NEW h, Leave(port, bs, h),
         bs[Me].fn \in {"head", "unify"}, bs[Me].fired, bs[Me].mark = hist[Me].mark
  PROVE  Spanned(bs, hist', open, Me)
  <1>1. Listed(open, hist) /\ IsOpen(open, hist, Me)
    BY MyOpen
  <1>2. hist[Me].from <= Len(open) /\ Len(open) \in Nat
    BY <1>1, OpenFacts
  <1> QED BY <1>2, LeaveHist DEF Spanned

LEMMA UnifyOpen ==
  ASSUME IInv, OInv, BindingsTrailed, UnifyAlpha \/ HeadAlpha \/ UnifyBeta \/ CutAlpha
  PROVE  OInv'
  <1>1. Entered /\ Me = ctl.box
    BY ZenonT(30) DEF UnifyAlpha, HeadAlpha, UnifyBeta, CutAlpha, EnteredAt, Entered, Me
  <1>2. Struct(boxes) /\ Me \in DOMAIN boxes
    BY <1>1, MyKids DEF IInv
  <1>3. /\ "mark" \in DOMAIN boxes[Me] /\ "fired" \in DOMAIN boxes[Me] /\ "env" \in DOMAIN boxes[Me]
        /\ boxes[Me].ci \in Nat
    BY <1>2, FieldsIs
  <1>4. CASE UnifyAlpha
    <2> DEFINE ts == MakeTerms(My.goal.args, My.env, heap)
               r  == Unified(ts.t[1], ts.t[2], ts.h)
               g  == UnifyArgs(<<ts.t[1]>>, <<ts.t[2]>>, ts.h).h
               b  == [boxes[Me] EXCEPT !.mark = Len(heap.trail), !.fired = r.ok]
               bs == [boxes EXCEPT ![Me].mark = Len(heap.trail), ![Me].fired = r.ok]
    <2>1. ctl.port = "alpha" /\ boxes[Me].fn = "unify" /\ Exits("alpha", {"is", "unify"})
      BY ZenonT(30), <1>1, <1>4 DEF UnifyAlpha, EnteredAt, Exits
    <2>2. Leave(Verdict(r.ok), bs, r.h)
      BY ZenonT(30), <1>4 DEF UnifyAlpha, trail_mark
    <2>3. Makes(heap, ts.h) /\ Binds(ts.h, g)
      BY <2>1 DEF BindingsTrailed
    <2>4. (r.ok => r.h = g) /\ (~ r.ok => r.h = trail_unwind(g, Len(heap.trail)))
      <3>1. ts.h.trail = heap.trail
        BY <2>3 DEF Makes
      <3> HIDE DEF ts
      <3> QED BY <3>1, UnifiedIs
    <2> HIDE DEF ts, r, g
    <2>5. bs = [boxes EXCEPT ![Me] = b]
      BY <1>2, <1>3
    <2>6. /\ DOMAIN b = DOMAIN boxes[Me] /\ b.fn = boxes[Me].fn /\ b.kids = boxes[Me].kids
          /\ b.head = boxes[Me].head /\ b.ci = boxes[Me].ci /\ b.mark = Len(heap.trail) /\ b.fired = r.ok
      BY <1>3
    <2> HIDE DEF b, bs
    <2>7. /\ Same(boxes, bs, Me) /\ bs[Me] = b /\ \A i \in DOMAIN boxes : i # Me => bs[i].mark = boxes[i].mark
      BY <2>5, <2>6, <1>2, <1>3, PutSame
    <2>8. hist[Me].mark = Len(heap.trail)
      BY <2>1, AtAlpha
    <2>9. /\ Verdict(r.ok) \in {"gamma", "omega"} /\ (Verdict(r.ok) = "gamma" => r.ok)
          /\ Kept(r.h, IF Verdict(r.ok) = "gamma" THEN open ELSE SubSeq(open, 1, hist[Me].from - 1), hist)
          /\ Verdict(r.ok) = "omega" => Undone(r.h, hist[Me])
      BY <2>1, <2>3, <2>4, BindLeaves
    <2>10. Verdict(r.ok) = "gamma" => Spanned(bs, hist', open, Me)
      BY <2>1, <2>2, <2>6, <2>7, <2>8, <2>9, <1>1, SpannedUnify
    <2> QED BY SMTT(30), <2>1, <2>2, <2>7, <2>9, <2>10, <1>1, LeaveOpen
  <1>5. CASE HeadAlpha
    <2> DEFINE n   == My.goal.nvars
               env == [i \in 1 .. n |-> Cell(Len(heap.cells) + i)]
               ts  == MakeTerms(My.goal.head, env, NewEnv(heap, n))
               r   == UnifyArgs(My.args, ts.t, ts.h)
               u   == IF r.ok THEN r.h ELSE trail_unwind(r.h, Len(heap.trail))
               b   == [boxes[Me] EXCEPT !.mark = Len(heap.trail), !.fired = r.ok, !.env = env]
               bs  == [boxes EXCEPT ![Me].mark = Len(heap.trail), ![Me].fired = r.ok, ![Me].env = env]
    <2>1. ctl.port = "alpha" /\ boxes[Me].fn = "head" /\ Exits("alpha", {"head"})
      BY ZenonT(30), <1>1, <1>5 DEF HeadAlpha, EnteredAt, Exits
    <2>2. Leave(Verdict(r.ok), bs, u)
      BY ZenonT(30), <1>5 DEF HeadAlpha, trail_mark
    <2>3. Makes(heap, ts.h) /\ Binds(ts.h, r.h)
      BY <2>1 DEF BindingsTrailed
    <2> HIDE DEF ts, r, env
    <2>4. (r.ok => u = r.h) /\ (~ r.ok => u = trail_unwind(r.h, Len(heap.trail)))
      OBVIOUS
    <2> HIDE DEF u
    <2>5. bs = [boxes EXCEPT ![Me] = b]
      BY <1>2, <1>3
    <2>6. /\ DOMAIN b = DOMAIN boxes[Me] /\ b.fn = boxes[Me].fn /\ b.kids = boxes[Me].kids
          /\ b.head = boxes[Me].head /\ b.ci = boxes[Me].ci /\ b.mark = Len(heap.trail) /\ b.fired = r.ok
      BY <1>3
    <2> HIDE DEF b, bs
    <2>7. /\ Same(boxes, bs, Me) /\ bs[Me] = b /\ \A i \in DOMAIN boxes : i # Me => bs[i].mark = boxes[i].mark
      BY <2>5, <2>6, <1>2, <1>3, PutSame
    <2>8. hist[Me].mark = Len(heap.trail)
      BY <2>1, AtAlpha
    <2>9. /\ Verdict(r.ok) \in {"gamma", "omega"} /\ (Verdict(r.ok) = "gamma" => r.ok)
          /\ Kept(u, IF Verdict(r.ok) = "gamma" THEN open ELSE SubSeq(open, 1, hist[Me].from - 1), hist)
          /\ Verdict(r.ok) = "omega" => Undone(u, hist[Me])
      BY <2>1, <2>3, <2>4, BindLeaves
    <2>10. Verdict(r.ok) = "gamma" => Spanned(bs, hist', open, Me)
      BY <2>1, <2>2, <2>6, <2>7, <2>8, <2>9, <1>1, SpannedUnify
    <2> QED BY <2>1, <2>2, <2>7, <2>9, <2>10, <1>1, LeaveOpen
  <1>6. CASE UnifyBeta
    <2> DEFINE u  == IF boxes[Me].fired THEN trail_unwind(heap, boxes[Me].mark) ELSE heap
               b  == [boxes[Me] EXCEPT !.fired = FALSE]
               bs == [boxes EXCEPT ![Me].fired = FALSE]
    <2>1. ctl.port = "beta" /\ boxes[Me].fn \in {"head", "unify"} /\ Leave("omega", bs, u)
      BY <1>1, <1>6 DEF UnifyBeta, EnteredAt, My
    <2>2. boxes[Me].fired /\ boxes[Me].mark = hist[Me].mark
      BY <2>1, AtBeta DEF Spanned
    <2>3. u = trail_unwind(heap, hist[Me].mark)
      BY <2>2
    <2> HIDE DEF u
    <2>4. Kept(u, SubSeq(open, 1, hist[Me].from - 1), hist) /\ Undone(u, hist[Me])
      BY <2>3, <1>1, UnwindMine
    <2>5. bs = [boxes EXCEPT ![Me] = b]
      BY <1>2, <1>3
    <2>6. /\ DOMAIN b = DOMAIN boxes[Me] /\ b.fn = boxes[Me].fn /\ b.kids = boxes[Me].kids
          /\ b.head = boxes[Me].head /\ b.ci = boxes[Me].ci
      BY <1>3
    <2> HIDE DEF b, bs
    <2>7. /\ Same(boxes, bs, Me) /\ \A i \in DOMAIN boxes : i # Me => bs[i].mark = boxes[i].mark
      BY <2>5, <2>6, <1>2, <1>3, PutSame
    <2> QED BY <2>1, <2>4, <2>7, <1>1, LeaveOpen
  <1>7. CASE CutAlpha
    <2> DEFINE b  == [boxes[cutflag] EXCEPT !.cut = TRUE]
               bs == [boxes EXCEPT ![cutflag].cut = TRUE]
    <2>1. Leave("gamma", bs, heap) /\ boxes[Me].fn = "cut"
      BY <1>1, <1>7 DEF CutAlpha, EnteredAt
    <2>2. Same(boxes, bs, Me) /\ \A i \in DOMAIN boxes : bs[i].mark = boxes[i].mark
      <3>0. IsSeq(boxes) /\ \A i \in DOMAIN boxes : boxes[i].ci \in Nat
        BY <1>2 DEF Struct, Shaped
      <3>1. CASE cutflag \in DOMAIN boxes
        <4>1. "cut" \in DOMAIN boxes[cutflag]
          BY <3>1, <1>2, FieldsIs
        <4>2. bs = [boxes EXCEPT ![cutflag] = b]
          BY <3>1, <4>1
        <4>3. /\ DOMAIN b = DOMAIN boxes[cutflag] /\ b.fn = boxes[cutflag].fn /\ b.kids = boxes[cutflag].kids
              /\ b.head = boxes[cutflag].head /\ b.ci = boxes[cutflag].ci
              /\ b.phase = boxes[cutflag].phase /\ b.fired = boxes[cutflag].fired /\ b.mark = boxes[cutflag].mark
          BY <4>1
        <4> HIDE DEF b, bs
        <4>4. IsSeq(bs) /\ DOMAIN bs = DOMAIN boxes
              /\ \A i \in DOMAIN boxes : bs[i] = IF i = cutflag THEN b ELSE boxes[i]
          BY <3>0, <4>2, ExceptIs
        <4> QED BY <3>0, <4>3, <4>4 DEF Same
      <3>2. CASE cutflag \notin DOMAIN boxes
        <4> DEFINE x == [boxes[cutflag] EXCEPT !.cut = TRUE]
        <4>2. bs = [boxes EXCEPT ![cutflag] = x]
          OBVIOUS
        <4> HIDE DEF x, bs
        <4>3. IsSeq(bs) /\ DOMAIN bs = DOMAIN boxes /\ \A i \in DOMAIN boxes : bs[i] = boxes[i]
          BY <3>0, <4>2, <3>2, ExceptIs
        <4> QED BY <3>0, <4>3 DEF Same
      <3> QED BY <3>1, <3>2
    <2> HIDE DEF b, bs
    <2>3. bs[Me].fn = "cut"
      BY <2>1, <2>2, <1>2 DEF Same
    <2>4. Spanned(bs, hist', open, Me)
      BY <2>1, <2>3, <1>1, SpannedLeaf
    <2>5. Kept(heap, open, hist)
      BY <1>1, MyOpen
    <2> QED BY <2>1, <2>2, <2>4, <2>5, <1>1, LeaveOpen
  <1> QED BY SMTT(30), <1>4, <1>5, <1>6, <1>7

(* The right goal of a conjunction may be resumed: what was entered below the   *)
(* left one has ended there.                                                   *)
LEMMA RightResumes ==
  ASSUME IInv, OInv, ctl.port = "beta", boxes[Me].fn = "cat"
  PROVE  LET l == boxes[Me].kids[1]
             r == boxes[Me].kids[2]
         IN /\ Resumes(r) /\ hist[r].from = hist[l].to + 1
            /\ Covers(hist, open, l, hist[Me].from + 1, hist[l].to)
  <1> DEFINE l == boxes[Me].kids[1]
             r == boxes[Me].kids[2]
  <1>1. /\ Entered /\ Me = ctl.box /\ hist[Me].to = Len(open)
        /\ Spanned(boxes, hist, open, Me) /\ Rests(boxes, hist, Me)
        /\ \A i, j \in DOMAIN hist : Resting(hist, open, calls, i) /\ Resting(hist, open, calls, j)
                                     /\ hist[i].from < hist[j].from
                                     => hist[i].to < hist[j].from \/ hist[j].to <= hist[i].to
    BY AtBeta
  <1>2. /\ Covers(hist, open, l, hist[Me].from + 1, hist[l].to)
        /\ Covers(hist, open, r, hist[l].to + 1, Len(open))
    BY <1>1 DEF Spanned
  <1>3. hist[l].exit = "gamma" /\ hist[r].exit = "gamma"
    BY <1>1 DEF Rests
  <1>4. Listed(open, hist) /\ IsOpen(open, hist, Me) /\ DOMAIN hist = DOMAIN boxes
    BY <1>1, MyOpen DEF IInv, HistOK
  <1>5. /\ IsOpen(open, hist, l) /\ hist[l].from = hist[Me].from + 1 /\ hist[Me].from + 1 <= hist[l].to
        /\ IsOpen(open, hist, r) /\ hist[r].from = hist[l].to + 1 /\ hist[r].to = Len(open)
    BY <1>2 DEF Covers
  <1>6. l \in DOMAIN hist /\ r \in DOMAIN hist /\ Me \in DOMAIN hist /\ \A i \in DOMAIN hist : hist[i].from \in Nat /\ hist[i].to \in Nat
    BY <1>4, <1>5, OpenFacts
  <1>7. Resting(hist, open, calls, l)
    <2>1. Stacked(boxes, calls, ctl.box) /\ Tree(boxes) /\ DOMAIN boxes[Me].kids = 1 .. 2
      BY <1>1, MyKids DEF IInv, Struct
    <2>2. ~ OnStack(calls, Me)
      BY <1>1, <2>1, StackFacts
    <2>3. ~ OnStack(calls, l)
      BY <2>1, <2>2, <1>4, <1>6, ParentBelow DEF OnStack
    <2> QED BY <2>3, <1>3, <1>5, <1>6 DEF Resting
  <1>8. ASSUME NEW i \in DOMAIN hist, Aside(hist, open, Rest, Me, i), hist[i].from < hist[r].from
        PROVE  hist[i].to < hist[r].from
    <2>1. Resting(hist, open, calls, i) /\ i # Me /\ IsOpen(open, hist, i)
      BY <1>1, <1>8 DEF Aside, Resting, Rest
    <2>2. CASE hist[i].from < hist[Me].from
      <3>1. hist[i].to < hist[Me].from
        BY <2>2, <1>1, <1>8, MyOpen
      <3> QED BY <3>1, <1>5, <1>6
    <2>3. CASE hist[i].from = hist[Me].from
      BY <2>1, <2>3, <1>4, OpenFacts
    <2>4. CASE hist[i].from = hist[l].from
      <3>1. i = l
        BY <2>1, <2>4, <1>4, <1>5, OpenFacts
      <3> HIDE DEF l
      <3> QED BY <3>1, <1>5, <1>6
    <2>5. CASE hist[i].from > hist[l].from
      <3>1. hist[l].to < hist[i].from \/ hist[i].to <= hist[l].to
        BY <2>1, <2>5, <1>1, <1>6, <1>7
      <3> HIDE DEF l, r
      <3> QED BY <3>1, <1>5, <1>6, <1>8
    <2> HIDE DEF l, r
    <2> QED BY <2>2, <2>3, <2>4, <2>5, <1>5, <1>6
  <1> HIDE DEF l, r
  <1>9. Resumes(r)
    BY <1>3, <1>4, <1>5, <1>6, <1>8 DEF Resumes
  <1> QED BY <1>2, <1>5, <1>9 DEF l, r

LEMMA CatOpen ==
  ASSUME IInv, IInv', OInv,
         CatAlpha \/ CatBeta \/ CatLeftGamma \/ CatLeftOmega \/ CatRightGamma \/ CatRightOmega
  PROVE  OInv'
  <1>a. /\ Slot("left") = 1 /\ FnAt("left") = "cat" /\ "left" \in Place \ {"not", "clause"}
        /\ Slot("right") = 2 /\ FnAt("right") = "cat" /\ "right" \in Place \ {"not", "clause"}
    BY DEF Slot, FnAt, Place
  <1>2. CASE CatAlpha
    <2>1. Entered /\ Me = ctl.box /\ boxes[Me].fn = "cat" /\ ctl.port = "alpha" /\ Call(boxes[Me].kids[1], "alpha", "left")
      BY <1>2 DEF CatAlpha, EnteredAt, Entered, Me, My
    <2>2. DOMAIN boxes[Me].kids = 1 .. 2
      BY <2>1, MyKids
    <2>3. Len(open) = hist[Me].from /\ ~ IsOpen(open, hist, boxes[Me].kids[1]) /\ ~ IsOpen(open, hist, boxes[Me].kids[2])
      BY SMTT(30), <2>1, <2>2, AtAlpha
    <2> QED BY <2>1, <2>2, <2>3, <1>a, CallFirstOpen
  <1>3. CASE CatBeta
    <2>1. Entered /\ Me = ctl.box /\ boxes[Me].fn = "cat" /\ ctl.port = "beta" /\ Call(boxes[Me].kids[2], "beta", "right")
      BY <1>3 DEF CatBeta, EnteredAt, Entered, Me, My
    <2>2. DOMAIN boxes[Me].kids = 1 .. 2
      BY <2>1, MyKids
    <2>3. /\ Resumes(boxes[Me].kids[2]) /\ hist[boxes[Me].kids[2]].from = hist[boxes[Me].kids[1]].to + 1
          /\ Covers(hist, open, boxes[Me].kids[1], hist[Me].from + 1, hist[boxes[Me].kids[1]].to)
      BY <2>1, RightResumes
    <2> QED BY <2>1, <2>2, <2>3, <1>a, CallRightOpen
  <1>4. CASE CatLeftGamma
    <2>1. BackAt("gamma", "cat", "left") /\ Call(boxes[Me].kids[2], "alpha", "right")
      BY <1>4 DEF CatLeftGamma, My
    <2>2. /\ calls # <<>> /\ ~ Entered /\ ctl.port = "gamma" /\ Head(calls).at = "left" /\ Head(calls).box = Me
          /\ boxes[Me].fn = "cat" /\ ctl.box = boxes[Me].kids[1]
      BY <2>1, <1>a, Back
    <2>3. DOMAIN boxes[Me].kids = 1 .. 2
      BY <2>2, MyKids
    <2>4. Until(boxes, hist, Head(calls)) = hist[Me].from
      BY <2>2 DEF Until
    <2>5. Covers(hist, open, boxes[Me].kids[1], hist[Me].from + 1, Len(open))
      BY <2>2, <2>4, AtGamma
    <2>6. hist[boxes[Me].kids[1]].to = Len(open)
      BY <2>5 DEF Covers
    <2>7. ~ IsOpen(open, hist, boxes[Me].kids[2])
      BY <2>2, MyOpen DEF Placed
    <2> QED BY <2>1, <2>2, <2>3, <2>5, <2>6, <2>7, <1>a, CallRightOpen
  <1>5. CASE CatLeftOmega
    <2>1. BackAt("omega", "cat", "left") /\ Leave(ctl.port, boxes, heap)
      BY <1>5 DEF CatLeftOmega, Pass
    <2>2. calls # <<>> /\ ctl.port = "omega" /\ boxes[Me].fn = "cat"
      BY <2>1, Back
    <2> QED BY <2>1, <2>2, ExitOpen
  <1>6. CASE CatRightGamma
    <2> DEFINE l == boxes[Me].kids[1]
               r == boxes[Me].kids[2]
    <2>1. BackAt("gamma", "cat", "right") /\ Leave(ctl.port, boxes, heap)
      BY <1>6 DEF CatRightGamma, Pass
    <2>2. /\ calls # <<>> /\ ~ Entered /\ ctl.port = "gamma" /\ Head(calls).at = "right" /\ Head(calls).box = Me
          /\ boxes[Me].fn = "cat" /\ ctl.box = r
      BY <2>1, <1>a, Back
    <2>3. Until(boxes, hist, Head(calls)) = hist[l].to
      BY <2>2 DEF Until
    <2>4. Covers(hist, open, r, hist[l].to + 1, Len(open))
      BY <2>2, <2>3, AtGamma
    <2>5. Covers(hist, open, l, hist[Me].from + 1, hist[l].to)
      BY <2>2, <2>3, MyOpen DEF Placed
    <2>6. Listed(open, hist) /\ IsOpen(open, hist, Me)
      BY <2>2, MyOpen
    <2>7. hist[Me].from \in Nat /\ hist[l].to \in Nat /\ hist[Me].from + 1 <= hist[l].to /\ Me \in DOMAIN hist
          /\ Len(open) \in Nat /\ hist[Me].from <= Len(open)
      BY <2>5, <2>6, OpenFacts DEF Covers
    <2> HIDE DEF l, r
    <2>8. hist[Me].from + 1 > hist[Me].from /\ hist[l].to + 1 > hist[Me].from
      BY <2>7
    <2>9. /\ Covers(hist', open, l, hist[Me].from + 1, hist[l].to) /\ hist'[l] = hist[l]
          /\ Covers(hist', open, r, hist[l].to + 1, Len(open))
      BY <2>1, <2>2, <2>4, <2>5, <2>8, CoversMine
    <2>10. hist'[Me].from = hist[Me].from /\ hist'[Me].to = Len(open)
      BY <2>1, <2>2, LeaveHist
    <2>11. Spanned(boxes, hist', open, Me)
      BY <2>2, <2>7, <2>9, <2>10 DEF Spanned, l, r
    <2> QED BY <2>1, <2>2, <2>11, ExitOpen
  <1>7. CASE CatRightOmega
    <2>1. BackAt("omega", "cat", "right") /\ Call(boxes[Me].kids[1], "beta", "left")
      BY <1>7 DEF CatRightOmega, My
    <2>2. /\ calls # <<>> /\ ~ Entered /\ ctl.port = "omega" /\ Head(calls).at = "right" /\ Head(calls).box = Me
          /\ boxes[Me].fn = "cat" /\ ctl.box = boxes[Me].kids[2] /\ Waits(boxes, hist, Head(calls))
      BY <2>1, <1>a, Back
    <2>3. DOMAIN boxes[Me].kids = 1 .. 2
      BY <2>2, MyKids
    <2>4. hist[boxes[Me].kids[1]].exit = "gamma"
      BY <2>2 DEF Waits
    <2>5. Until(boxes, hist, Head(calls)) = Len(open) /\ ~ IsOpen(open, hist, boxes[Me].kids[2])
      BY <2>2, AtOmega
    <2>6. Covers(hist, open, boxes[Me].kids[1], hist[Me].from + 1, Len(open))
      BY <2>2, <2>5, MyOpen DEF Placed
    <2>7. Resumes(boxes[Me].kids[1]) /\ hist[boxes[Me].kids[1]].from = hist[Me].from + 1
      BY <2>2, <2>4, <2>6, MayResume DEF Covers
    <2>8. Child("left", boxes[Me].kids[1])
      BY <2>2, <2>3, <1>a DEF Child
    <2> QED BY <2>1, <2>2, <2>5, <2>7, <2>8, <1>a, CallAgainOpen
  <1> QED BY <1>2, <1>3, <1>4, <1>5, <1>6, <1>7

LEMMA AltSpanned ==
  ASSUME NEW bs, NEW hs, NEW op, NEW i, NEW l, NEW r,
         bs[i].fn = "alt", bs[i].phase = 0, bs[i].kids[1] = l, bs[i].kids[2] = r,
         hs[i].from <= hs[i].to, hs[i].to <= Len(op),
         Covers(hs, op, l, hs[i].from + 1, hs[i].to), ~ IsOpen(op, hs, r)
  PROVE  Spanned(bs, hs, op, i)
  BY DEF Spanned

LEMMA AltOpen ==
  ASSUME IInv, IInv', OInv, AltAlpha \/ AltBeta \/ AltLeftGamma \/ AltLeftOmega \/ AltRight
  PROVE  OInv'
  <1>a. /\ Slot("first") = 1 /\ FnAt("first") = "alt" /\ "first" \in Place \ {"not", "clause"}
        /\ Slot("again") = 1 /\ FnAt("again") = "alt" /\ "again" \in Place \ {"not", "clause"}
        /\ Slot("second") = 2 /\ FnAt("second") = "alt" /\ "second" \in Place \ {"not", "clause"}
    BY DEF Slot, FnAt, Place
  <1> DEFINE l == boxes[Me].kids[1]
             r == boxes[Me].kids[2]
  <1>2. CASE AltAlpha
    <2>1. Entered /\ Me = ctl.box /\ boxes[Me].fn = "alt" /\ ctl.port = "alpha" /\ Call(l, "alpha", "first")
      BY <1>2 DEF AltAlpha, EnteredAt, Entered, Me, My
    <2>2. DOMAIN boxes[Me].kids = 1 .. 2
      BY <2>1, MyKids
    <2>3. Len(open) = hist[Me].from /\ ~ IsOpen(open, hist, l) /\ ~ IsOpen(open, hist, r)
      BY <2>1, <2>2, AtAlpha
    <2> QED BY <2>1, <2>2, <2>3, <1>a, CallFirstOpen
  <1>3. CASE AltBeta
    <2>1. Entered /\ Me = ctl.box /\ boxes[Me].fn = "alt" /\ ctl.port = "beta"
      BY <1>3 DEF AltBeta, EnteredAt, Entered, Me
    <2>2. \/ boxes[Me].phase = 0 /\ Call(l, "beta", "again")
          \/ boxes[Me].phase = 2 /\ Call(r, "beta", "second")
      BY <1>3 DEF AltBeta, My
    <2>3. DOMAIN boxes[Me].kids = 1 .. 2
      BY <2>1, MyKids
    <2>4. /\ boxes[Me].phase = 0 => hist[l].exit = "gamma"
          /\ boxes[Me].phase = 2 => hist[r].exit = "gamma"
      BY <2>1, BetaRests DEF Rests
    <2>5. /\ boxes[Me].phase = 0 => Covers(hist, open, l, hist[Me].from + 1, Len(open)) /\ ~ IsOpen(open, hist, r)
          /\ boxes[Me].phase = 2 => Covers(hist, open, r, hist[Me].from + 1, Len(open))
      BY <2>1, AtBeta DEF Spanned
    <2>6. CASE boxes[Me].phase = 0 /\ Call(l, "beta", "again")
      <3>1. Resumes(l) /\ hist[l].from = hist[Me].from + 1
        BY <2>1, <2>4, <2>5, <2>6, MayResume DEF Covers
      <3>2. Child("again", l)
        BY <2>1, <2>3, <1>a DEF Child
      <3> QED BY <2>1, <2>5, <2>6, <3>1, <3>2, <1>a, CallAgainOpen
    <2>7. CASE boxes[Me].phase = 2 /\ Call(r, "beta", "second")
      <3>1. Resumes(r) /\ hist[r].from = hist[Me].from + 1
        BY <2>1, <2>4, <2>5, <2>7, MayResume DEF Covers
      <3>2. Child("second", r)
        BY <2>1, <2>3, <1>a DEF Child
      <3> QED BY <2>1, <2>7, <3>1, <3>2, <1>a, CallAgainOpen
    <2> QED BY <2>2, <2>6, <2>7
  <1>4. CASE AltLeftGamma
    <2> DEFINE bs == [boxes EXCEPT ![Me].phase = IF Head(calls).at = "first" THEN 0 ELSE @]
    <2>1. Leave("gamma", bs, heap)
      BY <1>4 DEF AltLeftGamma
    <2>2. BackAt("gamma", "alt", "first") \/ BackAt("gamma", "alt", "again")
      BY <1>4 DEF AltLeftGamma
    <2>3. /\ calls # <<>> /\ ~ Entered /\ ctl.port = "gamma" /\ Head(calls).at \in {"first", "again"}
          /\ boxes[Me].fn = "alt" /\ Me = Head(calls).box /\ Waits(boxes, hist, Head(calls)) /\ ctl.box = l
      BY <2>2, Back, <1>a
    <2>4. /\ Same(boxes, bs, Me) /\ bs[Me].phase = (IF Head(calls).at = "first" THEN 0 ELSE boxes[Me].phase)
          /\ bs[Me].fn = boxes[Me].fn /\ bs[Me].kids = boxes[Me].kids
          /\ \A i \in DOMAIN boxes : i # Me => bs[i].mark = boxes[i].mark
      <3> DEFINE b == [boxes[Me] EXCEPT !.phase = IF Head(calls).at = "first" THEN 0 ELSE boxes[Me].phase]
      <3>1. Struct(boxes) /\ Me \in DOMAIN boxes /\ "phase" \in DOMAIN boxes[Me] /\ boxes[Me].ci \in Nat
        BY <2>3, MyKids, FieldsIs DEF IInv
      <3>2. bs = [boxes EXCEPT ![Me] = b]
        BY <3>1
      <3>3. /\ DOMAIN b = DOMAIN boxes[Me] /\ b.fn = boxes[Me].fn /\ b.kids = boxes[Me].kids /\ b.head = boxes[Me].head
            /\ b.ci = boxes[Me].ci /\ b.phase = (IF Head(calls).at = "first" THEN 0 ELSE boxes[Me].phase)
        BY <3>1
      <3> HIDE DEF bs, b
      <3> QED BY <3>1, <3>2, <3>3, PutSame
    <2> HIDE DEF bs
    <2>5. bs[Me].phase = 0
      BY <2>3, <2>4 DEF Waits
    <2>6. Until(boxes, hist, Head(calls)) = hist[Me].from
      BY <2>3 DEF Until
    <2>7. Covers(hist, open, l, hist[Me].from + 1, Len(open)) /\ hist[Me].from \in Nat
      BY <2>3, <2>6, AtGamma
    <2>8. Kept(heap, open, hist) /\ IsOpen(open, hist, Me) /\ ~ IsOpen(open, hist, r) /\ Listed(open, hist)
      BY <2>3, MyOpen DEF Placed
    <2>9. Len(open) \in Nat /\ hist[Me].from <= Len(open)
      BY <2>8, OpenFacts
    <2>10. hist'[Me].from = hist[Me].from /\ hist'[Me].to = Len(open)
      BY <2>1, <2>3, LeaveHist
    <2>11. r \in DOMAIN hist /\ r # Me
      <3>1. DOMAIN boxes[Me].kids = 1 .. 2 /\ Me \in DOMAIN boxes /\ Tree(boxes) /\ DOMAIN hist = DOMAIN boxes
        BY SMTT(30), <2>3, MyKids DEF IInv, Struct, HistOK
      <3> QED BY <3>1, <2>8 DEF Tree
    <2>12. ~ IsOpen(open, hist', r)
      BY <2>1, <2>3, <2>8, <2>11, LeaveHist DEF IsOpen
    <2>13. hist[Me].from + 1 > hist[Me].from
      BY <2>7
    <2>14. Covers(hist', open, l, hist[Me].from + 1, Len(open))
      BY <2>1, <2>3, <2>7, <2>13, CoversMine
    <2>15. Spanned(bs, hist', open, Me)
      <3>1. bs[Me].fn = "alt" /\ bs[Me].kids[1] = l /\ bs[Me].kids[2] = r
        BY <2>3, <2>4
      <3> HIDE DEF l, r
      <3> QED BY <3>1, <2>5, <2>9, <2>10, <2>12, <2>14, AltSpanned
    <2> QED BY <2>1, <2>3, <2>4, <2>8, <2>15, LeaveOpen
  <1>5. CASE AltLeftOmega
    <2> DEFINE bs == [boxes EXCEPT ![Me].phase = 2]
               f  == [box |-> Me, at |-> "second", saved |-> 0]
    <2>1. Enter(r, "alpha", f, bs, heap)
      BY <1>5 DEF AltLeftOmega, My
    <2>2. PICK at \in {"first", "again"} : BackAt("omega", "alt", at)
      BY <1>5 DEF AltLeftOmega, LeftExhausted
    <2>3. /\ calls # <<>> /\ ~ Entered /\ ctl.port = "omega" /\ Head(calls).at \in {"first", "again"}
          /\ boxes[Me].fn = "alt" /\ Head(calls).box = Me
      BY <2>2, Back
    <2>4. /\ Same(boxes, bs, Me) /\ bs[Me].fn = boxes[Me].fn /\ bs[Me].kids = boxes[Me].kids
          /\ \A i \in DOMAIN boxes : i # Me => bs[i].mark = boxes[i].mark
      <3> DEFINE b == [boxes[Me] EXCEPT !.phase = 2]
      <3>1. Struct(boxes) /\ Me \in DOMAIN boxes /\ "phase" \in DOMAIN boxes[Me] /\ boxes[Me].ci \in Nat
        BY <2>3, MyKids, FieldsIs DEF IInv
      <3>2. bs = [boxes EXCEPT ![Me] = b]
        BY <3>1
      <3>3. /\ DOMAIN b = DOMAIN boxes[Me] /\ b.fn = boxes[Me].fn /\ b.kids = boxes[Me].kids /\ b.head = boxes[Me].head
            /\ b.ci = boxes[Me].ci
        BY <3>1
      <3> HIDE DEF bs, b
      <3> QED BY <3>1, <3>2, <3>3, PutSame
    <2>5. Struct(boxes) /\ Struct(bs) /\ Grows(boxes, bs, Me)
      BY <2>4, SameStruct DEF IInv
    <2>6. f.box = Me /\ f.at = "second"
      OBVIOUS
    <2> HIDE DEF bs, f
    <2>7. Fits(bs, f, r)
      <3>1. Me \in DOMAIN boxes /\ DOMAIN boxes[Me].kids = 1 .. 2 /\ DOMAIN bs = DOMAIN boxes
        BY <2>3, <2>4, MyKids DEF Same
      <3>2. r \in DOMAIN boxes \ {1}
        BY <2>5, <3>1 DEF Struct, Tree
      <3> QED BY <2>3, <2>4, <2>6, <3>1, <3>2, <1>a DEF Fits
    <2>8. ~ IsOpen(open, hist, r) /\ Kept(heap, open, hist)
      BY <2>3, MyOpen DEF Placed
    <2>9. Len(open) = Until(bs, hist, f)
      <3>1. Until(boxes, hist, Head(calls)) = hist[Me].from /\ Until(bs, hist, f) = hist[Me].from
        BY <2>3, <2>6 DEF Until
      <3> QED BY <3>1, <2>3, AtOmega
    <2> HIDE DEF r
    <2> QED BY <2>1, <2>3, <2>4, <2>5, <2>6, <2>7, <2>8, <2>9, EnterOpen
  <1>6. CASE AltRight
    <2>1. PICK port \in {"gamma", "omega"} : BackAt(port, "alt", "second")
      BY <1>6 DEF AltRight
    <2>2. Leave(ctl.port, boxes, heap)
      BY <1>6 DEF AltRight, Pass
    <2>3. /\ calls # <<>> /\ ~ Entered /\ Head(calls).at = "second" /\ ctl.port = port /\ boxes[Me].fn = "alt"
          /\ Me = Head(calls).box /\ Waits(boxes, hist, Head(calls)) /\ ctl.box = r
      BY <2>1, Back, <1>a
    <2>4. ASSUME port = "gamma" PROVE Spanned(boxes, hist', open, Me)
      <3>1. Until(boxes, hist, Head(calls)) = hist[Me].from /\ boxes[Me].phase = 2
        BY <2>3 DEF Until, Waits
      <3>2. Covers(hist, open, r, hist[Me].from + 1, Len(open)) /\ hist[Me].from \in Nat
        BY <2>3, <2>4, <3>1, AtGamma
      <3>3. hist[Me].from + 1 > hist[Me].from
        BY <3>2
      <3>4. Covers(hist', open, r, hist[Me].from + 1, Len(open))
        BY <2>2, <2>3, <3>2, <3>3, CoversMine
      <3>5. hist'[Me].from = hist[Me].from /\ hist'[Me].to = Len(open)
        BY <2>2, <2>3, LeaveHist
      <3>6. IsOpen(open, hist, Me) /\ Listed(open, hist)
        BY <2>3, MyOpen
      <3>7. hist[Me].from <= Len(open)
        BY <3>6, OpenFacts
      <3> QED BY <2>3, <3>1, <3>4, <3>5, <3>7 DEF Spanned
    <2> QED BY <2>2, <2>3, <2>4, ExitOpen
  <1> QED BY <1>2, <1>3, <1>4, <1>5, <1>6

(* Me calls a box that it has made.                                             *)
LEMMA MadeOpen ==
  ASSUME IInv, IInv', OInv, Entered \/ calls # <<>>, NEW f, NEW k, Calls(f, k),
         f.at \in {"not", "inner", "clause"}, hist[Me].from = Len(open), Kept(heap', open, hist),
         boxes[Me].fn \in {"choice", "not"} => boxes'[Me].mark = hist[Me].mark
  PROVE  OInv'
  <1>1. /\ Enter(k, "alpha", f, boxes', heap') /\ f.box = Me /\ k \notin DOMAIN boxes
        /\ Grows(boxes, boxes', Me) /\ Fits(boxes', f, k)
        /\ \A i \in DOMAIN boxes : i # Me => boxes'[i].mark = boxes[i].mark
    BY DEF Calls
  <1>2. Listed(open, hist) /\ DOMAIN hist = DOMAIN boxes
    BY MyOpen DEF IInv, HistOK
  <1>3. ~ IsOpen(open, hist, k)
    BY <1>1, <1>2, OpenFacts
  <1>4. Len(open) = Until(boxes', hist, f)
    BY <1>1 DEF Until
  <1> QED BY <1>1, <1>3, <1>4, EnterOpen

(* Me passes on the success of its only child.                                  *)
LEMMA SpannedOne ==
  ASSUME IInv, OInv, calls # <<>>, ctl.port = "gamma", NEW bs, NEW h, Leave("gamma", bs, h),
         Head(calls).at # "right", Head(calls).box = Me, boxes[Me].fn \in {"deferred", "choice"},
         ctl.box = boxes[Me].kids[1], bs = boxes
  PROVE  Spanned(boxes, hist', open, Me)
  <1>1. ~ Entered
    BY DEF Entered
  <1>2. Until(boxes, hist, Head(calls)) = hist[Me].from
    BY DEF Until
  <1>3. Covers(hist, open, boxes[Me].kids[1], hist[Me].from + 1, Len(open)) /\ hist[Me].from \in Nat
    BY <1>2, AtGamma
  <1>4. hist[Me].from + 1 > hist[Me].from
    BY <1>3
  <1>5. Covers(hist', open, boxes[Me].kids[1], hist[Me].from + 1, Len(open))
    BY <1>3, <1>4, CoversMine
  <1>6. hist'[Me].from = hist[Me].from /\ hist'[Me].to = Len(open) /\ hist'[Me].mark = hist[Me].mark
    BY LeaveHist
  <1>7. IsOpen(open, hist, Me) /\ Listed(open, hist)
    BY MyOpen
  <1>8. hist[Me].from <= Len(open)
    BY <1>7, OpenFacts
  <1>9. boxes[Me].fn = "choice" => boxes[Me].mark = hist[Me].mark
    BY <1>1, MyOpen DEF Placed
  <1> QED BY <1>5, <1>6, <1>8, <1>9 DEF Spanned

LEMMA NotOpen ==
  ASSUME IInv, IInv', OInv, BindingsTrailed, NotAlpha \/ NotBack
  PROVE  OInv'
  <1>1. CASE NotAlpha
    <2> DEFINE f == [box |-> Me, at |-> "not", saved |-> 0]
               k == Len(boxes) + 1
    <2>1. /\ Entered /\ Me = ctl.box /\ boxes[Me].fn = "not" /\ ctl.port = "alpha" /\ Calls(f, k)
          /\ boxes'[Me].mark = Len(heap.trail)
          /\ heap' = MakeTerms(My.goal.kids[1].args, My.env, heap).h
      BY <1>1, NotMade
    <2>2. f.at = "not"
      BY SMTT(30)
    <2> HIDE DEF f, k
    <2>3. Exits("alpha", {"not"})
      BY ZenonT(30), <2>1, <1>1 DEF Exits, NotAlpha, EnteredAt
    <2>4. Binds(heap, heap')
      BY <2>1, <2>3 DEF BindingsTrailed, Makes
    <2>5. hist[Me].from = Len(open) /\ hist[Me].mark = Len(heap.trail)
      BY <2>1, AtAlpha
    <2>6. Kept(heap', open, hist)
      BY <2>1, <2>4, MyOpen, KeptBinds
    <2> QED BY <2>1, <2>2, <2>5, <2>6, MadeOpen
  <1>2. CASE NotBack
    <2> DEFINE u == trail_unwind(heap, boxes[Me].mark)
    <2>1. PICK port \in {"gamma", "omega"} : BackAt(port, "not", "not")
      BY <1>2 DEF NotBack
    <2>2. Leave(Verdict(ctl.port = "omega"), boxes, u)
      BY <1>2 DEF NotBack, My
    <2>3. calls # <<>> /\ ~ Entered /\ Head(calls).at = "not" /\ Me = Head(calls).box /\ boxes[Me].fn = "not" /\ ctl.port = port
      BY <2>1, Back
    <2>4. boxes[Me].mark = hist[Me].mark
      BY <2>3, MyOpen DEF Placed
    <2>5. u = trail_unwind(heap, hist[Me].mark)
      BY <2>4
    <2> HIDE DEF u
    <2>6. /\ Kept(u, SubSeq(open, 1, hist[Me].from - 1), hist) /\ Undone(u, hist[Me])
          /\ hist[Me].from = Len(open) => Kept(u, open, hist)
      BY <2>3, <2>5, UnwindMine
    <2>7. Same(boxes, boxes, Me)
      BY DEF IInv, Struct, Shaped, Same
    <2>8. CASE port = "gamma"
      <3>1. Leave("omega", boxes, u)
        BY <2>2, <2>3, <2>8 DEF Verdict
      <3> QED BY <3>1, <2>3, <2>6, <2>7, LeaveOpen
    <2>9. CASE port = "omega"
      <3>1. Leave("gamma", boxes, u)
        BY <2>2, <2>3, <2>9 DEF Verdict
      <3>2. hist[Me].from = Len(open)
        BY <2>3, <2>9, AtOmega DEF Until
      <3>3. Spanned(boxes, hist', open, Me)
        BY <3>1, <2>3, SpannedLeaf
      <3> QED BY <3>1, <3>2, <3>3, <2>3, <2>6, <2>7, LeaveOpen
    <2> QED BY <2>8, <2>9
  <1> QED BY <1>1, <1>2

LEMMA DeferredOpen ==
  ASSUME IInv, IInv', OInv, GoalsBuilt, BindingsTrailed, DeferredAlpha \/ DeferredBeta \/ DeferredBack
  PROVE  OInv'
  <1>a. Slot("inner") = 1 /\ FnAt("inner") = "deferred" /\ "inner" \in Place \ {"not", "clause"}
    BY DEF Slot, FnAt, Place
  <1>1. CASE DeferredAlpha
    <2> DEFINE f == [box |-> Me, at |-> "inner", saved |-> 0]
    <2>1. /\ Entered /\ Me = ctl.box /\ boxes[Me].fn = "deferred" /\ ctl.port = "alpha"
          /\ heap' = MakeGoal([boxes |-> boxes, heap |-> heap, id |-> 0], My.goal, boxes[My.head].env).heap
          /\ \E k : Calls(f, k)
      BY <1>1, DeferredMade
    <2>2. PICK k : Calls(f, k)
      BY <2>1
    <2>3. f.at = "inner"
      OBVIOUS
    <2> HIDE DEF f
    <2>4. Exits("alpha", {"deferred"})
      BY <2>1, <1>1 DEF Exits, DeferredAlpha, EnteredAt
    <2>5. Binds(heap, heap')
      BY <2>1, <2>4 DEF BindingsTrailed, Makes
    <2>6. hist[Me].from = Len(open)
      BY <2>1, AtAlpha
    <2>7. Kept(heap', open, hist)
      BY <2>1, <2>5, MyOpen, KeptBinds
    <2> QED BY <2>1, <2>2, <2>3, <2>6, <2>7, MadeOpen
  <1>2. CASE DeferredBeta
    <2> DEFINE k == boxes[Me].kids[1]
    <2>1. Entered /\ Me = ctl.box /\ boxes[Me].fn = "deferred" /\ ctl.port = "beta" /\ Call(k, "beta", "inner")
      BY <1>2 DEF DeferredBeta, EnteredAt, Entered, Me, My
    <2>2. 1 \in DOMAIN boxes[Me].kids /\ hist[k].exit = "gamma"
      BY <2>1, BetaRests DEF Rests
    <2>3. Covers(hist, open, k, hist[Me].from + 1, Len(open))
      BY <2>1, AtBeta DEF Spanned
    <2>4. Resumes(k) /\ hist[k].from = hist[Me].from + 1
      BY <2>1, <2>2, <2>3, MayResume DEF Covers
    <2>5. Child("inner", k)
      BY <2>1, <2>2, <1>a DEF Child
    <2> QED BY <2>1, <2>4, <2>5, <1>a, CallAgainOpen
  <1>3. CASE DeferredBack
    <2>1. PICK port \in {"gamma", "omega"} : BackAt(port, "deferred", "inner")
      BY <1>3 DEF DeferredBack
    <2>2. Leave(ctl.port, boxes, heap)
      BY <1>3 DEF DeferredBack, Pass
    <2>3. /\ calls # <<>> /\ Head(calls).at = "inner" /\ ctl.port = port /\ boxes[Me].fn = "deferred"
          /\ Me = Head(calls).box /\ ctl.box = boxes[Me].kids[1]
      BY <2>1, Back, <1>a
    <2>4. port = "gamma" => Spanned(boxes, hist', open, Me)
      BY <2>2, <2>3, SpannedOne
    <2> QED BY <2>2, <2>3, <2>4, ExitOpen
  <1> QED BY <1>1, <1>2, <1>3

LEMMA LoopOpen ==
  ASSUME IInv, IInv', OInv, GoalsBuilt, Entered \/ calls # <<>>,
         NEW b, NEW saved, Loop(b, saved), boxes[Me].fn = "choice",
         DOMAIN b = DOMAIN boxes[Me], b.fn = "choice", b.kids = boxes[Me].kids, b.head = boxes[Me].head,
         b.pred = boxes[Me].pred, b.ci \in Nat, b.mark = hist[Me].mark, hist[Me].from = Len(open)
  PROVE  OInv'
  <1> DEFINE u == trail_unwind(heap, b.mark)
  <1>1. /\ Kept(u, SubSeq(open, 1, hist[Me].from - 1), hist) /\ Undone(u, hist[Me])
        /\ Kept(u, open, hist)
    BY UnwindMine
  <1>2. CASE GivesUp(b, saved)
    <2> DEFINE bs == [boxes EXCEPT ![Me] = b]
    <2>1. Leave("omega", bs, u)
      BY <1>2 DEF GivesUp
    <2>2. Struct(boxes) /\ Me \in DOMAIN boxes
      BY MyKids DEF IInv
    <2>3. /\ Same(boxes, bs, Me) /\ \A i \in DOMAIN boxes : i # Me => bs[i].mark = boxes[i].mark
      BY <2>2, PutSame
    <2> HIDE DEF bs, u
    <2> QED BY <2>1, <2>3, <1>1, LeaveOpen
  <1>3. CASE Tries(b, saved)
    <2> DEFINE f == [box |-> Me, at |-> "clause", saved |-> saved]
    <2>1. /\ \E k : Calls(f, k)
          /\ boxes'[Me].mark = b.mark /\ heap' = u
      BY <1>3, LoopMade
    <2>2. PICK k : Calls(f, k)
      BY <2>1
    <2>3. f.at = "clause"
      OBVIOUS
    <2> HIDE DEF f, u
    <2> QED BY <2>1, <2>2, <2>3, <1>1, MadeOpen
  <1> QED BY <1>2, <1>3, LoopIs

LEMMA ChoiceOpen ==
  ASSUME IInv, IInv', OInv, GoalsBuilt,
         ChoiceAlpha \/ ChoiceBeta \/ ChoiceResumed \/ ChoiceExhausted \/ ChoiceGamma \/ ChoiceOmega
  PROVE  OInv'
  <1>a. /\ Slot("clause") = 1 /\ FnAt("clause") = "choice" /\ Slot("resume") = 1 /\ FnAt("resume") = "choice"
        /\ "resume" \in Place \ {"not", "clause"}
    BY DEF Slot, FnAt, Place
  <1>1. CASE ChoiceAlpha
    <2> DEFINE b == [boxes[Me] EXCEPT !.mark = Len(heap.trail), !.ci = 0, !.cut = FALSE]
    <2>1. Entered /\ Me = ctl.box /\ boxes[Me].fn = "choice" /\ ctl.port = "alpha"
      BY <1>1 DEF ChoiceAlpha, EnteredAt, Entered, Me
    <2>2. Loop(b, cutflag)
      BY <1>1 DEF ChoiceAlpha, My, trail_mark
    <2>3. /\ "mark" \in DOMAIN boxes[Me] /\ "ci" \in DOMAIN boxes[Me] /\ "cut" \in DOMAIN boxes[Me]
      BY <2>1, MyKids, FieldsIs DEF IInv
    <2>4. /\ DOMAIN b = DOMAIN boxes[Me] /\ b.fn = "choice" /\ b.kids = boxes[Me].kids
          /\ b.head = boxes[Me].head /\ b.pred = boxes[Me].pred /\ b.ci \in Nat /\ b.mark = Len(heap.trail)
      BY <2>1, <2>3
    <2> HIDE DEF b
    <2>5. hist[Me].from = Len(open) /\ hist[Me].mark = Len(heap.trail)
      BY <2>1, AtAlpha
    <2> QED BY <2>1, <2>2, <2>4, <2>5, LoopOpen
  <1>2. CASE ChoiceBeta
    <2> DEFINE k == boxes[Me].kids[1]
    <2>1. Entered /\ Me = ctl.box /\ boxes[Me].fn = "choice" /\ ctl.port = "beta" /\ Call(k, "beta", "resume")
      BY <1>2 DEF ChoiceBeta, EnteredAt, Entered, Me, My
    <2>2. 1 \in DOMAIN boxes[Me].kids /\ hist[k].exit = "gamma"
      BY <2>1, BetaRests DEF Rests
    <2>3. Covers(hist, open, k, hist[Me].from + 1, Len(open)) /\ boxes[Me].mark = hist[Me].mark
      BY <2>1, AtBeta DEF Spanned
    <2>4. Resumes(k) /\ hist[k].from = hist[Me].from + 1
      BY <2>1, <2>2, <2>3, MayResume DEF Covers
    <2>5. Child("resume", k)
      BY <2>1, <2>2, <1>a DEF Child
    <2> QED BY <2>1, <2>3, <2>4, <2>5, <1>a, CallAgainOpen
  <1>3. CASE ChoiceResumed \/ ChoiceGamma
    <2>1. PICK at \in {"clause", "resume"} : BackAt("gamma", "choice", at) /\ Leave(ctl.port, boxes, heap)
      BY <1>3 DEF ChoiceResumed, ChoiceGamma, Pass
    <2>2. /\ calls # <<>> /\ Head(calls).at = at /\ ctl.port = "gamma" /\ boxes[Me].fn = "choice"
          /\ Me = Head(calls).box /\ ctl.box = boxes[Me].kids[1]
      BY <2>1, Back, <1>a
    <2>3. Spanned(boxes, hist', open, Me)
      BY <2>1, <2>2, SpannedOne
    <2> QED BY <2>1, <2>2, <2>3, ExitOpen
  <1>4. CASE ChoiceExhausted \/ ChoiceOmega
    <2> DEFINE b == [boxes[Me] EXCEPT !.ci = @ + 1]
    <2>1. PICK at \in {"clause", "resume"} : BackAt("omega", "choice", at) /\ \E saved : Loop(b, saved)
      BY <1>4 DEF ChoiceExhausted, ChoiceOmega, My
    <2>2. PICK saved : Loop(b, saved)
      BY <2>1
    <2>3. calls # <<>> /\ ~ Entered /\ Head(calls).at = at /\ boxes[Me].fn = "choice" /\ ctl.port = "omega" /\ Me = Head(calls).box
      BY <2>1, Back
    <2>4. boxes[Me].ci \in Nat /\ "ci" \in DOMAIN boxes[Me]
      BY <2>3, MyKids, FieldsIs DEF IInv
    <2>5. /\ DOMAIN b = DOMAIN boxes[Me] /\ b.fn = "choice" /\ b.kids = boxes[Me].kids
          /\ b.head = boxes[Me].head /\ b.pred = boxes[Me].pred /\ b.ci \in Nat /\ b.mark = boxes[Me].mark
      BY <2>3, <2>4
    <2> HIDE DEF b
    <2>6. boxes[Me].mark = hist[Me].mark
      BY <2>3, MyOpen DEF Placed
    <2>7. hist[Me].from = Len(open)
      BY <2>3, AtOmega DEF Until
    <2> QED BY <2>2, <2>3, <2>5, <2>6, <2>7, LoopOpen
  <1> QED BY <1>1, <1>2, <1>3, <1>4

-----------------------------------------------------------------------------
(* The order of the open boxes is kept, and what follows from it                *)

LEMMA InitOpen ==
  ASSUME Init
  PROVE  OInv
  <1> DEFINE n == Len(MainArgs(prog))
             e == [i \in 1 .. n |-> FreeCell(TRUE)]
             h == Begun(heap, 1)
             b == Choice(prog.main, MainArgs(prog))
  <1>1. /\ prog \in Program /\ boxes = <<b>> /\ ctl = [port |-> "alpha", box |-> 1] /\ calls = <<>>
        /\ heap = NewEnv(NoBindings, n) /\ open = <<1>> /\ hist = <<h>>
    BY DEF Init
  <1>2. n \in Nat
    <2> DEFINE hd == prog.preds[prog.main][1].head
               s  == MainArgs(prog)
    <2>1. IsSeq(hd)
      BY <1>1, PrologAssumption
    <2>2. Len(hd) \in Nat
      BY <2>1, SeqFacts
    <2>3. s = [i \in 1 .. Len(hd) |-> Cell(i)]
      BY DEF MainArgs
    <2>4. s \in [1 .. Len(hd) -> {Cell(i) : i \in 1 .. Len(hd)}]
      BY <2>3
    <2> HIDE DEF s, hd
    <2>5. Len(s) = Len(hd)
      BY <2>2, <2>4, SeqIntro
    <2> QED BY <2>2, <2>5 DEF s
  <1> HIDE DEF n
  <1>3. IsSeq(e) /\ DOMAIN e = 1 .. n /\ Len(e) = n
    <2>1. e \in [1 .. n -> {FreeCell(TRUE)}]
      OBVIOUS
    <2> HIDE DEF e
    <2> QED BY <2>1, <1>2, SeqIntro
  <1>4. \A i \in 1 .. n : e[i] = FreeCell(TRUE)
    OBVIOUS
  <1>5. heap = [cells |-> <<>> \o e, trail |-> <<>>]
    BY <1>1 DEF NewEnv, NoBindings
  <1> HIDE DEF e, h, b
  <1>6. IsSeq(<<>>) /\ Len(<<>>) = 0 /\ DOMAIN <<>> = {}
    BY DEF IsSeq, Range
  <1>7. IsHeap(heap)
    <2>1. /\ IsSeq(heap.cells) /\ DOMAIN heap.cells = 1 .. n
          /\ \A i \in 1 .. n : heap.cells[i] = e[i]
      <3> DEFINE s == <<>>
      <3>1. IsSeq(s) /\ Len(s) = 0
        BY <1>6
      <3> HIDE DEF s
      <3>2. /\ IsSeq(s \o e) /\ DOMAIN (s \o e) = 1 .. 0 + n
            /\ \A i \in 1 .. 0 + n : (s \o e)[i] = IF i <= 0 THEN s[i] ELSE e[i - 0]
        BY <3>1, <1>3, ConcatIs
      <3>3. \A i \in 1 .. n : (s \o e)[i] = e[i]
        BY <3>2, <1>2
      <3>4. IsSeq(s \o e) /\ DOMAIN (s \o e) = 1 .. n
        BY <3>2, <1>2
      <3>5. heap.cells = s \o e
        BY <1>5 DEF s
      <3> QED BY <3>3, <3>4, <3>5
    <2>2. ASSUME NEW i \in 1 .. n
          PROVE  /\ heap.cells[i] = [ref |-> heap.cells[i].ref, named |-> heap.cells[i].named]
                 /\ heap.cells[i].named \in BOOLEAN
      <3>1. heap.cells[i] = [ref |-> Free, named |-> TRUE]
        BY <2>1, <1>4 DEF FreeCell
      <3>2. heap.cells[i].ref = Free /\ heap.cells[i].named = TRUE
        BY <3>1
      <3> QED BY <3>1, <3>2
    <2>3. heap.trail = <<>> /\ heap = [cells |-> heap.cells, trail |-> heap.trail]
      BY <1>5
    <2> QED BY <2>1, <2>2, <2>3, <1>6 DEF IsHeap
  <1>8. /\ Recalled(heap, h) /\ h.from = 1 /\ h.to = 0 /\ h.exit = "none"
        /\ h.mark = Len(heap.trail) /\ h.refs = heap.cells /\ h.mark \in Nat
    BY <1>7, BegunRecalled, HeapFacts DEF h
  <1>9. /\ IsSeq(open) /\ DOMAIN open = {1} /\ open[1] = 1 /\ Len(open) = 1
        /\ DOMAIN hist = {1} /\ hist[1] = h
        /\ DOMAIN boxes = {1} /\ boxes[1] = b
    <2>1. /\ IsSeq(<<1>>) /\ DOMAIN <<1>> = 1 .. 1 /\ <<1>>[1] = 1 /\ Len(<<1>>) = 1
          /\ DOMAIN <<h>> = 1 .. 1 /\ <<h>>[1] = h
          /\ DOMAIN <<b>> = 1 .. 1 /\ <<b>>[1] = b
      BY OneIs
    <2> QED BY <2>1, <1>1
  <1>10. b.fn = "choice" /\ DOMAIN b.kids = {}
    BY ChoiceIs DEF b
  <1>11. Len(calls) = 0 /\ DOMAIN calls = {}
    BY <1>1, <1>6
  <1>12. Listed(open, hist)
    BY <1>8, <1>9 DEF Listed
  <1>13. Kept(heap, open, hist)
    BY <1>7, <1>8, <1>9 DEF Kept
  <1>14. KidsAfter(boxes, hist, open)
    BY <1>9, <1>10 DEF KidsAfter
  <1>15. Path(boxes, hist, open, calls, ctl.box)
    BY <1>11 DEF Path
  <1>16. InOrder(boxes, hist, open, calls) /\ \A q : Apart(hist, open, calls, q)
    <2>1. \A i \in DOMAIN hist : ~ Resting(hist, open, calls, i)
      BY <1>8, <1>9 DEF Resting
    <2> QED BY <2>1 DEF InOrder, Apart
  <1>17. OpenPort
    BY <1>1, <1>8, <1>9, <1>16 DEF OpenPort, IsOpen, Entered
  <1> QED BY <1>11, <1>12, <1>13, <1>14, <1>15, <1>16, <1>17 DEF OInv

LEMMA StepOpen ==
  ASSUME IInv, IInv', OInv, GoalsBuilt, BindingsTrailed, [Next]_vars
  PROVE  OInv'
  <1>1. CASE UNCHANGED vars
    BY <1>1 DEF vars, OInv, OpenPort, Entered
  <1>2. CASE Answer
    BY <1>2 DEF Answer, OInv, OpenPort, Entered
  <1>3. CASE Done
    BY <1>3 DEF Done, vars, OInv, OpenPort, Entered
  <1>4. CASE BoxStep
    BY <1>4, LeafOpen, UnifyOpen, CatOpen, AltOpen, NotOpen, DeferredOpen, ChoiceOpen DEF BoxStep
  <1> QED BY <1>1, <1>2, <1>3, <1>4 DEF Next

(* The boxes that are open lie in the order in which they were entered, each    *)
(* covering what was entered below it, and the trail can take back what was     *)
(* bound since any of them was entered.                                        *)
THEOREM OpenInOrder == Spec /\ []GoalsBuilt /\ []BindingsTrailed => [](IInv /\ OInv)
  <1>1. Init => IInv /\ OInv
    BY InitKeeps, InitOpen
  <1>2. IInv /\ OInv /\ GoalsBuilt /\ BindingsTrailed /\ [Next]_vars => IInv' /\ OInv'
    BY StepKeeps, StepOpen
  <1> QED BY <1>1, <1>2, PTL DEF Spec

(* A predicate, a head or a unification that fails, and a negation that succeeds, *)
(* leaves every variable that existed at its alpha as it was there: each unwinds *)
(* to the mark it took there, and what was trailed since is what was bound since. *)
THEOREM FailureUndone == Spec /\ []GoalsBuilt /\ []BindingsTrailed => []FailureUnbinds
  <1>1. OInv => FailureUnbinds
    BY DEF OInv, OpenPort, FailureUnbinds, Exits, Undone
  <1> QED BY <1>1, OpenInOrder, PTL

(* Backtracking is chronological: a box is resumed only after it has succeeded,  *)
(* and when every box entered since has failed.  A body goal runs only while the *)
(* head of its clause has its variables.                                       *)
THEOREM Resumption == Spec /\ []GoalsBuilt /\ []BindingsTrailed => []ResumedAfterGamma
  <1>1. IInv /\ OInv => ResumedAfterGamma
    <2> SUFFICES ASSUME IInv, OInv PROVE ResumedAfterGamma
      OBVIOUS
    <2>1. ctl.port = "beta" => hist[ctl.box].exit = "gamma" /\ hist[ctl.box].to = Len(open)
      BY DEF IInv, PortOK, OInv, OpenPort
    <2>2. ASSUME Exits("alpha", {"deferred"}) PROVE boxes[boxes[ctl.box].head].fired
      <3> DEFINE d == ctl.box
                 f == calls[1]
                 i == f.box
      <3>1. boxes[d].fn = "deferred" /\ Stacked(boxes, calls, d) /\ Tree(boxes) /\ Clausal(boxes) /\ Shaped(boxes)
            /\ Waiting(boxes, hist, calls)
        BY <2>2 DEF Exits, IInv, Struct
      <3>2. 1 \in DOMAIN calls
        <4>1. d # 1
          BY <3>1 DEF Shaped
        <4>2. Len(calls) \in Nat /\ DOMAIN calls = 1 .. Len(calls) /\ Under(calls, d, Len(calls) + 1) = 1
          BY <3>1, StackFacts DEF Stacked
        <4> QED BY <4>1, <4>2 DEF Under
      <3>3. Fits(boxes, f, d) /\ Waits(boxes, hist, f)
        BY <3>1, <3>2 DEF Stacked, Under, Waiting
      <3>4. /\ i \in DOMAIN boxes /\ f.at \in Place /\ boxes[i].fn = FnAt(f.at)
            /\ Slot(f.at) \in DOMAIN boxes[i].kids /\ d = boxes[i].kids[Slot(f.at)]
        BY <3>1, <3>3 DEF Fits
      <3>5. boxes[i].fn = "cat" /\ Slot(f.at) = 2 /\ Chained(boxes, i, boxes[d].head)
        BY <3>1, <3>4 DEF Clausal
      <3>6. f.at = "right"
        <4> DEFINE at == f.at
        <4>1. at \in Place /\ FnAt(at) = "cat" /\ Slot(at) = 2
          BY <3>4, <3>5
        <4> HIDE DEF at
        <4>2. at = "right"
          BY <4>1 DEF Slot, FnAt, Place
        <4> QED BY <4>2 DEF at
      <3>7. hist[boxes[i].kids[1]].exit = "gamma" /\ 1 \in DOMAIN boxes[i].kids
        <4>1. hist[boxes[i].kids[1]].exit = "gamma"
          BY Zenon, <3>3, <3>6 DEF Waits
        <4> HIDE DEF i
        <4>2. 1 \in DOMAIN boxes[i].kids
          BY <3>1, <3>4, <3>5 DEF Shaped, Width
        <4> QED BY <4>1, <4>2
      <3>8. ~ OnStack(calls, boxes[i].kids[1])
        <4> SUFFICES ASSUME OnStack(calls, boxes[i].kids[1]) PROVE FALSE
          OBVIOUS
        <4>1. PICK j \in DOMAIN calls : j # 1 /\ calls[j].box = i
          BY <3>1, <3>4, <3>7, ParentBelow
        <4>2. \A x, y \in DOMAIN calls : calls[x].box = calls[y].box => x = y
          BY <3>1, StackFacts
        <4> QED BY <4>1, <4>2, <3>2
      <3> HIDE DEF d, f, i
      <3> QED BY <3>4, <3>5, <3>7, <3>8, ChainFired DEF d
    <2> QED BY <2>1, <2>2 DEF ResumedAfterGamma
  <1> QED BY <1>1, OpenInOrder, PTL

-----------------------------------------------------------------------------
(* Types.  What the proofs above do not keep of them is about the fields that   *)
(* the control does not rely on, and the shape of the records.                 *)
Plain(bs) == \A i \in DOMAIN bs : PlainBox(bs[i], DOMAIN bs)
Frame(f) == f = [box |-> f.box, at |-> f.at, saved |-> f.saved] /\ (f.at # "clause" => f.saved = 0)
Framed == ctl = [port |-> ctl.port, box |-> ctl.box] /\ \A j \in DOMAIN calls : Frame(calls[j])
TInv == phase \in {"run", "yes", "no"} /\ Framed /\ Plain(boxes)

LEMMA RestFramed ==
  ASSUME IInv, Framed, Entered \/ calls # <<>>
  PROVE  IsSeq(Rest) /\ \A j \in DOMAIN Rest : Frame(Rest[j])
  <1>1. IsSeq(calls)
    BY StackFacts DEF IInv
  <1>2. CASE Entered
    BY <1>1, <1>2 DEF Rest, Framed
  <1>3. CASE ~ Entered
    <2>1. calls # <<>> /\ Rest = Tail(calls)
      BY <1>3 DEF Rest
    <2>2. /\ Len(calls) \in Nat /\ DOMAIN calls = 1 .. Len(calls)
          /\ IsSeq(Rest) /\ DOMAIN Rest = 1 .. Len(calls) - 1
          /\ \A i \in 1 .. Len(calls) - 1 : Rest[i] = calls[i + 1]
      BY <1>1, <2>1, TailIs, SeqFacts
    <2>3. ASSUME NEW j \in DOMAIN Rest PROVE Frame(Rest[j])
      <3>1. j + 1 \in DOMAIN calls /\ Rest[j] = calls[j + 1]
        BY <2>2
      <3> QED BY <3>1 DEF Framed
    <2> QED BY <2>2, <2>3
  <1> QED BY <1>2, <1>3

LEMMA EnterFramed ==
  ASSUME IInv, Framed, Entered \/ calls # <<>>, NEW k, NEW port, NEW b, NEW at, NEW saved, NEW bs, NEW h,
         Enter(k, port, [box |-> b, at |-> at, saved |-> saved], bs, h), at # "clause" => saved = 0
  PROVE  Framed' /\ boxes' = bs
  <1> DEFINE f == [box |-> b, at |-> at, saved |-> saved]
             c == <<f>> \o Rest
  <1>1. boxes' = bs /\ calls' = c /\ ctl' = [port |-> port, box |-> k]
    BY DEF Enter
  <1>2. Frame(f)
    BY DEF Frame
  <1>3. IsSeq(Rest) /\ \A j \in DOMAIN Rest : Frame(Rest[j])
    BY RestFramed
  <1> HIDE DEF f, c
  <1>4. /\ DOMAIN c = 1 .. Len(Rest) + 1 /\ Len(Rest) \in Nat /\ DOMAIN Rest = 1 .. Len(Rest)
        /\ c[1] = f /\ \A i \in 2 .. Len(Rest) + 1 : c[i] = Rest[i - 1]
    BY <1>3, PushFacts DEF c
  <1>5. ASSUME NEW j \in DOMAIN c PROVE Frame(c[j])
    <2>1. CASE j = 1
      BY <2>1, <1>2, <1>4
    <2>2. CASE j # 1
      <3>1. j - 1 \in DOMAIN Rest /\ c[j] = Rest[j - 1]
        BY <2>2, <1>4
      <3> QED BY <3>1, <1>3
    <2> QED BY <2>1, <2>2
  <1>6. ctl' = [port |-> ctl'.port, box |-> ctl'.box]
    BY <1>1
  <1> QED BY <1>1, <1>5, <1>6 DEF Framed

LEMMA LeaveFramed ==
  ASSUME IInv, Framed, Entered \/ calls # <<>>, NEW port, NEW bs, NEW h, Leave(port, bs, h)
  PROVE  Framed' /\ boxes' = bs
  <1>1. boxes' = bs /\ calls' = Rest /\ ctl' = [port |-> port, box |-> Me]
    BY DEF Leave
  <1>2. ctl' = [port |-> ctl'.port, box |-> ctl'.box]
    BY <1>1
  <1> QED BY <1>1, <1>2, RestFramed DEF Framed

LEMMA CallTyped ==
  ASSUME IInv, TInv, UNCHANGED phase, Entered \/ calls # <<>>, NEW k, NEW port, NEW at \in Place \ {"clause"},
         Call(k, port, at)
  PROVE  TInv'
  <1>1. Enter(k, port, [box |-> Me, at |-> at, saved |-> 0], boxes, heap)
    BY DEF Call
  <1> QED BY <1>1, EnterFramed DEF TInv

LEMMA ExitTyped ==
  ASSUME IInv, TInv, UNCHANGED phase, Entered \/ calls # <<>>, NEW port, NEW h, Leave(port, boxes, h)
  PROVE  TInv'
  BY LeaveFramed DEF TInv

(* A step that assigns fields of box m, the box in control or the cut target.    *)
LEMMA PutPlain ==
  ASSUME IInv, TInv, NEW m \in DOMAIN boxes, NEW b, PlainBox(b, DOMAIN boxes)
  PROVE  Plain([boxes EXCEPT ![m] = b])
  <1> DEFINE bs == [boxes EXCEPT ![m] = b]
  <1>1. IsSeq(boxes)
    BY DEF IInv, Struct, Shaped
  <1>2. DOMAIN bs = DOMAIN boxes /\ \A i \in DOMAIN boxes : bs[i] = IF i = m THEN b ELSE boxes[i]
    BY <1>1, ExceptIs
  <1> HIDE DEF bs
  <1>3. Plain(bs)
    BY <1>2 DEF Plain, TInv
  <1> QED BY <1>3 DEF bs

LEMMA CallsTyped ==
  ASSUME IInv, TInv, UNCHANGED phase, Entered \/ calls # <<>>, NEW at, NEW saved, NEW k,
         Calls([box |-> Me, at |-> at, saved |-> saved], k), at # "clause" => saved = 0,
         PlainBox(boxes'[Me], DOMAIN boxes')
  PROVE  TInv'
  <1>1. Enter(k, "alpha", [box |-> Me, at |-> at, saved |-> saved], boxes', heap')
        /\ DOMAIN boxes \subseteq DOMAIN boxes' /\ PlainNew(boxes, boxes')
        /\ \A i \in DOMAIN boxes : i # Me => boxes'[i] = boxes[i]
    BY DEF Calls, Grows
  <1>2. Framed'
    BY <1>1, EnterFramed DEF TInv
  <1>3. ASSUME NEW i \in DOMAIN boxes, i # Me PROVE PlainBox(boxes'[i], DOMAIN boxes')
    <2>1. PlainBox(boxes[i], DOMAIN boxes) /\ boxes'[i] = boxes[i]
      BY <1>1, <1>3 DEF TInv, Plain
    <2> QED BY <2>1, <1>1 DEF PlainBox
  <1>4. \A i \in DOMAIN boxes' : PlainBox(boxes'[i], DOMAIN boxes')
    BY <1>1, <1>3 DEF PlainNew
  <1> QED BY <1>2, <1>4 DEF TInv, Plain

(* The steps that assign no box.                                               *)
LEMMA PassTyped ==
  ASSUME IInv, TInv, UNCHANGED phase,
         \/ TrueAlpha \/ FailAlpha \/ BuiltinAlpha \/ LeafBeta
         \/ CatLeftOmega \/ CatRightGamma \/ AltRight \/ NotBack \/ DeferredBack
         \/ ChoiceResumed \/ ChoiceGamma
  PROVE  TInv'
  <1>1. CASE TrueAlpha \/ FailAlpha \/ BuiltinAlpha \/ LeafBeta
    <2>1. Entered
      BY <1>1 DEF TrueAlpha, FailAlpha, BuiltinAlpha, LeafBeta, EnteredAt, Entered
    <2>2. \E port, h : Leave(port, boxes, h)
      BY ZenonT(30), <1>1 DEF TrueAlpha, FailAlpha, BuiltinAlpha, LeafBeta, Exit
    <2> QED BY <2>1, <2>2, ExitTyped
  <1>2. CASE CatLeftOmega \/ CatRightGamma \/ AltRight \/ NotBack \/ DeferredBack \/ ChoiceResumed \/ ChoiceGamma
    <2>1. calls # <<>>
      BY <1>2 DEF CatLeftOmega, CatRightGamma, AltRight, NotBack, DeferredBack, ChoiceResumed, ChoiceGamma, BackAt
    <2>2. \E port, h : Leave(port, boxes, h)
      BY ZenonT(30), <1>2
      DEF CatLeftOmega, CatRightGamma, AltRight, NotBack, DeferredBack, ChoiceResumed, ChoiceGamma, Pass
    <2> QED BY <2>1, <2>2, ExitTyped
  <1> QED BY <1>1, <1>2

LEMMA KidTyped ==
  ASSUME IInv, TInv, UNCHANGED phase,
         \/ CatAlpha \/ CatBeta \/ CatLeftGamma \/ CatRightOmega
         \/ AltAlpha \/ AltBeta \/ DeferredBeta \/ ChoiceBeta
  PROVE  TInv'
  <1> DEFINE At == Place \ {"clause"}
  <1>a. {"left", "right", "first", "again", "second", "inner", "resume"} \subseteq At
    BY DEF Place
  <1> HIDE DEF At
  <1>1. Entered \/ calls # <<>>
    BY DEF CatAlpha, CatBeta, CatLeftGamma, CatRightOmega, AltAlpha, AltBeta, DeferredBeta, ChoiceBeta,
           BackAt, EnteredAt, Entered
  <1>2. \E k, port : \E at \in {"left", "right", "first", "again", "second", "inner", "resume"} : Call(k, port, at)
    BY DEF CatAlpha, CatBeta, CatLeftGamma, CatRightOmega, AltAlpha, AltBeta, DeferredBeta, ChoiceBeta
  <1>3. \E k, port : \E at \in At : Call(k, port, at)
    BY <1>a, <1>2
  <1> QED BY <1>1, <1>3, CallTyped DEF At

(* The steps that assign fields of a box.                                       *)
LEMMA LeavePlain ==
  ASSUME IInv, TInv, UNCHANGED phase, Entered \/ calls # <<>>, NEW m \in DOMAIN boxes, NEW b,
         PlainBox(b, DOMAIN boxes), NEW port, NEW h, Leave(port, [boxes EXCEPT ![m] = b], h)
  PROVE  TInv'
  BY LeaveFramed, PutPlain DEF TInv

LEMMA UnifiedOk ==
  ASSUME NEW t1, NEW t2, NEW h, UnifyArgs(<<t1>>, <<t2>>, h).ok \in BOOLEAN
  PROVE  Unified(t1, t2, h).ok \in BOOLEAN
  <1> DEFINE g == UnifyArgs(<<t1>>, <<t2>>, h)
  <1>1. Unified(t1, t2, h) = IF g.ok THEN g ELSE [ok |-> FALSE, h |-> trail_unwind(g.h, Len(h.trail))]
    BY DEF Unified, trail_mark
  <1> HIDE DEF g
  <1>2. CASE g.ok
    BY <1>1, <1>2 DEF g
  <1>3. CASE ~ g.ok
    BY <1>1, <1>3
  <1> QED BY <1>2, <1>3

LEMMA UnifyTyped ==
  ASSUME IInv, OInv, TInv, BindingsTrailed, UNCHANGED phase, UnifyAlpha \/ HeadAlpha \/ UnifyBeta
  PROVE  TInv'
  <1>1. Entered /\ Me = ctl.box
    BY ZenonT(30) DEF UnifyAlpha, HeadAlpha, UnifyBeta, EnteredAt, Entered, Me
  <1>2. Struct(boxes) /\ Me \in DOMAIN boxes /\ PlainBox(boxes[Me], DOMAIN boxes)
    BY <1>1, MyKids DEF IInv, TInv, Plain
  <1>3. /\ "mark" \in DOMAIN boxes[Me] /\ "fired" \in DOMAIN boxes[Me] /\ "env" \in DOMAIN boxes[Me]
    BY <1>2, FieldsIs
  <1>a. Len(heap.trail) \in Nat
    BY HeapFacts DEF OInv, Kept
  <1>4. CASE UnifyAlpha
    <2> DEFINE ts == MakeTerms(My.goal.args, My.env, heap)
               ok == Unified(ts.t[1], ts.t[2], ts.h).ok
               b  == [boxes[Me] EXCEPT !.mark = Len(heap.trail), !.fired = ok]
    <2>1. Exits("alpha", {"is", "unify"})
      BY <1>4 DEF UnifyAlpha, EnteredAt, Exits
    <2>2. ok \in BOOLEAN
      <3>1. UnifyArgs(<<ts.t[1]>>, <<ts.t[2]>>, ts.h).ok \in BOOLEAN
        BY Zenon, <2>1 DEF BindingsTrailed
      <3> HIDE DEF ts
      <3> QED BY <3>1, UnifiedOk
    <2>3. \E h : Leave(Verdict(ok), [boxes EXCEPT ![Me].mark = Len(heap.trail), ![Me].fired = ok], h)
      BY <1>4 DEF UnifyAlpha, trail_mark
    <2> HIDE DEF ok
    <2>4. [boxes EXCEPT ![Me].mark = Len(heap.trail), ![Me].fired = ok] = [boxes EXCEPT ![Me] = b]
      BY <1>2, <1>3
    <2>5. /\ b.fn = boxes[Me].fn /\ b.head = boxes[Me].head /\ b.mark = Len(heap.trail) /\ b.fired = ok
          /\ b.cut = boxes[Me].cut /\ b.phase = boxes[Me].phase
      BY <1>3
    <2> HIDE DEF b
    <2>6. PlainBox(b, DOMAIN boxes)
      BY <1>2, <1>a, <2>2, <2>5 DEF PlainBox
    <2> QED BY <1>1, <1>2, <2>3, <2>4, <2>6, LeavePlain
  <1>5. CASE HeadAlpha
    <2> DEFINE n   == My.goal.nvars
               env == [i \in 1 .. n |-> Cell(Len(heap.cells) + i)]
               ts  == MakeTerms(My.goal.head, env, NewEnv(heap, n))
               ok  == UnifyArgs(My.args, ts.t, ts.h).ok
               b   == [boxes[Me] EXCEPT !.mark = Len(heap.trail), !.fired = ok, !.env = env]
    <2>1. Exits("alpha", {"head"})
      BY ZenonT(30), <1>5 DEF HeadAlpha, EnteredAt, Exits
    <2>2. ok \in BOOLEAN
      BY <2>1 DEF BindingsTrailed
    <2>3. \E h : Leave(Verdict(ok), [boxes EXCEPT ![Me].mark = Len(heap.trail), ![Me].fired = ok, ![Me].env = env], h)
      BY ZenonT(30), <1>5 DEF HeadAlpha, trail_mark
    <2> HIDE DEF ok, env
    <2>4. [boxes EXCEPT ![Me].mark = Len(heap.trail), ![Me].fired = ok, ![Me].env = env] = [boxes EXCEPT ![Me] = b]
      BY <1>2, <1>3
    <2>5. /\ b.fn = boxes[Me].fn /\ b.head = boxes[Me].head /\ b.mark = Len(heap.trail) /\ b.fired = ok
          /\ b.cut = boxes[Me].cut /\ b.phase = boxes[Me].phase
      BY <1>3
    <2> HIDE DEF b
    <2>6. PlainBox(b, DOMAIN boxes)
      BY <1>2, <1>a, <2>2, <2>5 DEF PlainBox
    <2> QED BY <1>1, <1>2, <2>3, <2>4, <2>6, LeavePlain
  <1>6. CASE UnifyBeta
    <2> DEFINE b == [boxes[Me] EXCEPT !.fired = FALSE]
    <2>1. \E h : Leave("omega", [boxes EXCEPT ![Me].fired = FALSE], h)
      BY <1>6 DEF UnifyBeta
    <2>2. [boxes EXCEPT ![Me].fired = FALSE] = [boxes EXCEPT ![Me] = b]
      BY <1>2, <1>3
    <2>3. /\ b.fn = boxes[Me].fn /\ b.head = boxes[Me].head /\ b.mark = boxes[Me].mark /\ b.fired = FALSE
          /\ b.cut = boxes[Me].cut /\ b.phase = boxes[Me].phase
      BY <1>3
    <2> HIDE DEF b
    <2>4. PlainBox(b, DOMAIN boxes)
      <3>1. b.fired \in BOOLEAN
        BY <2>3, Zenon
      <3> QED BY <1>2, <2>3, <3>1 DEF PlainBox
    <2> QED BY <1>1, <1>2, <2>1, <2>2, <2>4, LeavePlain
  <1> QED BY <1>4, <1>5, <1>6

(* The cut target is a box, and what the frames have saved is one or none.       *)
LEMMA TargetTyped ==
  ASSUME NEW bs, NEW fs, NEW b, NEW c, NEW m, Stacked(bs, fs, b), Target(fs, c, m)
  PROVE  c \in DOMAIN bs \cup {0}
  BY StackFacts DEF Target

LEMMA CutTyped ==
  ASSUME IInv, TInv, UNCHANGED phase, CutAlpha
  PROVE  TInv'
  <1> DEFINE b == [boxes[cutflag] EXCEPT !.cut = TRUE]
             bs == [boxes EXCEPT ![cutflag].cut = TRUE]
  <1>1. Entered /\ Leave("gamma", bs, heap)
    BY DEF CutAlpha, EnteredAt, Entered
  <1>2. Struct(boxes) /\ IsSeq(boxes)
    BY DEF IInv, Struct, Shaped
  <1>3. CASE cutflag \in DOMAIN boxes
    <2>1. PlainBox(boxes[cutflag], DOMAIN boxes) /\ "cut" \in DOMAIN boxes[cutflag]
      BY <1>2, <1>3, FieldsIs DEF TInv, Plain
    <2>2. bs = [boxes EXCEPT ![cutflag] = b]
      BY <1>3, <2>1
    <2>3. /\ b.fn = boxes[cutflag].fn /\ b.head = boxes[cutflag].head /\ b.mark = boxes[cutflag].mark
          /\ b.fired = boxes[cutflag].fired /\ b.cut = TRUE /\ b.phase = boxes[cutflag].phase
      BY <2>1
    <2> HIDE DEF b, bs
    <2>4. b.cut \in BOOLEAN
      BY <2>3, Zenon
    <2>5. PlainBox(b, DOMAIN boxes)
      BY <2>1, <2>3, <2>4 DEF PlainBox
    <2> QED BY <1>1, <1>3, <2>2, <2>5, LeavePlain
  <1>4. CASE cutflag \notin DOMAIN boxes
    <2>1. bs = [boxes EXCEPT ![cutflag] = b]
      OBVIOUS
    <2> HIDE DEF b, bs
    <2>2. DOMAIN bs = DOMAIN boxes /\ \A i \in DOMAIN boxes : bs[i] = boxes[i]
      BY <2>1, <1>2, <1>4, ExceptIs
    <2>3. Framed' /\ boxes' = bs
      BY <1>1, LeaveFramed DEF TInv
    <2>4. Plain(bs)
      BY <2>2 DEF TInv, Plain
    <2> QED BY <2>3, <2>4 DEF TInv
  <1> QED BY <1>3, <1>4

LEMMA AltTyped ==
  ASSUME IInv, TInv, UNCHANGED phase, AltLeftGamma \/ AltLeftOmega
  PROVE  TInv'
  <1>1. calls # <<>>
    BY DEF AltLeftGamma, AltLeftOmega, LeftExhausted, BackAt
  <1>2. /\ Me \in DOMAIN boxes /\ "phase" \in DOMAIN boxes[Me] /\ PlainBox(boxes[Me], DOMAIN boxes)
    BY <1>1, MyKids, FieldsIs DEF IInv, TInv, Plain
  <1>3. ASSUME NEW p \in {0, 2}
        PROVE  PlainBox([boxes[Me] EXCEPT !.phase = p], DOMAIN boxes)
    <2> DEFINE b == [boxes[Me] EXCEPT !.phase = p]
    <2>1. /\ b.fn = boxes[Me].fn /\ b.head = boxes[Me].head /\ b.mark = boxes[Me].mark
          /\ b.fired = boxes[Me].fired /\ b.cut = boxes[Me].cut /\ b.phase = p
      BY <1>2
    <2> HIDE DEF b
    <2>2. PlainBox(b, DOMAIN boxes)
      BY <1>2, <2>1 DEF PlainBox
    <2> QED BY <2>2 DEF b
  <1>4. CASE AltLeftGamma
    <2> DEFINE p == IF Head(calls).at = "first" THEN 0 ELSE boxes[Me].phase
    <2>1. Leave("gamma", [boxes EXCEPT ![Me] = [boxes[Me] EXCEPT !.phase = p]], heap)
      <3>1. Leave("gamma", [boxes EXCEPT ![Me].phase = IF Head(calls).at = "first" THEN 0 ELSE @], heap)
        BY <1>4 DEF AltLeftGamma
      <3>2. [boxes EXCEPT ![Me].phase = IF Head(calls).at = "first" THEN 0 ELSE @]
              = [boxes EXCEPT ![Me] = [boxes[Me] EXCEPT !.phase = p]]
        BY <1>2
      <3> QED BY <3>1, <3>2
    <2>2. p \in {0, 2}
      BY <1>2 DEF PlainBox
    <2> HIDE DEF p
    <2> QED BY <1>1, <1>2, <1>3, <2>1, <2>2, LeavePlain
  <1>5. CASE AltLeftOmega
    <2> DEFINE bs == [boxes EXCEPT ![Me].phase = 2]
               b  == [boxes[Me] EXCEPT !.phase = 2]
    <2>1. Enter(boxes[Me].kids[2], "alpha", [box |-> Me, at |-> "second", saved |-> 0], bs, heap)
      BY <1>5 DEF AltLeftOmega, My
    <2>2. bs = [boxes EXCEPT ![Me] = b] /\ PlainBox(b, DOMAIN boxes)
      BY <1>2, <1>3
    <2> HIDE DEF bs, b
    <2>3. Framed' /\ boxes' = bs
      BY <1>1, <2>1, EnterFramed DEF TInv
    <2> QED BY <1>2, <2>2, <2>3, PutPlain DEF TInv
  <1> QED BY <1>4, <1>5

(* The steps that make boxes.                                                  *)
LEMMA MadeTyped ==
  ASSUME IInv, OInv, TInv, GoalsBuilt, UNCHANGED phase, NotAlpha \/ DeferredAlpha
  PROVE  TInv'
  <1>1. CASE NotAlpha
    <2> DEFINE b == [boxes[Me] EXCEPT !.mark = Len(heap.trail)]
    <2>1. Entered /\ Calls([box |-> Me, at |-> "not", saved |-> 0], Len(boxes) + 1) /\ boxes'[Me] = b
      BY <1>1, NotMade
    <2>2. /\ Me \in DOMAIN boxes /\ "mark" \in DOMAIN boxes[Me] /\ PlainBox(boxes[Me], DOMAIN boxes)
          /\ Len(heap.trail) \in Nat
      BY <2>1, MyKids, FieldsIs, HeapFacts DEF IInv, TInv, Plain, OInv, Kept
    <2>3. /\ b.fn = boxes[Me].fn /\ b.head = boxes[Me].head /\ b.mark = Len(heap.trail)
          /\ b.fired = boxes[Me].fired /\ b.cut = boxes[Me].cut /\ b.phase = boxes[Me].phase
      BY <2>2
    <2>4. DOMAIN boxes \subseteq DOMAIN boxes'
      BY <2>1 DEF Calls, Grows
    <2> HIDE DEF b
    <2>5. PlainBox(boxes'[Me], DOMAIN boxes')
      BY <2>1, <2>2, <2>3, <2>4 DEF PlainBox
    <2> QED BY <2>1, <2>5, CallsTyped
  <1>2. CASE DeferredAlpha
    <2>1. /\ Entered /\ \E k : Calls([box |-> Me, at |-> "inner", saved |-> 0], k)
          /\ PlainBox(boxes[Me], DOMAIN boxes) => PlainBox(boxes'[Me], DOMAIN boxes')
      BY <1>2, DeferredMade
    <2>2. PlainBox(boxes[Me], DOMAIN boxes)
      BY <2>1, MyKids DEF TInv, Plain
    <2> QED BY <2>1, <2>2, CallsTyped
  <1> QED BY <1>1, <1>2

LEMMA LoopTyped ==
  ASSUME IInv, TInv, GoalsBuilt, UNCHANGED phase, Entered \/ calls # <<>>,
         NEW b, NEW saved, Loop(b, saved), boxes[Me].fn = "choice",
         DOMAIN b = DOMAIN boxes[Me], b.fn = "choice", b.kids = boxes[Me].kids, b.head = boxes[Me].head,
         b.pred = boxes[Me].pred, b.ci \in Nat, PlainBox(b, DOMAIN boxes)
  PROVE  TInv'
  <1>1. CASE GivesUp(b, saved)
    <2>1. Me \in DOMAIN boxes
      BY MyKids
    <2> QED BY <1>1, <2>1, LeavePlain DEF GivesUp
  <1>2. CASE Tries(b, saved)
    <2>1. /\ \E k : Calls([box |-> Me, at |-> "clause", saved |-> saved], k)
          /\ PlainBox(boxes'[Me], DOMAIN boxes')
      BY <1>2, LoopMade
    <2> QED BY <2>1, CallsTyped
  <1> QED BY <1>1, <1>2, LoopIs

LEMMA ChoiceTyped ==
  ASSUME IInv, OInv, TInv, GoalsBuilt, UNCHANGED phase, ChoiceAlpha \/ ChoiceExhausted \/ ChoiceOmega
  PROVE  TInv'
  <1>1. CASE ChoiceAlpha
    <2> DEFINE b == [boxes[Me] EXCEPT !.mark = Len(heap.trail), !.ci = 0, !.cut = FALSE]
    <2>1. Entered /\ boxes[Me].fn = "choice" /\ Loop(b, cutflag)
      BY <1>1 DEF ChoiceAlpha, EnteredAt, Entered, Me, My, trail_mark
    <2>2. /\ Me \in DOMAIN boxes /\ "mark" \in DOMAIN boxes[Me] /\ "ci" \in DOMAIN boxes[Me]
          /\ "cut" \in DOMAIN boxes[Me] /\ PlainBox(boxes[Me], DOMAIN boxes) /\ Len(heap.trail) \in Nat
      BY <2>1, MyKids, FieldsIs, HeapFacts DEF IInv, TInv, Plain, OInv, Kept
    <2>3. /\ DOMAIN b = DOMAIN boxes[Me] /\ b.fn = "choice" /\ b.kids = boxes[Me].kids
          /\ b.head = boxes[Me].head /\ b.pred = boxes[Me].pred /\ b.ci \in Nat
          /\ b.mark = Len(heap.trail) /\ b.cut = FALSE /\ b.fired = boxes[Me].fired /\ b.phase = boxes[Me].phase
      BY <2>1, <2>2
    <2> HIDE DEF b
    <2>4. b.cut \in BOOLEAN
      BY <2>3, Zenon
    <2>5. PlainBox(b, DOMAIN boxes)
      BY <2>1, <2>2, <2>3, <2>4 DEF PlainBox
    <2> QED BY <2>1, <2>3, <2>5, LoopTyped
  <1>2. CASE ChoiceExhausted \/ ChoiceOmega
    <2> DEFINE b == [boxes[Me] EXCEPT !.ci = @ + 1]
    <2>1. PICK at \in {"clause", "resume"} : BackAt("omega", "choice", at) /\ \E saved : Loop(b, saved)
      BY <1>2 DEF ChoiceExhausted, ChoiceOmega, My
    <2>2. PICK saved : Loop(b, saved)
      BY <2>1
    <2>3. calls # <<>> /\ boxes[Me].fn = "choice"
      BY <2>1, Back
    <2>4. /\ Me \in DOMAIN boxes /\ boxes[Me].ci \in Nat /\ "ci" \in DOMAIN boxes[Me]
          /\ PlainBox(boxes[Me], DOMAIN boxes)
      BY <2>3, MyKids, FieldsIs DEF IInv, TInv, Plain
    <2>5. /\ DOMAIN b = DOMAIN boxes[Me] /\ b.fn = "choice" /\ b.kids = boxes[Me].kids
          /\ b.head = boxes[Me].head /\ b.pred = boxes[Me].pred /\ b.ci \in Nat /\ b.mark = boxes[Me].mark
          /\ b.cut = boxes[Me].cut /\ b.fired = boxes[Me].fired /\ b.phase = boxes[Me].phase
      BY <2>3, <2>4
    <2> HIDE DEF b
    <2>6. PlainBox(b, DOMAIN boxes)
      BY <2>3, <2>4, <2>5 DEF PlainBox
    <2> QED BY <2>2, <2>3, <2>5, <2>6, LoopTyped
  <1> QED BY <1>1, <1>2

LEMMA InitTyped ==
  ASSUME Init
  PROVE  TInv
  <1> DEFINE b == Choice(prog.main, MainArgs(prog))
  <1>1. phase = "run" /\ boxes = <<b>> /\ calls = <<>> /\ ctl = [port |-> "alpha", box |-> 1]
    BY DEF Init
  <1>2. DOMAIN boxes = {1} /\ boxes[1] = b
    BY <1>1, OneIs
  <1>3. PlainBox(b, DOMAIN boxes)
    BY ChoiceIs
  <1> HIDE DEF b
  <1>4. Plain(boxes)
    BY <1>2, <1>3 DEF Plain
  <1>5. Framed
    <2>1. DOMAIN calls = {}
      BY <1>1 DEF IsSeq, Range
    <2>2. ctl = [port |-> ctl.port, box |-> ctl.box]
      BY <1>1
    <2> QED BY <2>1, <2>2 DEF Framed
  <1> QED BY <1>1, <1>4, <1>5 DEF TInv

LEMMA StepTyped ==
  ASSUME IInv, OInv, TInv, GoalsBuilt, BindingsTrailed, [Next]_vars
  PROVE  TInv'
  <1>1. CASE UNCHANGED vars \/ Done
    BY <1>1 DEF Done, vars, TInv, Framed
  <1>2. CASE Answer
    BY <1>2 DEF Answer, TInv, Framed
  <1>3. CASE BoxStep
    BY <1>3, PassTyped, KidTyped, UnifyTyped, CutTyped, AltTyped, MadeTyped, ChoiceTyped DEF BoxStep
  <1> QED BY <1>1, <1>2, <1>3 DEF Next

LEMMA SeqOf ==
  ASSUME NEW s, NEW S, IsSeq(s), \A i \in DOMAIN s : s[i] \in S
  PROVE  s \in Seq(S)
  <1>1. Len(s) \in Nat /\ s \in [1 .. Len(s) -> S]
    BY SeqFacts
  <1> QED BY <1>1, SeqDef

LEMMA TypeFollows ==
  ASSUME IInv, OInv, TInv
  PROVE  TypeOK
  <1>1. /\ Struct(boxes) /\ IsSeq(heap.trail) /\ \A i \in DOMAIN heap.trail : heap.trail[i] \in DOMAIN heap.cells
        /\ \A c \in DOMAIN heap.cells : heap.cells[c].named \in BOOLEAN
        /\ Stacked(boxes, calls, ctl.box) /\ Nested(calls, cutflag) /\ DOMAIN hist = Id
        /\ IsSeq(open) /\ \A n \in DOMAIN open : open[n] \in Id
        /\ ctl.port \in {"alpha", "beta", "gamma", "omega"}
    BY DEF IInv, OInv, Kept, IsHeap, Listed, HistOK, PortOK, Id
  <1>2. ASSUME NEW i \in Id
        PROVE  /\ boxes[i].fn \in FnName /\ Range(boxes[i].kids) \subseteq Id
               /\ boxes[i].head \in Id \cup {0} /\ boxes[i].mark \in Nat /\ boxes[i].ci \in Nat
               /\ boxes[i].fired \in BOOLEAN /\ boxes[i].cut \in BOOLEAN /\ boxes[i].phase \in {0, 2}
    <2>1. PlainBox(boxes[i], Id) /\ boxes[i].ci \in Nat /\ \A a \in DOMAIN boxes[i].kids : boxes[i].kids[a] \in Id
      BY <1>1 DEF Struct, Tree, Shaped, TInv, Plain, Id
    <2>2. Range(boxes[i].kids) \subseteq Id
      BY <2>1 DEF Range
    <2> QED BY <2>1, <2>2 DEF PlainBox
  <1>3. heap.trail \in Seq(DOMAIN heap.cells) /\ open \in Seq(Id)
    BY <1>1, SeqOf
  <1>4. ctl \in [port : {"alpha", "beta", "gamma", "omega"}, box : Id]
    <2>1. ctl = [port |-> ctl.port, box |-> ctl.box] /\ ctl.box \in Id
      BY <1>1, StackFacts DEF TInv, Framed, Id
    <2> QED BY <2>1, <1>1
  <1>5. calls \in Seq([box : Id, at : Place, saved : Id \cup {0}])
    <2>1. ASSUME NEW j \in DOMAIN calls PROVE calls[j] \in [box : Id, at : Place, saved : Id \cup {0}]
      <3>1. calls[j].box \in Id /\ calls[j].at \in Place
        BY <1>1 DEF Stacked, Fits, Id
      <3>2. calls[j].saved \in Id \cup {0}
        <4>1. CASE calls[j].at = "clause"
          <5>1. Target(calls, calls[j].saved, j + 1)
            BY <1>1, <4>1 DEF Nested
          <5> QED BY <5>1, <1>1, TargetTyped DEF Id
        <4>2. CASE calls[j].at # "clause"
          BY <4>2 DEF TInv, Framed, Frame
        <4> QED BY <4>1, <4>2
      <3>3. calls[j] = [box |-> calls[j].box, at |-> calls[j].at, saved |-> calls[j].saved]
        BY DEF TInv, Framed, Frame
      <3> QED BY <3>1, <3>2, <3>3
    <2>2. IsSeq(calls)
      BY <1>1 DEF Stacked
    <2> QED BY <2>1, <2>2, SeqOf
  <1>6. cutflag \in Id \cup {0}
    BY <1>1, TargetTyped DEF Nested, Id
  <1>7. phase \in {"run", "yes", "no"}
    BY DEF TInv
  <1> QED BY <1>1, <1>2, <1>3, <1>4, <1>5, <1>6, <1>7 DEF TypeOK

(* Every variable has its type: what the boxes, the frames and the heap hold is  *)
(* what the ports read, whatever goals are built and terms are made.            *)
THEOREM TypeCorrect == Spec /\ []GoalsBuilt /\ []BindingsTrailed => []TypeOK
  <1>1. Init => TInv
    BY InitTyped
  <1>2. IInv /\ OInv /\ TInv /\ GoalsBuilt /\ BindingsTrailed /\ [Next]_vars => TInv'
    BY StepTyped
  <1>3. IInv /\ OInv /\ TInv => TypeOK
    BY TypeFollows
  <1> QED BY <1>1, <1>2, <1>3, OpenInOrder, PTL DEF Spec


=============================================================================
