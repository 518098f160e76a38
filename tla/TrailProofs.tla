----------------------------- MODULE TrailProofs -----------------------------
(***************************************************************************)
(* The trail implements copies of the store, for any variables, terms and  *)
(* marks.  That holds because the trail lists exactly the bound variables, *)
(* each once, and because marks lie below its top in their order: IInv.    *)
(***************************************************************************)
EXTENDS Trail, TLAPS

NamedKept == \A c \in Vars : heap.cells[c].named <=> c \in Named

IInv == TypeOK /\ TrailListsBound /\ MarksInOrder /\ NamedKept

-----------------------------------------------------------------------------
(* What binding and unwinding do, point by point *)

LEMMA Appended ==
  ASSUME NEW S, NEW s \in Seq(S), NEW e \in S
  PROVE  LET r == Append(s, e)
         IN /\ r \in Seq(S) /\ Len(r) = Len(s) + 1 /\ Len(s) \in Nat
            /\ DOMAIN r = 1 .. Len(s) + 1 /\ DOMAIN s = 1 .. Len(s)
            /\ \A i \in DOMAIN s : r[i] = s[i]
            /\ r[Len(s) + 1] = e
  OBVIOUS

LEMMA AppendedFrom ==
  ASSUME NEW S, NEW s \in Seq(S), NEW e \in S, NEW n \in 0 .. Len(s)
  PROVE  LET r == Append(s, e)
         IN {r[i] : i \in n + 1 .. Len(r)} = {s[i] : i \in n + 1 .. Len(s)} \cup {e}
<1> DEFINE r == Append(s, e)
<1>1. /\ Len(r) = Len(s) + 1 /\ Len(s) \in Nat
      /\ \A i \in 1 .. Len(s) : r[i] = s[i]
      /\ r[Len(s) + 1] = e
  BY Appended
<1> HIDE DEF r
<1>2. ASSUME NEW i \in n + 1 .. Len(r)
      PROVE  r[i] = e \/ \E j \in n + 1 .. Len(s) : r[i] = s[j]
  BY <1>1
<1>3. ASSUME NEW i \in n + 1 .. Len(s)
      PROVE  i \in n + 1 .. Len(r) /\ r[i] = s[i]
  BY <1>1
<1>4. Len(r) \in n + 1 .. Len(r) /\ r[Len(r)] = e
  BY <1>1
<1>5. {r[i] : i \in n + 1 .. Len(r)} = {s[i] : i \in n + 1 .. Len(s)} \cup {e}
  BY <1>2, <1>3, <1>4
<1> QED
  BY <1>5 DEF r

LEMMA BindResult ==
  ASSUME IInv, NEW c \in Vars, NEW t \in Terms, heap.cells[c].ref = Free
  PROVE  LET h == bind(heap, c, t)
         IN /\ h \in Heaps
            /\ \A d \in Vars : /\ h.cells[d].named = heap.cells[d].named
                               /\ h.cells[d].ref = IF d = c THEN t ELSE heap.cells[d].ref
            /\ c \in Named => h.trail = Append(heap.trail, c)
            /\ c \notin Named => h.trail = heap.trail
<1> DEFINE h == bind(heap, c, t)
<1>1. h.cells = [heap.cells EXCEPT ![c].ref = t]
  BY DEF bind
<1>2. /\ c \in Named => h.trail = Append(heap.trail, c)
      /\ c \notin Named => h.trail = heap.trail
  BY DEF bind, IInv, NamedKept
<1>3. h = [cells |-> h.cells, trail |-> h.trail]
  BY DEF bind
<1>4. /\ heap.cells \in [Vars -> [ref : Terms \cup {Free}, named : BOOLEAN]]
      /\ heap.trail \in Seq(Vars)
  BY DEF IInv, TypeOK, Heaps
<1>5. h.cells \in [Vars -> [ref : Terms \cup {Free}, named : BOOLEAN]]
  BY <1>1, <1>4
<1>6. h.trail \in Seq(Vars)
  <2>1. CASE c \in Named
    <3>1. Append(heap.trail, c) \in Seq(Vars)
      BY <1>4
    <3> QED
      BY <2>1, <3>1, <1>2
  <2>2. CASE c \notin Named
    BY <2>2, <1>2, <1>4
  <2> HIDE DEF h
  <2> QED
    BY <2>1, <2>2
<1>7. h \in Heaps
  BY <1>3, <1>5, <1>6 DEF Heaps
<1>8. \A d \in Vars : /\ h.cells[d].named = heap.cells[d].named
                      /\ h.cells[d].ref = IF d = c THEN t ELSE heap.cells[d].ref
  BY <1>1, <1>4
<1> QED
  BY <1>2, <1>7, <1>8

LEMMA UnwindResult ==
  ASSUME IInv, NEW n \in 0 .. Len(heap.trail)
  PROVE  LET h == trail_unwind(heap, n)
         IN /\ h \in Heaps
            /\ \A d \in Vars : /\ h.cells[d].named = heap.cells[d].named
                               /\ h.cells[d].ref = IF d \in Trailed(heap, n) THEN Free ELSE heap.cells[d].ref
            /\ Len(h.trail) = n
            /\ \A i \in 1 .. n : h.trail[i] = heap.trail[i]
<1> DEFINE h == trail_unwind(heap, n)
<1>1. /\ heap.cells \in [Vars -> [ref : Terms \cup {Free}, named : BOOLEAN]]
      /\ heap.trail \in Seq(Vars)
  BY DEF IInv, TypeOK, Heaps
<1>2. h = [cells |-> h.cells, trail |-> h.trail]
  BY DEF trail_unwind
<1>3. h.cells = [c \in Vars |->
                   IF c \in Trailed(heap, n) THEN [heap.cells[c] EXCEPT !.ref = Free] ELSE heap.cells[c]]
  BY <1>1 DEF trail_unwind
<1>4. /\ h.cells \in [Vars -> [ref : Terms \cup {Free}, named : BOOLEAN]]
      /\ \A d \in Vars : /\ h.cells[d].named = heap.cells[d].named
                         /\ h.cells[d].ref = IF d \in Trailed(heap, n) THEN Free ELSE heap.cells[d].ref
  BY ZenonT(60), <1>1, <1>3
<1>5. h.trail = IF n < Len(heap.trail) THEN SubSeq(heap.trail, 1, n) ELSE heap.trail
  BY DEF trail_unwind
<1>6. /\ h.trail \in Seq(Vars) /\ Len(h.trail) = n
      /\ \A i \in 1 .. n : h.trail[i] = heap.trail[i]
  BY <1>1, <1>5
<1> QED
  BY <1>2, <1>4, <1>6 DEF Heaps

-----------------------------------------------------------------------------
(* The invariant *)

\* Every variable keeps its type, the trail lists the bound variables and the
\* marks stay in order.
THEOREM Invariant == Spec => []IInv
<1>1. Init => IInv
  <2> SUFFICES ASSUME Init PROVE IInv
    OBVIOUS
  <2>1. heap.cells = [c \in Vars |-> [ref |-> Free, named |-> c \in Named]] /\ heap.trail = <<>> /\ marks = <<>>
    BY DEF Init, FreeCell
  <2>2. TypeOK
    <3>1. heap = [cells |-> heap.cells, trail |-> heap.trail]
      BY DEF Init
    <3>2. heap.cells \in [Vars -> [ref : Terms \cup {Free}, named : BOOLEAN]]
      BY <2>1
    <3>3. heap.trail \in Seq(Vars) /\ marks \in Seq(Nat)
      BY <2>1
    <3>4. heap \in Heaps
      BY <3>1, <3>2, <3>3 DEF Heaps
    <3> QED
      BY <3>3, <3>4 DEF TypeOK
  <2>3. TrailListsBound /\ MarksInOrder /\ NamedKept
    <3>1. DOMAIN heap.trail = {} /\ DOMAIN marks = {}
      BY <2>1
    <3>2. \A c \in Vars : heap.cells[c].ref = Free /\ heap.cells[c].named = (c \in Named)
      BY <2>1
    <3> QED
      BY <3>1, <3>2 DEF TrailListsBound, MarksInOrder, NamedKept
  <2> QED
    BY <2>2, <2>3 DEF IInv
<1>2. IInv /\ [Next]_vars => IInv'
  <2> SUFFICES ASSUME IInv, [Next]_vars PROVE IInv'
    OBVIOUS
  <2> USE TrailAssumption
  <2>0. /\ heap.cells \in [Vars -> [ref : Terms \cup {Free}, named : BOOLEAN]]
        /\ heap.trail \in Seq(Vars) /\ marks \in Seq(Nat)
    BY DEF IInv, TypeOK, Heaps
  <2>1. CASE Bind
    <3>1. PICK c \in Vars, t \in Terms : heap.cells[c].ref = Free /\ heap' = bind(heap, c, t) /\ marks' = marks
      BY <2>1 DEF Bind
    <3>2. /\ heap' \in Heaps
          /\ \A d \in Vars : /\ heap'.cells[d].named = heap.cells[d].named
                             /\ heap'.cells[d].ref = IF d = c THEN t ELSE heap.cells[d].ref
          /\ c \in Named => heap'.trail = Append(heap.trail, c)
          /\ c \notin Named => heap'.trail = heap.trail
      BY <3>1, BindResult
    <3>3. heap.cells[c].named <=> c \in Named
      BY DEF IInv, NamedKept
    <3>4. \A i \in DOMAIN heap.trail : heap.trail[i] # c
      BY <3>1 DEF IInv, TrailListsBound
    <3>5. TypeOK' /\ NamedKept'
      BY <3>1, <3>2 DEF IInv, TypeOK, NamedKept
    <3>6. TrailListsBound'
      <4>1. CASE c \in Named
        <5>1. /\ DOMAIN heap'.trail = 1 .. Len(heap.trail) + 1 /\ DOMAIN heap.trail = 1 .. Len(heap.trail)
              /\ \A i \in DOMAIN heap.trail : heap'.trail[i] = heap.trail[i]
              /\ heap'.trail[Len(heap.trail) + 1] = c /\ Len(heap.trail) \in Nat
          <6>1. heap'.trail = Append(heap.trail, c) /\ heap.trail \in Seq(Vars)
            BY <4>1, <3>2, <2>0
          <6> QED
            BY <6>1, Appended
        <5>2. \A i, j \in DOMAIN heap'.trail : heap'.trail[i] = heap'.trail[j] => i = j
          <6>1. \A i \in DOMAIN heap'.trail : \/ i \in DOMAIN heap.trail /\ heap'.trail[i] = heap.trail[i]
                                              \/ i = Len(heap.trail) + 1 /\ heap'.trail[i] = c
            BY <5>1
          <6> QED
            BY <6>1, <3>4 DEF IInv, TrailListsBound
        <5>3. ASSUME NEW d \in Vars
              PROVE  (\E i \in DOMAIN heap'.trail : heap'.trail[i] = d)
                       <=> heap'.cells[d].named /\ heap'.cells[d].ref # Free
          <6>1. CASE d = c
            <7>1. Len(heap.trail) + 1 \in DOMAIN heap'.trail /\ heap'.trail[Len(heap.trail) + 1] = d
              BY <6>1, <5>1
            <7>2. heap'.cells[d].named /\ heap'.cells[d].ref # Free
              BY <6>1, <4>1, <3>2, <3>3
            <7> QED
              BY <7>1, <7>2
          <6>2. CASE d # c
            <7>1. ASSUME NEW i \in DOMAIN heap'.trail, heap'.trail[i] = d
                  PROVE  i \in DOMAIN heap.trail /\ heap.trail[i] = d
              BY <7>1, <6>2, <5>1
            <7>2. \A i \in DOMAIN heap.trail : i \in DOMAIN heap'.trail /\ heap'.trail[i] = heap.trail[i]
              BY <5>1
            <7> QED
              BY <7>1, <7>2, <6>2, <3>2 DEF IInv, TrailListsBound
          <6> QED
            BY <6>1, <6>2
        <5> QED
          BY <5>2, <5>3 DEF TrailListsBound
      <4>2. CASE c \notin Named
        BY <4>2, <3>2, <3>3, <3>4 DEF IInv, TrailListsBound
      <4> QED
        BY <4>1, <4>2
    <3>7. MarksInOrder'
      <4>1. Len(heap.trail) <= Len(heap'.trail)
        BY <3>2, <2>0
      <4> QED
        BY <4>1, <3>1, <3>2, <2>0 DEF IInv, MarksInOrder, Heaps
    <3> QED
      BY <3>5, <3>6, <3>7 DEF IInv
  <2>2. CASE Mark
    <3>1. heap' = heap /\ marks' = Append(marks, Len(heap.trail))
      BY <2>2 DEF Mark, trail_mark
    <3>2. /\ marks' \in Seq(Nat) /\ DOMAIN marks' = 1 .. Len(marks) + 1
          /\ \A k \in 1 .. Len(marks) : marks'[k] = marks[k]
          /\ marks'[Len(marks) + 1] = Len(heap.trail)
      BY <3>1, <2>0
    <3>3. MarksInOrder'
      BY <3>1, <3>2, <2>0 DEF IInv, MarksInOrder
    <3> QED
      BY <3>1, <3>2, <3>3 DEF IInv, TypeOK, TrailListsBound, NamedKept
  <2>3. CASE Unwind
    <3>1. PICK k \in DOMAIN marks : heap' = trail_unwind(heap, marks[k]) /\ marks' = SubSeq(marks, 1, k)
      BY <2>3 DEF Unwind
    <3> DEFINE n == marks[k]
    <3>2. n \in 0 .. Len(heap.trail)
      BY <2>0 DEF IInv, MarksInOrder
    <3>3. /\ heap' \in Heaps
          /\ \A d \in Vars : /\ heap'.cells[d].named = heap.cells[d].named
                             /\ heap'.cells[d].ref = IF d \in Trailed(heap, n) THEN Free ELSE heap.cells[d].ref
          /\ Len(heap'.trail) = n
          /\ \A i \in 1 .. n : heap'.trail[i] = heap.trail[i]
      BY <3>1, <3>2, UnwindResult
    <3>4. /\ heap'.trail \in Seq(Vars) /\ DOMAIN heap'.trail = 1 .. n
          /\ DOMAIN heap.trail = 1 .. Len(heap.trail) /\ Len(heap.trail) \in Nat
      BY <3>3, <2>0 DEF Heaps
    <3>5. /\ marks' \in Seq(Nat) /\ DOMAIN marks' = 1 .. k
          /\ \A l \in 1 .. k : l \in DOMAIN marks /\ marks'[l] = marks[l]
      BY <3>1, <2>0
    <3>6. MarksInOrder'
      BY <3>3, <3>5, <2>0 DEF IInv, MarksInOrder
    <3>7. \A d \in Vars : d \in Trailed(heap, n) <=> \E i \in DOMAIN heap.trail : i > n /\ heap.trail[i] = d
      BY SMTT(60), <3>2, <2>0 DEF Trailed
    <3>8. ASSUME NEW d \in Vars
          PROVE  (\E i \in DOMAIN heap'.trail : heap'.trail[i] = d)
                   <=> heap'.cells[d].named /\ heap'.cells[d].ref # Free
      <4>1. \A i, j \in DOMAIN heap.trail : heap.trail[i] = heap.trail[j] => i = j
        BY DEF IInv, TrailListsBound
      <4>2. (\E i \in DOMAIN heap.trail : heap.trail[i] = d) <=> heap.cells[d].named /\ heap.cells[d].ref # Free
        BY DEF IInv, TrailListsBound
      <4>3. (\E i \in DOMAIN heap'.trail : heap'.trail[i] = d)
              <=> \E i \in DOMAIN heap.trail : i <= n /\ heap.trail[i] = d
        <5> HIDE DEF n
        <5>1. ASSUME NEW i \in DOMAIN heap'.trail, heap'.trail[i] = d
              PROVE  i \in DOMAIN heap.trail /\ i <= n /\ heap.trail[i] = d
          BY <5>1, <3>2, <3>3, <3>4
        <5>2. ASSUME NEW i \in DOMAIN heap.trail, i <= n, heap.trail[i] = d
              PROVE  i \in DOMAIN heap'.trail /\ heap'.trail[i] = d
          BY <5>2, <3>2, <3>3, <3>4
        <5> QED
          BY <5>1, <5>2
      <4> HIDE DEF n
      <4>4. CASE d \in Trailed(heap, n)
        <5>1. heap'.cells[d].ref = Free
          BY <4>4, <3>3
        <5>2. PICK i \in DOMAIN heap.trail : i > n /\ heap.trail[i] = d
          BY <4>4, <3>7
        <5>3. \A j \in DOMAIN heap.trail : heap.trail[j] = d => j = i
          BY <5>2, <4>1
        <5>4. ~ \E j \in DOMAIN heap.trail : j <= n /\ heap.trail[j] = d
          BY <5>2, <5>3, <3>2, <3>4
        <5> QED
          BY <5>1, <5>4, <4>3
      <4>5. CASE d \notin Trailed(heap, n)
        <5>1. heap'.cells[d].ref = heap.cells[d].ref /\ heap'.cells[d].named = heap.cells[d].named
          BY <4>5, <3>3
        <5>2. \A i \in DOMAIN heap.trail : heap.trail[i] = d => i <= n
          BY <4>5, <3>2, <3>4, <3>7
        <5> QED
          BY <5>1, <5>2, <4>2, <4>3
      <4> QED
        BY <4>4, <4>5
    <3>9. TrailListsBound'
      <4> HIDE DEF n
      <4>1. ASSUME NEW i \in DOMAIN heap'.trail, NEW j \in DOMAIN heap'.trail, heap'.trail[i] = heap'.trail[j]
            PROVE  i = j
        <5>1. i \in DOMAIN heap.trail /\ j \in DOMAIN heap.trail /\ heap.trail[i] = heap.trail[j]
          BY <4>1, <3>2, <3>3, <3>4
        <5> QED
          BY <5>1 DEF IInv, TrailListsBound
      <4> QED
        BY <4>1, <3>8 DEF TrailListsBound
    <3> QED
      BY <3>3, <3>5, <3>6, <3>9 DEF IInv, TypeOK, NamedKept
  <2>4. CASE Forget
    <3>1. PICK k \in DOMAIN marks : heap' = heap /\ marks' = SubSeq(marks, 1, k - 1)
      BY <2>4 DEF Forget
    <3>2. /\ marks' \in Seq(Nat) /\ DOMAIN marks' = 1 .. k - 1
          /\ \A l \in 1 .. k - 1 : l \in DOMAIN marks /\ marks'[l] = marks[l]
      BY <3>1, <2>0
    <3> QED
      BY <3>1, <3>2 DEF IInv, TypeOK, TrailListsBound, MarksInOrder, NamedKept
  <2>5. CASE UNCHANGED vars
    BY <2>5 DEF vars, IInv, TypeOK, TrailListsBound, MarksInOrder, NamedKept
  <2> QED
    BY <2>1, <2>2, <2>3, <2>4, <2>5 DEF Next
<1> QED
  BY <1>1, <1>2, PTL DEF Spec

-----------------------------------------------------------------------------
(* The refinement *)

Store == [c \in Named |-> heap.cells[c].ref]
Saved == [k \in DOMAIN marks |-> AsOf(marks[k])]

LEMMA FrontOf ==
  ASSUME marks \in Seq(Nat), NEW k \in 0 .. Len(marks)
  PROVE  SubSeq(Saved, 1, k) = [l \in 1 .. k |-> AsOf(marks[l])]
<1>1. /\ Saved = [l \in 1 .. Len(marks) |-> AsOf(marks[l])]
      /\ Len(marks) \in Nat
  BY DEF Saved
<1>2. SubSeq(Saved, 1, k) = [l \in 1 .. k |-> Saved[l]]
  BY <1>1
<1> QED
  BY <1>1, <1>2

\* What unwinding relies on: whatever is bound, marked, unwound and forgotten, the
\* trail lists each bound named variable once and nothing else.
THEOREM TrailInOrder == Spec => []TrailListsBound
<1>1. IInv => TrailListsBound
  BY DEF IInv
<1> QED
  BY Invariant, <1>1, PTL

\* Undoing gives back the copies that were saved: the trail with its marks is an
\* implementation of a store whose copies are kept whole.
THEOREM TrailRestores == Spec => RestoresCopies
<1> USE TrailAssumption
<1>1. Init => Copies!Init
  <2> SUFFICES ASSUME Init PROVE Copies!Init
    OBVIOUS
  <2>1. heap.cells = [c \in Vars |-> [ref |-> Free, named |-> c \in Named]] /\ marks = <<>>
    BY DEF Init, FreeCell
  <2>2. Store = [x \in Named |-> Free]
    <3>1. \A x \in Named : heap.cells[x].ref = Free
      BY <2>1
    <3> QED
      BY <3>1 DEF Store
  <2>3. Saved = <<>>
    BY <2>1 DEF Saved
  <2> QED
    BY <2>2, <2>3 DEF Copies!Init, Store, Saved
<1>2. IInv /\ [Next]_vars => [Copies!Next]_<<Store, Saved>>
  <2> SUFFICES ASSUME IInv, [Next]_vars
               PROVE  Copies!Next \/ (Store' = Store /\ Saved' = Saved)
    OBVIOUS
  <2>0. /\ heap.cells \in [Vars -> [ref : Terms \cup {Free}, named : BOOLEAN]]
        /\ heap.trail \in Seq(Vars) /\ marks \in Seq(Nat)
        /\ DOMAIN heap.trail = 1 .. Len(heap.trail) /\ Len(heap.trail) \in Nat
        /\ \A k \in DOMAIN marks : marks[k] \in 0 .. Len(heap.trail)
    BY DEF IInv, TypeOK, Heaps, MarksInOrder
  <2>1. CASE Bind
    <3>1. PICK c \in Vars, t \in Terms : heap.cells[c].ref = Free /\ heap' = bind(heap, c, t) /\ marks' = marks
      BY <2>1 DEF Bind
    <3>2. /\ \A d \in Vars : heap'.cells[d].ref = IF d = c THEN t ELSE heap.cells[d].ref
          /\ c \in Named => heap'.trail = Append(heap.trail, c)
          /\ c \notin Named => heap'.trail = heap.trail
      BY <3>1, BindResult
    <3>3. CASE c \in Named
      <4>1. Store' = [Store EXCEPT ![c] = t] /\ Store[c] = Free
        BY <3>1, <3>2, <3>3 DEF Store
      <4>2. /\ DOMAIN heap'.trail = 1 .. Len(heap.trail) + 1 /\ Len(heap'.trail) = Len(heap.trail) + 1
            /\ \A i \in DOMAIN heap.trail : heap'.trail[i] = heap.trail[i]
            /\ heap'.trail[Len(heap.trail) + 1] = c
        BY <2>0, <3>2, <3>3, Appended
      <4>3. ASSUME NEW k \in DOMAIN marks
            PROVE  AsOf(marks[k])' = AsOf(marks[k])
        <5> DEFINE n == marks[k]
        <5>1. n \in 0 .. Len(heap.trail) /\ n' = n
          BY <2>0, <3>1
        <5> HIDE DEF n
        <5>2. Trailed(heap', n) = Trailed(heap, n) \cup {c}
          <6>1. heap'.trail = Append(heap.trail, c)
            BY <3>2, <3>3
          <6>2. heap.trail \in Seq(Vars) /\ n \in 0 .. Len(heap.trail)
            BY <5>1, <2>0
          <6>3. {Append(heap.trail, c)[i] : i \in n + 1 .. Len(Append(heap.trail, c))}
                  = {heap.trail[i] : i \in n + 1 .. Len(heap.trail)} \cup {c}
            BY <6>2, AppendedFrom
          <6> QED
            BY <6>1, <6>3, Zenon DEF Trailed
        <5>3. [x \in Named |-> IF x \in Trailed(heap', n) THEN Free ELSE heap'.cells[x].ref]
                = [x \in Named |-> IF x \in Trailed(heap, n) THEN Free ELSE heap.cells[x].ref]
          BY <5>2, <3>1, <3>2
        <5> QED
          BY <5>3, <3>1 DEF n, AsOf
      <4>4. Saved' = Saved
        BY <4>3, <3>1 DEF Saved
      <4>5. \E x \in Named, u \in Terms : Store[x] = Free /\ Store' = [Store EXCEPT ![x] = u] /\ Saved' = Saved
        BY <4>1, <4>4, <3>3
      <4> QED
        BY <4>5 DEF Copies!Next, Copies!Assign, Store, Saved
    <3>4. CASE c \notin Named
      <4>1. Store' = Store
        BY <3>2, <3>4 DEF Store
      <4>2. heap'.trail = heap.trail /\ \A x \in Named : heap'.cells[x].ref = heap.cells[x].ref
        BY <3>2, <3>4
      <4>3. Saved' = Saved
        BY <4>2, <3>1 DEF Saved, AsOf, Trailed
      <4> QED
        BY <4>1, <4>3
    <3> QED
      BY <3>3, <3>4
  <2>2. CASE Mark
    <3>1. heap' = heap /\ marks' = Append(marks, Len(heap.trail))
      BY <2>2 DEF Mark, trail_mark
    <3>2. /\ DOMAIN marks' = 1 .. Len(marks) + 1 /\ DOMAIN marks = 1 .. Len(marks) /\ Len(marks) \in Nat
          /\ \A k \in DOMAIN marks : marks'[k] = marks[k]
          /\ marks'[Len(marks) + 1] = Len(heap.trail)
      BY <3>1, <2>0, Appended
    <3>3. Trailed(heap, Len(heap.trail)) = {}
      BY <2>0 DEF Trailed
    <3>4. AsOf(Len(heap.trail)) = Store
      BY <3>3 DEF AsOf, Store
    <3>5. Saved' = [k \in 1 .. Len(marks) + 1 |-> AsOf(marks'[k])]
      BY <3>1, <3>2 DEF Saved, AsOf
    <3>6. Len(Saved) = Len(marks) /\ Saved = [k \in 1 .. Len(marks) |-> AsOf(marks[k])]
      BY <3>2 DEF Saved
    <3>7. Append(Saved, Store) = [k \in 1 .. Len(marks) + 1 |-> IF k = Len(marks) + 1 THEN Store ELSE Saved[k]]
      BY <3>2, <3>6
    <3>8. \A k \in 1 .. Len(marks) + 1 : AsOf(marks'[k]) = IF k = Len(marks) + 1 THEN Store ELSE Saved[k]
      BY <3>2, <3>4, <3>6
    <3>9. Saved' = Append(Saved, Store) /\ Store' = Store
      BY <3>1, <3>5, <3>7, <3>8 DEF Store
    <3> QED
      BY <3>9 DEF Copies!Next, Copies!Save, Store, Saved
  <2>3. CASE Unwind
    <3>1. PICK k \in DOMAIN marks : heap' = trail_unwind(heap, marks[k]) /\ marks' = SubSeq(marks, 1, k)
      BY <2>3 DEF Unwind
    <3> DEFINE n == marks[k]
    <3>2. n \in 0 .. Len(heap.trail)
      BY <2>0
    <3>3. /\ heap' \in Heaps
          /\ \A d \in Vars : heap'.cells[d].ref = IF d \in Trailed(heap, n) THEN Free ELSE heap.cells[d].ref
          /\ Len(heap'.trail) = n
          /\ \A i \in 1 .. n : heap'.trail[i] = heap.trail[i]
      BY <3>1, <3>2, UnwindResult
    <3>4. Store' = AsOf(n)
      BY <3>3 DEF Store, AsOf
    <3>5. /\ marks' \in Seq(Nat) /\ DOMAIN marks' = 1 .. k /\ k \in Nat /\ Len(marks') = k
          /\ \A l \in 1 .. k : l \in DOMAIN marks /\ marks'[l] = marks[l]
      BY <3>1, <2>0
    <3> HIDE DEF n
    <3>6. ASSUME NEW l \in 1 .. k
          PROVE  [x \in Named |-> IF x \in Trailed(heap', marks'[l]) THEN Free ELSE heap'.cells[x].ref]
                   = AsOf(marks[l])
      <4> DEFINE m == marks[l]
      <4>1. m \in 0 .. n /\ marks'[l] = m
        BY <3>5, <2>0 DEF IInv, MarksInOrder, n
      <4> HIDE DEF m
      <4>2. Trailed(heap', m) = {heap.trail[i] : i \in m + 1 .. n}
        BY <4>1, <3>2, <3>3 DEF Trailed
      <4>3. Trailed(heap, m) = {heap.trail[i] : i \in m + 1 .. n} \cup Trailed(heap, n)
        BY <4>1, <3>2, <2>0 DEF Trailed
      <4>4. ASSUME NEW x \in Named
            PROVE  (IF x \in Trailed(heap', m) THEN Free ELSE heap'.cells[x].ref)
                     = IF x \in Trailed(heap, m) THEN Free ELSE heap.cells[x].ref
        BY <4>2, <4>3, <3>3
      <4> QED
        BY <4>1, <4>4 DEF AsOf, m
    <3>7. Saved' = [l \in 1 .. k |-> AsOf(marks[l])]
      BY <3>5, <3>6 DEF Saved, AsOf
    <3>8. SubSeq(Saved, 1, k) = [l \in 1 .. k |-> AsOf(marks[l])]
      BY <3>5, <2>0, FrontOf
    <3>9. k \in DOMAIN Saved /\ Store' = Saved[k]
      BY <3>4 DEF Saved, n
    <3>10. \E i \in DOMAIN Saved : Store' = Saved[i] /\ Saved' = SubSeq(Saved, 1, i)
      BY <3>7, <3>8, <3>9
    <3> QED
      BY <3>10 DEF Copies!Next, Copies!Restore, Store, Saved
  <2>4. CASE Forget
    <3>1. PICK k \in DOMAIN marks : heap' = heap /\ marks' = SubSeq(marks, 1, k - 1)
      BY <2>4 DEF Forget
    <3>2. /\ DOMAIN marks' = 1 .. k - 1 /\ k - 1 \in 0 .. Len(marks)
          /\ \A l \in 1 .. k - 1 : marks'[l] = marks[l]
      BY <3>1, <2>0
    <3>3. Saved' = [l \in 1 .. k - 1 |-> AsOf(marks[l])]
      BY <3>1, <3>2 DEF Saved, AsOf
    <3>4. SubSeq(Saved, 1, k - 1) = [l \in 1 .. k - 1 |-> AsOf(marks[l])]
      BY <3>2, <2>0, FrontOf
    <3>5. \E i \in DOMAIN Saved : Saved' = SubSeq(Saved, 1, i - 1) /\ Store' = Store
      BY <3>1, <3>3, <3>4 DEF Saved, Store
    <3> QED
      BY <3>5 DEF Copies!Next, Copies!Drop, Store, Saved
  <2>5. CASE UNCHANGED vars
    BY <2>5 DEF vars, Store, Saved, AsOf, Trailed
  <2> QED
    BY <2>1, <2>2, <2>3, <2>4, <2>5 DEF Next
<1>3. Spec => Copies!Init /\ [][Copies!Next]_<<Store, Saved>>
  BY <1>1, <1>2, Invariant, PTL DEF Spec
<1> QED
  BY <1>3, PTL DEF RestoresCopies, Copies!Spec, Store, Saved
=============================================================================
