------------------------ MODULE SubjectGlobalsProofs ------------------------
(***************************************************************************)
(* Proofs about the globals of a match, for every set of subjects, every   *)
(* depth of nesting and every size of call_stack.                          *)
(***************************************************************************)
EXTENDS SubjectGlobals, FiniteSetTheorems, SequenceTheorems, TLAPS

(* The cursor and the length of the subject stay within some subject's. *)
Bounded(h) == /\ \E s \in Subjects : h.Delta <= Len(s)
              /\ \E s \in Subjects : h.Sigmalen <= Len(s)

TypeInv ==
  /\ g \in Globals
  /\ frames \in Seq(FrameType)
  /\ call_depth \in 0 .. CallStackMax
  /\ Bounded(g)
  /\ \A i \in 1 .. Len(frames) : Bounded(frames[i].saved)

(* Where the match in frame i will find global x again.  It is in control, or   *)
(* what it called has saved x; an expression does not save Sigmalen, so with    *)
(* expressions above it the value is in the global itself, or where a function  *)
(* called from the innermost of them has saved it.                              *)
IsMatch(f) == f.doing \in {"scan", "commit"}
Expressions(f, i, j) == \A k \in i + 1 .. j : f[k].doing = "eval"

Found(f, h, i, x) ==
  \/ i = Len(f) /\ h[x] = f[i].own[x]
  \/ /\ i < Len(f) /\ f[i + 1].saved[x] = f[i].own[x]
     /\ f[i + 1].doing = "function" \/ (f[i + 1].doing = "eval" /\ x # "Sigmalen")
  \/ /\ x = "Sigmalen"
     /\ \E j \in i + 1 .. Len(f) :
          /\ Expressions(f, i, j)
          /\ \/ j = Len(f) /\ h[x] = f[i].own[x]
             \/ j < Len(f) /\ f[j + 1].doing = "function" /\ f[j + 1].saved[x] = f[i].own[x]

Held(f, h) ==
  \A i \in 1 .. Len(f) : IsMatch(f[i]) => \A x \in Global \ f[i].lost : Found(f, h, i, x)

IInv == TypeInv /\ CallFramesHeld /\ Held(frames, g)

-----------------------------------------------------------------------------
(* Stacks *)

LEMMA PoppedStack ==
  ASSUME NEW S, NEW s \in Seq(S), s # <<>>
  PROVE  /\ SubSeq(s, 1, Len(s) - 1) \in Seq(S)
         /\ Len(SubSeq(s, 1, Len(s) - 1)) = Len(s) - 1
         /\ Len(s) \in Nat \ {0}
         /\ s[Len(s)] \in S
         /\ \A i \in 1 .. Len(s) - 1 : SubSeq(s, 1, Len(s) - 1)[i] = s[i]
  <1>1. Len(s) \in Nat \ {0} /\ \A i \in 1 .. Len(s) : s[i] \in S
    BY EmptySeq, LenProperties, ElementOfSeq
  <1>2. 1 \in Int /\ Len(s) - 1 \in Int /\ \A i \in 1 .. Len(s) - 1 : s[i] \in S
    BY <1>1
  <1>3. /\ SubSeq(s, 1, Len(s) - 1) \in Seq(S)
        /\ Len(SubSeq(s, 1, Len(s) - 1)) = IF 1 <= Len(s) - 1 THEN Len(s) - 1 - 1 + 1 ELSE 0
        /\ \A i \in 1 .. Len(s) - 1 - 1 + 1 : SubSeq(s, 1, Len(s) - 1)[i] = s[1 + i - 1]
    BY <1>2, SubSeqProperties
  <1>4. /\ Len(s) - 1 - 1 + 1 = Len(s) - 1
        /\ \A i \in 1 .. Len(s) - 1 : 1 + i - 1 = i
        /\ 1 <= Len(s) - 1 \/ Len(s) - 1 = 0
    <2>1. \A n \in Nat \ {0} : n - 1 - 1 + 1 = n - 1 /\ (1 <= n - 1 \/ n - 1 = 0)
      OBVIOUS
    <2>2. \A n \in Nat \ {0} : \A i \in 1 .. n - 1 : 1 + i - 1 = i
      OBVIOUS
    <2> QED BY <1>1, <2>1, <2>2
  <1>5. Len(SubSeq(s, 1, Len(s) - 1)) = Len(s) - 1
    <2>1. CASE 1 <= Len(s) - 1
      BY <2>1, <1>3, <1>4
    <2>2. CASE ~ 1 <= Len(s) - 1
      BY <2>2, <1>3, <1>4
    <2> QED BY <2>1, <2>2
  <1> QED BY <1>1, <1>3, <1>4, <1>5

LEMMA Appended ==
  ASSUME NEW S, NEW s \in Seq(S), NEW e \in S
  PROVE  /\ Append(s, e) \in Seq(S)
         /\ Len(s) \in Nat
         /\ Len(Append(s, e)) = Len(s) + 1
         /\ Append(s, e)[Len(s) + 1] = e
         /\ \A i \in 1 .. Len(s) : Append(s, e)[i] = s[i]
  OBVIOUS

LEMMA TopReplaced ==
  ASSUME NEW S, NEW s \in Seq(S), s # <<>>, NEW e \in S
  PROVE  /\ [s EXCEPT ![Len(s)] = e] \in Seq(S)
         /\ Len([s EXCEPT ![Len(s)] = e]) = Len(s)
         /\ Len(s) \in Nat \ {0}
         /\ [s EXCEPT ![Len(s)] = e][Len(s)] = e
         /\ \A i \in 1 .. Len(s) - 1 : [s EXCEPT ![Len(s)] = e][i] = s[i]
  OBVIOUS

LEMMA FunctionIsStack ==
  ASSUME NEW S, NEW n \in Nat, NEW f \in [1 .. n -> S]
  PROVE  f \in Seq(S) /\ Len(f) = n
  <1>1. f \in Seq(S) /\ DOMAIN f = 1 .. n
    OBVIOUS
  <1> QED BY <1>1, LenProperties

-----------------------------------------------------------------------------
(* Counting the functions of a stack *)

FunctionsOf(f) == {i \in 1 .. Len(f) : f[i].doing = "function"}

LEMMA CountIsNat ==
  ASSUME NEW f, Len(f) \in Nat
  PROVE  IsFiniteSet(FunctionsOf(f)) /\ Cardinality(FunctionsOf(f)) \in Nat
  <1>1. FunctionsOf(f) \subseteq 1 .. Len(f)
    BY DEF FunctionsOf
  <1>2. IsFiniteSet(1 .. Len(f))
    BY FS_Interval
  <1> QED BY <1>1, <1>2, FS_Subset, FS_CardinalityType

LEMMA CountGrows ==
  ASSUME NEW f, NEW f2, Len(f) \in Nat, Len(f2) = Len(f) + 1,
         \A i \in 1 .. Len(f) : f2[i].doing = f[i].doing
  PROVE  Cardinality(FunctionsOf(f2)) =
           IF f2[Len(f2)].doing = "function" THEN Cardinality(FunctionsOf(f)) + 1
                                             ELSE Cardinality(FunctionsOf(f))
  <1>1. CASE f2[Len(f2)].doing = "function"
    <2>1. FunctionsOf(f2) = FunctionsOf(f) \cup {Len(f2)} /\ Len(f2) \notin FunctionsOf(f)
      BY <1>1 DEF FunctionsOf
    <2> QED BY <1>1, <2>1, CountIsNat, FS_AddElement
  <1>2. CASE f2[Len(f2)].doing # "function"
    <2>1. FunctionsOf(f2) = FunctionsOf(f)
      BY <1>2 DEF FunctionsOf
    <2> QED BY <1>2, <2>1
  <1> QED BY <1>1, <1>2

LEMMA CountSame ==
  ASSUME NEW f, NEW f2, Len(f2) = Len(f),
         \A i \in 1 .. Len(f) : f2[i].doing = "function" <=> f[i].doing = "function"
  PROVE  Cardinality(FunctionsOf(f2)) = Cardinality(FunctionsOf(f))
  <1>1. FunctionsOf(f2) = FunctionsOf(f)
    BY DEF FunctionsOf
  <1> QED BY <1>1

LEMMA DomainIsCount ==
  ASSUME NEW S, NEW f \in Seq(S)
  PROVE  {i \in DOMAIN f : f[i].doing = "function"} = FunctionsOf(f)
  <1>1. DOMAIN f = 1 .. Len(f)
    BY LenProperties
  <1> QED BY <1>1 DEF FunctionsOf

LEMMA NestingIsCount ==
  TypeInv => (CallFramesHeld <=> Cardinality(FunctionsOf(frames)) <= call_depth)
  BY DomainIsCount DEF TypeInv, CallFramesHeld, Nesting

LEMMA CountHeld ==
  ASSUME TypeInv', Cardinality(FunctionsOf(frames')) <= call_depth'
  PROVE  CallFramesHeld'
  <1>1. frames' \in Seq(FrameType)
    BY DEF TypeInv
  <1>2. {i \in DOMAIN frames' : frames'[i].doing = "function"} = FunctionsOf(frames')
    BY <1>1, DomainIsCount
  <1> QED BY <1>2 DEF CallFramesHeld, Nesting

-----------------------------------------------------------------------------
(* What the waiting matches find *)

(* A function or an expression starts, and saves what it finds.                 *)
LEMMA HeldUnderCall ==
  ASSUME NEW f, NEW f2, NEW h, Len(f) \in Nat, Held(f, h),
         Len(f2) = Len(f) + 1,
         \A i \in 1 .. Len(f) : f2[i] = f[i],
         f2[Len(f2)].doing \in {"function", "eval"},
         f2[Len(f2)].saved = h
  PROVE  Held(f2, h)
  <1> DEFINE n == Len(f)
  <1> SUFFICES ASSUME NEW i \in 1 .. Len(f2), IsMatch(f2[i]),
                      NEW x \in Global \ f2[i].lost
               PROVE  Found(f2, h, i, x)
    BY DEF Held
  <1>1. i \in 1 .. n
    BY DEF IsMatch
  <1>2. IsMatch(f[i]) /\ x \in Global \ f[i].lost /\ f2[i] = f[i]
    BY <1>1
  <1>3. Found(f, h, i, x)
    BY <1>1, <1>2 DEF Held
  <1>4. CASE i = n /\ h[x] = f[i].own[x]
    <2>1. CASE f2[n + 1].doing = "function" \/ x # "Sigmalen"
      BY <2>1, <1>2, <1>4 DEF Found
    <2>2. CASE f2[n + 1].doing = "eval" /\ x = "Sigmalen"
      <3>1. Expressions(f2, i, n + 1)
        BY <2>2, <1>4 DEF Expressions
      <3> QED BY <2>2, <3>1, <1>2, <1>4 DEF Found
    <2> QED BY <2>1, <2>2
  <1>5. CASE /\ i < n /\ f[i + 1].saved[x] = f[i].own[x]
             /\ f[i + 1].doing = "function" \/ (f[i + 1].doing = "eval" /\ x # "Sigmalen")
    <2>1. f2[i + 1] = f[i + 1] /\ i < Len(f2)
      BY <1>1, <1>5
    <2> QED BY <2>1, <1>2, <1>5 DEF Found
  <1>6. ASSUME x = "Sigmalen", NEW j \in i + 1 .. n, Expressions(f, i, j),
               \/ j = n /\ h[x] = f[i].own[x]
               \/ j < n /\ f[j + 1].doing = "function" /\ f[j + 1].saved[x] = f[i].own[x]
        PROVE  Found(f2, h, i, x)
    <2>1. Expressions(f2, i, j) /\ j \in i + 1 .. Len(f2)
      BY <1>1, <1>6 DEF Expressions
    <2>2. CASE j < n
      <3>1. f2[j + 1] = f[j + 1] /\ j < Len(f2)
        BY <2>2, <1>1
      <3> QED BY <3>1, <2>1, <2>2, <1>2, <1>6 DEF Found
    <2>3. CASE j = n /\ f2[n + 1].doing = "function"
      BY <2>1, <2>3, <1>2, <1>6 DEF Found
    <2>4. CASE j = n /\ f2[n + 1].doing = "eval"
      <3>1. Expressions(f2, i, n + 1) /\ n + 1 \in i + 1 .. Len(f2)
        BY <2>1, <2>4 DEF Expressions
      <3> QED BY <3>1, <2>4, <1>2, <1>6 DEF Found
    <2> QED BY <2>2, <2>3, <2>4
  <1> QED BY <1>3, <1>4, <1>5, <1>6 DEF Found

(* Above a function, or where nothing waits, a match may assign the globals;    *)
(* so may one whose start below has cost the others what it changes.            *)
LEMMA HeldUnderMatch ==
  ASSUME NEW f, NEW f2, NEW h, NEW h2, Len(f) \in Nat, Held(f, h),
         Len(f2) = Len(f) + 1,
         \A i \in 1 .. Len(f) :
            /\ f2[i].doing = f[i].doing /\ f2[i].saved = f[i].saved /\ f2[i].own = f[i].own
            /\ f[i].lost \subseteq f2[i].lost
            /\ \/ \E j \in i .. Len(f) : f[j].doing = "function"
               \/ Global \subseteq f2[i].lost
               \/ "Sigmalen" \in f2[i].lost /\ \E j \in i + 1 .. Len(f) : f[j].doing = "eval",
         f2[Len(f2)].own = h2
  PROVE  Held(f2, h2)
  <1> DEFINE n == Len(f)
  <1> SUFFICES ASSUME NEW i \in 1 .. Len(f2), IsMatch(f2[i]),
                      NEW x \in Global \ f2[i].lost
               PROVE  Found(f2, h2, i, x)
    BY DEF Held
  <1>1. CASE i = n + 1
    BY <1>1 DEF Found
  <1>2. CASE i \in 1 .. n
    <2>1. /\ f2[i].doing = f[i].doing /\ f2[i].own = f[i].own
          /\ IsMatch(f[i]) /\ x \in Global \ f[i].lost
      BY <1>2 DEF IsMatch
    <2>2. Found(f, h, i, x)
      BY <1>2, <2>1 DEF Held
    <2>3. \/ \E j \in i + 1 .. n : f[j].doing = "function"
          \/ x # "Sigmalen" /\ \E j \in i + 1 .. n : f[j].doing = "eval"
      BY <1>2, <2>1 DEF IsMatch
    <2>4. i < n
      BY <1>2, <2>3
    <2>5. CASE /\ f[i + 1].saved[x] = f[i].own[x]
               /\ f[i + 1].doing = "function" \/ (f[i + 1].doing = "eval" /\ x # "Sigmalen")
      <3>1. f2[i + 1].doing = f[i + 1].doing /\ f2[i + 1].saved = f[i + 1].saved /\ i < Len(f2)
        BY <1>2, <2>4
      <3> QED BY <3>1, <2>1, <2>5 DEF Found
    <2>6. ASSUME x = "Sigmalen", NEW j \in i + 1 .. n, Expressions(f, i, j),
                 \/ j = n
                 \/ j < n /\ f[j + 1].doing = "function" /\ f[j + 1].saved[x] = f[i].own[x]
          PROVE  Found(f2, h2, i, x)
      <3>1. j < n
        BY <2>3, <2>6 DEF Expressions
      <3>2. /\ f2[j + 1].doing = f[j + 1].doing /\ f2[j + 1].saved = f[j + 1].saved
            /\ j < Len(f2) /\ j \in i + 1 .. Len(f2)
        BY <1>2, <3>1
      <3>3. Expressions(f2, i, j)
        BY <1>2, <2>6 DEF Expressions
      <3> QED BY <3>1, <3>2, <3>3, <2>1, <2>6 DEF Found
    <2> QED BY <2>2, <2>4, <2>5, <2>6 DEF Found
  <1> QED BY <1>1, <1>2

(* The innermost match goes on: its own record follows the globals.             *)
LEMMA HeldByTop ==
  ASSUME NEW f, NEW f2, NEW h, NEW h2, Len(f) \in Nat \ {0}, Held(f, h),
         Len(f2) = Len(f),
         \A i \in 1 .. Len(f) - 1 : f2[i] = f[i],
         IsMatch(f[Len(f)]), IsMatch(f2[Len(f)]),
         \A x \in Global \ f2[Len(f)].lost :
            h[x] = f[Len(f)].own[x] \/ x \in f[Len(f)].lost => h2[x] = f2[Len(f)].own[x]
  PROVE  Held(f2, h2)
  <1> DEFINE n == Len(f)
  <1> SUFFICES ASSUME NEW i \in 1 .. Len(f2), IsMatch(f2[i]),
                      NEW x \in Global \ f2[i].lost
               PROVE  Found(f2, h2, i, x)
    BY DEF Held
  <1>1. CASE i = n
    <2>1. x \in f[n].lost \/ Found(f, h, n, x)
      BY <1>1 DEF Held
    <2>2. x \in f[n].lost \/ h[x] = f[n].own[x]
      BY <2>1 DEF Found
    <2> QED BY <1>1, <2>2 DEF Found
  <1>2. CASE i < n
    <2>1. f2[i] = f[i] /\ i \in 1 .. n - 1
      BY <1>2
    <2>2. Found(f, h, i, x)
      BY <2>1 DEF Held
    <2>3. CASE /\ f[i + 1].saved[x] = f[i].own[x]
               /\ f[i + 1].doing = "function" \/ (f[i + 1].doing = "eval" /\ x # "Sigmalen")
      <3>1. f2[i + 1] = f[i + 1]
        BY <1>2, <2>3 DEF IsMatch
      <3> QED BY <3>1, <1>2, <2>1, <2>3 DEF Found
    <2>4. ASSUME x = "Sigmalen", NEW j \in i + 1 .. n, Expressions(f, i, j),
                 \/ j = n
                 \/ j < n /\ f[j + 1].doing = "function" /\ f[j + 1].saved[x] = f[i].own[x]
          PROVE  Found(f2, h2, i, x)
      <3>1. j + 1 < n
        BY <2>1, <2>4 DEF Expressions, IsMatch
      <3>2. f2[j + 1] = f[j + 1] /\ Expressions(f2, i, j)
        BY SMTT(60), <3>1, <2>1, <2>4 DEF Expressions
      <3> QED BY <3>1, <3>2, <2>1, <2>4 DEF Found
    <2> QED BY <1>2, <2>2, <2>3, <2>4 DEF Found
  <1> QED BY <1>1, <1>2

(* The innermost activity ends.  No match waits for one of another match; a     *)
(* function gives back all that it saved, an expression all but Sigmalen.       *)
LEMMA HeldAfter ==
  ASSUME NEW f, NEW f2, NEW h, NEW h2, Len(f) \in Nat \ {0}, Held(f, h),
         Len(f2) = Len(f) - 1,
         \A i \in 1 .. Len(f) - 1 : f2[i] = f[i],
         \/ IsMatch(f[Len(f)])
         \/ f[Len(f)].doing = "function" /\ h2 = f[Len(f)].saved
         \/ /\ f[Len(f)].doing = "eval"
            /\ \A x \in Global \ {"Sigmalen"} : h2[x] = f[Len(f)].saved[x]
            /\ h2["Sigmalen"] = h["Sigmalen"]
  PROVE  Held(f2, h2)
  <1> DEFINE n == Len(f)
  <1> SUFFICES ASSUME NEW i \in 1 .. Len(f2), IsMatch(f2[i]),
                      NEW x \in Global \ f2[i].lost
               PROVE  Found(f2, h2, i, x)
    BY DEF Held
  <1>1. f2[i] = f[i] /\ i \in 1 .. n - 1 /\ i < n
    OBVIOUS
  <1>2. Found(f, h, i, x)
    BY <1>1 DEF Held
  <1>3. CASE /\ f[i + 1].saved[x] = f[i].own[x]
             /\ f[i + 1].doing = "function" \/ (f[i + 1].doing = "eval" /\ x # "Sigmalen")
    <2>1. CASE i + 1 = n
      <3>1. h2[x] = f[i].own[x]
        BY <2>1, <1>3 DEF IsMatch
      <3> QED BY <2>1, <3>1, <1>1 DEF Found
    <2>2. CASE i + 1 < n
      <3>1. f2[i + 1] = f[i + 1] /\ i < Len(f2)
        BY <2>2, <1>1
      <3> QED BY <3>1, <1>1, <1>3 DEF Found
    <2> QED BY <2>1, <2>2, <1>1
  <1>4. ASSUME x = "Sigmalen", NEW j \in i + 1 .. n, Expressions(f, i, j),
               \/ j = n /\ h[x] = f[i].own[x]
               \/ j < n /\ f[j + 1].doing = "function" /\ f[j + 1].saved[x] = f[i].own[x]
        PROVE  Found(f2, h2, i, x)
    <2>1. CASE j = n
      <3>1. f[n].doing = "eval" /\ h2[x] = f[i].own[x]
        BY <2>1, <1>1, <1>4 DEF Expressions, IsMatch
      <3>2. CASE i = n - 1
        BY <3>1, <3>2, <1>1 DEF Found
      <3>3. CASE i < n - 1
        <4>1. Expressions(f2, i, n - 1) /\ n - 1 \in i + 1 .. Len(f2)
          BY <2>1, <3>3, <1>1, <1>4 DEF Expressions
        <4> QED BY <4>1, <3>1, <1>1, <1>4 DEF Found
      <3> QED BY <3>2, <3>3, <1>1
    <2>2. CASE j + 1 = n
      <3>1. h2[x] = f[i].own[x]
        BY <2>2, <1>4 DEF IsMatch
      <3>2. Expressions(f2, i, n - 1) /\ n - 1 \in i + 1 .. Len(f2)
        BY <2>2, <1>1, <1>4 DEF Expressions
      <3> QED BY <3>1, <3>2, <1>1, <1>4 DEF Found
    <2>3. CASE j + 1 < n
      <3>1. f2[j + 1] = f[j + 1] /\ Expressions(f2, i, j) /\ j < Len(f2)
        BY SMTT(60), <2>3, <1>1, <1>4 DEF Expressions
      <3> QED BY <3>1, <2>3, <1>1, <1>4 DEF Found
    <2> QED BY SMTT(60), <2>1, <2>2, <2>3
  <1> QED BY <1>1, <1>2, <1>3, <1>4 DEF Found

-----------------------------------------------------------------------------
(* Types *)

LEMMA StartedType ==
  ASSUME NEW s \in Subjects, NEW anchor \in BOOLEAN
  PROVE  Started(s, anchor) \in Globals /\ Bounded(Started(s, anchor))
  <1>1. Len(s) \in Nat
    BY SubjectGlobalsAssumption, LenProperties
  <1>2. /\ Started(s, anchor).Sigma = s
        /\ Started(s, anchor).Omega \in Nat
        /\ Started(s, anchor).Delta = 0
        /\ Started(s, anchor).Sigmalen = Len(s)
    BY <1>1 DEF Started
  <1>3. Started(s, anchor) \in Globals
    BY <1>1 DEF Started, Globals
  <1> QED BY <1>1, <1>2, <1>3 DEF Bounded

LEMMA FrameFacts ==
  ASSUME NEW d \in {"scan", "commit", "function", "eval"}, NEW h \in Globals
  PROVE  /\ Frame(d, h) \in FrameType
         /\ Frame(d, h).doing = d /\ Frame(d, h).saved = h
         /\ Frame(d, h).own = h /\ Frame(d, h).lost = {}
  BY DEF Frame, FrameType

LEMMA GrowType ==
  ASSUME TypeInv, NEW f \in Seq(FrameType), NEW e \in FrameType,
         Len(f) = Len(frames),
         \A i \in 1 .. Len(frames) : f[i].saved = frames[i].saved,
         frames' = Append(f, e), Bounded(e.saved),
         g' \in Globals, Bounded(g'), call_depth' \in 0 .. CallStackMax
  PROVE  TypeInv'
  <1>1. /\ frames' \in Seq(FrameType) /\ Len(f) \in Nat /\ Len(frames') = Len(f) + 1
        /\ frames'[Len(f) + 1] = e /\ \A i \in 1 .. Len(f) : frames'[i] = f[i]
    BY Appended
  <1>2. ASSUME NEW i \in 1 .. Len(frames') PROVE Bounded(frames'[i].saved)
    <2>1. CASE i = Len(f) + 1
      BY <2>1, <1>1
    <2>2. CASE i \in 1 .. Len(f)
      BY <2>2, <1>1 DEF TypeInv
    <2> QED BY <2>1, <2>2, <1>1
  <1>3. Bounded(g)'
    BY DEF Bounded
  <1>4. (\A i \in 1 .. Len(frames) : Bounded(frames[i].saved))'
    BY <1>2 DEF Bounded
  <1> QED BY <1>1, <1>3, <1>4 DEF TypeInv

LEMMA ShrinkType ==
  ASSUME TypeInv, frames # <<>>, frames' = Popped,
         g' \in Globals, Bounded(g'), call_depth' \in 0 .. CallStackMax
  PROVE  TypeInv'
  <1>1. /\ frames' \in Seq(FrameType) /\ Len(frames) \in Nat /\ Len(frames') = Len(frames) - 1
        /\ \A i \in 1 .. Len(frames) - 1 : frames'[i] = frames[i]
    BY PoppedStack DEF Popped, TypeInv
  <1>2. \A i \in 1 .. Len(frames') : Bounded(frames'[i].saved)
    BY SMTT(60), <1>1 DEF TypeInv
  <1>3. Bounded(g)'
    BY DEF Bounded
  <1>4. (\A i \in 1 .. Len(frames) : Bounded(frames[i].saved))'
    BY <1>2 DEF Bounded
  <1> QED BY <1>1, <1>3, <1>4 DEF TypeInv

LEMMA TopType ==
  ASSUME TypeInv, frames # <<>>, NEW e \in FrameType, frames' = SetTop(e),
         e.saved = Top.saved,
         g' \in Globals, Bounded(g'), call_depth' = call_depth
  PROVE  TypeInv'
  <1>1. /\ frames' \in Seq(FrameType) /\ Len(frames) \in Nat \ {0} /\ Len(frames') = Len(frames)
        /\ frames'[Len(frames)] = e
        /\ \A i \in 1 .. Len(frames) - 1 : frames'[i] = frames[i]
    BY TopReplaced DEF SetTop, TypeInv
  <1>2. ASSUME NEW i \in 1 .. Len(frames') PROVE Bounded(frames'[i].saved)
    <2>1. CASE i = Len(frames)
      BY <2>1, <1>1 DEF TypeInv, Top
    <2>2. CASE i \in 1 .. Len(frames) - 1
      BY <2>2, <1>1 DEF TypeInv
    <2> QED BY <2>1, <2>2, <1>1
  <1>3. Bounded(g)'
    BY DEF Bounded
  <1>4. (\A i \in 1 .. Len(frames) : Bounded(frames[i].saved))'
    BY <1>2 DEF Bounded
  <1> QED BY <1>1, <1>3, <1>4 DEF TypeInv

-----------------------------------------------------------------------------
(* The actions *)

LEMMA InitIInv == Init => IInv
  <1> SUFFICES ASSUME Init PROVE IInv
    OBVIOUS
  <1>1. frames = <<>> /\ Len(frames) = 0 /\ frames \in Seq(FrameType)
    BY DEF Init
  <1>2. g \in Globals /\ Bounded(g)
    BY StartedType, SubjectGlobalsAssumption DEF Init
  <1>3. TypeInv
    <2>1. call_depth \in 0 .. CallStackMax
      BY SubjectGlobalsAssumption DEF Init
    <2>2. \A i \in 1 .. Len(frames) : Bounded(frames[i].saved)
      BY <1>1
    <2> QED BY <1>1, <1>2, <2>1, <2>2 DEF TypeInv
  <1>4. FunctionsOf(frames) = {}
    BY <1>1 DEF FunctionsOf
  <1>5. CallFramesHeld
    BY <1>3, <1>4, NestingIsCount, FS_EmptySet DEF Init
  <1>6. Held(frames, g)
    BY <1>1 DEF Held
  <1> QED BY <1>3, <1>5, <1>6 DEF IInv

LEMMA StatementIInv ==
  ASSUME IInv, NEW s \in Subjects, NEW anchor \in BOOLEAN, Statement(s, anchor)
  PROVE  IInv'
  <1> DEFINE e == Frame("scan", g')
  <1>1. TypeInv
    BY DEF IInv
  <1>2. g' \in Globals /\ Bounded(g')
    BY StartedType DEF Statement
  <1>3. e \in FrameType /\ e.doing = "scan" /\ e.saved = g' /\ e.own = g'
    BY <1>2, FrameFacts
  <1> HIDE DEF e
  <1>4. frames' = Append(frames, e) /\ frames \in Seq(FrameType)
        /\ call_depth' = call_depth /\ call_depth' \in 0 .. CallStackMax
    BY <1>1 DEF Statement, e, TypeInv
  <1>5. TypeInv'
    BY <1>1, <1>2, <1>3, <1>4, GrowType
  <1>6. /\ Len(frames) \in Nat /\ Len(frames') = Len(frames) + 1
        /\ frames'[Len(frames')] = e
        /\ \A i \in 1 .. Len(frames) : frames'[i] = frames[i]
    BY <1>3, <1>4, Appended
  <1>7. Cardinality(FunctionsOf(frames')) = Cardinality(FunctionsOf(frames))
    BY <1>3, <1>6, CountGrows
  <1>8. Cardinality(FunctionsOf(frames')) <= call_depth'
    BY <1>1, <1>4, <1>7, NestingIsCount DEF IInv
  <1>9. CallFramesHeld'
    BY <1>5, <1>8, CountHeld
  <1>10. \A i \in 1 .. Len(frames) : \E j \in i .. Len(frames) : frames[j].doing = "function"
    BY <1>6 DEF Statement, InProgram, Doing, Top
  <1>11. Held(frames', g')
    BY SMTT(60), <1>3, <1>6, <1>10, HeldUnderMatch DEF IInv
  <1> QED BY <1>5, <1>9, <1>11 DEF IInv, Held, Found

LEMMA MoveIInv ==
  ASSUME IInv, NEW d \in 0 .. g.Sigmalen + 1, Move(d)
  PROVE  IInv'
  <1> DEFINE e == [Top EXCEPT !.own.Delta = d]
  <1>1. TypeInv /\ frames # <<>> /\ Top.doing = "scan"
    BY DEF IInv, Move, Doing
  <1>2. /\ Len(frames) \in Nat \ {0} /\ Top \in FrameType /\ Top = frames[Len(frames)]
        /\ frames \in Seq(FrameType)
    BY <1>1, PoppedStack DEF TypeInv, Top
  <1>3. d \in Nat /\ d <= g.Sigmalen /\ g \in Globals /\ g.Sigmalen \in Nat
    BY <1>1 DEF Move, Reach, TypeInv, Globals
  <1>4. g' = [g EXCEPT !.Delta = d] /\ g' \in Globals
    BY <1>3 DEF Move, Globals
  <1>5. Bounded(g')
    <2>1. PICK s \in Subjects : g.Sigmalen <= Len(s)
      BY <1>1 DEF TypeInv, Bounded
    <2>2. Len(s) \in Nat
      BY SubjectGlobalsAssumption, LenProperties
    <2>3. g'.Delta = d /\ g'.Sigmalen = g.Sigmalen
      BY <1>3, <1>4 DEF Globals
    <2>4. g'.Delta <= Len(s) /\ g'.Sigmalen <= Len(s)
      BY <1>3, <2>1, <2>2, <2>3
    <2> QED BY <2>4 DEF Bounded
  <1>6. /\ e \in FrameType /\ e.doing = "scan" /\ e.saved = Top.saved /\ e.lost = Top.lost
        /\ e.own = [Top.own EXCEPT !.Delta = d] /\ Top.own \in Globals
    BY <1>1, <1>2, <1>3 DEF FrameType, Globals
  <1> HIDE DEF e
  <1>7. frames' = SetTop(e) /\ call_depth' = call_depth
    BY DEF Move, e
  <1>8. TypeInv'
    BY <1>1, <1>4, <1>5, <1>6, <1>7, TopType
  <1>9. /\ Len(frames') = Len(frames) /\ frames'[Len(frames)] = e
        /\ \A i \in 1 .. Len(frames) - 1 : frames'[i] = frames[i]
    BY <1>1, <1>2, <1>6, <1>7, TopReplaced DEF SetTop
  <1>10. \A i \in 1 .. Len(frames) :
           frames'[i].doing = "function" <=> frames[i].doing = "function"
    <2>1. frames'[Len(frames)].doing = "scan" /\ frames[Len(frames)].doing = "scan"
      BY <1>1, <1>2, <1>6, <1>9
    <2> QED BY <2>1, <1>2, <1>9
  <1>11. CallFramesHeld'
    <2>1. Cardinality(FunctionsOf(frames')) <= call_depth'
      BY <1>1, <1>7, <1>9, <1>10, CountSame, NestingIsCount DEF IInv
    <2> QED BY <1>8, <2>1, CountHeld
  <1>12. Held(frames', g')
    <2>1. \A x \in Global : g[x] = Top.own[x] => g'[x] = e.own[x]
      BY <1>3, <1>4, <1>6 DEF Global, Globals
    <2>2. IsMatch(frames[Len(frames)]) /\ IsMatch(frames'[Len(frames)])
      BY <1>1, <1>2, <1>6, <1>9 DEF IsMatch
    <2>3. \A x \in Global \ e.lost : g[x] = Top.own[x] \/ x \in Top.lost => g'[x] = e.own[x]
      BY <2>1, <1>6
    <2> QED BY <2>2, <2>3, <1>2, <1>9, HeldByTop DEF IInv
  <1> QED BY <1>8, <1>11, <1>12 DEF IInv, Held, Found

LEMMA MatchSucceedsIInv ==
  ASSUME IInv, MatchSucceeds
  PROVE  IInv'
  <1> DEFINE e == [Top EXCEPT !.doing = "commit", !.own = Unclamped(@), !.lost = @ \ {"Omega"}]
             w == Len(Top.own.Sigma)
  <1>1. TypeInv /\ frames # <<>> /\ Top.doing = "scan"
    BY DEF IInv, MatchSucceeds, Doing
  <1>2. /\ Len(frames) \in Nat \ {0} /\ Top \in FrameType /\ Top = frames[Len(frames)]
        /\ frames \in Seq(FrameType)
    BY <1>1, PoppedStack DEF TypeInv, Top
  <1>3. w \in Nat /\ Top.own \in Globals /\ g \in Globals
    BY <1>1, <1>2, SubjectGlobalsAssumption, LenProperties DEF FrameType, Globals, TypeInv
  <1> HIDE DEF w
  <1>4. g' = [g EXCEPT !.Omega = w] /\ g' \in Globals
    BY <1>3 DEF MatchSucceeds, Unclamped, Globals, w
  <1>5. Bounded(g')
    <2>1. g'.Delta = g.Delta /\ g'.Sigmalen = g.Sigmalen
      BY <1>3, <1>4 DEF Globals
    <2> QED BY <2>1, <1>1 DEF Bounded, TypeInv
  <1>6. /\ e \in FrameType /\ e.doing = "commit" /\ e.saved = Top.saved
        /\ e.lost = Top.lost \ {"Omega"} /\ e.own = [Top.own EXCEPT !.Omega = w]
    BY <1>1, <1>2, <1>3 DEF FrameType, Globals, Unclamped, w
  <1> HIDE DEF e
  <1>7. frames' = SetTop(e) /\ call_depth' = call_depth
    BY DEF MatchSucceeds, e
  <1>8. TypeInv'
    BY <1>1, <1>4, <1>5, <1>6, <1>7, TopType
  <1>9. /\ Len(frames') = Len(frames) /\ frames'[Len(frames)] = e
        /\ \A i \in 1 .. Len(frames) - 1 : frames'[i] = frames[i]
    BY <1>1, <1>2, <1>6, <1>7, TopReplaced DEF SetTop
  <1>10. \A i \in 1 .. Len(frames) :
           frames'[i].doing = "function" <=> frames[i].doing = "function"
    <2>1. frames'[Len(frames)].doing = "commit" /\ frames[Len(frames)].doing = "scan"
      BY <1>1, <1>2, <1>6, <1>9
    <2> QED BY <2>1, <1>2, <1>9
  <1>11. CallFramesHeld'
    <2>1. Cardinality(FunctionsOf(frames')) <= call_depth'
      BY <1>1, <1>7, <1>9, <1>10, CountSame, NestingIsCount DEF IInv
    <2> QED BY <1>8, <2>1, CountHeld
  <1>12. Held(frames', g')
    <2>1. /\ g'["Omega"] = e.own["Omega"]
          /\ \A x \in Global \ {"Omega"} : g[x] = Top.own[x] => g'[x] = e.own[x]
      BY <1>3, <1>4, <1>6 DEF Global, Globals
    <2>2. IsMatch(frames[Len(frames)]) /\ IsMatch(frames'[Len(frames)])
      BY <1>1, <1>2, <1>6, <1>9 DEF IsMatch
    <2>3. \A x \in Global \ e.lost : g[x] = Top.own[x] \/ x \in Top.lost => g'[x] = e.own[x]
      BY <2>1, <1>6
    <2> QED BY <2>2, <2>3, <1>2, <1>9, HeldByTop DEF IInv
  <1> QED BY <1>8, <1>11, <1>12 DEF IInv, Held, Found

(* Whatever ends takes its frame of call_stack with it, if it is a function.    *)
LEMMA EndIInv ==
  ASSUME IInv, frames # <<>>, frames' = Popped, g' \in Globals, Bounded(g'),
         call_depth' = IF Top.doing = "function" THEN call_depth - 1 ELSE call_depth,
         \/ IsMatch(Top)
         \/ Top.doing = "function" /\ g' = Top.saved
         \/ /\ Top.doing = "eval"
            /\ \A x \in Global \ {"Sigmalen"} : g'[x] = Top.saved[x]
            /\ g'["Sigmalen"] = g["Sigmalen"]
  PROVE  IInv'
  <1>1. TypeInv /\ frames \in Seq(FrameType) /\ call_depth \in Nat /\ CallStackMax \in Nat
        /\ call_depth <= CallStackMax
    BY SubjectGlobalsAssumption DEF IInv, TypeInv
  <1>2. /\ Len(frames) \in Nat \ {0} /\ Top = frames[Len(frames)]
        /\ frames' \in Seq(FrameType) /\ Len(frames') = Len(frames) - 1
        /\ \A i \in 1 .. Len(frames) - 1 : frames'[i] = frames[i]
    BY <1>1, PoppedStack DEF Popped, Top
  <1>3. Len(frames') \in Nat /\ Len(frames) = Len(frames') + 1
        /\ \A i \in 1 .. Len(frames') : frames[i].doing = frames'[i].doing
    BY <1>2
  <1>4. /\ Cardinality(FunctionsOf(frames')) \in Nat
        /\ Cardinality(FunctionsOf(frames)) =
             IF Top.doing = "function" THEN Cardinality(FunctionsOf(frames')) + 1
                                       ELSE Cardinality(FunctionsOf(frames'))
    BY <1>2, <1>3, CountIsNat, CountGrows
  <1>5. Cardinality(FunctionsOf(frames)) <= call_depth
    BY <1>1, NestingIsCount DEF IInv
  <1>6. Cardinality(FunctionsOf(frames')) <= call_depth' /\ call_depth' \in 0 .. CallStackMax
    BY <1>1, <1>4, <1>5
  <1>7. TypeInv'
    BY <1>1, <1>6, ShrinkType
  <1>8. CallFramesHeld'
    BY <1>6, <1>7, CountHeld
  <1>9. Held(frames', g')
    BY <1>2, HeldAfter DEF IInv
  <1> QED BY <1>7, <1>8, <1>9 DEF IInv, Held, Found

LEMMA MatchFailsIInv ==
  ASSUME IInv, MatchFails
  PROVE  IInv'
  <1>1. TypeInv /\ frames # <<>> /\ Top.doing = "scan" /\ Top \in FrameType /\ g \in Globals
    BY PoppedStack DEF IInv, MatchFails, Doing, TypeInv, Top
  <1>2. Len(Top.own.Sigma) \in Nat
    BY <1>1, SubjectGlobalsAssumption, LenProperties DEF FrameType, Globals
  <1>3. g' \in Globals /\ g'.Delta = g.Delta /\ g'.Sigmalen = g.Sigmalen
    BY <1>1, <1>2 DEF MatchFails, Unclamped, Globals
  <1>4. Bounded(g')
    BY <1>1, <1>3 DEF Bounded, TypeInv
  <1>5. frames' = Popped /\ call_depth' = call_depth /\ IsMatch(Top)
    BY <1>1 DEF MatchFails, IsMatch
  <1> QED BY <1>1, <1>3, <1>4, <1>5, EndIInv

LEMMA StatementEndsIInv ==
  ASSUME IInv, StatementEnds
  PROVE  IInv'
  <1>1. TypeInv /\ frames # <<>> /\ Top.doing = "commit" /\ g \in Globals /\ Bounded(g)
    BY DEF IInv, StatementEnds, Doing, TypeInv
  <1>2. frames' = Popped /\ call_depth' = call_depth /\ g' = g /\ IsMatch(Top)
    BY <1>1 DEF StatementEnds, IsMatch
  <1> QED BY <1>1, <1>2, EndIInv

LEMMA FunctionReturnsIInv ==
  ASSUME IInv, FunctionReturns
  PROVE  IInv'
  <1>1. TypeInv /\ frames # <<>> /\ Top.doing = "function"
    BY DEF IInv, FunctionReturns, Doing
  <1>2. Top \in FrameType /\ Bounded(Top.saved)
    BY <1>1, PoppedStack DEF TypeInv, Top
  <1>3. Top.saved \in Globals
    BY <1>2 DEF FrameType
  <1>4. g' = Top.saved /\ frames' = Popped /\ call_depth' = call_depth - 1
    BY DEF FunctionReturns, Restored
  <1> QED BY <1>1, <1>2, <1>3, <1>4, EndIInv

LEMMA EvaluatedIInv ==
  ASSUME IInv, Evaluated
  PROVE  IInv'
  <1>1. TypeInv /\ frames # <<>> /\ Top.doing = "eval" /\ g \in Globals /\ Bounded(g)
    BY DEF IInv, Evaluated, Doing, TypeInv
  <1>2. Top \in FrameType /\ Bounded(Top.saved)
    BY <1>1, PoppedStack DEF TypeInv, Top
  <1>3. Top.saved \in Globals
    BY <1>2 DEF FrameType
  <1>4. g' = [Top.saved EXCEPT !.Sigmalen = g.Sigmalen]
        /\ frames' = Popped /\ call_depth' = call_depth
    BY DEF Evaluated
  <1>5. /\ g' \in Globals
        /\ g'["Sigmalen"] = g["Sigmalen"]
        /\ \A x \in Global \ {"Sigmalen"} : g'[x] = Top.saved[x]
        /\ g'.Delta = Top.saved.Delta /\ g'.Sigmalen = g.Sigmalen
    BY <1>1, <1>3, <1>4 DEF Globals, Global
  <1>6. Bounded(g')
    BY <1>1, <1>2, <1>5 DEF Bounded
  <1> QED BY <1>1, <1>4, <1>5, <1>6, EndIInv

LEMMA CallIInv ==
  ASSUME IInv, NEW d \in {"function", "eval"}, frames' = Append(frames, Frame(d, g)), g' = g,
         call_depth' = IF d = "function" THEN call_depth + 1 ELSE call_depth,
         call_depth' \in 0 .. CallStackMax
  PROVE  IInv'
  <1> DEFINE e == Frame(d, g)
  <1>1. TypeInv /\ frames \in Seq(FrameType) /\ g \in Globals /\ Bounded(g) /\ call_depth \in Nat
    BY DEF IInv, TypeInv
  <1>2. e \in FrameType /\ e.doing = d /\ e.saved = g
    BY <1>1, FrameFacts
  <1> HIDE DEF e
  <1>3. frames' = Append(frames, e)
    BY DEF e
  <1>4. TypeInv'
    BY <1>1, <1>2, <1>3, GrowType
  <1>5. /\ Len(frames) \in Nat /\ Len(frames') = Len(frames) + 1
        /\ frames'[Len(frames')] = e
        /\ \A i \in 1 .. Len(frames) : frames'[i] = frames[i]
    BY <1>1, <1>2, <1>3, Appended
  <1>6. /\ Cardinality(FunctionsOf(frames)) \in Nat
        /\ Cardinality(FunctionsOf(frames')) =
             IF d = "function" THEN Cardinality(FunctionsOf(frames)) + 1
                               ELSE Cardinality(FunctionsOf(frames))
    <2>1. \A i \in 1 .. Len(frames) : frames'[i].doing = frames[i].doing
      BY <1>5
    <2>2. frames'[Len(frames')].doing = d
      BY <1>2, <1>5
    <2> QED BY <1>5, <2>1, <2>2, CountIsNat, CountGrows
  <1>7. Cardinality(FunctionsOf(frames)) <= call_depth
    BY <1>1, NestingIsCount DEF IInv
  <1>8. Cardinality(FunctionsOf(frames')) <= call_depth'
    BY <1>1, <1>6, <1>7
  <1>9. CallFramesHeld'
    BY <1>4, <1>8, CountHeld
  <1>10. Held(frames', g')
    BY <1>2, <1>5, HeldUnderCall DEF IInv
  <1> QED BY <1>4, <1>9, <1>10 DEF IInv, Held, Found

LEMMA CallFunctionIInv ==
  ASSUME IInv, CallFunction
  PROVE  IInv'
  <1>1. call_depth \in 0 .. CallStackMax /\ call_depth < CallStackMax /\ CallStackMax \in Nat
    BY SubjectGlobalsAssumption DEF CallFunction, IInv, TypeInv
  <1>2. frames' = Append(frames, Frame("function", g)) /\ g' = g /\ call_depth' = call_depth + 1
    BY DEF CallFunction, Deeper
  <1>3. call_depth' \in 0 .. CallStackMax
    BY <1>1, <1>2
  <1> QED BY <1>2, <1>3, CallIInv

LEMMA EvaluateIInv ==
  ASSUME IInv, Evaluate
  PROVE  IInv'
  <1>1. call_depth \in 0 .. CallStackMax
    BY DEF IInv, TypeInv
  <1>2. frames' = Append(frames, Frame("eval", g)) /\ g' = g /\ call_depth' = call_depth
    BY DEF Evaluate
  <1> QED BY <1>1, <1>2, CallIInv

(* A pattern evaluated in a match.  Its frame lies above the others, whose lost *)
(* globals are those that nothing between has saved.                            *)
LEMMA EvalPatternIInv ==
  ASSUME IInv, NEW anchor \in BOOLEAN, EvalPattern(anchor)
  PROVE  IInv'
  <1> DEFINE e == Frame("scan", g')
             n == Len(frames)
             above(i, d) == \E j \in i + 1 .. n : frames[j].doing = d
             hit(i) == CASE above(i, "function") -> {}
                         [] ~ above(i, "function") /\ above(i, "eval") -> {"Sigmalen"}
                         [] OTHER -> Global
             seen == [i \in DOMAIN frames |-> [frames[i] EXCEPT !.lost = @ \cup hit(i)]]
  <1>1. TypeInv /\ frames \in Seq(FrameType)
    BY DEF IInv, TypeInv
  <1>2. n \in Nat /\ DOMAIN frames = 1 .. n
    BY <1>1, LenProperties
  <1>3. g' \in Globals /\ Bounded(g')
    BY StartedType, SubjectGlobalsAssumption DEF EvalPattern
  <1>4. e \in FrameType /\ e.saved = g' /\ e.own = g' /\ e.doing = "scan"
    BY <1>3, FrameFacts
  <1>5. frames' = Append(seen, e) /\ call_depth' = call_depth /\ call_depth' \in 0 .. CallStackMax
    BY <1>1 DEF EvalPattern, TypeInv
  <1>6. \A i \in 1 .. n : hit(i) \in SUBSET Global
    BY DEF Global
  <1>7. \A i \in 1 .. n : /\ \/ above(i, "function")
                             \/ hit(i) = Global
                             \/ hit(i) = {"Sigmalen"} /\ above(i, "eval")
    OBVIOUS
  <1>8. \A i \in 1 .. n : frames[i] \in FrameType
    BY <1>1, ElementOfSeq
  <1> HIDE DEF e, hit
  <1>9. ASSUME NEW i \in 1 .. n
        PROVE  /\ seen[i] \in FrameType
               /\ seen[i].doing = frames[i].doing /\ seen[i].saved = frames[i].saved
               /\ seen[i].own = frames[i].own /\ seen[i].lost = frames[i].lost \cup hit(i)
    <2>1. seen[i] = [frames[i] EXCEPT !.lost = @ \cup hit(i)]
      BY <1>2
    <2> QED BY <2>1, <1>6, <1>8 DEF FrameType
  <1>10. seen \in Seq(FrameType) /\ Len(seen) = n
    <2>1. \A i \in 1 .. n : seen[i] \in FrameType
      BY <1>9
    <2>2. seen \in [1 .. n -> FrameType]
      BY <1>2, <2>1
    <2> HIDE DEF seen
    <2> QED BY <2>2, <1>2, FunctionIsStack
  <1> HIDE DEF seen
  <1>11. TypeInv'
    BY <1>1, <1>3, <1>4, <1>5, <1>9, <1>10, GrowType
  <1>12. /\ Len(frames') = n + 1
         /\ frames'[Len(frames')] = e
         /\ \A i \in 1 .. n : frames'[i] = seen[i]
    BY <1>4, <1>5, <1>10, Appended
  <1>13. CallFramesHeld'
    <2>1. /\ \A i \in 1 .. n : frames'[i].doing = frames[i].doing
          /\ frames'[Len(frames')].doing = "scan"
      BY <1>4, <1>9, <1>12
    <2>2. Cardinality(FunctionsOf(frames')) = Cardinality(FunctionsOf(frames))
      BY <2>1, <1>2, <1>12, CountGrows
    <2>3. Cardinality(FunctionsOf(frames')) <= call_depth'
      BY <2>2, <1>1, <1>5, NestingIsCount DEF IInv
    <2> QED BY <2>3, <1>11, CountHeld
  <1>14. Held(frames', g')
    <2>1. \A i \in 1 .. n :
            /\ frames'[i].doing = frames[i].doing /\ frames'[i].saved = frames[i].saved
            /\ frames'[i].own = frames[i].own /\ frames[i].lost \subseteq frames'[i].lost
            /\ hit(i) \subseteq frames'[i].lost
      BY <1>9, <1>12
    <2>2. ASSUME NEW i \in 1 .. n
          PROVE  \/ \E j \in i .. n : frames[j].doing = "function"
                 \/ Global \subseteq frames'[i].lost
                 \/ "Sigmalen" \in frames'[i].lost /\ \E j \in i + 1 .. n : frames[j].doing = "eval"
      <3>1. CASE above(i, "function")
        BY <3>1, <1>2
      <3>2. CASE hit(i) = Global
        BY <3>2, <2>1
      <3>3. CASE hit(i) = {"Sigmalen"} /\ above(i, "eval")
        BY <3>3, <2>1
      <3> QED BY <3>1, <3>2, <3>3, <1>7
    <2>3. frames'[Len(frames')].own = g'
      BY <1>4, <1>12
    <2> HIDE DEF hit, above
    <2> QED BY <2>1, <2>2, <2>3, <1>2, <1>12, HeldUnderMatch DEF IInv
  <1> QED BY <1>11, <1>13, <1>14 DEF IInv, Held, Found

LEMMA RuntimeErrorIInv ==
  ASSUME IInv, RuntimeError
  PROVE  IInv'
  <1>1. frames' = <<>> /\ Len(frames') = 0 /\ frames' \in Seq(FrameType)
        /\ g' = g /\ call_depth' = call_depth
    BY DEF RuntimeError
  <1>2. TypeInv'
    <2>1. (\A i \in 1 .. Len(frames) : Bounded(frames[i].saved))'
      BY <1>1
    <2>2. (g \in Globals /\ Bounded(g) /\ call_depth \in 0 .. CallStackMax)'
      BY <1>1 DEF IInv, TypeInv, Bounded
    <2> QED BY <1>1, <2>1, <2>2 DEF TypeInv
  <1>3. FunctionsOf(frames') = {}
    BY <1>1 DEF FunctionsOf
  <1>4. call_depth' >= 0
    BY <1>1, SubjectGlobalsAssumption DEF IInv, TypeInv
  <1>5. CallFramesHeld'
    BY <1>2, <1>3, <1>4, FS_EmptySet, CountHeld
  <1>6. Held(frames', g')
    BY <1>1 DEF Held
  <1> QED BY <1>2, <1>5, <1>6 DEF IInv, Held, Found

LEMMA NextIInv == IInv /\ [Next]_vars => IInv'
  <1> SUFFICES ASSUME IInv, [Next]_vars PROVE IInv'
    OBVIOUS
  <1>1. ASSUME NEW s \in Subjects, NEW anchor \in BOOLEAN, Statement(s, anchor) PROVE IInv'
    BY <1>1, StatementIInv
  <1>2. ASSUME NEW d \in 0 .. g.Sigmalen + 1, Move(d) PROVE IInv'
    BY <1>2, MoveIInv
  <1>3. CASE MatchFails \/ MatchSucceeds \/ StatementEnds
    BY <1>3, MatchFailsIInv, MatchSucceedsIInv, StatementEndsIInv
  <1>4. CASE CallFunction \/ FunctionReturns \/ Evaluate \/ Evaluated
    BY <1>4, CallFunctionIInv, FunctionReturnsIInv, EvaluateIInv, EvaluatedIInv
  <1>5. ASSUME NEW anchor \in BOOLEAN, EvalPattern(anchor) PROVE IInv'
    BY <1>5, EvalPatternIInv
  <1>6. CASE RuntimeError
    BY <1>6, RuntimeErrorIInv
  <1>7. CASE UNCHANGED vars
    BY SMTT(60), <1>7 DEF vars, IInv, TypeInv, Bounded, CallFramesHeld, Nesting, Held, Found
  <1> QED BY <1>1, <1>2, <1>3, <1>4, <1>5, <1>6, <1>7 DEF Next

LEMMA TypeInvOK == TypeInv => TypeOK
  BY DEF TypeInv, TypeOK, Bounded

\* A match in control is at the top of the stack, with no one to give it anything
\* back: all that it has not lost is in the globals.
LEMMA HeldKept == TypeInv /\ Held(frames, g) => GlobalsKept
  <1> SUFFICES ASSUME TypeInv, Held(frames, g), Matching, NEW x \in Global \ Top.lost
               PROVE  g[x] = Top.own[x]
    BY DEF GlobalsKept
  <1>1. Len(frames) \in Nat \ {0} /\ IsMatch(frames[Len(frames)]) /\ Top = frames[Len(frames)]
    BY PoppedStack DEF TypeInv, Matching, Doing, Top, IsMatch
  <1>2. Found(frames, g, Len(frames), x)
    BY <1>1 DEF Held
  <1> QED BY <1>1, <1>2 DEF Found

-----------------------------------------------------------------------------

\* The globals, the C stack and the depth of calls keep their types, and the
\* cursor stays within the longest subject, in whatever order statements,
\* functions and expressions nest, end and are dropped by errors.
THEOREM TypeCorrect == Spec => []TypeOK
  <1>1. IInv => TypeOK
    BY TypeInvOK DEF IInv
  <1> QED BY InitIInv, NextIInv, <1>1, PTL DEF Spec

\* A match that regains control finds all four globals as it left them, except
\* those that a pattern run by EVAL may have changed: what call_user_function and
\* EXPVAL_fn save is enough, at any depth.
THEOREM MatchesUndisturbed == Spec => []GlobalsKept
  <1>1. IInv => GlobalsKept
    BY HeldKept DEF IInv
  <1> QED BY InitIInv, NextIInv, <1>1, PTL DEF Spec

\* call_depth never falls behind the functions in progress, so no two of them
\* share a frame of call_stack, also after errors that skipped the way back.
THEOREM FramesApart == Spec => []CallFramesHeld
  <1>1. IInv => CallFramesHeld
    BY DEF IInv
  <1> QED BY InitIInv, NextIInv, <1>1, PTL DEF Spec
=============================================================================
