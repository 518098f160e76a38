------------------------- MODULE NameContextsProofs -------------------------
(***************************************************************************)
(* Proofs about the naming contexts, for every set of variables and values *)
(* and every depth of nesting.  A step grows the C stack, shrinks it, or   *)
(* changes its innermost activity; each of the three keeps the stack and   *)
(* the chain of contexts in step, whatever the operation.                  *)
(***************************************************************************)
EXTENDS NameContexts, SequenceTheorems, TLAPS

-----------------------------------------------------------------------------
(* Stacks *)

LEMMA AboveOne ==
  \A n \in Nat : (n > 1 => n # 1) /\ (n # 0 /\ n # 1 => 1 <= n - 1)
  OBVIOUS

LEMMA FrontOfStack ==
  ASSUME NEW S, NEW s \in Seq(S), s # <<>>
  PROVE  /\ Front(s) \in Seq(S)
         /\ Len(Front(s)) = Len(s) - 1
         /\ Len(s) \in Nat \ {0}
         /\ \A i \in 1 .. Len(s) - 1 : Front(s)[i] = s[i]
  <1>1. Len(s) \in Nat \ {0} /\ \A i \in 1 .. Len(s) : s[i] \in S
    BY EmptySeq, LenProperties, ElementOfSeq
  <1>2. \A i \in 1 .. Len(s) - 1 : s[i] \in S
    BY <1>1
  <1>3. /\ SubSeq(s, 1, Len(s) - 1) \in Seq(S)
        /\ Len(SubSeq(s, 1, Len(s) - 1)) = IF 1 <= Len(s) - 1 THEN Len(s) - 1 - 1 + 1 ELSE 0
        /\ \A i \in 1 .. Len(s) - 1 - 1 + 1 : SubSeq(s, 1, Len(s) - 1)[i] = s[1 + i - 1]
    <2>1. 1 \in Int /\ Len(s) - 1 \in Int
      BY <1>1
    <2> QED BY <1>2, <2>1, SubSeqProperties
  <1>4. Len(s) - 1 - 1 + 1 = Len(s) - 1 /\ \A i \in 1 .. Len(s) - 1 : 1 + i - 1 = i
    BY <1>1
  <1>5. Len(Front(s)) = Len(s) - 1
    <2>1. CASE Len(s) = 1
      BY <2>1, <1>3 DEF Front
    <2>2. CASE Len(s) # 1
      <3>1. 1 <= Len(s) - 1
        BY <2>2, <1>1, AboveOne
      <3> QED BY <3>1, <1>1, <1>3, <1>4 DEF Front
    <2> QED BY <2>1, <2>2
  <1> QED BY <1>1, <1>3, <1>4, <1>5 DEF Front

LEMMA FinalOfStack ==
  ASSUME NEW S, NEW s \in Seq(S), s # <<>>
  PROVE  Final(s) \in S /\ Final(s) = s[Len(s)] /\ Len(s) \in Nat \ {0}
  BY DEF Final

LEMMA ReplacingTop ==
  ASSUME NEW S, NEW s \in Seq(S), s # <<>>, NEW e \in S
  PROVE  /\ Replacing(s, e) \in Seq(S)
         /\ Len(Replacing(s, e)) = Len(s)
         /\ Replacing(s, e)[Len(s)] = e
         /\ \A i \in 1 .. Len(s) - 1 : Replacing(s, e)[i] = s[i]
  BY DEF Replacing

LEMMA AppendToStack ==
  ASSUME NEW S, NEW s \in Seq(S), NEW e \in S
  PROVE  /\ Append(s, e) \in Seq(S)
         /\ Len(Append(s, e)) = Len(s) + 1
         /\ Append(s, e)[Len(s) + 1] = e
         /\ \A i \in 1 .. Len(s) : Append(s, e)[i] = s[i]
         /\ Len(s) \in Nat
  OBVIOUS

LEMMA NamesType ==
  ASSUME NEW s \in Seq(Entry)
  PROVE  /\ NAME_pop(s) \in Seq(Entry)
         /\ \A e \in Entry : NAME_push(s, e) \in Seq(Entry)
  <1>1. CASE s = <<>>
    BY <1>1 DEF NAME_pop, NAME_push
  <1>2. CASE s # <<>>
    <2>1. SubSeq(s, 1, Len(s) - 1) \in Seq(Entry)
      BY <1>2, FrontOfStack DEF Front
    <2> QED BY <1>2, <2>1 DEF NAME_pop, NAME_push
  <1> QED BY <1>1, <1>2

-----------------------------------------------------------------------------
(* The C stack and the chain of contexts *)

Owns(f) == f.doing # "function"

\* The innermost activity works with the current context; every other with one
\* that its successor has inherited or entered a new context above.
InStep ==
  /\ frames # <<>> => frames[Len(frames)].ctx = Len(chain)
  /\ \A i \in 1 .. Len(frames) : frames[i].ctx > 0 /\ (Owns(frames[i]) => frames[i].ctx > 1)
  /\ \A i \in 1 .. Len(frames) - 1 :
       frames[i + 1].ctx = IF Owns(frames[i + 1]) THEN frames[i].ctx + 1 ELSE frames[i].ctx
  /\ \A j \in 1 .. Len(frames) : \A i \in 1 .. j - 1 :
       frames[i].ctx <= frames[j].ctx /\ (Owns(frames[j]) => frames[i].ctx < frames[j].ctx)

StackType == frames \in Seq(FrameType) /\ chain \in Seq(Seq(Entry)) /\ chain # <<>>

StackInv == StackType /\ InStep /\ OwnNames

StoreType == nv \in [Vars -> Values] /\ ref \in [Vars -> Values]

\* The three kinds of step.
Grow(d, L) ==
  /\ frames' = Append(frames, Frame(d, Len(chain'), L))
  /\ chain' = IF d = "function" THEN chain ELSE NAME_ctx_enter

Shrink ==
  /\ frames # <<>>
  /\ frames' = Front(frames)
  /\ chain' = IF Doing("function") THEN chain ELSE NAME_ctx_leave

Change(f, c) ==
  /\ frames # <<>>
  /\ Owns(Top)
  /\ frames' = Replacing(frames, f)
  /\ chain' = Replacing(chain, c)
  /\ f.ctx = Top.ctx /\ Owns(f)
  /\ f.doing \in {"match", "commit"} => f.names = c

LEMMA GrowKeeps ==
  ASSUME StackInv, StoreType,
         NEW d \in {"match", "eval", "function"}, NEW L \in SUBSET Vars, Grow(d, L)
  PROVE  StackInv'
  <1> DEFINE f == Frame(d, Len(chain'), L)
             n == Len(frames)
  <1>1. /\ chain' \in Seq(Seq(Entry)) /\ chain' # <<>>
        /\ Len(chain) \in Nat \ {0}
        /\ Len(chain') = IF d = "function" THEN Len(chain) ELSE Len(chain) + 1
        /\ \A i \in 1 .. Len(chain) : chain'[i] = chain[i]
        /\ d # "function" => chain'[Len(chain')] = <<>>
    <2>1. chain \in Seq(Seq(Entry)) /\ chain # <<>> /\ <<>> \in Seq(Entry) /\ Len(chain) \in Nat \ {0}
      BY EmptySeq, LenProperties DEF StackInv, StackType
    <2>2. CASE d = "function"
      BY <2>1, <2>2 DEF Grow
    <2>3. CASE d # "function"
      <3>1. chain' = Append(chain, <<>>)
        BY <2>3 DEF Grow, NAME_ctx_enter
      <3>2. /\ chain' \in Seq(Seq(Entry))
            /\ Len(chain') = Len(chain) + 1
            /\ chain'[Len(chain) + 1] = <<>>
            /\ \A i \in 1 .. Len(chain) : chain'[i] = chain[i]
        BY <2>1, <3>1, AppendToStack
      <3>3. chain' # <<>>
        BY <2>1, <3>2
      <3> QED BY <2>1, <2>3, <3>2, <3>3
    <2> QED BY <2>2, <2>3
  <1>2. /\ f \in FrameType
        /\ f.ctx = Len(chain') /\ f.doing = d /\ f.names = <<>>
    <2> DEFINE saved == [v \in L |-> nv[v]]
               Saved == UNION {[M -> Values] : M \in SUBSET Vars}
    <2>1. saved \in [L -> Values]
      BY DEF StoreType
    <2>2. saved \in Saved
      BY <2>1
    <2>3. <<>> \in Seq(Entry) /\ Len(chain') \in Nat
      BY <1>1
    <2>4. f = [doing |-> d, ctx |-> Len(chain'), slot |-> 1, names |-> <<>>, saved |-> saved]
      BY DEF Frame
    <2> HIDE DEF saved, f
    <2>5. f \in [doing : {"match", "commit", "eval", "function"}, ctx : Nat, slot : Nat \ {0},
                 names : Seq(Entry), saved : Saved]
      <3> HIDE DEF Saved
      <3> QED BY <2>2, <2>3, <2>4
    <2> QED BY <2>4, <2>5 DEF FrameType
  <1>3. /\ frames' \in Seq(FrameType)
        /\ Len(frames') = n + 1 /\ n \in Nat
        /\ frames'[n + 1] = f
        /\ \A i \in 1 .. n : frames'[i] = frames[i]
    <2> HIDE DEF f
    <2> QED BY <1>2, AppendToStack DEF Grow, StackInv, StackType, f
  <1>4. \A i \in 1 .. n : frames[i] \in FrameType /\ frames[i].ctx \in Nat
    <2> SUFFICES ASSUME NEW i \in 1 .. n PROVE frames[i] \in FrameType /\ frames[i].ctx \in Nat
      OBVIOUS
    <2>1. frames[i] \in FrameType
      BY ElementOfSeq DEF StackInv, StackType
    <2> QED BY <2>1 DEF FrameType
  <1>5. \A i \in 1 .. n : frames[i].ctx <= Len(chain)
    <2> SUFFICES ASSUME NEW i \in 1 .. n PROVE frames[i].ctx <= Len(chain)
      OBVIOUS
    <2>1. frames # <<>> /\ frames[n].ctx = Len(chain) /\ n \in 1 .. n
      BY <1>3 DEF StackInv, InStep
    <2>2. CASE i = n
      BY <2>1, <2>2, <1>1
    <2>3. CASE i # n
      <3>1. i \in 1 .. n - 1
        BY <1>3, <2>3
      <3> QED BY <3>1, <2>1 DEF StackInv, InStep
    <2> QED BY <2>2, <2>3
  <1> HIDE DEF f, n
  <1>6. InStep'
    <2>1. frames' # <<>> /\ frames'[Len(frames')].ctx = Len(chain')
      BY <1>2, <1>3
    <2>2. \A i \in 1 .. n + 1 : frames'[i].ctx > 0 /\ (Owns(frames'[i]) => frames'[i].ctx > 1)
      <3> SUFFICES ASSUME NEW i \in 1 .. n + 1
                   PROVE  frames'[i].ctx > 0 /\ (Owns(frames'[i]) => frames'[i].ctx > 1)
        OBVIOUS
      <3>1. CASE i = n + 1
        BY <3>1, <1>1, <1>2, <1>3 DEF Owns
      <3>2. CASE i # n + 1
        BY <3>2, <1>3 DEF StackInv, InStep, n
      <3> QED BY <3>1, <3>2
    <2>3. \A i \in 1 .. n :
            frames'[i + 1].ctx = IF Owns(frames'[i + 1]) THEN frames'[i].ctx + 1 ELSE frames'[i].ctx
      <3> SUFFICES ASSUME NEW i \in 1 .. n
                   PROVE  frames'[i + 1].ctx = IF Owns(frames'[i + 1]) THEN frames'[i].ctx + 1 ELSE frames'[i].ctx
        OBVIOUS
      <3>1. CASE i = n
        <4>1. frames[n].ctx = Len(chain)
          BY <1>3 DEF StackInv, InStep, n
        <4> QED BY <3>1, <4>1, <1>1, <1>2, <1>3 DEF Owns
      <3>2. CASE i # n
        <4>1. i \in 1 .. n - 1 /\ i + 1 \in 1 .. n
          BY <3>2, <1>3
        <4> QED BY <4>1, <1>3 DEF StackInv, InStep, n
      <3> QED BY <3>1, <3>2
    <2>4. \A j \in 1 .. n + 1 : \A i \in 1 .. j - 1 :
            frames'[i].ctx <= frames'[j].ctx /\ (Owns(frames'[j]) => frames'[i].ctx < frames'[j].ctx)
      <3> SUFFICES ASSUME NEW j \in 1 .. n + 1, NEW i \in 1 .. j - 1
                   PROVE  frames'[i].ctx <= frames'[j].ctx /\ (Owns(frames'[j]) => frames'[i].ctx < frames'[j].ctx)
        OBVIOUS
      <3>1. i \in 1 .. n /\ frames'[i] = frames[i] /\ frames[i].ctx \in Nat
        BY <1>3, <1>4
      <3>2. CASE j = n + 1
        BY <3>1, <3>2, <1>1, <1>2, <1>3, <1>5 DEF Owns
      <3>3. CASE j # n + 1
        <4>1. j \in 1 .. n /\ frames'[j] = frames[j]
          BY <3>3, <1>3
        <4> QED BY <3>1, <4>1 DEF StackInv, InStep, n
      <3> QED BY <3>2, <3>3
    <2> QED BY <2>1, <2>2, <2>3, <2>4, <1>3 DEF InStep
  <1>7. OwnNames'
    <2> SUFFICES ASSUME NEW i \in 1 .. n + 1, frames'[i].doing \in {"match", "commit"}
                 PROVE  frames'[i].ctx <= Len(chain') /\ chain'[frames'[i].ctx] = frames'[i].names
      BY <1>3 DEF OwnNames
    <2>1. CASE i = n + 1
      BY <2>1, <1>1, <1>2, <1>3
    <2>2. CASE i # n + 1
      <3>1. i \in 1 .. n /\ frames'[i] = frames[i]
        BY <2>2, <1>3
      <3>2. frames[i].ctx <= Len(chain) /\ chain[frames[i].ctx] = frames[i].names
        BY <3>1 DEF StackInv, OwnNames, n
      <3>3. frames[i].ctx \in 1 .. Len(chain)
        BY <3>1, <3>2, <1>1, <1>4 DEF StackInv, InStep, n
      <3> QED BY <3>1, <3>2, <3>3, <1>1
    <2> QED BY <2>1, <2>2
  <1> QED BY <1>1, <1>3, <1>6, <1>7 DEF StackInv, StackType

LEMMA ShrinkKeeps ==
  ASSUME StackInv, Shrink
  PROVE  StackInv'
  <1> DEFINE n == Len(frames)
  <1>1. /\ frames' \in Seq(FrameType)
        /\ Len(frames') = n - 1 /\ n \in Nat \ {0}
        /\ \A i \in 1 .. n - 1 : frames'[i] = frames[i]
        /\ Top = frames[n] /\ Top \in FrameType
    <2>1. frames \in Seq(FrameType) /\ frames # <<>> /\ frames' = Front(frames)
      BY DEF Shrink, StackInv, StackType
    <2>2. Top = frames[n] /\ Top \in FrameType
      BY <2>1, FinalOfStack DEF Top
    <2> QED BY <2>1, <2>2, FrontOfStack
  <1>2. /\ Top.ctx = Len(chain) /\ Len(chain) \in Nat
        /\ Owns(Top) => Len(chain) > 1
    BY <1>1 DEF StackInv, InStep, StackType
  <1>3. chain' = IF Owns(Top) THEN NAME_ctx_leave ELSE chain
    BY DEF Doing, Owns, Shrink, Top
  <1>4. /\ chain' \in Seq(Seq(Entry)) /\ chain' # <<>>
        /\ Len(chain') = IF Owns(Top) THEN Len(chain) - 1 ELSE Len(chain)
        /\ \A i \in 1 .. Len(chain') : chain'[i] = chain[i]
    <2>1. CASE Owns(Top)
      <3>1. chain \in Seq(Seq(Entry)) /\ chain # <<>>
        BY DEF StackInv, StackType
      <3>2. chain' = Front(chain)
        <4>1. Len(chain) \in Nat /\ Len(chain) > 1
          BY <2>1, <1>2
        <4>2. Len(chain) # 1
          BY <4>1, AboveOne
        <4> QED BY <2>1, <1>3, <4>2 DEF NAME_ctx_leave
      <3>3. /\ Front(chain) \in Seq(Seq(Entry))
            /\ Len(Front(chain)) = Len(chain) - 1
            /\ \A i \in 1 .. Len(chain) - 1 : Front(chain)[i] = chain[i]
        BY <3>1, FrontOfStack
      <3>4. Front(chain) # <<>>
        BY <2>1, <1>2, <3>3, EmptySeq
      <3> QED BY <2>1, <3>2, <3>3, <3>4
    <2>2. CASE ~ Owns(Top)
      BY <2>2, <1>3 DEF StackInv, StackType
    <2> QED BY <2>1, <2>2
  <1>5. \A i \in 1 .. n : frames[i] \in FrameType /\ frames[i].ctx \in Nat
    <2> SUFFICES ASSUME NEW i \in 1 .. n PROVE frames[i] \in FrameType /\ frames[i].ctx \in Nat
      OBVIOUS
    <2>1. frames[i] \in FrameType
      BY ElementOfSeq DEF StackInv, StackType
    <2> QED BY <2>1 DEF FrameType
  <1> HIDE DEF n
  <1>6. InStep'
    <2>1. frames' # <<>> => frames'[Len(frames')].ctx = Len(chain')
      <3> SUFFICES ASSUME frames' # <<>> PROVE frames'[n - 1].ctx = Len(chain')
        BY <1>1
      <3>1. n - 1 \in 1 .. n - 1
        BY <1>1
      <3>2. frames[n - 1 + 1].ctx = IF Owns(frames[n - 1 + 1]) THEN frames[n - 1].ctx + 1 ELSE frames[n - 1].ctx
        BY <3>1 DEF StackInv, InStep, n
      <3>3. n - 1 + 1 = n /\ frames[n - 1].ctx \in Nat
        BY <1>1, <1>5, <3>1
      <3> QED BY <3>1, <3>2, <3>3, <1>1, <1>2, <1>4
    <2>2. \A i \in 1 .. n - 1 : frames'[i].ctx > 0 /\ (Owns(frames'[i]) => frames'[i].ctx > 1)
      BY <1>1 DEF StackInv, InStep, n
    <2>3. \A i \in 1 .. n - 2 :
            frames'[i + 1].ctx = IF Owns(frames'[i + 1]) THEN frames'[i].ctx + 1 ELSE frames'[i].ctx
      <3> SUFFICES ASSUME NEW i \in 1 .. n - 2
                   PROVE  frames'[i + 1].ctx = IF Owns(frames'[i + 1]) THEN frames'[i].ctx + 1 ELSE frames'[i].ctx
        OBVIOUS
      <3>1. i \in 1 .. n - 1 /\ i + 1 \in 1 .. n - 1
        BY <1>1
      <3> QED BY <3>1, <1>1 DEF StackInv, InStep, n
    <2>4. \A j \in 1 .. n - 1 : \A i \in 1 .. j - 1 :
            frames'[i].ctx <= frames'[j].ctx /\ (Owns(frames'[j]) => frames'[i].ctx < frames'[j].ctx)
      <3> SUFFICES ASSUME NEW j \in 1 .. n - 1, NEW i \in 1 .. j - 1
                   PROVE  frames'[i].ctx <= frames'[j].ctx /\ (Owns(frames'[j]) => frames'[i].ctx < frames'[j].ctx)
        OBVIOUS
      <3>1. i \in 1 .. n - 1 /\ j \in 1 .. n
        BY <1>1
      <3> QED BY <3>1, <1>1 DEF StackInv, InStep, n
    <2>5. Len(frames') - 1 = n - 2
      BY <1>1
    <2> QED BY <2>1, <2>2, <2>3, <2>4, <2>5, <1>1 DEF InStep
  <1>7. OwnNames'
    <2> SUFFICES ASSUME NEW i \in 1 .. n - 1, frames[i].doing \in {"match", "commit"}
                 PROVE  frames[i].ctx <= Len(chain') /\ chain'[frames[i].ctx] = frames[i].names
      BY <1>1 DEF OwnNames
    <2>1. /\ frames[i].ctx <= Len(chain) /\ chain[frames[i].ctx] = frames[i].names
          /\ frames[i].ctx > 0 /\ frames[i].ctx \in Nat
      BY <1>1, <1>5 DEF StackInv, OwnNames, InStep, n
    <2>2. Owns(Top) => frames[i].ctx < Len(chain)
      <3>1. i \in 1 .. n - 1 /\ n \in 1 .. n
        BY <1>1
      <3> QED BY <3>1, <1>1, <1>2 DEF StackInv, InStep, n
    <2>3. frames[i].ctx \in 1 .. Len(chain')
      BY <2>1, <2>2, <1>2, <1>4
    <2>4. chain'[frames[i].ctx] = chain[frames[i].ctx]
      BY <2>3, <1>4
    <2>5. frames[i].ctx <= Len(chain')
      BY <2>1, <2>2, <1>2, <1>4
    <2> QED BY <2>1, <2>4, <2>5
  <1> QED BY <1>1, <1>4, <1>6, <1>7 DEF StackInv, StackType

LEMMA ChangeKeeps ==
  ASSUME StackInv, NEW f \in FrameType, NEW c \in Seq(Entry), Change(f, c)
  PROVE  StackInv'
  <1> DEFINE n == Len(frames)
  <1>1. /\ frames' \in Seq(FrameType)
        /\ Len(frames') = n /\ n \in Nat \ {0}
        /\ frames'[n] = f /\ frames' # <<>>
        /\ \A i \in 1 .. n - 1 : frames'[i] = frames[i]
        /\ Top = frames[n]
    <2>1. frames \in Seq(FrameType) /\ frames # <<>> /\ frames' = Replacing(frames, f)
      BY DEF Change, StackInv, StackType
    <2>2. Top = frames[n] /\ n \in Nat \ {0}
      BY <2>1, FinalOfStack DEF Top
    <2>3. /\ Replacing(frames, f) \in Seq(FrameType)
          /\ Len(Replacing(frames, f)) = Len(frames)
          /\ Replacing(frames, f)[Len(frames)] = f
          /\ \A i \in 1 .. Len(frames) - 1 : Replacing(frames, f)[i] = frames[i]
      BY <2>1 DEF Replacing
    <2>4. frames' # <<>>
      BY <2>1, <2>2, <2>3, EmptySeq
    <2> QED BY <2>1, <2>2, <2>3, <2>4
  <1>2. /\ chain' \in Seq(Seq(Entry)) /\ chain' # <<>>
        /\ Len(chain') = Len(chain) /\ Len(chain) \in Nat \ {0}
        /\ chain'[Len(chain)] = c
        /\ \A i \in 1 .. Len(chain) - 1 : chain'[i] = chain[i]
    <2>1. chain \in Seq(Seq(Entry)) /\ chain # <<>> /\ chain' = Replacing(chain, c)
      BY DEF Change, StackInv, StackType
    <2>2. Len(chain) \in Nat \ {0}
      BY <2>1, FinalOfStack
    <2>3. /\ Replacing(chain, c) \in Seq(Seq(Entry))
          /\ Len(Replacing(chain, c)) = Len(chain)
          /\ Replacing(chain, c)[Len(chain)] = c
          /\ \A i \in 1 .. Len(chain) - 1 : Replacing(chain, c)[i] = chain[i]
      <3> DEFINE S == Seq(Entry)
      <3>1. chain \in Seq(S) /\ c \in S
        BY <2>1
      <3> HIDE DEF S
      <3>2. /\ Replacing(chain, c) \in Seq(S)
            /\ Len(Replacing(chain, c)) = Len(chain)
            /\ Replacing(chain, c)[Len(chain)] = c
            /\ \A i \in 1 .. Len(chain) - 1 : Replacing(chain, c)[i] = chain[i]
        BY <2>1, <3>1 DEF Replacing
      <3> QED BY <3>2 DEF S
    <2>4. chain' # <<>>
      BY <2>1, <2>2, <2>3, EmptySeq
    <2> QED BY <2>1, <2>2, <2>3, <2>4
  <1>3. f.ctx = frames[n].ctx /\ Owns(f) /\ Owns(frames[n]) /\ frames[n].ctx = Len(chain)
    BY <1>1 DEF Change, StackInv, InStep
  <1>4. \A i \in 1 .. n : frames'[i].ctx = frames[i].ctx /\ (Owns(frames'[i]) <=> Owns(frames[i]))
    <2> SUFFICES ASSUME NEW i \in 1 .. n
                 PROVE  frames'[i].ctx = frames[i].ctx /\ (Owns(frames'[i]) <=> Owns(frames[i]))
      OBVIOUS
    <2>1. CASE i = n
      BY <2>1, <1>1, <1>3
    <2>2. CASE i # n
      <3>1. i \in 1 .. n - 1
        BY <2>2, <1>1
      <3> QED BY <3>1, <1>1
    <2> QED BY <2>1, <2>2
  <1>5. \A i \in 1 .. n : frames[i] \in FrameType /\ frames[i].ctx \in Nat
    <2> SUFFICES ASSUME NEW i \in 1 .. n PROVE frames[i] \in FrameType /\ frames[i].ctx \in Nat
      OBVIOUS
    <2>1. frames[i] \in FrameType
      BY ElementOfSeq DEF StackInv, StackType
    <2> QED BY <2>1 DEF FrameType
  <1> HIDE DEF n
  <1>6. InStep'
    <2>1. frames'[Len(frames')].ctx = Len(chain')
      BY <1>1, <1>2, <1>3
    <2>2. \A i \in 1 .. n : frames'[i].ctx > 0 /\ (Owns(frames'[i]) => frames'[i].ctx > 1)
      BY <1>4 DEF StackInv, InStep, n
    <2>3. \A i \in 1 .. n - 1 :
            frames'[i + 1].ctx = IF Owns(frames'[i + 1]) THEN frames'[i].ctx + 1 ELSE frames'[i].ctx
      <3> SUFFICES ASSUME NEW i \in 1 .. n - 1
                   PROVE  frames'[i + 1].ctx = IF Owns(frames'[i + 1]) THEN frames'[i].ctx + 1 ELSE frames'[i].ctx
        OBVIOUS
      <3>1. i \in 1 .. n /\ i + 1 \in 1 .. n
        BY <1>1
      <3> QED BY <3>1, <1>4 DEF StackInv, InStep, n
    <2>4. \A j \in 1 .. n : \A i \in 1 .. j - 1 :
            frames'[i].ctx <= frames'[j].ctx /\ (Owns(frames'[j]) => frames'[i].ctx < frames'[j].ctx)
      <3> SUFFICES ASSUME NEW j \in 1 .. n, NEW i \in 1 .. j - 1
                   PROVE  frames'[i].ctx <= frames'[j].ctx /\ (Owns(frames'[j]) => frames'[i].ctx < frames'[j].ctx)
        OBVIOUS
      <3>1. i \in 1 .. n
        BY <1>1
      <3> QED BY <3>1, <1>4 DEF StackInv, InStep, n
    <2> QED BY <2>1, <2>2, <2>3, <2>4, <1>1 DEF InStep
  <1>7. OwnNames'
    <2> SUFFICES ASSUME NEW i \in 1 .. n, frames'[i].doing \in {"match", "commit"}
                 PROVE  frames'[i].ctx <= Len(chain') /\ chain'[frames'[i].ctx] = frames'[i].names
      BY <1>1 DEF OwnNames
    <2>1. CASE i = n
      BY <2>1, <1>1, <1>2, <1>3 DEF Change
    <2>2. CASE i # n
      <3>1. i \in 1 .. n - 1 /\ n \in 1 .. n /\ frames'[i] = frames[i]
        BY <2>2, <1>1
      <3>2. /\ frames[i].ctx <= Len(chain) /\ chain[frames[i].ctx] = frames[i].names
            /\ frames[i].ctx > 0 /\ frames[i].ctx \in Nat
        BY <3>1, <1>5 DEF StackInv, OwnNames, InStep, n
      <3>3. frames[i].ctx < Len(chain)
        BY <3>1, <1>3 DEF StackInv, InStep, n
      <3>4. frames[i].ctx \in 1 .. Len(chain) - 1
        BY <3>2, <3>3, <1>2
      <3> QED BY <3>1, <3>2, <3>4, <1>2
    <2> QED BY <2>1, <2>2
  <1> QED BY <1>1, <1>2, <1>6, <1>7 DEF StackInv, StackType

\* What the invariant says of the innermost activity.
LEMMA TopFrame ==
  ASSUME StackInv, frames # <<>>
  PROVE  /\ Top \in FrameType /\ Top.ctx = Len(chain)
         /\ Names \in Seq(Entry) /\ Pending = Names
         /\ Top.doing \in {"match", "commit"} => Top.names = Names
  <1>1. Top = frames[Len(frames)] /\ Top \in FrameType /\ Len(frames) \in 1 .. Len(frames)
    BY FinalOfStack DEF Top, StackInv, StackType
  <1>2. Top.ctx = Len(chain)
    BY <1>1 DEF StackInv, InStep
  <1>3. Names \in Seq(Entry) /\ Names = chain[Len(chain)]
    BY FinalOfStack DEF Names, StackInv, StackType
  <1>4. Top.doing \in {"match", "commit"} => Top.names = chain[Top.ctx]
    BY <1>1 DEF StackInv, OwnNames
  <1> QED BY <1>1, <1>2, <1>3, <1>4 DEF Pending

LEMMA DoingTop ==
  ASSUME NEW d, Doing(d)
  PROVE  frames # <<>> /\ Top.doing = d
  BY DEF Doing, Top

\* A change that leaves the list of names alone.
LEMMA SameNames ==
  ASSUME StackInv, frames # <<>>
  PROVE  chain = Replacing(chain, Names)
  <1>1. chain \in Seq(Seq(Entry)) /\ chain # <<>> /\ Names = chain[Len(chain)]
    BY FinalOfStack DEF Names, StackInv, StackType
  <1>2. chain = [chain EXCEPT ![Len(chain)] = chain[Len(chain)]]
    BY <1>1
  <1> QED BY <1>1, <1>2 DEF Replacing

\* Every step keeps the C stack and the chain of contexts in step.
LEMMA StackStep ==
  ASSUME StackInv, StoreType, [Next]_vars
  PROVE  StackInv'
  <1>1. CASE UNCHANGED <<frames, chain>>
    BY <1>1 DEF StackInv, StackType, InStep, OwnNames
  <1>2. ASSUME NEW d \in {"match", "eval"},
               chain' = NAME_ctx_enter, frames' = Append(frames, Frame(d, Len(chain) + 1, {}))
        PROVE  StackInv'
    <2>1. Len(chain') = Len(chain) + 1
      BY <1>2 DEF NAME_ctx_enter, StackInv, StackType
    <2>2. Grow(d, {})
      BY <1>2, <2>1 DEF Grow
    <2> QED BY <2>2, GrowKeeps
  <1>3. ASSUME NEW d \in {"match", "eval", "commit"}, Doing(d),
               chain' = NAME_ctx_leave, frames' = Front(frames)
        PROVE  StackInv'
    <2>1. frames # <<>> /\ ~ Doing("function")
      BY <1>3 DEF Doing
    <2>2. Shrink
      BY <1>3, <2>1 DEF Shrink
    <2> QED BY <2>2, ShrinkKeeps
  <1>4. ASSUME NEW f \in FrameType, NEW c \in Seq(Entry), NEW d \in {"match", "commit"}, Doing(d),
               frames' = Replacing(frames, f), chain' = Replacing(chain, c),
               f.ctx = Top.ctx, f.doing \in {"match", "commit"}, f.names = c
        PROVE  StackInv'
    <2>1. frames # <<>> /\ Top.doing = d
      BY <1>4, DoingTop
    <2>2. Owns(Top) /\ Owns(f)
      BY <1>4, <2>1 DEF Owns
    <2>3. Change(f, c)
      BY <1>4, <2>1, <2>2 DEF Change
    <2> QED BY <2>3, ChangeKeeps
  <1>5. CASE Match
    BY <1>5, <1>2 DEF Match
  <1>6. CASE Evaluate
    BY <1>6, <1>2 DEF Evaluate
  <1>7. CASE Evaluated
    BY <1>7, <1>3 DEF Evaluated
  <1>8. ASSUME NEW L \in Functions, NEW w \in Values, CallFunction(L, w) PROVE StackInv'
    <2>1. Grow("function", L)
      BY <1>8 DEF CallFunction, Grow
    <2>2. L \in SUBSET Vars
      BY NameContextsAssumption
    <2> QED BY <2>1, <2>2, GrowKeeps
  <1>9. CASE FunctionReturns
    <2>1. Shrink
      BY <1>9 DEF FunctionReturns, Shrink, Doing
    <2> QED BY <2>1, ShrinkKeeps
  <1>10. CASE RuntimeError
    <2>1. frames' = <<>> /\ chain' = chain /\ Len(frames') = 0 /\ frames' \in Seq(FrameType)
      BY <1>10 DEF RuntimeError
    <2> QED BY <2>1 DEF StackInv, StackType, InStep, OwnNames
  <1>11. ASSUME NEW e \in Entry, Push(e) PROVE StackInv'
    <2> DEFINE c == NAME_push(Names, e)
               f == [Top EXCEPT !.names = NAME_push(@, e)]
    <2>1. frames # <<>> /\ Top.doing = "match" /\ Doing("match")
      BY <1>11, DoingTop DEF Push
    <2>2. Top \in FrameType /\ Top.names = Names /\ c \in Seq(Entry)
      BY <2>1, TopFrame, NamesType
    <2>3. f \in FrameType /\ f.ctx = Top.ctx /\ f.doing = "match" /\ f.names = c
      BY <2>1, <2>2 DEF FrameType
    <2>4. frames' = Replacing(frames, f) /\ chain' = Replacing(chain, c)
      BY <1>11 DEF Push
    <2> HIDE DEF c, f
    <2> QED BY <2>1, <2>2, <2>3, <2>4, <1>4
  <1>12. CASE Pop
    <2> DEFINE c == NAME_pop(Names)
               f == [Top EXCEPT !.names = NAME_pop(@)]
    <2>1. frames # <<>> /\ Top.doing = "match" /\ Doing("match")
      BY <1>12, DoingTop DEF Pop
    <2>2. Top \in FrameType /\ Top.names = Names /\ c \in Seq(Entry)
      BY <2>1, TopFrame, NamesType
    <2>3. f \in FrameType /\ f.ctx = Top.ctx /\ f.doing = "match" /\ f.names = c
      BY <2>1, <2>2 DEF FrameType
    <2>4. frames' = Replacing(frames, f) /\ chain' = Replacing(chain, c)
      BY <1>12 DEF Pop
    <2> HIDE DEF c, f
    <2> QED BY <2>1, <2>2, <2>3, <2>4, <1>4
  <1>13. CASE MatchFails
    BY <1>13, <1>3 DEF MatchFails
  <1>14. CASE MatchSucceeds
    <2> DEFINE f == [Top EXCEPT !.doing = "commit"]
    <2>1. frames # <<>> /\ Top.doing = "match" /\ Doing("match")
      BY <1>14, DoingTop DEF MatchSucceeds
    <2>2. Top \in FrameType /\ Top.names = Names /\ Names \in Seq(Entry)
      BY <2>1, TopFrame
    <2>3. f \in FrameType /\ f.ctx = Top.ctx /\ f.doing = "commit" /\ f.names = Names
      BY <2>2 DEF FrameType
    <2>4. frames' = Replacing(frames, f) /\ chain' = Replacing(chain, Names)
      BY <1>14, <2>1, SameNames DEF MatchSucceeds
    <2> HIDE DEF f
    <2> QED BY <2>1, <2>2, <2>3, <2>4, <1>4
  <1>15. ASSUME Doing("commit"), NextSlot, UNCHANGED chain PROVE StackInv'
    <2> DEFINE f == [Top EXCEPT !.slot = @ + 1]
    <2>1. frames # <<>> /\ Top.doing = "commit"
      BY <1>15, DoingTop
    <2>2. Top \in FrameType /\ Top.names = Names /\ Names \in Seq(Entry)
      BY <2>1, TopFrame
    <2>3. f \in FrameType /\ f.ctx = Top.ctx /\ f.doing = "commit" /\ f.names = Names
      BY <2>1, <2>2 DEF FrameType
    <2>4. frames' = Replacing(frames, f) /\ chain' = Replacing(chain, Names)
      BY <1>15, <2>1, SameNames DEF NextSlot
    <2> HIDE DEF f
    <2> QED BY <1>15, <2>2, <2>3, <2>4, <1>4
  <1>16. CASE Skip
    BY <1>16, <1>15 DEF Skip, InCommit
  <1>17. CASE Fire
    BY <1>17, <1>15 DEF Fire, InCommit
  <1>18. CASE CallFails
    BY <1>18, <1>15 DEF CallFails, AtCall, InCommit
  <1>19. CASE CommitDone
    BY <1>19, <1>3 DEF CommitDone
  <1>20. ASSUME NEW v \in Vars, NEW w \in Values, Assign(v, w) \/ AssignNow(v, w) PROVE StackInv'
    BY <1>20, <1>1 DEF Assign, AssignNow
  <1> QED
    BY <1>1, <1>5, <1>6, <1>7, <1>8, <1>9, <1>10, <1>11, <1>12, <1>13, <1>14, <1>16, <1>17, <1>18,
       <1>19, <1>20 DEF Next, vars

-----------------------------------------------------------------------------
(* The variables and what assigning every capture would have made of them *)

\* v is assigned by a plain entry that the walk has not reached and that no
\* function call precedes.
StillToCome(v) ==
  \E j \in Top.slot .. Len(Pending) :
    /\ Pending[j].var = v
    /\ \A k \in Top.slot .. j : Pending[k].kind # "NM_CALL"

\* A variable differs from the reference only in the middle of NAME_commit, and
\* only until an entry further on assigns it.
StoreInv == \A v \in Vars : nv[v] = ref[v] \/ (Doing("commit") /\ StillToCome(v))

IInv == StackInv /\ StoreType /\ StoreInv

LEMMA SlotType ==
  ASSUME StackInv, Doing("commit")
  PROVE  Top.slot \in Nat \ {0} /\ Pending \in Seq(Entry) /\ Len(Pending) \in Nat
  <1>1. Top \in FrameType /\ Pending \in Seq(Entry)
    BY TopFrame, DoingTop
  <1> QED BY <1>1, LenProperties DEF FrameType

\* Nothing is still to come at a function call or at the end of the list.
LEMMA NothingToCome ==
  ASSUME StackInv, Doing("commit"), AtCall \/ Top.slot > Len(Pending), NEW v \in Vars
  PROVE  ~ StillToCome(v)
  <1> SUFFICES ASSUME NEW j \in Top.slot .. Len(Pending),
                      \A k \in Top.slot .. j : Pending[k].kind # "NM_CALL"
               PROVE  FALSE
    BY DEF StillToCome
  <1>1. Top.slot \in Nat /\ Len(Pending) \in Nat
    BY SlotType
  <1>2. Top.slot \in Top.slot .. j /\ ~ Top.slot > Len(Pending)
    BY <1>1
  <1> QED BY <1>2 DEF AtCall

LEMMA Invisible ==
  ASSUME IInv, ~ Doing("commit") \/ AtCall \/ Top.slot > Len(Pending)
  PROVE  nv = ref
  <1>1. \A v \in Vars : nv[v] = ref[v]
    <2> SUFFICES ASSUME NEW v \in Vars PROVE nv[v] = ref[v]
      OBVIOUS
    <2>1. CASE Doing("commit")
      BY <2>1, NothingToCome DEF IInv, StoreInv
    <2>2. CASE ~ Doing("commit")
      BY <2>2 DEF IInv, StoreInv
    <2> QED BY <2>1, <2>2
  <1> QED BY <1>1 DEF IInv, StoreType

LEMMA InvisibleInProgram ==
  ASSUME IInv, MayStart
  PROVE  nv = ref
  <1>1. ~ Doing("commit") \/ AtCall
    BY DEF MayStart, Running, InProgram, Doing
  <1> QED BY <1>1, Invisible

LEMMA InitIInv == Init => IInv
  <1> SUFFICES ASSUME Init PROVE IInv
    OBVIOUS
  <1>1. frames = <<>> /\ Len(frames) = 0 /\ frames \in Seq(FrameType)
    BY DEF Init
  <1>2. chain \in Seq(Seq(Entry)) /\ chain # <<>>
    BY DEF Init
  <1>3. StackInv
    BY <1>1, <1>2 DEF StackInv, StackType, InStep, OwnNames
  <1>4. StoreType /\ StoreInv
    BY DEF Init, StoreType, StoreInv
  <1> QED BY <1>3, <1>4 DEF IInv

\* NAME_commit advances to the next entry after assigning variable x in the
\* reference, and in nv unless a later entry assigns it too.
LEMMA CommitStep ==
  ASSUME IInv, InCommit, NextSlot, UNCHANGED chain,
         NEW x \in Vars, NEW w \in Values,
         ref' = [ref EXCEPT ![x] = w],
         \/ nv' = [nv EXCEPT ![x] = w]
         \/ nv' = nv /\ \E j \in Top.slot + 1 .. Len(Pending) :
                          /\ Pending[j].var = x
                          /\ \A k \in Top.slot + 1 .. j : Pending[k].kind # "NM_CALL",
         x = Pending[Top.slot].var
  PROVE  StoreType' /\ StoreInv'
  <1> DEFINE f == [Top EXCEPT !.slot = @ + 1]
             s == Top.slot
             p == Pending
  <1>1. Doing("commit") /\ frames # <<>> /\ Top.doing = "commit" /\ Top \in FrameType
    BY DoingTop, TopFrame DEF InCommit, IInv
  <1>2. s \in Nat \ {0} /\ Len(p) \in Nat
    BY <1>1, SlotType DEF IInv
  <1>3. f \in FrameType /\ f.doing = "commit" /\ f.slot = s + 1 /\ f.ctx = Top.ctx
    BY <1>1, <1>2 DEF FrameType
  <1>4. frames' # <<>> /\ Top' = f
    <2>1. frames \in Seq(FrameType) /\ frames' = Replacing(frames, f)
      BY DEF NextSlot, IInv, StackInv, StackType
    <2>2. frames' \in Seq(FrameType) /\ Len(frames') = Len(frames) /\ frames'[Len(frames)] = f
      <3> HIDE DEF f
      <3>1. /\ Replacing(frames, f) \in Seq(FrameType)
            /\ Len(Replacing(frames, f)) = Len(frames)
            /\ Replacing(frames, f)[Len(frames)] = f
        BY ZenonT(60), <1>1, <1>3, <2>1, ReplacingTop
      <3> QED BY <2>1, <3>1
    <2>3. Len(frames) \in Nat \ {0}
      BY <1>1, <2>1, EmptySeq
    <2>4. frames' # <<>>
      BY <2>2, <2>3, EmptySeq
    <2> HIDE DEF f
    <2> QED BY <2>2, <2>4 DEF Top, Final
  <1>5. Doing("commit")' /\ Top'.slot = s + 1 /\ Pending' = p
    BY <1>3, <1>4 DEF Doing, Top, Pending
  <1>6. StoreType'
    BY DEF IInv, StoreType
  <1>7. ASSUME NEW v \in Vars, v # x PROVE nv'[v] = ref'[v] \/ StillToCome(v)'
    <2>1. nv'[v] = nv[v] /\ ref'[v] = ref[v]
      BY <1>7 DEF IInv, StoreType
    <2>2. CASE nv[v] = ref[v]
      BY <2>1, <2>2
    <2>3. CASE StillToCome(v)
      <3>1. PICK j \in s .. Len(p) : p[j].var = v /\ \A k \in s .. j : p[k].kind # "NM_CALL"
        BY <2>3 DEF StillToCome
      <3>2. j # s
        BY <3>1, <1>7
      <3>3. j \in s + 1 .. Len(p) /\ \A k \in s + 1 .. j : p[k].kind # "NM_CALL"
        BY <3>1, <3>2, <1>2
      <3> HIDE DEF s, p
      <3> QED BY <3>1, <3>3, <1>5 DEF StillToCome
    <2> QED BY <2>2, <2>3 DEF IInv, StoreInv
  <1>8. nv'[x] = ref'[x] \/ StillToCome(x)'
    <2>1. CASE nv' = [nv EXCEPT ![x] = w]
      BY <2>1 DEF IInv, StoreType
    <2>2. CASE nv' = nv /\ \E j \in s + 1 .. Len(p) :
                             p[j].var = x /\ \A k \in s + 1 .. j : p[k].kind # "NM_CALL"
      <3> HIDE DEF s, p
      <3> QED BY <2>2, <1>5 DEF StillToCome
    <2> QED BY <2>1, <2>2
  <1>9. StoreInv'
    BY <1>5, <1>7, <1>8 DEF StoreInv
  <1> QED BY <1>6, <1>9

LEMMA StoreStep ==
  ASSUME IInv, [Next]_vars
  PROVE  StoreType' /\ StoreInv'
  <1>1. ASSUME nv = ref, UNCHANGED <<nv, ref>> PROVE StoreType' /\ StoreInv'
    BY <1>1 DEF IInv, StoreType, StoreInv
  <1>2. ASSUME nv = ref, NEW v \in Vars, NEW w \in Values,
               nv' = [nv EXCEPT ![v] = w], ref' = [ref EXCEPT ![v] = w]
        PROVE  StoreType' /\ StoreInv'
    BY <1>2 DEF IInv, StoreType, StoreInv
  <1>3. CASE UNCHANGED vars
    BY <1>3 DEF IInv, StoreType, StoreInv, vars, Doing, StillToCome, Top, Final, Pending
  <1>4. ASSUME NEW v \in Vars, NEW w \in Values, Assign(v, w) PROVE StoreType' /\ StoreInv'
    BY <1>4, <1>2, InvisibleInProgram DEF Assign, MayStart, Running, InProgram
  <1>5. ASSUME NEW v \in Vars, NEW w \in Values, AssignNow(v, w) PROVE StoreType' /\ StoreInv'
    BY <1>5, <1>2, InvisibleInProgram DEF AssignNow, MayStart, Running, InProgram
  <1>6. CASE Match
    BY <1>6, <1>1, InvisibleInProgram DEF Match
  <1>7. CASE Evaluate
    BY <1>7, <1>1, InvisibleInProgram DEF Evaluate
  <1>8. CASE Evaluated
    BY <1>8, <1>1, InvisibleInProgram DEF Evaluated, MayStart, Running, InProgram
  <1>9. ASSUME NEW L \in Functions, NEW w \in Values, CallFunction(L, w)
        PROVE  StoreType' /\ StoreInv'
    <2>1. nv = ref
      BY <1>9, InvisibleInProgram DEF CallFunction
    <2>2. nv' = ref' /\ nv' \in [Vars -> Values]
      BY <1>9, <2>1 DEF CallFunction, Bound, IInv, StoreType
    <2> QED BY <2>2 DEF StoreType, StoreInv
  <1>10. CASE FunctionReturns
    <2>1. nv = ref /\ nv \in [Vars -> Values]
      BY <1>10, InvisibleInProgram DEF FunctionReturns, MayStart, Running, InProgram, IInv, StoreType
    <2>2. Top \in FrameType
      BY <1>10, DoingTop, TopFrame DEF FunctionReturns, IInv
    <2>3. PICK L \in SUBSET Vars : Top.saved \in [L -> Values]
      BY <2>2 DEF FrameType
    <2>4. \A v \in DOMAIN Top.saved : Top.saved[v] \in Values
      BY <2>3
    <2>5. nv' = ref' /\ nv' \in [Vars -> Values]
      BY <1>10, <2>1, <2>4 DEF FunctionReturns, Restored
    <2> QED BY <2>5 DEF StoreType, StoreInv
  <1>11. CASE RuntimeError
    BY <1>11, <1>1, InvisibleInProgram DEF RuntimeError, MayStart, Running, InProgram
  <1>12. ASSUME NEW e \in Entry, Push(e) PROVE StoreType' /\ StoreInv'
    BY <1>12, <1>1, InvisibleInProgram DEF Push, MayStart, Running, InProgram
  <1>13. CASE Pop
    BY <1>13, <1>1, InvisibleInProgram DEF Pop, MayStart, Running, InProgram
  <1>14. CASE MatchFails
    BY <1>14, <1>1, InvisibleInProgram DEF MatchFails, MayStart, Running, InProgram
  <1>15. CASE MatchSucceeds
    BY <1>15, <1>1, InvisibleInProgram DEF MatchSucceeds, MayStart, Running, InProgram
  <1>16. CASE CallFails
    BY <1>16, <1>1, InvisibleInProgram DEF CallFails, MayStart, Running, InProgram
  <1>17. CASE CommitDone
    BY <1>17, <1>1, Invisible DEF CommitDone
  <1>18. ASSUME InCommit
         PROVE  /\ Top.slot \in Nat /\ Len(Pending) \in Nat
                /\ Pending[Top.slot].var \in Vars /\ Pending[Top.slot].val \in Values
    <2>1. Top.slot \in Nat \ {0} /\ Pending \in Seq(Entry) /\ Len(Pending) \in Nat
      BY <1>18, SlotType DEF InCommit, IInv
    <2>2. Top.slot \in 1 .. Len(Pending)
      BY <1>18, <2>1 DEF InCommit
    <2>3. Pending[Top.slot] \in Entry
      BY <2>1, <2>2, ElementOfSeq
    <2> QED BY <2>1, <2>3 DEF Entry
  <1>19. CASE Fire
    BY <1>18, <1>19, CommitStep DEF Fire
  <1>20. CASE Skip
    <2>1. InCommit /\ Superseded(Pending, Top.slot)
      BY <1>20 DEF Skip
    <2>2. \E j \in Top.slot + 1 .. Len(Pending) :
            /\ Pending[j].var = Pending[Top.slot].var
            /\ \A k \in Top.slot + 1 .. j : Pending[k].kind # "NM_CALL"
      BY <2>1 DEF Superseded, SameTarget
    <2> QED BY <1>18, <1>20, <2>1, <2>2, CommitStep DEF Skip
  <1> QED
    BY <1>3, <1>4, <1>5, <1>6, <1>7, <1>8, <1>9, <1>10, <1>11, <1>12, <1>13, <1>14, <1>15, <1>16,
       <1>17, <1>19, <1>20 DEF Next

LEMMA NextIInv == IInv /\ [Next]_vars => IInv'
  BY StackStep, StoreStep DEF IInv

THEOREM Invariance == Spec => []IInv
  BY InitIInv, NextIInv, PTL DEF Spec

-----------------------------------------------------------------------------
(* The theorems *)

\* Type correctness.
THEOREM TypeCorrect == Spec => []TypeOK
  <1>1. IInv => TypeOK
    BY DEF IInv, StackInv, StackType, StoreType, TypeOK
  <1> QED BY <1>1, Invariance, PTL

\* A match finds exactly its own captures in its context, however deep the
\* statements nested in it (NAME_ctx_enter and NAME_ctx_leave).
THEOREM Isolation == Spec => []OwnNames
  <1>1. IInv => OwnNames
    BY DEF IInv, StackInv
  <1> QED BY <1>1, Invariance, PTL

\* The program never sees that NAME_commit leaves out superseded captures.
THEOREM CommitInOrder == Spec => []SkippingIsInvisible
  <1>1. IInv => SkippingIsInvisible
    BY InvisibleInProgram DEF SkippingIsInvisible
  <1> QED BY <1>1, Invariance, PTL
=============================================================================
