-------------------------- MODULE ByrdBoxesProofs --------------------------
(***************************************************************************)
(* Proofs about the boxes, for every program: subjects, patterns and       *)
(* captures of any size.  Each result speaks of the statements for which   *)
(* the code keeps it; the predicates below say which those are.            *)
(*                                                                         *)
(* First the invariant, and what a call and a return must leave for it to  *)
(* hold.  Then every step of the boxes and of the executor keeps it, one   *)
(* lemma for each action, and what follows from it.  A statement keeps its *)
(* promise about the program's variables: every step of the boxes and of   *)
(* exec_stmt is a step of Statement or changes nothing of it, and a        *)
(* function called at the commit sees the captures before it.              *)
(***************************************************************************)
EXTENDS ByrdBoxes, SequenceTheorems, NaturalsInduction, WellFoundedInduction, TLAPS

Kid(n, i) == Pat[n].kids[i]

(* bb_tab does not compare its argument with the length of the subject.        *)
TabsFit == \A n \in Box : Pat[n].fn = "tab" => Pat[n].num <= Sigmalen

(* A box below one of these may succeed and never be resumed, so what it has   *)
(* pushed stays; Dropped is the least set that has the kids of these boxes and *)
(* the kids of its own.                                                        *)
Drops(n) == \/ Pat[n].fn \in {"arbno", "not", "interr"}
            \/ Pat[n].fn = "cap" /\ Pat[n].immediate /\ Pat[n].kind = "NM_CALL"
Dropped  == {n \in Box : \A S \in SUBSET Box :
               (\A m \in Box : Drops(m) \/ m \in S => \A i \in DOMAIN Pat[m].kids : Kid(m, i) \in S)
                 => n \in S}
CapturesKept == \A n \in Dropped : ~ (Pat[n].fn = "cap" /\ ~ Pat[n].immediate)

(* ARBNO returns a span that nothing has assigned; SUCCEED returns one at the  *)
(* cursor it finds when it is resumed.                                         *)
SpansKept == \A n \in Box : Pat[n].fn \notin {"arbno", "succeed"}

-----------------------------------------------------------------------------
(* The inductive invariant.  Its parts are stated of a state z of the boxes    *)
(* and a history h, so that what a step leaves alone can be said in lemmas.    *)

(* Where a cursor may be that box n, or what comes after it, should have put    *)
(* back to e: never before it.                                                 *)
Ahead(n, d, e) == e <= d /\ (n \in Undisturbed => d = e)

(* Box k was entered where box n was, and with the captures that n had found.  *)
Handed(h, n, k) == h[k].cursor = h[n].cursor /\ (CapturesKept => h[k].nam = h[n].nam)

(* Box k was entered where box j succeeded.                                    *)
Follows(h, j, k) == h[k].cursor = h[j].end /\ h[k].nam = h[j].out

(* Box n succeeded because box k did.                                          *)
Relays(h, n, k) == h[k].exit = "gamma" /\ h[n].end = h[k].end

Extended(h, k) == Span(h[k].cursor, h[k].end - h[k].cursor)

FramesRise(n, z, h) ==
  LET f == z[n].frames
  IN /\ f # <<>> /\ f[1].start = h[n].cursor
     /\ \A i \in 1 .. Len(f) : f[i].start \in 0 .. Sigmalen
     /\ \A i, j \in 1 .. Len(f) : i < j => f[i].start < f[j].start

(* What holds of a box that has succeeded and may be resumed.                  *)
SeqRests(n, z, h) ==
  /\ Handed(h, n, Kid(n, 1))
  /\ h[Kid(n, 1)].exit = "gamma"
  /\ Follows(h, Kid(n, 1), Kid(n, 2))
  /\ Relays(h, n, Kid(n, 2)) /\ h[n].out = h[Kid(n, 2)].out
  /\ SpansKept => z[n].matched = Extended(h, Kid(n, 1))
AltRests(n, z, h) ==
  /\ z[n].current \in DOMAIN Pat[n].kids
  /\ z[n].start = h[n].cursor
  /\ LET k == Kid(n, z[n].current)
     IN Handed(h, n, k) /\ Relays(h, n, k) /\ h[n].out = h[k].out
CapRests(n, z, h) ==
  LET k == Kid(n, 1)
  IN /\ Handed(h, n, k) /\ Relays(h, n, k)
     /\ Pat[n].immediate => h[n].out = h[k].out
     /\ ~ Pat[n].immediate => /\ z[n].pending /\ h[n].out # <<>>
                              /\ h[n].out[Len(h[n].out)].box = n
                              /\ NAME_pop(h[n].out) = h[k].out
Rests(n, z, h) ==
  /\ h[n].cursor <= h[n].end
  /\ CapturesKept /\ (n \in Dropped \/ Pat[n].fn \notin {"seq", "alt", "cap"}) => h[n].out = h[n].nam
  /\ Pat[n].fn \in LeafFn => /\ Undo(Pat[n], z[n]) >= 0
                            /\ Ahead(n, h[n].end - Undo(Pat[n], z[n]), h[n].cursor)
  /\ Pat[n].fn = "arb" => z[n].start = h[n].cursor
  /\ Pat[n].fn \in {"atp", "not", "interr"} => h[n].end = h[n].cursor
  /\ Pat[n].fn = "arbno" => FramesRise(n, z, h) /\ Ahead(Kid(n, 1), h[n].end, Top(z[n].frames).start)
  /\ Pat[n].fn = "seq" => SeqRests(n, z, h)
  /\ Pat[n].fn = "alt" => AltRests(n, z, h)
  /\ Pat[n].fn = "cap" => CapRests(n, z, h)

(* The kid for which a box on the C stack waits, and what holds meanwhile.     *)
Awaited(c, z) == Kid(c.box, CASE c.at = "right" -> 2
                              [] c.at \in {"alpha", "beta"} -> z[c.box].current
                              [] OTHER -> 1)
SeqWaits(c, z, h) ==
  LET n == c.box
  IN /\ c.at \in {"left", "right"} /\ Handed(h, n, Kid(n, 1))
     /\ c.at = "right" => /\ h[Kid(n, 1)].exit = "gamma"
                          /\ Follows(h, Kid(n, 1), Kid(n, 2))
                          /\ SpansKept => z[n].matched = Extended(h, Kid(n, 1))
AltWaits(c, z, h) ==
  LET n == c.box
  IN /\ c.at \in {"alpha", "beta"}
     /\ z[n].current \in DOMAIN Pat[n].kids /\ z[n].start = h[n].cursor
     /\ Handed(h, n, Kid(n, z[n].current))
ArbnoWaits(c, z, h) ==
  LET n == c.box
  IN /\ c.at = "try"
     /\ FramesRise(n, z, h)
     /\ h[Kid(n, 1)].cursor = Top(z[n].frames).start
     /\ CapturesKept => h[Kid(n, 1)].nam = h[n].nam
AskWaits(c, z, h) ==
  c.at = "ask" /\ z[c.box].start = h[c.box].cursor /\ Handed(h, c.box, Kid(c.box, 1))
CapWaits(c, z, h) ==
  /\ c.at = "child" /\ Handed(h, c.box, Kid(c.box, 1))
  /\ ~ Pat[c.box].immediate => ~ z[c.box].pending
Waits(c, z, h) ==
  LET fn == Pat[c.box].fn
  IN /\ fn \in {"seq", "alt", "arbno", "not", "interr", "cap"}
     /\ fn = "seq" => SeqWaits(c, z, h)
     /\ fn = "alt" => AltWaits(c, z, h)
     /\ fn = "arbno" => ArbnoWaits(c, z, h)
     /\ fn \in {"not", "interr"} => AskWaits(c, z, h)
     /\ fn = "cap" => CapWaits(c, z, h)

(* The boxes of the stack cs lead from the root down to box n.                 *)
LeadsTo(cs, n, z, h) ==
  /\ cs = <<>> => n = 1
  /\ cs # <<>> => cs[Len(cs)].box = 1 /\ Awaited(cs[1], z) = n
  /\ \A i \in 1 .. Len(cs) : cs[i].box < n /\ Waits(cs[i], z, h)
  /\ \A i \in 1 .. Len(cs) - 1 : Awaited(cs[i + 1], z) = cs[i].box
  /\ \A i, j \in 1 .. Len(cs) : i < j => cs[j].box < cs[i].box

Stacked(cs) == {cs[i].box : i \in 1 .. Len(cs)}
AllRest(active, z, h) == \A n \in Box \ active : h[n].exit = "gamma" => Rests(n, z, h)

InSubject(d, h) == /\ d \in 0 .. Sigmalen
                   /\ \A n \in Box : h[n].cursor \in 0 .. Sigmalen /\ h[n].end \in 0 .. Sigmalen

(* What a box finds when it is entered, and what its caller finds after it.    *)
AtPort(c, d, list, h) ==
  LET n == c.box
  IN /\ c.port \in {"alpha", "beta", "gamma", "omega"}
     /\ c.port = "alpha" => h[n].exit = "none" /\ d = h[n].cursor /\ list = h[n].nam
     /\ c.port = "beta" => h[n].exit = "gamma" /\ Ahead(n, d, h[n].end) /\ (CapturesKept => list = h[n].out)
     /\ c.port = "gamma" => /\ h[n].exit = "gamma" /\ d = h[n].end /\ list = h[n].out
                            /\ SpansKept => c.span = Extended(h, n)
     /\ c.port = "omega" => Ahead(n, d, h[n].cursor) /\ (CapturesKept => list = h[n].nam)

(* The parts into which the match divides the subject.                         *)
Divides(r) == /\ r.start <= r.end /\ r.end \in 0 .. Sigmalen
              /\ SpansKept => 0 <= r.start /\ r.outcome # "undefined"

Inv == /\ TypeOK /\ slot >= 1 /\ Divides(result)
       /\ phase # "match" => calls = <<>>
       /\ phase \in {"scan", "match"} => InSubject(Delta, hist) /\ AllRest(Stacked(calls), zeta, hist)
       /\ phase = "match" => LeadsTo(calls, ctl.box, zeta, hist) /\ AtPort(ctl, Delta, nam, hist)

(* The statement never changes, so what is premise here is premise for ever.   *)
IInv == StatementOK(stmt) /\ (TabsFit => Inv)

-----------------------------------------------------------------------------
(* The tree of boxes *)

(* What the assumption on programs says of the statement at work.              *)
LEMMA PatternFacts ==
  ASSUME StatementOK(stmt)
  PROVE  /\ Sigma \in Seq(Chars) /\ Sigmalen \in Nat
         /\ Box = 1 .. Len(Pat) /\ Len(Pat) \in Nat /\ 1 \in Box
         /\ \A n \in Box : Pat[n] \in BoxDef
  <1>1. Pat \in Seq(BoxDef) /\ Pat # <<>> /\ Sigma \in Seq(Chars)
    BY DEF StatementOK, PatternOK, Pat, Sigma
  <1> QED BY <1>1 DEF Box, Sigmalen

(* The boxes form a tree: kids have greater numbers and one parent each.       *)
LEMMA TreeFacts ==
  ASSUME StatementOK(stmt), NEW n \in Box, NEW i \in DOMAIN Pat[n].kids
  PROVE  /\ Kid(n, i) \in Box /\ n < Kid(n, i)
         /\ \A m \in Box : \A j \in DOMAIN Pat[m].kids : Kid(m, j) = Kid(n, i) => m = n /\ j = i
  <1>1. Kid(n, i) \in n + 1 .. Len(Pat)
    BY DEF StatementOK, PatternOK, Kid, Pat, Box
  <1>2. \A m \in Box : \A j \in DOMAIN Pat[m].kids : Kid(m, j) = Kid(n, i) => m = n /\ j = i
    BY DEF StatementOK, PatternOK, Kid, Pat, Box
  <1> QED BY <1>1, <1>2, PatternFacts

(* How many kids a box has.                                                    *)
LEMMA KidCount ==
  ASSUME StatementOK(stmt), NEW n \in Box
  PROVE  /\ DOMAIN Pat[n].kids = 1 .. Len(Pat[n].kids) /\ Len(Pat[n].kids) \in Nat
         /\ Pat[n].fn = "seq" => 1 \in DOMAIN Pat[n].kids /\ 2 \in DOMAIN Pat[n].kids
         /\ Pat[n].fn \in {"alt", "arbno", "not", "interr", "cap"} => 1 \in DOMAIN Pat[n].kids
  <1> DEFINE kids == Pat[n].kids
             fn == Pat[n].fn
  <1>1. kids \in Seq(Nat)
    BY PatternFacts DEF BoxDef
  <1>2. /\ fn = "seq" => Len(kids) = 2
        /\ fn = "alt" => Len(kids) >= 1
        /\ fn \in {"arbno", "not", "interr", "cap"} => Len(kids) = 1
    BY DEF StatementOK, PatternOK, Pat, Box
  <1> HIDE DEF kids, fn
  <1>3. DOMAIN kids = 1 .. Len(kids) /\ Len(kids) \in Nat
    BY <1>1
  <1>4. fn = "seq" => 1 \in DOMAIN kids /\ 2 \in DOMAIN kids
    BY <1>2, <1>3
  <1>5. fn \in {"alt", "arbno", "not", "interr", "cap"} => 1 \in DOMAIN kids
    BY <1>2, <1>3
  <1> QED BY <1>3, <1>4, <1>5 DEF kids, fn

-----------------------------------------------------------------------------
(* What a step leaves alone *)

(* What Rests says of a box reads its own state and the history of its kids.   *)
LEMMA RestsKept ==
  ASSUME StatementOK(stmt), NEW n \in Box, NEW z, NEW z2, NEW h, NEW h2,
         Rests(n, z, h), z2[n] = z[n], h2[n] = h[n], \A k \in KidsOf(n) : h2[k] = h[k]
  PROVE  Rests(n, z2, h2)
  <1>1. \A i \in DOMAIN Pat[n].kids : h2[Kid(n, i)] = h[Kid(n, i)]
    BY DEF KidsOf, Kid
  <1>2. Pat[n].fn = "seq" => SeqRests(n, z2, h2)
    BY <1>1, KidCount DEF Rests, SeqRests, Handed, Follows, Relays, Extended
  <1>3. Pat[n].fn = "alt" => AltRests(n, z2, h2)
    BY <1>1 DEF Rests, AltRests, Handed, Relays
  <1>4. Pat[n].fn = "cap" => CapRests(n, z2, h2)
    BY <1>1, KidCount DEF Rests, CapRests, Handed, Relays
  <1>5. Pat[n].fn = "arbno" => FramesRise(n, z2, h2) /\ Ahead(Kid(n, 1), h2[n].end, Top(z2[n].frames).start)
    BY DEF Rests, FramesRise
  <1> QED BY <1>2, <1>3, <1>4, <1>5 DEF Rests

(* What Waits says of a box reads its own state and the history of its kids.   *)
LEMMA WaitsKept ==
  ASSUME StatementOK(stmt), NEW c \in CallType, NEW z, NEW z2, NEW h, NEW h2,
         Waits(c, z, h), z2[c.box] = z[c.box], h2[c.box] = h[c.box],
         \A k \in KidsOf(c.box) : h2[k].cursor = h[k].cursor /\ h2[k].nam = h[k].nam,
         c.at = "right" => h2[Kid(c.box, 1)] = h[Kid(c.box, 1)]
  PROVE  Waits(c, z2, h2)
  <1> DEFINE n == c.box
  <1>0. n \in Box
    BY DEF CallType
  <1>1. \A i \in DOMAIN Pat[n].kids : /\ h2[Kid(n, i)].cursor = h[Kid(n, i)].cursor
                                      /\ h2[Kid(n, i)].nam = h[Kid(n, i)].nam
    BY DEF KidsOf, Kid
  <1>2. Pat[n].fn = "seq" => SeqWaits(c, z2, h2)
    BY <1>0, <1>1, KidCount DEF Waits, SeqWaits, Handed, Follows, Extended
  <1>3. Pat[n].fn = "alt" => AltWaits(c, z2, h2)
    BY <1>1 DEF Waits, AltWaits, Handed
  <1>4. Pat[n].fn = "arbno" => ArbnoWaits(c, z2, h2)
    BY <1>0, <1>1, KidCount DEF Waits, ArbnoWaits, FramesRise
  <1>5. Pat[n].fn \in {"not", "interr"} => AskWaits(c, z2, h2)
    BY <1>0, <1>1, KidCount DEF Waits, AskWaits, Handed
  <1>6. Pat[n].fn = "cap" => CapWaits(c, z2, h2)
    BY <1>0, <1>1, KidCount DEF Waits, CapWaits, Handed
  <1> QED BY <1>2, <1>3, <1>4, <1>5, <1>6 DEF Waits

(* The kid that a box waits for is one of its kids, and the second at "right". *)
LEMMA AwaitedKid ==
  ASSUME StatementOK(stmt), NEW c \in CallType, NEW z, NEW h, Waits(c, z, h)
  PROVE  /\ \E i \in DOMAIN Pat[c.box].kids : Awaited(c, z) = Kid(c.box, i)
         /\ c.at = "right" => Awaited(c, z) = Kid(c.box, 2) /\ Pat[c.box].fn = "seq"
  <1>0. c.box \in Box
    BY DEF CallType
  <1> USE <1>0, KidCount DEF Waits, Awaited
  <1>1. CASE Pat[c.box].fn = "seq"
    BY <1>1 DEF SeqWaits
  <1>2. CASE Pat[c.box].fn = "alt"
    BY <1>2 DEF AltWaits
  <1>3. CASE Pat[c.box].fn = "arbno"
    BY <1>3 DEF ArbnoWaits
  <1>4. CASE Pat[c.box].fn \in {"not", "interr"}
    BY <1>4 DEF AskWaits
  <1>5. CASE Pat[c.box].fn = "cap"
    BY <1>5 DEF CapWaits
  <1> QED BY <1>1, <1>2, <1>3, <1>4, <1>5

(* What box n, reached through the stack cs, changes in a step: its own state, *)
(* its exit, and what its kids are entered with.                               *)
OwnChange(n, z, h, z2, h2) ==
  /\ \A m \in Box \ {n} : z2[m] = z[m]
  /\ \A m \in Box : m # n /\ m \notin KidsOf(n) => h2[m] = h[m]
  /\ h2[n].cursor = h[n].cursor /\ h2[n].nam = h[n].nam

(* A box with a kid on the stack is on the stack itself.                       *)
LEMMA ParentOnStack ==
  ASSUME StatementOK(stmt), NEW n \in Box, NEW cs \in Seq(CallType), NEW z, NEW h,
         LeadsTo(cs, n, z, h), NEW m \in Box, n \in KidsOf(m)
  PROVE  cs # <<>> /\ m = cs[1].box /\ cs[1] \in CallType /\ 1 \in 1 .. Len(cs)
  <1>1. PICK i \in DOMAIN Pat[m].kids : n = Kid(m, i)
    BY DEF KidsOf, Kid
  <1>2. m < n /\ m \in Nat /\ n \in Nat /\ n # 1
    BY <1>1, TreeFacts, PatternFacts
  <1>3. cs # <<>>
    BY <1>2 DEF LeadsTo
  <1>4. 1 \in 1 .. Len(cs) /\ cs[1] \in CallType
    BY <1>3
  <1>5. Waits(cs[1], z, h) /\ Awaited(cs[1], z) = n
    BY <1>3, <1>4 DEF LeadsTo
  <1>6. PICK j \in DOMAIN Pat[cs[1].box].kids : n = Kid(cs[1].box, j)
    BY <1>4, <1>5, AwaitedKid
  <1>7. cs[1].box \in Box
    BY <1>4 DEF CallType
  <1> QED BY <1>1, <1>3, <1>4, <1>6, <1>7, TreeFacts

(* The entries of the stack are boxes of the pattern.                          *)
LEMMA StackBoxes ==
  ASSUME StatementOK(stmt), NEW cs \in Seq(CallType), NEW i \in 1 .. Len(cs)
  PROVE  cs[i] \in CallType /\ cs[i].box \in Box /\ cs[i].box \in Nat
  <1>1. cs[i] \in CallType
    OBVIOUS
  <1>2. cs[i].box \in Box
    BY <1>1 DEF CallType
  <1> QED BY <1>1, <1>2, PatternFacts

(* A step of the box that runs leaves what holds of the stack below it.        *)
LEMMA StackKept ==
  ASSUME StatementOK(stmt), NEW n \in Box, NEW cs \in Seq(CallType),
         NEW z, NEW h, NEW z2, NEW h2,
         LeadsTo(cs, n, z, h), OwnChange(n, z, h, z2, h2)
  PROVE  LeadsTo(cs, n, z2, h2)
  <1>1. ASSUME NEW i \in 1 .. Len(cs)
        PROVE  /\ Waits(cs[i], z2, h2)
               /\ Awaited(cs[i], z2) = Awaited(cs[i], z)
    <2> DEFINE c == cs[i]
               m == cs[i].box
    <2>1. c \in CallType /\ m \in Box /\ n \in Nat /\ m \in Nat
      BY StackBoxes, PatternFacts
    <2>2. m < n /\ Waits(c, z, h)
      BY DEF LeadsTo
    <2>3. m # n /\ z2[m] = z[m]
      BY <2>1, <2>2 DEF OwnChange
    <2>4. \A j \in DOMAIN Pat[n].kids : Kid(n, j) > n /\ Kid(n, j) \in Nat
      BY TreeFacts, PatternFacts
    <2>5. h2[m] = h[m]
      BY <2>1, <2>2, <2>3, <2>4 DEF OwnChange, KidsOf, Kid
    <2>6. \A j \in DOMAIN Pat[m].kids : Kid(m, j) \in Box /\ Kid(m, j) \notin KidsOf(n)
      BY <2>1, <2>3, TreeFacts DEF KidsOf, Kid
    <2>7. \A k \in KidsOf(m) : h2[k].cursor = h[k].cursor /\ h2[k].nam = h[k].nam
      BY <2>6 DEF OwnChange, KidsOf, Kid
    <2>8. c.at = "right" => h2[Kid(m, 1)] = h[Kid(m, 1)]
      <3> SUFFICES ASSUME c.at = "right" PROVE h2[Kid(m, 1)] = h[Kid(m, 1)]
        OBVIOUS
      <3>1. Awaited(c, z) = Kid(m, 2) /\ Pat[m].fn = "seq"
        BY <2>1, <2>2, AwaitedKid
      <3>2. 1 \in DOMAIN Pat[m].kids /\ 2 \in DOMAIN Pat[m].kids
        BY <2>1, <3>1, KidCount
      <3>3. Kid(m, 1) # n
        <4> SUFFICES ASSUME Kid(m, 1) = n PROVE FALSE
          OBVIOUS
        <4>1. n \in KidsOf(m)
          BY <3>2 DEF KidsOf, Kid
        <4>2. m = cs[1].box /\ 1 \in 1 .. Len(cs)
          BY <2>1, <4>1, ParentOnStack
        <4>3. i = 1
          BY <4>2, <2>1 DEF LeadsTo
        <4>4. Awaited(c, z) = n
          BY <4>2, <4>3 DEF LeadsTo
        <4> QED BY <2>1, <3>1, <3>2, <4>4, TreeFacts
      <3> QED BY <2>6, <3>2, <3>3 DEF OwnChange
    <2>9. Awaited(c, z2) = Awaited(c, z)
      BY <2>3 DEF Awaited
    <2> QED BY <2>1, <2>2, <2>3, <2>5, <2>7, <2>8, <2>9, WaitsKept
  <1>2. Len(cs) \in Nat
    OBVIOUS
  <1>3. cs # <<>> => 1 \in 1 .. Len(cs)
    OBVIOUS
  <1> QED BY <1>1, <1>2, <1>3 DEF LeadsTo

(* A step of the box that runs leaves what holds of the boxes at rest.         *)
LEMMA OthersRest ==
  ASSUME StatementOK(stmt), NEW n \in Box, NEW cs \in Seq(CallType),
         NEW z, NEW h, NEW z2, NEW h2,
         LeadsTo(cs, n, z, h), OwnChange(n, z, h, z2, h2),
         \A k \in KidsOf(n) : h2[k] = h[k] \/ h2[k].exit # "gamma",
         AllRest(Stacked(cs) \cup {n}, z, h)
  PROVE  AllRest(Stacked(cs) \cup {n}, z2, h2)
  <1> SUFFICES ASSUME NEW m \in Box \ (Stacked(cs) \cup {n}), h2[m].exit = "gamma"
               PROVE  Rests(m, z2, h2)
    BY DEF AllRest
  <1>1. h2[m] = h[m] /\ z2[m] = z[m]
    BY DEF OwnChange
  <1>2. Rests(m, z, h)
    BY <1>1 DEF AllRest
  <1>3. ASSUME NEW k \in KidsOf(m)
        PROVE  h2[k] = h[k]
    <2>1. PICK i \in DOMAIN Pat[m].kids : k = Kid(m, i)
      BY DEF KidsOf, Kid
    <2>2. k \in Box /\ k \notin KidsOf(n)
      BY <2>1, TreeFacts DEF KidsOf, Kid
    <2>3. k # n
      BY ParentOnStack DEF Stacked
    <2> QED BY <2>2, <2>3 DEF OwnChange
  <1> QED BY <1>1, <1>2, <1>3, RestsKept

(* A call puts the caller on the stack.                                        *)
LEMMA Pushed ==
  ASSUME StatementOK(stmt), NEW n \in Box, NEW cs \in Seq(CallType), NEW z, NEW h,
         LeadsTo(cs, n, z, h), NEW c \in CallType, c.box = n, Waits(c, z, h)
  PROVE  /\ <<c>> \o cs \in Seq(CallType)
         /\ LeadsTo(<<c>> \o cs, Awaited(c, z), z, h)
         /\ Stacked(<<c>> \o cs) = Stacked(cs) \cup {n}
         /\ Awaited(c, z) \in Box
  <1> DEFINE ds == <<c>> \o cs
             k  == Awaited(c, z)
  <1>1. /\ ds \in Seq(CallType) /\ ds # <<>> /\ Len(cs) \in Nat /\ Len(ds) = Len(cs) + 1
        /\ ds[1] = c /\ \A i \in 1 .. Len(cs) : ds[i + 1] = cs[i]
    OBVIOUS
  <1>2. \A i \in 1 .. Len(ds) : i = 1 \/ (i - 1 \in 1 .. Len(cs) /\ ds[i] = cs[i - 1])
    BY <1>1
  <1>3. k \in Box /\ n < k
    BY AwaitedKid, TreeFacts
  <1>4. n \in Nat /\ k \in Nat /\ \A i \in 1 .. Len(cs) : cs[i].box \in Nat /\ cs[i].box \in Box
    BY <1>3, PatternFacts, StackBoxes
  <1>5. ASSUME NEW i \in 1 .. Len(ds)
        PROVE  ds[i].box < k /\ Waits(ds[i], z, h)
    <2>1. CASE i = 1
      BY <2>1, <1>1, <1>3
    <2>2. CASE i # 1
      <3>1. cs[i - 1].box < n /\ Waits(cs[i - 1], z, h)
        BY <2>2, <1>2 DEF LeadsTo
      <3> QED BY <2>2, <3>1, <1>2, <1>3, <1>4
    <2> QED BY <2>1, <2>2
  <1>6. ASSUME NEW i \in 1 .. Len(ds), NEW j \in 1 .. Len(ds), i < j
        PROVE  ds[j].box < ds[i].box
    <2>1. j # 1 /\ ds[j] = cs[j - 1] /\ j - 1 \in 1 .. Len(cs)
      BY <1>2, <1>6, <1>1
    <2>2. CASE i = 1
      BY <2>1, <2>2, <1>1 DEF LeadsTo
    <2>3. CASE i # 1
      <3>1. ds[i] = cs[i - 1] /\ i - 1 \in 1 .. Len(cs) /\ i - 1 < j - 1
        BY <2>3, <1>2, <1>6
      <3> QED BY <2>1, <3>1 DEF LeadsTo
    <2> QED BY <2>2, <2>3
  <1>7. ASSUME NEW i \in 1 .. Len(ds) - 1
        PROVE  Awaited(ds[i + 1], z) = ds[i].box
    <2>1. ds[i + 1] = cs[i] /\ i \in 1 .. Len(cs)
      BY <1>1
    <2>2. CASE i = 1
      BY <2>1, <2>2, <1>1 DEF LeadsTo
    <2>3. CASE i # 1
      <3>1. ds[i] = cs[i - 1] /\ i - 1 \in 1 .. Len(cs) - 1 /\ i - 1 + 1 = i
        BY <2>1, <2>3, <1>2, <1>1
      <3>2. Awaited(cs[i - 1 + 1], z) = cs[i - 1].box
        BY <3>1 DEF LeadsTo
      <3> QED BY <2>1, <3>1, <3>2
    <2> QED BY <2>2, <2>3
  <1>8. ds[Len(ds)].box = 1 /\ Awaited(ds[1], z) = k
    <2>1. CASE cs = <<>>
      BY <2>1, <1>1 DEF LeadsTo
    <2>2. CASE cs # <<>>
      BY <2>2, <1>1, <1>2 DEF LeadsTo
    <2> QED BY <2>1, <2>2
  <1>9. LeadsTo(ds, k, z, h)
    BY <1>1, <1>5, <1>6, <1>7, <1>8 DEF LeadsTo
  <1>10. Stacked(ds) = Stacked(cs) \cup {n}
    <2>1. ASSUME NEW m, m \in Stacked(ds) PROVE m \in Stacked(cs) \cup {n}
      BY <2>1, <1>1, <1>2 DEF Stacked
    <2>2. ASSUME NEW m, m \in Stacked(cs) PROVE m \in Stacked(ds)
      <3>1. PICK i \in 1 .. Len(cs) : m = cs[i].box
        BY <2>2 DEF Stacked
      <3>2. i + 1 \in 1 .. Len(ds) /\ ds[i + 1] = cs[i]
        BY <1>1
      <3> QED BY <3>1, <3>2 DEF Stacked
    <2>3. n \in Stacked(ds)
      BY <1>1 DEF Stacked
    <2> QED BY <2>1, <2>2, <2>3
  <1> QED BY <1>1, <1>3, <1>9, <1>10

(* A return takes the caller off the stack.                                    *)
LEMMA Popped ==
  ASSUME StatementOK(stmt), NEW n \in Box, NEW cs \in Seq(CallType), cs # <<>>, NEW z, NEW h,
         LeadsTo(cs, n, z, h)
  PROVE  /\ Tail(cs) \in Seq(CallType) /\ Head(cs) \in CallType
         /\ LeadsTo(Tail(cs), Head(cs).box, z, h)
         /\ Stacked(cs) = Stacked(Tail(cs)) \cup {Head(cs).box}
         /\ Waits(Head(cs), z, h) /\ Awaited(Head(cs), z) = n
  <1> DEFINE ds == Tail(cs)
             m  == Head(cs).box
  <1>1. /\ ds \in Seq(CallType) /\ Len(ds) \in Nat /\ Len(cs) = Len(ds) + 1 /\ Head(cs) = cs[1]
        /\ cs[1] \in CallType /\ \A i \in 1 .. Len(ds) : ds[i] = cs[i + 1]
    BY HeadTailProperties, EmptySeq
  <1> HIDE DEF ds
  <1>2. \A i \in 1 .. Len(ds) : i + 1 \in 1 .. Len(cs)
    BY <1>1
  <1>3. ASSUME NEW i \in 1 .. Len(ds) PROVE ds[i].box < m /\ Waits(ds[i], z, h)
    BY <1>1, <1>2 DEF LeadsTo
  <1>4. ASSUME NEW i \in 1 .. Len(ds), NEW j \in 1 .. Len(ds), i < j
        PROVE  ds[j].box < ds[i].box
    BY <1>1, <1>2, <1>4 DEF LeadsTo
  <1>5. ASSUME NEW i \in 1 .. Len(ds) - 1 PROVE Awaited(ds[i + 1], z) = ds[i].box
    <2>1. i + 1 \in 1 .. Len(cs) - 1 /\ ds[i + 1] = cs[i + 1 + 1] /\ ds[i] = cs[i + 1]
      BY <1>1
    <2> QED BY <2>1 DEF LeadsTo
  <1>6. ds # <<>> => ds[Len(ds)].box = 1 /\ Awaited(ds[1], z) = m
    <2> SUFFICES ASSUME ds # <<>> PROVE ds[Len(ds)].box = 1 /\ Awaited(ds[1], z) = m
      OBVIOUS
    <2>1. Len(ds) \in 1 .. Len(ds) /\ 1 \in 1 .. Len(ds) /\ 1 \in 1 .. Len(cs) - 1
      BY <1>1
    <2>2. ds[Len(ds)] = cs[Len(cs)] /\ ds[1] = cs[1 + 1]
      BY <1>1, <2>1
    <2> QED BY <1>1, <2>1, <2>2 DEF LeadsTo
  <1>7. ds = <<>> => m = 1
    BY <1>1 DEF LeadsTo
  <1>8. LeadsTo(ds, m, z, h)
    BY <1>3, <1>4, <1>5, <1>6, <1>7 DEF LeadsTo
  <1>9. Stacked(cs) = Stacked(ds) \cup {m}
    <2>1. ASSUME NEW b, b \in Stacked(cs) PROVE b \in Stacked(ds) \cup {m}
      <3>1. PICK i \in 1 .. Len(cs) : b = cs[i].box
        BY <2>1 DEF Stacked
      <3>2. CASE i = 1
        BY <3>1, <3>2, <1>1
      <3>3. CASE i # 1
        <4>1. i - 1 \in 1 .. Len(ds) /\ ds[i - 1] = cs[i]
          BY <3>3, <1>1
        <4> QED BY <3>1, <4>1 DEF Stacked
      <3> QED BY <3>2, <3>3
    <2>2. ASSUME NEW b, b \in Stacked(ds) PROVE b \in Stacked(cs)
      BY <2>2, <1>1, <1>2 DEF Stacked
    <2>3. m \in Stacked(cs)
      BY <1>1 DEF Stacked
    <2> QED BY <2>1, <2>2, <2>3
  <1>10. Waits(cs[1], z, h) /\ Awaited(cs[1], z) = n
    BY <1>1 DEF LeadsTo
  <1> QED BY <1>1, <1>8, <1>9, <1>10 DEF ds

-----------------------------------------------------------------------------
(* Steps of the boxes: what is to be shown of each, and that it is enough *)

(* The parts of the invariant read no variable but the statement.              *)
LEMMA SameStatement ==
  ASSUME stmt' = stmt
  PROVE  /\ Box' = Box /\ CallType' = CallType /\ EntryType' = EntryType
         /\ Sigma' = Sigma /\ Sigmalen' = Sigmalen /\ Pat' = Pat
         /\ TabsFit' <=> TabsFit
         /\ \A cs, n, z, h : LeadsTo(cs, n, z, h)' <=> LeadsTo(cs, n, z, h)
         /\ \A active, z, h : AllRest(active, z, h)' <=> AllRest(active, z, h)
         /\ \A d, h : InSubject(d, h)' <=> InSubject(d, h)
         /\ \A c, d, list, h : AtPort(c, d, list, h)' <=> AtPort(c, d, list, h)
         /\ \A cs : Stacked(cs)' = Stacked(cs)
         /\ \A r : Divides(r)' <=> Divides(r)
  <1>1. /\ Box' = Box /\ CallType' = CallType /\ EntryType' = EntryType
        /\ Sigma' = Sigma /\ Sigmalen' = Sigmalen /\ Pat' = Pat
    BY DEF Box, CallType, EntryType, Sigma, Sigmalen, Pat
  <1>2. TabsFit' <=> TabsFit
    BY <1>1 DEF TabsFit
  <1>3. (CapturesKept' <=> CapturesKept) /\ (SpansKept' <=> SpansKept) /\ Dropped' = Dropped
    BY <1>1 DEF CapturesKept, SpansKept, Dropped, Drops, Kid
  <1>4. Undisturbed' = Undisturbed
    BY <1>1 DEF Undisturbed, ClosedOff, Strays, KidsOf
  <1>5. /\ \A n, d, e : Ahead(n, d, e)' <=> Ahead(n, d, e)
        /\ \A h, n, k : Handed(h, n, k)' <=> Handed(h, n, k)
        /\ \A n, i : Kid(n, i)' = Kid(n, i)
        /\ \A n, z, h : FramesRise(n, z, h)' <=> FramesRise(n, z, h)
    BY <1>1, <1>3, <1>4 DEF Ahead, Handed, Kid, FramesRise
  <1>6. \A n, z, h : Rests(n, z, h)' <=> Rests(n, z, h)
    BY <1>1, <1>3, <1>5 DEF Rests, SeqRests, AltRests, CapRests
  <1>7. \A c, z, h : (Waits(c, z, h)' <=> Waits(c, z, h)) /\ Awaited(c, z)' = Awaited(c, z)
    <2>1. /\ \A c, z, h : SeqWaits(c, z, h)' <=> SeqWaits(c, z, h)
          /\ \A c, z, h : AltWaits(c, z, h)' <=> AltWaits(c, z, h)
      BY <1>1, <1>3, <1>5 DEF SeqWaits, AltWaits, Follows, Extended
    <2>2. /\ \A c, z, h : ArbnoWaits(c, z, h)' <=> ArbnoWaits(c, z, h)
          /\ \A c, z, h : AskWaits(c, z, h)' <=> AskWaits(c, z, h)
          /\ \A c, z, h : CapWaits(c, z, h)' <=> CapWaits(c, z, h)
      BY <1>1, <1>3, <1>5 DEF ArbnoWaits, AskWaits, CapWaits
    <2>3. \A c, z : Awaited(c, z)' = Awaited(c, z)
      BY <1>5 DEF Awaited
    <2> QED BY <1>1, <2>1, <2>2, <2>3 DEF Waits
  <1>8. \A cs, n, z, h : LeadsTo(cs, n, z, h)' <=> LeadsTo(cs, n, z, h)
    BY <1>7 DEF LeadsTo
  <1>9. \A active, z, h : AllRest(active, z, h)' <=> AllRest(active, z, h)
    BY <1>1, <1>6 DEF AllRest
  <1>10. \A d, h : InSubject(d, h)' <=> InSubject(d, h)
    BY <1>1 DEF InSubject
  <1>11. \A c, d, list, h : AtPort(c, d, list, h)' <=> AtPort(c, d, list, h)
    BY <1>1, <1>3, <1>5 DEF AtPort
  <1>12. \A r : Divides(r)' <=> Divides(r)
    BY <1>1, <1>3 DEF Divides
  <1> QED BY <1>1, <1>2, <1>8, <1>9, <1>10, <1>11, <1>12 DEF Stacked

(* The code of box Me runs.                                                    *)
Running ==
  /\ phase = "match" /\ TypeOK /\ slot >= 1 /\ Divides(result) /\ InSubject(Delta, hist)
  /\ Me \in Box /\ Rest \in Seq(CallType)
  /\ LeadsTo(Rest, Me, zeta, hist)
  /\ AllRest(Stacked(Rest) \cup {Me}, zeta, hist)

OwnStep ==
  /\ zeta' \in [Box -> ZetaType] /\ \A m \in Box \ {Me} : zeta'[m] = zeta[m]
  /\ Delta' \in 0 .. Sigmalen /\ nam' \in Seq(EntryType) /\ nv' \in [Vars -> ValueType]
  /\ UNCHANGED <<stmt, phase, scan, slot, result>>

(* A box at its alpha or beta runs, and finds the state that Running says.     *)
LEMMA EnteredRuns ==
  ASSUME StatementOK(stmt), Inv, phase = "match", Entered
  PROVE  /\ Running /\ Me = ctl.box /\ AtPort(ctl, Delta, nam, hist)
         /\ ctl.port = "beta" => Rests(Me, zeta, hist) /\ hist[Me].exit = "gamma"
  <1>1. Me = ctl.box /\ Rest = calls
    BY DEF Me, Rest
  <1>2. ctl.box \in Box /\ calls \in Seq(CallType)
    BY DEF Inv, TypeOK
  <1>3. LeadsTo(calls, ctl.box, zeta, hist) /\ AllRest(Stacked(calls), zeta, hist)
    BY DEF Inv
  <1>4. AllRest(Stacked(calls) \cup {ctl.box}, zeta, hist)
    BY <1>3 DEF AllRest
  <1>5. ctl.box \notin Stacked(calls)
    <2> SUFFICES ASSUME NEW i \in 1 .. Len(calls), ctl.box = calls[i].box PROVE FALSE
      BY DEF Stacked
    <2>1. calls[i].box \in Nat /\ calls[i].box < ctl.box
      BY <1>2, <1>3, StackBoxes DEF LeadsTo
    <2> QED BY <2>1
  <1>6. ctl.port = "beta" => Rests(ctl.box, zeta, hist) /\ hist[ctl.box].exit = "gamma"
    BY <1>2, <1>3, <1>5 DEF Inv, AtPort, AllRest
  <1> QED BY <1>1, <1>2, <1>3, <1>4, <1>6 DEF Inv, Running

(* A box whose kid has returned runs, and finds the state that Running says.   *)
LEMMA BackRuns ==
  ASSUME StatementOK(stmt), Inv, phase = "match", ctl.port \in {"gamma", "omega"}, calls # <<>>
  PROVE  /\ Running /\ Me = Head(calls).box /\ AtPort(ctl, Delta, nam, hist)
         /\ Head(calls) \in CallType
         /\ Waits(Head(calls), zeta, hist) /\ Awaited(Head(calls), zeta) = ctl.box
         /\ ctl.port = "gamma" => Rests(ctl.box, zeta, hist)
  <1>1. Me = Head(calls).box /\ Rest = Tail(calls)
    BY DEF Me, Rest, Entered
  <1>2. ctl.box \in Box /\ calls \in Seq(CallType)
    BY DEF Inv, TypeOK
  <1>3. LeadsTo(calls, ctl.box, zeta, hist) /\ AllRest(Stacked(calls), zeta, hist)
    BY DEF Inv
  <1>4. /\ Tail(calls) \in Seq(CallType) /\ Head(calls) \in CallType
        /\ LeadsTo(Tail(calls), Head(calls).box, zeta, hist)
        /\ Stacked(calls) = Stacked(Tail(calls)) \cup {Head(calls).box}
        /\ Waits(Head(calls), zeta, hist) /\ Awaited(Head(calls), zeta) = ctl.box
    BY <1>2, <1>3, Popped
  <1>5. Head(calls).box \in Box
    BY <1>4 DEF CallType
  <1>6. ctl.box \notin Stacked(calls)
    <2> SUFFICES ASSUME NEW i \in 1 .. Len(calls), ctl.box = calls[i].box PROVE FALSE
      BY DEF Stacked
    <2>1. calls[i].box \in Nat /\ calls[i].box < ctl.box
      BY <1>2, <1>3, StackBoxes DEF LeadsTo
    <2> QED BY <2>1
  <1>7. ctl.port = "gamma" => Rests(ctl.box, zeta, hist)
    BY <1>2, <1>3, <1>6 DEF Inv, AtPort, AllRest
  <1> QED BY <1>1, <1>3, <1>4, <1>5, <1>7 DEF Inv, Running

(* The types after a step of a box.                                            *)
LEMMA TypesKept ==
  ASSUME StatementOK(stmt), Running, OwnStep, calls' \in Seq(CallType),
         ctl' \in [port : {"none", "alpha", "beta", "gamma", "omega"}, box : Box, span : SpanType],
         hist' \in [Box -> [cursor : Int, nam : Seq(EntryType), exit : {"none", "gamma", "omega"},
                            end : Int, out : Seq(EntryType)]]
  PROVE  stmt' = stmt /\ phase' = "match" /\ TypeOK' /\ slot' >= 1 /\ Divides(result)'
  <1>1. stmt' = stmt /\ phase' = "match" /\ Delta' \in Int
    BY PatternFacts DEF OwnStep, Running
  <1>2. /\ phase \in {"scan", "match", "commit", "replace", "done"} /\ scan \in Nat /\ slot \in Nat
        /\ result \in [outcome : {"none", "S", "F", "undefined"}, start : Int, end : Int, value : Seq(Chars)]
    BY DEF Running, TypeOK
  <1>3. /\ phase' = phase /\ scan' = scan /\ slot' = slot /\ result' = result
        /\ zeta' \in [Box -> ZetaType] /\ nam' \in Seq(EntryType) /\ nv' \in [Vars -> ValueType]
    BY DEF OwnStep
  <1>4. Box' = Box /\ CallType' = CallType /\ EntryType' = EntryType
    BY <1>1, SameStatement
  <1>5. slot' >= 1 /\ Divides(result)'
    BY <1>1, <1>3, SameStatement DEF Running
  <1> QED BY <1>1, <1>2, <1>3, <1>4, <1>5 DEF TypeOK

(* It is enough for a call that the caller waits as Waits says, and that a kid *)
(* that is resumed has succeeded and finds the cursor and the captures it left. *)
LEMMA CallKeeps ==
  ASSUME StatementOK(stmt), Running, OwnStep,
         NEW i \in DOMAIN Pat[Me].kids, NEW port \in {"alpha", "beta"},
         NEW at \in {"left", "right", "alpha", "beta", "try", "ask", "child"},
         Call(i, port, at),
         Waits([box |-> Me, at |-> at], zeta', hist'),
         Awaited([box |-> Me, at |-> at], zeta') = Kid(Me, i),
         port = "beta" => /\ hist[Kid(Me, i)].exit = "gamma"
                          /\ Ahead(Kid(Me, i), Delta', hist[Kid(Me, i)].end)
                          /\ CapturesKept => nam' = hist[Kid(Me, i)].out
  PROVE  Inv'
  <1> DEFINE n == Me
             k == Kid(Me, i)
             c == [box |-> Me, at |-> at]
             fresh == [cursor |-> Delta', nam |-> nam', exit |-> "none", end |-> Delta', out |-> nam']
  <1>1. n \in Box /\ k \in Box /\ k # n /\ k \in KidsOf(n) /\ c \in CallType /\ c.box = n
    BY TreeFacts, PatternFacts DEF Running, KidsOf, Kid, CallType
  <1>2. /\ calls' = <<c>> \o Rest
        /\ ctl' = [port |-> port, box |-> k, span |-> Span(0, 0)]
        /\ hist' = IF port = "alpha" THEN [hist EXCEPT ![k] = fresh] ELSE hist
    BY DEF Call, Kid
  <1>3. hist \in [Box -> [cursor : Int, nam : Seq(EntryType), exit : {"none", "gamma", "omega"},
                          end : Int, out : Seq(EntryType)]]
    BY DEF Running, TypeOK
  <1>4. /\ \A m \in Box : m # k => hist'[m] = hist[m]
        /\ port = "alpha" => hist'[k] = fresh
        /\ port = "beta" => hist'[k] = hist[k]
    BY <1>1, <1>2, <1>3
  <1>5. OwnChange(n, zeta, hist, zeta', hist')
    BY <1>1, <1>4 DEF OwnChange, OwnStep
  <1>6. \A m \in KidsOf(n) : hist'[m] = hist[m] \/ hist'[m].exit # "gamma"
    <2>1. KidsOf(n) \subseteq Box
      BY <1>1, TreeFacts DEF KidsOf, Kid
    <2> QED BY <2>1, <1>4
  <1>7. LeadsTo(Rest, n, zeta', hist')
    BY <1>1, <1>5, StackKept DEF Running
  <1>8. AllRest(Stacked(Rest) \cup {n}, zeta', hist')
    BY <1>1, <1>5, <1>6, OthersRest DEF Running
  <1>9. /\ calls' \in Seq(CallType) /\ LeadsTo(calls', k, zeta', hist')
        /\ Stacked(calls') = Stacked(Rest) \cup {n}
    BY <1>1, <1>2, <1>7, Pushed DEF Running
  <1>10. InSubject(Delta', hist')
    <2>1. Delta' \in 0 .. Sigmalen /\ InSubject(Delta, hist)
      BY DEF Running, OwnStep
    <2>2. ASSUME NEW m \in Box
          PROVE  hist'[m].cursor \in 0 .. Sigmalen /\ hist'[m].end \in 0 .. Sigmalen
      <3>1. hist'[m] = hist[m] \/ hist'[m] = fresh
        BY <1>4
      <3> QED BY <2>1, <3>1 DEF InSubject
    <2> QED BY <2>1, <2>2 DEF InSubject
  <1>11. AtPort(ctl', Delta', nam', hist')
    <2>1. CASE port = "alpha"
      BY <2>1, <1>2, <1>4 DEF AtPort
    <2>2. CASE port = "beta"
      BY <2>2, <1>2, <1>4 DEF AtPort
    <2> QED BY <2>1, <2>2
  <1>12. hist' \in [Box -> [cursor : Int, nam : Seq(EntryType), exit : {"none", "gamma", "omega"},
                            end : Int, out : Seq(EntryType)]]
    <2>1. Delta' \in Int
      BY PatternFacts DEF OwnStep
    <2> QED BY <2>1, <1>1, <1>2, <1>3 DEF OwnStep
  <1>13. ctl' \in [port : {"none", "alpha", "beta", "gamma", "omega"}, box : Box, span : SpanType]
    BY <1>1, <1>2 DEF Span, SpanType
  <1>14. stmt' = stmt /\ phase' = "match" /\ TypeOK' /\ slot' >= 1 /\ Divides(result)'
    BY <1>9, <1>12, <1>13, TypesKept
  <1> QED BY <1>2, <1>8, <1>9, <1>10, <1>11, <1>14, SameStatement DEF Inv

(* What a return writes to the history.                                        *)
LEMMA ReturnHist ==
  ASSUME StatementOK(stmt), Running, NEW port, NEW span, Return(port, span)
  PROVE  /\ hist'[Me].cursor = hist[Me].cursor /\ hist'[Me].nam = hist[Me].nam
         /\ hist'[Me].exit = port /\ hist'[Me].end = Delta' /\ hist'[Me].out = nam'
         /\ \A m \in Box \ {Me} : hist'[m] = hist[m]
         /\ \A i \in DOMAIN Pat[Me].kids : Kid(Me, i) \in Box \ {Me} /\ hist'[Kid(Me, i)] = hist[Kid(Me, i)]
  <1>1. hist \in [Box -> [cursor : Int, nam : Seq(EntryType), exit : {"none", "gamma", "omega"},
                          end : Int, out : Seq(EntryType)]]
    BY DEF Running, TypeOK
  <1>2. hist' = [hist EXCEPT ![Me].exit = port, ![Me].end = Delta', ![Me].out = nam'] /\ Me \in Box
    BY DEF Return, Running
  <1>3. \A m \in Box \ {Me} : hist'[m] = hist[m]
    BY <1>1, <1>2
  <1>4. \A i \in DOMAIN Pat[Me].kids : Kid(Me, i) \in Box \ {Me}
    BY <1>2, TreeFacts, PatternFacts
  <1> QED BY <1>1, <1>2, <1>3, <1>4

(* It is enough for a return that a success leaves the box as Rests says, and  *)
(* that a failure leaves the cursor and the captures as they were at alpha.    *)
LEMMA ReturnKeeps ==
  ASSUME StatementOK(stmt), Running, OwnStep,
         NEW port \in {"gamma", "omega"}, NEW span \in SpanType, Return(port, span),
         port = "gamma" => /\ Rests(Me, zeta', hist')
                           /\ SpansKept => span = Span(hist[Me].cursor, Delta' - hist[Me].cursor),
         port = "omega" => /\ Ahead(Me, Delta', hist[Me].cursor)
                           /\ CapturesKept => nam' = hist[Me].nam
  PROVE  Inv'
  <1> DEFINE n == Me
  <1>1. n \in Box /\ Rest \in Seq(CallType)
    BY DEF Running
  <1>2. /\ calls' = Rest
        /\ ctl' = [port |-> port, box |-> n, span |-> span]
        /\ hist' = [hist EXCEPT ![n].exit = port, ![n].end = Delta', ![n].out = nam']
    BY DEF Return
  <1>3. hist \in [Box -> [cursor : Int, nam : Seq(EntryType), exit : {"none", "gamma", "omega"},
                          end : Int, out : Seq(EntryType)]]
    BY DEF Running, TypeOK
  <1>4. /\ hist'[n].cursor = hist[n].cursor /\ hist'[n].nam = hist[n].nam
        /\ hist'[n].exit = port /\ hist'[n].end = Delta' /\ hist'[n].out = nam'
        /\ \A m \in Box \ {n} : hist'[m] = hist[m]
    BY ReturnHist
  <1>5. OwnChange(n, zeta, hist, zeta', hist')
    BY <1>4 DEF OwnChange, OwnStep
  <1>6. \A m \in KidsOf(n) : hist'[m] = hist[m] \/ hist'[m].exit # "gamma"
    BY <1>1, <1>4, ReturnHist DEF KidsOf, Kid
  <1>7. LeadsTo(calls', n, zeta', hist')
    BY <1>1, <1>2, <1>5, StackKept DEF Running
  <1>8. AllRest(Stacked(calls') \cup {n}, zeta', hist')
    BY <1>1, <1>2, <1>5, <1>6, OthersRest DEF Running
  <1>9. AllRest(Stacked(calls'), zeta', hist')
    BY <1>4, <1>8 DEF AllRest
  <1>10. InSubject(Delta', hist')
    BY <1>1, <1>4 DEF InSubject, Running, OwnStep
  <1>11. AtPort(ctl', Delta', nam', hist')
    BY <1>2, <1>4 DEF AtPort, Extended
  <1>12. hist' \in [Box -> [cursor : Int, nam : Seq(EntryType), exit : {"none", "gamma", "omega"},
                            end : Int, out : Seq(EntryType)]]
    <2>1. Delta' \in Int
      BY PatternFacts DEF OwnStep
    <2> QED BY <2>1, <1>1, <1>2, <1>3 DEF OwnStep
  <1>13. ctl' \in [port : {"none", "alpha", "beta", "gamma", "omega"}, box : Box, span : SpanType]
    BY <1>1, <1>2
  <1>14. stmt' = stmt /\ phase' = "match" /\ TypeOK' /\ slot' >= 1 /\ Divides(result)'
    BY <1>1, <1>2, <1>12, <1>13, TypesKept
  <1> QED BY <1>2, <1>7, <1>9, <1>10, <1>11, <1>14, SameStatement DEF Inv

-----------------------------------------------------------------------------
(* What the boxes without children match *)

(* A set of naturals that is not empty has a least element.                    *)
LEMMA LeastExists ==
  ASSUME NEW S \in SUBSET Nat, S # {}
  PROVE  \E x \in S : \A y \in S : x <= y
  <1> DEFINE R == {ss \in Nat \X Nat : ss[1] < ss[2]}
  <1>1. IsWellFoundedOn(R, Nat)
    BY NatLessThanWellFounded DEF OpToRel
  <1>2. PICK x \in S : \A y \in S : ~ (<<y, x>> \in R)
    BY <1>1, WFMin, Zenon
  <1>3. ASSUME NEW y \in S PROVE x <= y
    <2>1. <<y, x>> \notin R /\ x \in Nat /\ y \in Nat
      BY <1>2
    <2>2. y < x => <<y, x>> \in R
      BY <2>1
    <2> QED BY <2>1, <2>2
  <1> QED BY <1>3

(* A run never leaves the subject.                                             *)
LEMMA RunFits ==
  ASSUME StatementOK(stmt), NEW d \in 0 .. Sigmalen, NEW S
  PROVE  Run(d, S) \in Nat /\ d + Run(d, S) <= Sigmalen
  <1> DEFINE ends == {k \in 0 .. Sigmalen : d + k >= Sigmalen \/ Char(d + k) \notin S}
  <1>1. Sigmalen \in Nat /\ d \in Nat
    BY PatternFacts
  <1>2. ends \in SUBSET Nat /\ Sigmalen - d \in ends
    BY <1>1
  <1>3. \E k \in ends : \A j \in ends : k <= j
    BY <1>2, LeastExists
  <1>4. Run(d, S) = CHOOSE k \in ends : \A j \in ends : k <= j
    BY DEF Run
  <1> HIDE DEF ends
  <1>5. Run(d, S) \in ends /\ \A j \in ends : Run(d, S) <= j
    BY <1>3, <1>4
  <1>6. Run(d, S) \in Nat /\ Run(d, S) <= Sigmalen - d
    BY <1>2, <1>5
  <1> QED BY <1>1, <1>6

(* Nor does a balanced run.                                                    *)
LEMMA BalRunFits ==
  ASSUME StatementOK(stmt), NEW d \in 0 .. Sigmalen
  PROVE  BalRun(d) \in Nat /\ d + BalRun(d) <= Sigmalen
  <1> DEFINE count(c, k) == Cardinality({i \in 0 .. k - 1 : Char(d + i) = c})
             ends == {k \in 0 .. Sigmalen : \/ d + k >= Sigmalen
                                            \/ Char(d + k) = ")" /\ count("(", k) = count(")", k)}
  <1>1. Sigmalen \in Nat /\ d \in Nat
    BY PatternFacts
  <1>2. ends \in SUBSET Nat /\ Sigmalen - d \in ends
    BY <1>1
  <1>3. \E k \in ends : \A j \in ends : k <= j
    BY <1>2, LeastExists
  <1>4. BalRun(d) = CHOOSE k \in ends : \A j \in ends : k <= j
    BY DEF BalRun
  <1> HIDE DEF ends
  <1>5. BalRun(d) \in ends /\ \A j \in ends : BalRun(d) <= j
    BY <1>3, <1>4
  <1>6. BalRun(d) \in Nat /\ BalRun(d) <= Sigmalen - d
    BY <1>2, <1>5
  <1> QED BY <1>1, <1>6

(* What a box matches lies within the subject, and is what its beta takes back *)
(* again: all of it, or nothing of it if the box is REM.                       *)
LEMMA ExtentFits ==
  ASSUME StatementOK(stmt), TabsFit, NEW n \in Box, Pat[n].fn \in LeafFn,
         NEW d \in 0 .. Sigmalen, NEW k \in Extent(Pat[n], d)
  PROVE  /\ k \in Nat /\ d + k <= Sigmalen
         /\ \A z : z.delta = k => /\ Undo(Pat[n], z) \in 0 .. k
                                  /\ Pat[n].fn # "rem" => Undo(Pat[n], z) = k
  <1> DEFINE b == Pat[n]
  <1>1. Sigmalen \in Nat /\ d \in Nat /\ b \in BoxDef
    BY PatternFacts
  <1>2. b.num \in Nat /\ Len(b.text) \in Nat /\ (b.fn = "tab" => b.num <= Sigmalen)
    BY <1>1 DEF BoxDef, TabsFit
  <1>3. Run(d, b.chars) \in Nat /\ d + Run(d, b.chars) <= Sigmalen
    BY RunFits
  <1>4. Run(d, Chars \ b.chars) \in Nat /\ d + Run(d, Chars \ b.chars) <= Sigmalen
    BY RunFits
  <1>5. BalRun(d) \in Nat /\ d + BalRun(d) <= Sigmalen
    BY BalRunFits
  <1>6. ASSUME NEW z, z.delta = k
        PROVE  /\ k \in Nat /\ d + k <= Sigmalen
               /\ Undo(b, z) \in 0 .. k
               /\ b.fn # "rem" => Undo(b, z) = k
    <2>1. k \in Extent(b, d)
      OBVIOUS
    <2> HIDE DEF b
    <2>2. CASE b.fn \in {"lit", "any", "notany", "len"}
      BY <1>1, <1>2, <1>6, <2>1, <2>2 DEF Extent, Undo
    <2>3. CASE b.fn \in {"span", "brk", "breakx"}
      BY <1>1, <1>3, <1>4, <1>6, <2>1, <2>3 DEF Extent, Undo
    <2>4. CASE b.fn \in {"pos", "rpos", "eps", "fence", "succeed", "fail", "abort"}
      <3>1. k = 0
        BY <2>1, <2>4 DEF Extent
      <3>2. Undo(b, z) = 0
        BY <2>4 DEF Undo
      <3> QED BY <1>1, <3>1, <3>2
    <2>5. CASE b.fn \in {"tab", "rtab", "rem"}
      BY <1>1, <1>2, <1>6, <2>1, <2>5 DEF Extent, Undo
    <2>6. CASE b.fn = "bal"
      BY <1>1, <1>5, <1>6, <2>1, <2>6 DEF Extent, Undo
    <2> QED BY <2>2, <2>3, <2>4, <2>5, <2>6 DEF LeafFn, b
  <1>7. k \in Nat /\ d + k <= Sigmalen
    <2>1. [delta |-> k].delta = k
      OBVIOUS
    <2> QED BY <2>1, <1>6
  <1> QED BY <1>6, <1>7


-----------------------------------------------------------------------------
(* The sets of boxes that the premises speak of *)

(* Undisturbed is closed off itself.                                           *)
LEMMA UndisturbedFacts ==
  ASSUME StatementOK(stmt), NEW n \in Box
  PROVE  /\ n \in Undisturbed => ~ Strays(n) /\ \A i \in DOMAIN Pat[n].kids : Kid(n, i) \in Undisturbed
         /\ \A i \in DOMAIN Pat[n].kids :
              Kid(n, i) \in Undisturbed => n \in Undisturbed \/ Pat[n].fn \in {"arbno", "not", "interr"}
  <1>1. ASSUME n \in Undisturbed
        PROVE  ~ Strays(n) /\ \A i \in DOMAIN Pat[n].kids : Kid(n, i) \in Undisturbed
    <2>1. PICK S \in SUBSET Box : n \in S /\ ClosedOff(S)
      BY <1>1 DEF Undisturbed
    <2>2. ~ Strays(n) /\ KidsOf(n) \subseteq S
      BY <2>1 DEF ClosedOff
    <2>3. S \subseteq Undisturbed
      BY <2>1 DEF Undisturbed
    <2> QED BY <2>2, <2>3 DEF KidsOf, Kid
  <1>2. ASSUME NEW i \in DOMAIN Pat[n].kids, Kid(n, i) \in Undisturbed, n \notin Undisturbed
        PROVE  Pat[n].fn \in {"arbno", "not", "interr"}
    <2>1. PICK S \in SUBSET Box : Kid(n, i) \in S /\ ClosedOff(S)
      BY <1>2 DEF Undisturbed
    <2>2. n \notin S
      BY <1>2, <2>1 DEF Undisturbed
    <2>3. KidsOf(n) \cap S # {}
      BY <2>1 DEF KidsOf, Kid
    <2> QED BY <2>1, <2>2, <2>3 DEF ClosedOff
  <1> QED BY <1>1, <1>2

(* Dropped has the kids of its boxes, and those of the boxes that drop.        *)
LEMMA DroppedFacts ==
  ASSUME StatementOK(stmt), NEW n \in Box, Drops(n) \/ n \in Dropped, NEW i \in DOMAIN Pat[n].kids
  PROVE  Kid(n, i) \in Dropped
  <1>1. Kid(n, i) \in Box
    BY TreeFacts
  <1>2. ASSUME NEW S \in SUBSET Box,
               \A m \in Box : Drops(m) \/ m \in S => \A j \in DOMAIN Pat[m].kids : Kid(m, j) \in S
        PROVE  Kid(n, i) \in S
    BY <1>2 DEF Dropped
  <1> QED BY <1>1, <1>2 DEF Dropped

-----------------------------------------------------------------------------
(* What a step may use, by the port it begins at *)

(* The types of what a running box reads.                                      *)
LEMMA RunningFacts ==
  ASSUME StatementOK(stmt), Running
  PROVE  /\ Sigmalen \in Nat /\ Delta \in 0 .. Sigmalen
         /\ Me \in Box /\ zeta \in [Box -> ZetaType] /\ zeta[Me] \in ZetaType
         /\ nam \in Seq(EntryType) /\ nv \in [Vars -> ValueType]
         /\ \A n \in Box : /\ hist[n].cursor \in 0 .. Sigmalen /\ hist[n].end \in 0 .. Sigmalen
                           /\ hist[n].nam \in Seq(EntryType) /\ hist[n].out \in Seq(EntryType)
         /\ ctl.span \in SpanType
  <1>1. \A n \in Box : hist[n].nam \in Seq(EntryType) /\ hist[n].out \in Seq(EntryType)
    BY DEF Running, TypeOK
  <1>2. ctl.span \in SpanType
    BY DEF Running, TypeOK
  <1> QED BY <1>1, <1>2, PatternFacts DEF Running, TypeOK, InSubject

(* What a box finds at its alpha.                                              *)
LEMMA AtAlpha ==
  ASSUME StatementOK(stmt), Inv, NEW fns, EnteredAt("alpha", fns)
  PROVE  /\ Running /\ Me = ctl.box /\ Pat[Me].fn \in fns
         /\ Delta = hist[Me].cursor /\ nam = hist[Me].nam
  BY EnteredRuns DEF EnteredAt, Entered, AtPort

(* What a box finds at its beta.                                               *)
LEMMA AtBeta ==
  ASSUME StatementOK(stmt), Inv, NEW fns, EnteredAt("beta", fns)
  PROVE  /\ Running /\ Me = ctl.box /\ Pat[Me].fn \in fns
         /\ Rests(Me, zeta, hist) /\ hist[Me].exit = "gamma"
         /\ Ahead(Me, Delta, hist[Me].end) /\ (CapturesKept => nam = hist[Me].out)
  BY EnteredRuns DEF EnteredAt, Entered, AtPort

(* What a box finds after its kid has returned.                                *)
LEMMA AfterKid ==
  ASSUME StatementOK(stmt), Inv, NEW port \in {"gamma", "omega"}, NEW fn, NEW at, BackAt(port, fn, at)
  PROVE  /\ Running /\ Pat[Me].fn = fn /\ ctl.port = port
         /\ ctl.box = Awaited([box |-> Me, at |-> at], zeta)
         /\ Waits([box |-> Me, at |-> at], zeta, hist)
         /\ port = "gamma" => /\ Rests(ctl.box, zeta, hist) /\ hist[ctl.box].exit = "gamma"
                              /\ Delta = hist[ctl.box].end /\ nam = hist[ctl.box].out
                              /\ SpansKept => ctl.span = Extended(hist, ctl.box)
         /\ port = "omega" => /\ Ahead(ctl.box, Delta, hist[ctl.box].cursor)
                              /\ CapturesKept => nam = hist[ctl.box].nam
  <1>1. phase = "match" /\ ctl.port = port /\ calls # <<>> /\ Pat[Head(calls).box].fn = fn /\ Head(calls).at = at
    BY DEF BackAt
  <1>2. /\ Running /\ Me = Head(calls).box /\ AtPort(ctl, Delta, nam, hist)
        /\ Head(calls) \in CallType
        /\ Waits(Head(calls), zeta, hist) /\ Awaited(Head(calls), zeta) = ctl.box
        /\ ctl.port = "gamma" => Rests(ctl.box, zeta, hist)
    BY <1>1, BackRuns
  <1>3. Head(calls) = [box |-> Me, at |-> at]
    BY <1>1, <1>2 DEF CallType
  <1> QED BY <1>1, <1>2, <1>3 DEF AtPort

-----------------------------------------------------------------------------
(* Assignments to the private state of the box that runs *)

(* Each assignment keeps the types, the other fields and the other boxes.      *)
LEMMA SetDelta ==
  ASSUME zeta \in [Box -> ZetaType], Me \in Box, NEW v \in Int, Set("delta", v)
  PROVE  /\ zeta' \in [Box -> ZetaType] /\ \A m \in Box \ {Me} : zeta'[m] = zeta[m]
         /\ zeta'[Me].delta = v
  BY DEF Set, ZetaType

LEMMA SetStart ==
  ASSUME zeta \in [Box -> ZetaType], Me \in Box, NEW v \in Int, Set("start", v)
  PROVE  /\ zeta' \in [Box -> ZetaType] /\ \A m \in Box \ {Me} : zeta'[m] = zeta[m]
         /\ zeta'[Me].start = v
  BY DEF Set, ZetaType

LEMMA SetMatched ==
  ASSUME zeta \in [Box -> ZetaType], Me \in Box, NEW v \in SpanType, Set("matched", v)
  PROVE  /\ zeta' \in [Box -> ZetaType] /\ \A m \in Box \ {Me} : zeta'[m] = zeta[m]
         /\ zeta'[Me].matched = v
  BY DEF Set, ZetaType

LEMMA SetCurrent ==
  ASSUME zeta \in [Box -> ZetaType], Me \in Box, NEW v \in Nat, Set("current", v)
  PROVE  /\ zeta' \in [Box -> ZetaType] /\ \A m \in Box \ {Me} : zeta'[m] = zeta[m]
         /\ zeta'[Me].current = v /\ zeta'[Me].start = zeta[Me].start
  BY DEF Set, ZetaType

LEMMA SetCount ==
  ASSUME zeta \in [Box -> ZetaType], Me \in Box, NEW v \in Nat, Set("count", v)
  PROVE  /\ zeta' \in [Box -> ZetaType] /\ \A m \in Box \ {Me} : zeta'[m] = zeta[m]
         /\ zeta'[Me].count = v /\ zeta'[Me].start = zeta[Me].start
  BY DEF Set, ZetaType

LEMMA SetFrames ==
  ASSUME zeta \in [Box -> ZetaType], Me \in Box,
         NEW v \in Seq([matched : SpanType, start : Int]), Set("frames", v)
  PROVE  /\ zeta' \in [Box -> ZetaType] /\ \A m \in Box \ {Me} : zeta'[m] = zeta[m]
         /\ zeta'[Me].frames = v
  BY DEF Set, ZetaType

LEMMA SetPending ==
  ASSUME zeta \in [Box -> ZetaType], Me \in Box, NEW v \in BOOLEAN, Set("pending", v)
  PROVE  /\ zeta' \in [Box -> ZetaType] /\ \A m \in Box \ {Me} : zeta'[m] = zeta[m]
         /\ zeta'[Me].pending = v
  BY DEF Set, ZetaType

(* An assignment to a field of a box.                                          *)
With(w, n, f, v) == [w EXCEPT ![n][f] = v]

(* Composed, they keep what those before them have done.                       *)
LEMMA WithStart ==
  ASSUME NEW w \in [Box -> ZetaType], NEW n \in Box, NEW v \in Int
  PROVE  /\ With(w, n, "start", v) \in [Box -> ZetaType] /\ With(w, n, "start", v)[n].start = v
         /\ \A m \in Box \ {n} : With(w, n, "start", v)[m] = w[m]
  BY DEF With, ZetaType

LEMMA WithCount ==
  ASSUME NEW w \in [Box -> ZetaType], NEW n \in Box, NEW v \in Nat
  PROVE  /\ With(w, n, "count", v) \in [Box -> ZetaType]
         /\ \A m \in Box \ {n} : With(w, n, "count", v)[m] = w[m]
  BY DEF With, ZetaType

LEMMA WithCurrent ==
  ASSUME NEW w \in [Box -> ZetaType], NEW n \in Box, NEW v \in Nat
  PROVE  /\ With(w, n, "current", v) \in [Box -> ZetaType]
         /\ \A m \in Box \ {n} : With(w, n, "current", v)[m] = w[m]
         /\ With(w, n, "current", v)[n].current = v /\ With(w, n, "current", v)[n].start = w[n].start
  BY DEF With, ZetaType

(* Assignments to the variables of the program.                                *)
LEMMA Assigns ==
  ASSUME nv \in [Vars -> ValueType], NEW v, NEW x \in ValueType, nv' = [nv EXCEPT ![v] = x]
  PROVE  nv' \in [Vars -> ValueType]
  OBVIOUS

-----------------------------------------------------------------------------
(* Every step of a box keeps the invariant *)

(* What the steps have in common: they leave the statement's own variables.    *)
Aside == UNCHANGED <<stmt, phase, scan, slot, result>>

(* The boxes without children, entered: the match lies within the subject.     *)
LEMMA LeafAlphaKeeps ==
  ASSUME StatementOK(stmt), TabsFit, Inv, LeafAlpha, Aside
  PROVE  Inv'
  <1> DEFINE n == Me
             fits == Extent(Pat[n], Delta)
  <1>1. /\ Running /\ n \in Box /\ Pat[n].fn \in LeafFn
        /\ Delta = hist[n].cursor /\ nam = hist[n].nam
    BY AtAlpha, RunningFacts DEF LeafAlpha
  <1>2. /\ Sigmalen \in Nat /\ Delta \in 0 .. Sigmalen /\ zeta \in [Box -> ZetaType]
        /\ nam \in Seq(EntryType) /\ nv \in [Vars -> ValueType]
    BY <1>1, RunningFacts
  <1>3. CASE UNCHANGED <<Delta, zeta, nam, nv>> /\ OmegaExit
    <2>1. OwnStep
      BY <1>1, <1>2, <1>3 DEF OwnStep, Aside
    <2>2. Return("omega", Span(0, 0)) /\ Span(0, 0) \in SpanType
      BY <1>3 DEF OmegaExit, Span, SpanType
    <2>3. Ahead(n, Delta', hist[n].cursor) /\ nam' = hist[n].nam
      BY <1>1, <1>2, <1>3 DEF Ahead
    <2> QED BY <1>1, <2>1, <2>2, <2>3, ReturnKeeps
  <1>4. ASSUME NEW k \in fits, Delta' = Delta + k, Set("delta", k), Gamma(Span(Delta, k)), UNCHANGED <<nam, nv>>
        PROVE  Inv'
    <2>1. /\ k \in Nat /\ Delta + k <= Sigmalen
          /\ \A z : z.delta = k => /\ Undo(Pat[n], z) \in 0 .. k
                                   /\ Pat[n].fn # "rem" => Undo(Pat[n], z) = k
      BY <1>1, <1>2, ExtentFits
    <2>2. /\ zeta' \in [Box -> ZetaType] /\ \A m \in Box \ {n} : zeta'[m] = zeta[m]
          /\ zeta'[n].delta = k
      BY <1>1, <1>2, <1>4, <2>1, SetDelta
    <2>3. OwnStep
      BY <1>1, <1>2, <1>4, <2>1, <2>2 DEF OwnStep, Aside
    <2>4. Return("gamma", Span(Delta, k)) /\ Span(Delta, k) \in SpanType
      BY <1>2, <1>4, <2>1 DEF Gamma, Span, SpanType
    <2>5. /\ hist'[n].cursor = Delta /\ hist'[n].nam = nam /\ hist'[n].end = Delta + k /\ hist'[n].out = nam
      BY <1>1, <1>4, <2>4, ReturnHist
    <2>6. Rests(n, zeta', hist')
      <3>1. /\ Undo(Pat[n], zeta'[n]) \in 0 .. k
            /\ Pat[n].fn # "rem" => Undo(Pat[n], zeta'[n]) = k
        BY <2>1, <2>2
      <3>2. n \in Undisturbed => Pat[n].fn # "rem"
        BY <1>1, UndisturbedFacts DEF Strays
      <3>3. Ahead(n, hist'[n].end - Undo(Pat[n], zeta'[n]), hist'[n].cursor)
        BY <1>2, <2>1, <2>5, <3>1, <3>2 DEF Ahead
      <3>4. Undo(Pat[n], zeta'[n]) >= 0 /\ hist'[n].cursor <= hist'[n].end
        BY <1>2, <2>1, <2>5, <3>1
      <3>5. Pat[n].fn \notin {"arb", "atp", "not", "interr", "arbno", "seq", "alt", "cap"}
        BY <1>1 DEF LeafFn
      <3> QED BY <2>5, <3>3, <3>4, <3>5 DEF Rests
    <2>7. Span(Delta, k) = Span(hist[n].cursor, Delta' - hist[n].cursor)
      BY <1>1, <1>2, <1>4, <2>1
    <2> QED BY <1>1, <2>3, <2>4, <2>6, <2>7, ReturnKeeps
  <1> QED BY <1>1, <1>3, <1>4 DEF LeafAlpha

(* The boxes without children, resumed: what was matched is taken back.        *)
LEMMA LeafBetaKeeps ==
  ASSUME StatementOK(stmt), TabsFit, Inv, LeafBeta, Aside
  PROVE  Inv'
  <1> DEFINE n == Me
             back == Undo(Pat[n], zeta[n])
  <1>1. /\ Running /\ n \in Box /\ Pat[n].fn \in LeafFn
        /\ Rests(n, zeta, hist) /\ Ahead(n, Delta, hist[n].end) /\ (CapturesKept => nam = hist[n].out)
    BY AtBeta, RunningFacts DEF LeafBeta
  <1>2. /\ Sigmalen \in Nat /\ Delta \in 0 .. Sigmalen /\ zeta \in [Box -> ZetaType]
        /\ nam \in Seq(EntryType) /\ nv \in [Vars -> ValueType]
        /\ hist[n].cursor \in 0 .. Sigmalen /\ hist[n].end \in 0 .. Sigmalen
    BY <1>1, RunningFacts
  <1>3. /\ back >= 0 /\ Ahead(n, hist[n].end - back, hist[n].cursor)
        /\ hist[n].cursor <= hist[n].end
        /\ CapturesKept => nam = hist[n].nam
    BY <1>1 DEF Rests, LeafFn
  <1>4. back \in Int
    <2>1. Pat[n] \in BoxDef /\ zeta[n] \in ZetaType
      BY <1>1, <1>2, PatternFacts
    <2>2. Len(Pat[n].text) \in Nat /\ Pat[n].num \in Nat /\ zeta[n].delta \in Int
      BY <2>1 DEF BoxDef, ZetaType
    <2> QED BY <1>1, <2>2 DEF Undo, LeafFn
  <1> HIDE DEF back
  <1>5. CASE Pat[n].fn = "succeed" /\ UNCHANGED <<Delta, zeta, nam, nv>> /\ Gamma(Span(Delta, 0))
    <2>1. OwnStep
      BY <1>1, <1>2, <1>5 DEF OwnStep, Aside
    <2>2. Return("gamma", Span(Delta, 0)) /\ Span(Delta, 0) \in SpanType
      BY <1>2, <1>5 DEF Gamma, Span, SpanType
    <2>3. /\ hist'[n].cursor = hist[n].cursor /\ hist'[n].nam = hist[n].nam
          /\ hist'[n].end = Delta /\ hist'[n].out = nam
      BY <1>1, <1>5, <2>2, ReturnHist
    <2>4. Undo(Pat[n], zeta'[n]) = 0 /\ back = 0
      BY <1>5 DEF Undo, back
    <2>5. Rests(n, zeta', hist')
      BY <1>2, <1>3, <1>1, <1>5, <2>3, <2>4 DEF Rests, Ahead, LeafFn
    <2>6. ~ SpansKept
      BY <1>1, <1>5 DEF SpansKept
    <2> QED BY <1>1, <2>1, <2>2, <2>5, <2>6, ReturnKeeps
  <1>6. CASE UNCHANGED <<zeta, nam, nv>> /\ Delta' = Delta - back /\ OmegaExit
    <2>1. Delta - back \in 0 .. Sigmalen /\ Ahead(n, Delta - back, hist[n].cursor)
      BY <1>1, <1>2, <1>3, <1>4 DEF Ahead
    <2>2. OwnStep
      BY <1>1, <1>2, <1>6, <2>1 DEF OwnStep, Aside
    <2>3. Return("omega", Span(0, 0)) /\ Span(0, 0) \in SpanType
      BY <1>6 DEF OmegaExit, Span, SpanType
    <2> QED BY <1>1, <1>3, <1>6, <2>1, <2>2, <2>3, ReturnKeeps
  <1> QED BY <1>5, <1>6 DEF LeafBeta, back

(* ARB, entered: it matches nothing.                                           *)
LEMMA ArbAlphaKeeps ==
  ASSUME StatementOK(stmt), Inv, ArbAlpha, Aside
  PROVE  Inv'
  <1> DEFINE n == Me
  <1>1. /\ Running /\ n \in Box /\ Pat[n].fn = "arb"
        /\ Delta = hist[n].cursor /\ nam = hist[n].nam
    BY AtAlpha, RunningFacts DEF ArbAlpha
  <1>2. /\ Sigmalen \in Nat /\ Delta \in 0 .. Sigmalen /\ zeta \in [Box -> ZetaType]
        /\ nam \in Seq(EntryType) /\ nv \in [Vars -> ValueType]
    BY <1>1, RunningFacts
  <1>3. /\ zeta' = [zeta EXCEPT ![n].count = 0, ![n].start = Delta]
        /\ UNCHANGED <<Delta, nam, nv>> /\ Gamma(Span(Delta, 0))
    BY DEF ArbAlpha
  <1>4. /\ zeta' \in [Box -> ZetaType] /\ \A m \in Box \ {n} : zeta'[m] = zeta[m]
        /\ zeta'[n].start = Delta
    <2> DEFINE w == With(zeta, n, "count", 0)
    <2>1. zeta' = With(w, n, "start", Delta)
      BY <1>3 DEF With
    <2>2. w \in [Box -> ZetaType] /\ \A m \in Box \ {n} : w[m] = zeta[m]
      BY <1>1, <1>2, WithCount
    <2> HIDE DEF w
    <2> QED BY <1>1, <1>2, <2>1, <2>2, WithStart
  <1>5. OwnStep
    BY <1>1, <1>2, <1>3, <1>4 DEF OwnStep, Aside
  <1>6. Return("gamma", Span(Delta, 0)) /\ Span(Delta, 0) \in SpanType
    BY <1>2, <1>3 DEF Gamma, Span, SpanType
  <1>7. /\ hist'[n].cursor = Delta /\ hist'[n].nam = nam /\ hist'[n].end = Delta /\ hist'[n].out = nam
    BY <1>1, <1>3, <1>6, ReturnHist
  <1>8. Rests(n, zeta', hist')
    BY <1>1, <1>2, <1>4, <1>7 DEF Rests, LeafFn
  <1>9. Span(Delta, 0) = Span(hist[n].cursor, Delta' - hist[n].cursor)
    BY <1>1, <1>2, <1>3
  <1> QED BY <1>1, <1>5, <1>6, <1>8, <1>9, ReturnKeeps

(* ARB, resumed: one character more, or failure beyond its start.              *)
LEMMA ArbBetaKeeps ==
  ASSUME StatementOK(stmt), Inv, ArbBeta, Aside
  PROVE  Inv'
  <1> DEFINE n == Me
             start == zeta[n].start
             count == NextCount(n)
  <1>1. /\ Running /\ n \in Box /\ Pat[n].fn = "arb"
        /\ Rests(n, zeta, hist) /\ Ahead(n, Delta, hist[n].end) /\ (CapturesKept => nam = hist[n].out)
    BY AtBeta, RunningFacts DEF ArbBeta
  <1>2. /\ Sigmalen \in Nat /\ Delta \in 0 .. Sigmalen /\ zeta \in [Box -> ZetaType] /\ zeta[n] \in ZetaType
        /\ nam \in Seq(EntryType) /\ nv \in [Vars -> ValueType]
        /\ hist[n].cursor \in 0 .. Sigmalen /\ hist[n].end \in 0 .. Sigmalen
    BY <1>1, RunningFacts
  <1>3. /\ start = hist[n].cursor /\ hist[n].cursor <= hist[n].end
        /\ CapturesKept => nam = hist[n].nam
    BY <1>1 DEF Rests, LeafFn
  <1>4. count \in Nat
    BY <1>2 DEF NextCount, ZetaType
  <1>5. n \notin Undisturbed
    BY <1>1, UndisturbedFacts DEF Strays
  <1>6. Set("count", count) /\ UNCHANGED <<nam, nv>>
    BY DEF ArbBeta
  <1>7. /\ zeta' \in [Box -> ZetaType] /\ \A m \in Box \ {n} : zeta'[m] = zeta[m]
        /\ zeta'[n].start = start
    BY <1>1, <1>2, <1>4, <1>6, SetCount
  <1> HIDE DEF start, count
  <1>8. CASE UNCHANGED Delta /\ OmegaExit
    <2>1. OwnStep
      BY <1>1, <1>2, <1>6, <1>7, <1>8 DEF OwnStep, Aside
    <2>2. Return("omega", Span(0, 0)) /\ Span(0, 0) \in SpanType
      BY <1>8 DEF OmegaExit, Span, SpanType
    <2>3. Ahead(n, Delta', hist[n].cursor)
      BY <1>1, <1>2, <1>3, <1>5, <1>8 DEF Ahead
    <2> QED BY <1>1, <1>3, <1>6, <2>1, <2>2, <2>3, ReturnKeeps
  <1>9. CASE InReach(start + count) /\ Delta' = start + count /\ Gamma(Span(start, count))
    <2>1. Delta' \in 0 .. Sigmalen /\ Delta' - hist[n].cursor = count /\ hist[n].cursor <= Delta'
      BY <1>2, <1>3, <1>4, <1>9 DEF InReach
    <2>2. OwnStep
      BY <1>1, <1>2, <1>6, <1>7, <2>1 DEF OwnStep, Aside
    <2>3. Return("gamma", Span(start, count)) /\ Span(start, count) \in SpanType
      BY <1>2, <1>3, <1>4, <1>9 DEF Gamma, Span, SpanType
    <2>4. /\ hist'[n].cursor = hist[n].cursor /\ hist'[n].nam = hist[n].nam
          /\ hist'[n].end = Delta' /\ hist'[n].out = nam
      BY <1>1, <1>6, <2>3, ReturnHist
    <2>5. Rests(n, zeta', hist')
      BY <1>1, <1>2, <1>3, <1>7, <2>1, <2>4 DEF Rests, LeafFn
    <2> QED BY <1>1, <1>3, <2>1, <2>2, <2>3, <2>5, ReturnKeeps
  <1> QED BY <1>8, <1>9 DEF ArbBeta, start, count

(* @ assigns the cursor and matches nothing.                                   *)
LEMMA AtpAlphaKeeps ==
  ASSUME StatementOK(stmt), Inv, AtpAlpha, Aside
  PROVE  Inv'
  <1> DEFINE n == Me
  <1>1. /\ Running /\ n \in Box /\ Pat[n].fn = "atp"
        /\ Delta = hist[n].cursor /\ nam = hist[n].nam
    BY AtAlpha, RunningFacts DEF AtpAlpha
  <1>2. /\ Sigmalen \in Nat /\ Delta \in 0 .. Sigmalen /\ zeta \in [Box -> ZetaType]
        /\ nam \in Seq(EntryType) /\ nv \in [Vars -> ValueType]
    BY <1>1, RunningFacts
  <1>3. nv' \in [Vars -> ValueType] /\ UNCHANGED <<Delta, zeta, nam>> /\ Gamma(Span(Delta, 0))
    <2>1. CursorAt(Delta) \in ValueType
      BY <1>2 DEF CursorAt, ValueType
    <2> QED BY <1>2, <2>1, Assigns DEF AtpAlpha
  <1>4. OwnStep
    BY <1>1, <1>2, <1>3 DEF OwnStep, Aside
  <1>5. Return("gamma", Span(Delta, 0)) /\ Span(Delta, 0) \in SpanType
    BY <1>2, <1>3 DEF Gamma, Span, SpanType
  <1>6. /\ hist'[n].cursor = Delta /\ hist'[n].nam = nam /\ hist'[n].end = Delta /\ hist'[n].out = nam
    BY <1>1, <1>3, <1>5, ReturnHist
  <1>7. Rests(n, zeta', hist')
    BY <1>1, <1>2, <1>6 DEF Rests, LeafFn
  <1>8. Span(Delta, 0) = Span(hist[n].cursor, Delta' - hist[n].cursor)
    BY <1>1, <1>2, <1>3
  <1> QED BY <1>1, <1>4, <1>5, <1>7, <1>8, ReturnKeeps

(* A box that has not moved the cursor fails as it was left: @var, and the     *)
(* boxes that ask their kid once.                                              *)
LEMMA StillFails ==
  ASSUME StatementOK(stmt), Inv, EnteredAt("beta", {"atp", "not", "interr"}),
         UNCHANGED <<Delta, zeta, nam, nv>>, OmegaExit, Aside
  PROVE  Inv'
  <1> DEFINE n == Me
  <1>1. /\ Running /\ n \in Box /\ Pat[n].fn \in {"atp", "not", "interr"}
        /\ Rests(n, zeta, hist) /\ Ahead(n, Delta, hist[n].end) /\ (CapturesKept => nam = hist[n].out)
    BY AtBeta, RunningFacts
  <1>2. /\ Sigmalen \in Nat /\ Delta \in 0 .. Sigmalen /\ zeta \in [Box -> ZetaType]
        /\ nam \in Seq(EntryType) /\ nv \in [Vars -> ValueType]
    BY <1>1, RunningFacts
  <1>3. /\ hist[n].end = hist[n].cursor
        /\ CapturesKept => nam = hist[n].nam
    BY <1>1 DEF Rests, LeafFn
  <1>4. OwnStep
    BY <1>1, <1>2 DEF OwnStep, Aside
  <1>5. Return("omega", Span(0, 0)) /\ Span(0, 0) \in SpanType
    BY DEF OmegaExit, Span, SpanType
  <1>6. Ahead(n, Delta', hist[n].cursor) /\ (CapturesKept => nam' = hist[n].nam)
    BY <1>1, <1>3
  <1> QED BY <1>1, <1>4, <1>5, <1>6, ReturnKeeps

(* What a call writes to the history.                                          *)
LEMMA CallHist ==
  ASSUME StatementOK(stmt), Running, NEW i \in DOMAIN Pat[Me].kids,
         NEW port \in {"alpha", "beta"}, NEW at, Call(i, port, at)
  PROVE  /\ Kid(Me, i) \in Box /\ Kid(Me, i) # Me
         /\ \A m \in Box \ {Kid(Me, i)} : hist'[m] = hist[m]
         /\ port = "alpha" => /\ hist'[Kid(Me, i)].cursor = Delta' /\ hist'[Kid(Me, i)].nam = nam'
                              /\ hist'[Kid(Me, i)].exit = "none"
         /\ port = "beta" => hist' = hist
  <1> DEFINE k == Kid(Me, i)
             fresh == [cursor |-> Delta', nam |-> nam', exit |-> "none", end |-> Delta', out |-> nam']
  <1>1. k \in Box /\ k # Me
    BY TreeFacts, PatternFacts DEF Running
  <1>2. hist' = IF port = "alpha" THEN [hist EXCEPT ![k] = fresh] ELSE hist
    BY DEF Call, Kid
  <1>3. hist \in [Box -> [cursor : Int, nam : Seq(EntryType), exit : {"none", "gamma", "omega"},
                          end : Int, out : Seq(EntryType)]]
    BY DEF Running, TypeOK
  <1>4. port = "alpha" => hist'[k] = fresh
    BY <1>1, <1>2, <1>3
  <1> QED BY <1>1, <1>2, <1>3, <1>4

(* A kid of the box that runs is not on the stack.                             *)
LEMMA KidRests ==
  ASSUME StatementOK(stmt), Running, NEW i \in DOMAIN Pat[Me].kids, hist[Kid(Me, i)].exit = "gamma"
  PROVE  Rests(Kid(Me, i), zeta, hist)
  <1> DEFINE k == Kid(Me, i)
  <1>1. k \in Box /\ Me < k /\ Me \in Nat /\ k \in Nat /\ Rest \in Seq(CallType)
    BY TreeFacts, PatternFacts DEF Running
  <1>2. ASSUME NEW j \in 1 .. Len(Rest) PROVE Rest[j].box # k
    <2>1. Rest[j].box \in Nat /\ Rest[j].box < Me
      BY <1>1, StackBoxes DEF Running, LeadsTo
    <2> QED BY <1>1, <2>1
  <1>3. k \notin Stacked(Rest) \cup {Me}
    BY <1>1, <1>2 DEF Stacked
  <1> QED BY <1>1, <1>3 DEF Running, AllRest

(* The kids of a concatenation.                                                *)
LEMMA SeqKids ==
  ASSUME StatementOK(stmt), Running, Pat[Me].fn = "seq"
  PROVE  /\ 1 \in DOMAIN Pat[Me].kids /\ 2 \in DOMAIN Pat[Me].kids
         /\ Kid(Me, 1) \in Box /\ Kid(Me, 2) \in Box
         /\ Kid(Me, 1) # Me /\ Kid(Me, 2) # Me /\ Kid(Me, 1) # Kid(Me, 2)
         /\ Kid(Me, 1) \in Undisturbed <=> Me \in Undisturbed
         /\ Kid(Me, 2) \in Undisturbed <=> Me \in Undisturbed
         /\ Me \in Dropped => Kid(Me, 1) \in Dropped /\ Kid(Me, 2) \in Dropped
  <1>1. Me \in Box
    BY DEF Running
  <1>2. 1 \in DOMAIN Pat[Me].kids /\ 2 \in DOMAIN Pat[Me].kids
    BY <1>1, KidCount
  <1>3. \A i \in {1, 2} : Kid(Me, i) \in Box /\ Kid(Me, i) # Me
    BY <1>1, <1>2, TreeFacts, PatternFacts
  <1>4. Kid(Me, 1) # Kid(Me, 2)
    BY <1>1, <1>2, TreeFacts
  <1> QED BY <1>1, <1>2, <1>3, <1>4, UndisturbedFacts, DroppedFacts

(* A concatenation, entered: its left kid starts where it does.                *)
LEMMA SeqAlphaKeeps ==
  ASSUME StatementOK(stmt), Inv, SeqAlpha, Aside
  PROVE  Inv'
  <1> DEFINE n == Me
             k == Kid(n, 1)
             c == [box |-> n, at |-> "left"]
  <1>1. /\ Running /\ n \in Box /\ Pat[n].fn = "seq"
        /\ Delta = hist[n].cursor /\ nam = hist[n].nam
    BY AtAlpha, RunningFacts DEF SeqAlpha
  <1>2. /\ Sigmalen \in Nat /\ Delta \in 0 .. Sigmalen /\ zeta \in [Box -> ZetaType]
        /\ nam \in Seq(EntryType) /\ nv \in [Vars -> ValueType]
    BY <1>1, RunningFacts
  <1>3. Set("matched", Span(Delta, 0)) /\ UNCHANGED <<Delta, nam, nv>> /\ Call(1, "alpha", "left")
    BY DEF SeqAlpha
  <1>4. Span(Delta, 0) \in SpanType
    BY <1>2 DEF Span, SpanType
  <1>5. zeta' \in [Box -> ZetaType] /\ \A m \in Box \ {n} : zeta'[m] = zeta[m]
    BY <1>1, <1>2, <1>3, <1>4, SetMatched
  <1>6. OwnStep
    BY <1>1, <1>2, <1>3, <1>5 DEF OwnStep, Aside
  <1>7. 1 \in DOMAIN Pat[n].kids
    BY <1>1, SeqKids
  <1>8. hist'[n] = hist[n] /\ hist'[k].cursor = Delta' /\ hist'[k].nam = nam'
    BY <1>1, <1>3, <1>7, CallHist
  <1>9. Waits(c, zeta', hist') /\ Awaited(c, zeta') = k
    BY <1>1, <1>3, <1>8 DEF Waits, SeqWaits, Handed, Awaited
  <1> QED BY <1>1, <1>3, <1>6, <1>7, <1>9, CallKeeps

(* A concatenation, resumed: its right kid is resumed where it succeeded.      *)
LEMMA SeqBetaKeeps ==
  ASSUME StatementOK(stmt), Inv, SeqBeta, Aside
  PROVE  Inv'
  <1> DEFINE n == Me
             c == [box |-> n, at |-> "right"]
  <1>1. /\ Running /\ n \in Box /\ Pat[n].fn = "seq"
        /\ Rests(n, zeta, hist) /\ Ahead(n, Delta, hist[n].end) /\ (CapturesKept => nam = hist[n].out)
    BY AtBeta, RunningFacts DEF SeqBeta
  <1>2. /\ Sigmalen \in Nat /\ Delta \in 0 .. Sigmalen /\ zeta \in [Box -> ZetaType]
        /\ nam \in Seq(EntryType) /\ nv \in [Vars -> ValueType]
    BY <1>1, RunningFacts
  <1>3. UNCHANGED <<Delta, zeta, nam, nv>> /\ Call(2, "beta", "right")
    BY DEF SeqBeta
  <1>4. OwnStep
    BY <1>1, <1>2, <1>3 DEF OwnStep, Aside
  <1>5. SeqRests(n, zeta, hist)
    BY <1>1 DEF Rests
  <1>6. 2 \in DOMAIN Pat[n].kids /\ (Kid(n, 2) \in Undisturbed <=> n \in Undisturbed)
    BY <1>1, SeqKids
  <1>7. hist' = hist
    BY <1>1, <1>3, <1>6, CallHist
  <1>8. Waits(c, zeta', hist') /\ Awaited(c, zeta') = Kid(n, 2)
    BY <1>1, <1>3, <1>5, <1>7 DEF Waits, SeqWaits, SeqRests, Awaited
  <1>9. /\ hist[Kid(n, 2)].exit = "gamma"
        /\ Ahead(Kid(n, 2), Delta', hist[Kid(n, 2)].end)
        /\ CapturesKept => nam' = hist[Kid(n, 2)].out
    BY <1>1, <1>3, <1>5, <1>6 DEF SeqRests, Relays, Ahead
  <1> QED BY <1>1, <1>3, <1>4, <1>6, <1>8, <1>9, CallKeeps

(* The left kid has succeeded: the right kid starts there.                     *)
LEMMA SeqLeftGammaKeeps ==
  ASSUME StatementOK(stmt), Inv, SeqLeftGamma, Aside
  PROVE  Inv'
  <1> DEFINE n == Me
             j == Kid(n, 1)
             k == Kid(n, 2)
             old == [box |-> n, at |-> "left"]
             c == [box |-> n, at |-> "right"]
  <1>1. /\ Running /\ n \in Box /\ Pat[n].fn = "seq"
        /\ ctl.box = Awaited(old, zeta) /\ Waits(old, zeta, hist)
        /\ hist[ctl.box].exit = "gamma" /\ Delta = hist[ctl.box].end /\ nam = hist[ctl.box].out
        /\ SpansKept => ctl.span = Extended(hist, ctl.box)
    BY AfterKid, RunningFacts DEF SeqLeftGamma
  <1>2. /\ Sigmalen \in Nat /\ Delta \in 0 .. Sigmalen /\ zeta \in [Box -> ZetaType]
        /\ nam \in Seq(EntryType) /\ nv \in [Vars -> ValueType] /\ ctl.span \in SpanType
    BY <1>1, RunningFacts
  <1>3. Set("matched", ctl.span) /\ UNCHANGED <<Delta, nam, nv>> /\ Call(2, "alpha", "right")
    BY DEF SeqLeftGamma, Replaced
  <1>4. ctl.box = j /\ Handed(hist, n, j)
    BY <1>1 DEF Awaited, Waits, SeqWaits
  <1>5. /\ zeta' \in [Box -> ZetaType] /\ \A m \in Box \ {n} : zeta'[m] = zeta[m]
        /\ zeta'[n].matched = ctl.span
    BY <1>1, <1>2, <1>3, SetMatched
  <1>6. OwnStep
    BY <1>1, <1>2, <1>3, <1>5 DEF OwnStep, Aside
  <1>7. 2 \in DOMAIN Pat[n].kids /\ j \in Box /\ j # k /\ j # n /\ k # n
    BY <1>1, SeqKids
  <1>8. hist'[n] = hist[n] /\ hist'[j] = hist[j] /\ hist'[k].cursor = Delta' /\ hist'[k].nam = nam'
    BY <1>1, <1>3, <1>7, CallHist
  <1>9. SeqWaits(c, zeta', hist')
    BY <1>1, <1>3, <1>4, <1>5, <1>8 DEF SeqWaits, Handed, Follows, Extended
  <1>10. Waits(c, zeta', hist') /\ Awaited(c, zeta') = k
    BY <1>1, <1>9 DEF Waits, Awaited
  <1> QED BY <1>1, <1>3, <1>6, <1>7, <1>10, CallKeeps

(* The left kid has failed: so does the concatenation, where it was entered.   *)
LEMMA SeqLeftOmegaKeeps ==
  ASSUME StatementOK(stmt), Inv, SeqLeftOmega, Aside
  PROVE  Inv'
  <1> DEFINE n == Me
             j == Kid(n, 1)
             old == [box |-> n, at |-> "left"]
  <1>1. /\ Running /\ n \in Box /\ Pat[n].fn = "seq"
        /\ ctl.box = Awaited(old, zeta) /\ Waits(old, zeta, hist)
        /\ Ahead(ctl.box, Delta, hist[ctl.box].cursor) /\ (CapturesKept => nam = hist[ctl.box].nam)
    BY AfterKid, RunningFacts DEF SeqLeftOmega
  <1>2. /\ Sigmalen \in Nat /\ Delta \in 0 .. Sigmalen /\ zeta \in [Box -> ZetaType]
        /\ nam \in Seq(EntryType) /\ nv \in [Vars -> ValueType]
    BY <1>1, RunningFacts
  <1>3. UNCHANGED <<Delta, zeta, nam, nv>> /\ Return("omega", Span(0, 0)) /\ Span(0, 0) \in SpanType
    BY DEF SeqLeftOmega, OmegaExit, Span, SpanType
  <1>4. ctl.box = j /\ Handed(hist, n, j) /\ (j \in Undisturbed <=> n \in Undisturbed)
    BY <1>1, SeqKids DEF Awaited, Waits, SeqWaits
  <1>5. OwnStep
    BY <1>1, <1>2, <1>3 DEF OwnStep, Aside
  <1>6. Ahead(n, Delta', hist[n].cursor) /\ (CapturesKept => nam' = hist[n].nam)
    BY <1>1, <1>3, <1>4 DEF Ahead, Handed
  <1> QED BY <1>1, <1>3, <1>5, <1>6, ReturnKeeps

(* The right kid has succeeded: the spans of both are one.                     *)
LEMMA SeqRightGammaKeeps ==
  ASSUME StatementOK(stmt), Inv, SeqRightGamma, Aside
  PROVE  Inv'
  <1> DEFINE n == Me
             j == Kid(n, 1)
             k == Kid(n, 2)
             old == [box |-> n, at |-> "right"]
             span == Span(zeta[n].matched.at, zeta[n].matched.len + ctl.span.len)
  <1>1. /\ Running /\ n \in Box /\ Pat[n].fn = "seq"
        /\ ctl.box = Awaited(old, zeta) /\ Waits(old, zeta, hist) /\ Rests(ctl.box, zeta, hist)
        /\ hist[ctl.box].exit = "gamma" /\ Delta = hist[ctl.box].end /\ nam = hist[ctl.box].out
        /\ SpansKept => ctl.span = Extended(hist, ctl.box)
    BY AfterKid, RunningFacts DEF SeqRightGamma
  <1>2. /\ Sigmalen \in Nat /\ Delta \in 0 .. Sigmalen /\ zeta \in [Box -> ZetaType] /\ zeta[n] \in ZetaType
        /\ nam \in Seq(EntryType) /\ nv \in [Vars -> ValueType] /\ ctl.span \in SpanType
    BY <1>1, RunningFacts
  <1>3. UNCHANGED <<Delta, zeta, nam, nv>> /\ Return("gamma", span)
    BY DEF SeqRightGamma, Gamma
  <1>4. ctl.box = k /\ SeqWaits(old, zeta, hist)
    BY <1>1 DEF Awaited, Waits
  <1>5. /\ Handed(hist, n, j) /\ hist[j].exit = "gamma" /\ Follows(hist, j, k)
        /\ SpansKept => zeta[n].matched = Extended(hist, j)
    BY <1>4 DEF SeqWaits
  <1>6. /\ 1 \in DOMAIN Pat[n].kids /\ j \in Box /\ k \in Box /\ j # n /\ k # n
        /\ n \in Dropped => j \in Dropped /\ k \in Dropped
    BY <1>1, SeqKids
  <1>7. Rests(j, zeta, hist) /\ Rests(k, zeta, hist)
    BY <1>1, <1>4, <1>5, <1>6, KidRests
  <1>8. /\ hist[n].cursor \in 0 .. Sigmalen /\ hist[j].cursor \in 0 .. Sigmalen /\ hist[j].end \in 0 .. Sigmalen
        /\ hist[k].cursor \in 0 .. Sigmalen /\ hist[k].end \in 0 .. Sigmalen
    BY <1>1, <1>6, RunningFacts
  <1>9. span \in SpanType
    <2>1. zeta[n].matched \in SpanType
      BY <1>2 DEF ZetaType
    <2>2. /\ zeta[n].matched.at \in Int /\ zeta[n].matched.len \in Nat
          /\ ctl.span.len \in Nat
      BY <1>2, <2>1 DEF SpanType
    <2>3. zeta[n].matched.len + ctl.span.len \in Nat
      BY <2>2
    <2> QED BY <2>2, <2>3 DEF Span, SpanType
  <1>10. OwnStep
    BY <1>1, <1>2, <1>3 DEF OwnStep, Aside
  <1>11. /\ hist'[n].cursor = hist[n].cursor /\ hist'[n].nam = hist[n].nam
         /\ hist'[n].end = Delta /\ hist'[n].out = nam /\ hist'[j] = hist[j] /\ hist'[k] = hist[k]
    BY <1>1, <1>3, <1>6, ReturnHist
  <1>12. SeqRests(n, zeta', hist')
    BY <1>1, <1>3, <1>4, <1>5, <1>11 DEF SeqRests, Handed, Follows, Relays, Extended
  <1>13. hist[n].cursor <= Delta
    BY <1>1, <1>4, <1>5, <1>7, <1>8 DEF Rests, Handed, Follows
  <1>14. CapturesKept /\ n \in Dropped => nam = hist[n].nam
    BY <1>1, <1>4, <1>5, <1>6, <1>7 DEF Rests, Handed, Follows
  <1>15. Rests(n, zeta', hist')
    BY <1>1, <1>11, <1>12, <1>13, <1>14 DEF Rests, LeafFn
  <1>16. SpansKept => span = Span(hist[n].cursor, Delta' - hist[n].cursor)
    <2> SUFFICES ASSUME SpansKept PROVE span = Span(hist[n].cursor, Delta' - hist[n].cursor)
      OBVIOUS
    <2>1. /\ zeta[n].matched.at = hist[j].cursor /\ zeta[n].matched.len = hist[j].end - hist[j].cursor
          /\ ctl.span.len = hist[k].end - hist[k].cursor
      BY <1>1, <1>4, <1>5 DEF Extended, Span
    <2>2. hist[j].cursor = hist[n].cursor /\ hist[k].cursor = hist[j].end /\ Delta' = hist[k].end
      BY <1>1, <1>3, <1>4, <1>5 DEF Handed, Follows
    <2>3. zeta[n].matched.len + ctl.span.len = Delta' - hist[n].cursor
      BY <1>8, <2>1, <2>2
    <2> QED BY <2>1, <2>2, <2>3
  <1> QED BY <1>1, <1>3, <1>9, <1>10, <1>15, <1>16, ReturnKeeps

(* The right kid has failed: the left kid is resumed where it succeeded.       *)
LEMMA SeqRightOmegaKeeps ==
  ASSUME StatementOK(stmt), Inv, SeqRightOmega, Aside
  PROVE  Inv'
  <1> DEFINE n == Me
             j == Kid(n, 1)
             k == Kid(n, 2)
             old == [box |-> n, at |-> "right"]
             c == [box |-> n, at |-> "left"]
  <1>1. /\ Running /\ n \in Box /\ Pat[n].fn = "seq"
        /\ ctl.box = Awaited(old, zeta) /\ Waits(old, zeta, hist)
        /\ Ahead(ctl.box, Delta, hist[ctl.box].cursor) /\ (CapturesKept => nam = hist[ctl.box].nam)
    BY AfterKid, RunningFacts DEF SeqRightOmega
  <1>2. /\ Sigmalen \in Nat /\ Delta \in 0 .. Sigmalen /\ zeta \in [Box -> ZetaType]
        /\ nam \in Seq(EntryType) /\ nv \in [Vars -> ValueType]
    BY <1>1, RunningFacts
  <1>3. UNCHANGED <<Delta, zeta, nam, nv>> /\ Call(1, "beta", "left")
    BY DEF SeqRightOmega
  <1>4. /\ ctl.box = k /\ Handed(hist, n, j) /\ hist[j].exit = "gamma" /\ Follows(hist, j, k)
    BY <1>1 DEF Awaited, Waits, SeqWaits
  <1>5. 1 \in DOMAIN Pat[n].kids /\ (j \in Undisturbed => k \in Undisturbed)
    BY <1>1, SeqKids
  <1>6. OwnStep
    BY <1>1, <1>2, <1>3 DEF OwnStep, Aside
  <1>7. hist' = hist
    BY <1>1, <1>3, <1>5, CallHist
  <1>8. Waits(c, zeta', hist') /\ Awaited(c, zeta') = j
    BY <1>1, <1>4, <1>7 DEF Waits, SeqWaits, Awaited
  <1>9. Ahead(j, Delta', hist[j].end) /\ (CapturesKept => nam' = hist[j].out)
    BY <1>1, <1>3, <1>4, <1>5 DEF Ahead, Follows
  <1> QED BY <1>1, <1>3, <1>4, <1>5, <1>6, <1>8, <1>9, CallKeeps

(* A kid of a box whose failure and success are its kid's.                     *)
LEMMA KidOfRunning ==
  ASSUME StatementOK(stmt), Running, NEW i \in DOMAIN Pat[Me].kids
  PROVE  /\ Kid(Me, i) \in Box /\ Kid(Me, i) # Me
         /\ Me \in Undisturbed => Kid(Me, i) \in Undisturbed
         /\ Pat[Me].fn \in {"alt", "cap"} => (Kid(Me, i) \in Undisturbed => Me \in Undisturbed)
         /\ Drops(Me) \/ Me \in Dropped => Kid(Me, i) \in Dropped
  <1>1. Me \in Box
    BY DEF Running
  <1>2. Kid(Me, i) \in Box /\ Kid(Me, i) # Me
    BY <1>1, TreeFacts, PatternFacts
  <1> QED BY <1>1, <1>2, UndisturbedFacts, DroppedFacts

(* An alternation, entered: its first kid starts where it does.                *)
LEMMA AltAlphaKeeps ==
  ASSUME StatementOK(stmt), Inv, AltAlpha, Aside
  PROVE  Inv'
  <1> DEFINE n == Me
             k == Kid(n, 1)
             c == [box |-> n, at |-> "alpha"]
  <1>1. /\ Running /\ n \in Box /\ Pat[n].fn = "alt"
        /\ Delta = hist[n].cursor /\ nam = hist[n].nam
    BY AtAlpha, RunningFacts DEF AltAlpha
  <1>2. /\ Sigmalen \in Nat /\ Delta \in 0 .. Sigmalen /\ zeta \in [Box -> ZetaType]
        /\ nam \in Seq(EntryType) /\ nv \in [Vars -> ValueType]
    BY <1>1, RunningFacts
  <1>3. /\ zeta' = [zeta EXCEPT ![n].start = Delta, ![n].current = 1]
        /\ UNCHANGED <<Delta, nam, nv>> /\ Call(1, "alpha", "alpha")
    BY DEF AltAlpha
  <1>4. /\ zeta' \in [Box -> ZetaType] /\ \A m \in Box \ {n} : zeta'[m] = zeta[m]
        /\ zeta'[n].start = Delta /\ zeta'[n].current = 1
    <2> DEFINE w == With(zeta, n, "start", Delta)
    <2>1. zeta' = With(w, n, "current", 1)
      BY <1>3 DEF With
    <2>2. w \in [Box -> ZetaType] /\ w[n].start = Delta /\ \A m \in Box \ {n} : w[m] = zeta[m]
      BY <1>1, <1>2, WithStart
    <2> HIDE DEF w
    <2> QED BY <1>1, <1>2, <2>1, <2>2, WithCurrent
  <1>5. OwnStep
    BY <1>1, <1>2, <1>3, <1>4 DEF OwnStep, Aside
  <1>6. 1 \in DOMAIN Pat[n].kids
    BY <1>1, KidCount
  <1>7. hist'[n] = hist[n] /\ hist'[k].cursor = Delta' /\ hist'[k].nam = nam'
    BY <1>1, <1>3, <1>6, CallHist
  <1>8. Waits(c, zeta', hist') /\ Awaited(c, zeta') = k
    BY <1>1, <1>3, <1>4, <1>6, <1>7 DEF Waits, AltWaits, Handed, Awaited
  <1> QED BY <1>1, <1>3, <1>5, <1>6, <1>8, CallKeeps

(* An alternation, resumed: the kid that has succeeded is.                     *)
LEMMA AltBetaKeeps ==
  ASSUME StatementOK(stmt), Inv, AltBeta, Aside
  PROVE  Inv'
  <1> DEFINE n == Me
             i == zeta[n].current
             c == [box |-> n, at |-> "beta"]
  <1>1. /\ Running /\ n \in Box /\ Pat[n].fn = "alt"
        /\ Rests(n, zeta, hist) /\ hist[n].exit = "gamma"
        /\ Ahead(n, Delta, hist[n].end) /\ (CapturesKept => nam = hist[n].out)
    BY AtBeta, RunningFacts DEF AltBeta
  <1>2. /\ Sigmalen \in Nat /\ Delta \in 0 .. Sigmalen /\ zeta \in [Box -> ZetaType]
        /\ nam \in Seq(EntryType) /\ nv \in [Vars -> ValueType]
    BY <1>1, RunningFacts
  <1>3. UNCHANGED <<Delta, zeta, nam, nv>> /\ Call(i, "beta", "beta")
    BY DEF AltBeta, CurrentKid
  <1>4. OwnStep
    BY <1>1, <1>2, <1>3 DEF OwnStep, Aside
  <1>5. AltRests(n, zeta, hist)
    BY <1>1 DEF Rests
  <1>6. i \in DOMAIN Pat[n].kids
    BY <1>5 DEF AltRests
  <1>7. hist' = hist /\ (Kid(n, i) \in Undisturbed => n \in Undisturbed)
    BY <1>1, <1>3, <1>6, CallHist, KidOfRunning
  <1>8. Waits(c, zeta', hist') /\ Awaited(c, zeta') = Kid(n, i)
    BY <1>1, <1>3, <1>5, <1>7 DEF Waits, AltWaits, AltRests, Awaited
  <1>9. /\ hist[Kid(n, i)].exit = "gamma"
        /\ Ahead(Kid(n, i), Delta', hist[Kid(n, i)].end)
        /\ CapturesKept => nam' = hist[Kid(n, i)].out
    BY <1>1, <1>3, <1>5, <1>7 DEF AltRests, Relays, Ahead
  <1> QED BY <1>1, <1>3, <1>4, <1>6, <1>8, <1>9, CallKeeps

(* An alternative has succeeded: it is the one to resume.                      *)
LEMMA AltGammaKeeps ==
  ASSUME StatementOK(stmt), Inv, AltGamma, Aside
  PROVE  Inv'
  <1> SUFFICES ASSUME NEW at \in {"alpha", "beta"}, BackAt("gamma", "alt", at)
               PROVE  Inv'
    BY DEF AltGamma
  <1> DEFINE n == Me
             i == zeta[n].current
             k == Kid(n, i)
             old == [box |-> n, at |-> at]
  <1>1. /\ Running /\ n \in Box /\ Pat[n].fn = "alt"
        /\ ctl.box = Awaited(old, zeta) /\ Waits(old, zeta, hist) /\ Rests(ctl.box, zeta, hist)
        /\ hist[ctl.box].exit = "gamma" /\ Delta = hist[ctl.box].end /\ nam = hist[ctl.box].out
        /\ SpansKept => ctl.span = Extended(hist, ctl.box)
    BY AfterKid, RunningFacts
  <1>2. /\ Sigmalen \in Nat /\ Delta \in 0 .. Sigmalen /\ zeta \in [Box -> ZetaType]
        /\ nam \in Seq(EntryType) /\ nv \in [Vars -> ValueType] /\ ctl.span \in SpanType
    BY <1>1, RunningFacts
  <1>3. UNCHANGED <<Delta, zeta, nam, nv>> /\ Return("gamma", ctl.span)
    BY DEF AltGamma, Gamma
  <1>4. /\ ctl.box = k /\ i \in DOMAIN Pat[n].kids
        /\ zeta[n].start = hist[n].cursor /\ Handed(hist, n, k)
    BY <1>1 DEF Awaited, Waits, AltWaits
  <1>5. k \in Box /\ k # n /\ (n \in Dropped => k \in Dropped)
    BY <1>1, <1>4, KidOfRunning
  <1>6. OwnStep
    BY <1>1, <1>2, <1>3 DEF OwnStep, Aside
  <1>7. /\ hist'[n].cursor = hist[n].cursor /\ hist'[n].nam = hist[n].nam
        /\ hist'[n].end = Delta /\ hist'[n].out = nam /\ hist'[k] = hist[k]
    BY <1>1, <1>3, <1>4, <1>5, ReturnHist
  <1>8. AltRests(n, zeta', hist')
    BY <1>1, <1>3, <1>4, <1>7 DEF AltRests, Handed, Relays
  <1>9. hist[n].cursor <= Delta /\ (CapturesKept /\ n \in Dropped => nam = hist[n].nam)
    BY <1>1, <1>4, <1>5 DEF Rests, Handed
  <1>10. Rests(n, zeta', hist')
    BY <1>1, <1>7, <1>8, <1>9 DEF Rests, LeafFn
  <1>11. SpansKept => ctl.span = Span(hist[n].cursor, Delta' - hist[n].cursor)
    BY <1>1, <1>3, <1>4 DEF Extended, Handed
  <1> QED BY <1>1, <1>2, <1>3, <1>6, <1>10, <1>11, ReturnKeeps

(* The alternative that was asked last has failed.                             *)
LEMMA AltKidFailed ==
  ASSUME StatementOK(stmt), Inv, NEW at \in {"alpha", "beta"}, BackAt("omega", "alt", at)
  PROVE  /\ Running /\ Me \in Box /\ Pat[Me].fn = "alt"
         /\ zeta[Me].current \in DOMAIN Pat[Me].kids /\ zeta[Me].start = hist[Me].cursor
         /\ Ahead(Me, Delta, hist[Me].cursor) /\ (CapturesKept => nam = hist[Me].nam)
  <1> DEFINE n == Me
             k == Kid(n, zeta[n].current)
             old == [box |-> n, at |-> at]
  <1>1. /\ Running /\ n \in Box /\ Pat[n].fn = "alt"
        /\ ctl.box = Awaited(old, zeta) /\ Waits(old, zeta, hist)
        /\ Ahead(ctl.box, Delta, hist[ctl.box].cursor) /\ (CapturesKept => nam = hist[ctl.box].nam)
    BY AfterKid, RunningFacts
  <1>2. /\ ctl.box = k /\ zeta[n].current \in DOMAIN Pat[n].kids
        /\ zeta[n].start = hist[n].cursor /\ Handed(hist, n, k)
    BY <1>1 DEF Awaited, Waits, AltWaits
  <1>3. n \in Undisturbed => k \in Undisturbed
    BY <1>1, <1>2, KidOfRunning
  <1> QED BY <1>1, <1>2, <1>3 DEF Ahead, Handed

(* An alternative has failed: the next one starts where the first did.         *)
LEMMA AltNextKeeps ==
  ASSUME StatementOK(stmt), Inv, AltNext, Aside
  PROVE  Inv'
  <1> DEFINE n == Me
             i == zeta[n].current
             c == [box |-> n, at |-> "alpha"]
  <1>1. /\ Running /\ n \in Box /\ Pat[n].fn = "alt"
        /\ i \in DOMAIN Pat[n].kids /\ zeta[n].start = hist[n].cursor
        /\ Ahead(n, Delta, hist[n].cursor) /\ (CapturesKept => nam = hist[n].nam)
    BY AltKidFailed DEF AltNext
  <1>2. /\ Sigmalen \in Nat /\ Delta \in 0 .. Sigmalen /\ zeta \in [Box -> ZetaType]
        /\ nam \in Seq(EntryType) /\ nv \in [Vars -> ValueType]
        /\ hist[n].cursor \in 0 .. Sigmalen
    BY <1>1, RunningFacts
  <1>3. Set("current", i + 1) /\ UNCHANGED <<nam, nv>>
    BY DEF AltNext
  <1>4. DOMAIN Pat[n].kids = 1 .. Len(Pat[n].kids) /\ Len(Pat[n].kids) \in Nat /\ i \in Nat
    BY <1>1, KidCount
  <1>5. /\ zeta' \in [Box -> ZetaType] /\ \A m \in Box \ {n} : zeta'[m] = zeta[m]
        /\ zeta'[n].current = i + 1 /\ zeta'[n].start = hist[n].cursor
    BY <1>1, <1>2, <1>3, <1>4, SetCurrent
  <1>6. CASE UNCHANGED Delta /\ OmegaExit
    <2>1. OwnStep
      BY <1>1, <1>2, <1>3, <1>5, <1>6 DEF OwnStep, Aside
    <2>2. Return("omega", Span(0, 0)) /\ Span(0, 0) \in SpanType
      BY <1>6 DEF OmegaExit, Span, SpanType
    <2> QED BY <1>1, <1>3, <1>6, <2>1, <2>2, ReturnKeeps
  <1>7. CASE i < Len(Pat[n].kids) /\ Delta' = zeta[n].start /\ Call(i + 1, "alpha", "alpha")
    <2>1. OwnStep
      BY <1>1, <1>2, <1>3, <1>5, <1>7 DEF OwnStep, Aside
    <2>2. i + 1 \in DOMAIN Pat[n].kids
      BY <1>4, <1>7
    <2>3. hist'[n] = hist[n] /\ hist'[Kid(n, i + 1)].cursor = Delta' /\ hist'[Kid(n, i + 1)].nam = nam'
      BY <1>1, <1>7, <2>2, CallHist
    <2>4. Waits(c, zeta', hist') /\ Awaited(c, zeta') = Kid(n, i + 1)
      BY <1>1, <1>3, <1>5, <1>7, <2>2, <2>3 DEF Waits, AltWaits, Handed, Awaited
    <2> QED BY <1>1, <1>7, <2>1, <2>2, <2>4, CallKeeps
  <1> QED BY <1>6, <1>7 DEF AltNext

(* The last alternative has failed.                                            *)
LEMMA AltOmegaKeeps ==
  ASSUME StatementOK(stmt), Inv, AltOmega, Aside
  PROVE  Inv'
  <1>1. Running /\ Ahead(Me, Delta, hist[Me].cursor) /\ (CapturesKept => nam = hist[Me].nam)
    BY AltKidFailed DEF AltOmega
  <1>2. /\ Sigmalen \in Nat /\ Delta \in 0 .. Sigmalen /\ zeta \in [Box -> ZetaType]
        /\ nam \in Seq(EntryType) /\ nv \in [Vars -> ValueType]
    BY <1>1, RunningFacts
  <1>3. UNCHANGED <<Delta, zeta, nam, nv>> /\ Return("omega", Span(0, 0)) /\ Span(0, 0) \in SpanType
    BY DEF AltOmega, OmegaExit, Span, SpanType
  <1>4. OwnStep
    BY <1>1, <1>2, <1>3 DEF OwnStep, Aside
  <1> QED BY <1>1, <1>3, <1>4, ReturnKeeps

FrameType == [matched : SpanType, start : Int]

(* What the unwinding of the frames leaves.                                    *)
LEMMA UnwoundFacts ==
  ASSUME NEW f \in Seq(FrameType), Len(f) > 1
  PROVE  /\ Unwound(f) \in Seq(FrameType) /\ Len(Unwound(f)) = Len(f) - 1
         /\ \A i \in 1 .. Len(f) - 1 : Unwound(f)[i] = f[i]
  BY SubSeqProperties DEF Unwound

(* The frames of an ARBNO while it is asked or may be resumed.                 *)
LEMMA FrameFacts ==
  ASSUME StatementOK(stmt), Running, FramesRise(Me, zeta, hist)
  PROVE  LET f == zeta[Me].frames
         IN /\ f \in Seq(FrameType) /\ Len(f) \in Nat /\ Len(f) >= 1 /\ Top(f) \in FrameType
            /\ \A i \in 1 .. Len(f) : /\ f[i] \in FrameType /\ f[i].start \in 0 .. Sigmalen
                                      /\ hist[Me].cursor <= f[i].start
  <1> DEFINE f == zeta[Me].frames
  <1>1. f \in Seq(FrameType)
    BY RunningFacts DEF ZetaType, FrameType
  <1>2. /\ f # <<>> /\ f[1].start = hist[Me].cursor
        /\ \A i \in 1 .. Len(f) : f[i].start \in 0 .. Sigmalen
        /\ \A i, j \in 1 .. Len(f) : i < j => f[i].start < f[j].start
    BY DEF FramesRise
  <1> HIDE DEF f
  <1>3. Len(f) \in Nat /\ Len(f) >= 1
    BY <1>1, <1>2, EmptySeq
  <1>4. \A i \in 1 .. Len(f) : f[i] \in FrameType
    BY <1>1
  <1>5. hist[Me].cursor \in Int /\ Sigmalen \in Nat
    BY RunningFacts DEF Running
  <1>6. ASSUME NEW i \in 1 .. Len(f) PROVE hist[Me].cursor <= f[i].start
    <2>1. CASE i = 1
      BY <1>2, <1>5, <2>1
    <2>2. CASE i # 1
      <3>1. 1 < i /\ 1 \in 1 .. Len(f)
        BY <1>3, <2>2
      <3>2. f[1].start < f[i].start /\ f[i].start \in Int
        BY <1>2, <1>5, <3>1
      <3> QED BY <1>2, <1>5, <3>2
    <2> QED BY <2>1, <2>2
  <1>7. Top(f) \in FrameType
    BY <1>3, <1>4 DEF Top
  <1> QED BY <1>1, <1>2, <1>3, <1>4, <1>6, <1>7 DEF f

(* ARBNO, entered: one frame, at the cursor.                                   *)
LEMMA ArbnoAlphaKeeps ==
  ASSUME StatementOK(stmt), Inv, ArbnoAlpha, Aside
  PROVE  Inv'
  <1> DEFINE n == Me
             k == Kid(n, 1)
             c == [box |-> n, at |-> "try"]
             first == <<Frame(Span(Delta, 0), Delta)>>
  <1>1. /\ Running /\ n \in Box /\ Pat[n].fn = "arbno"
        /\ Delta = hist[n].cursor /\ nam = hist[n].nam
    BY AtAlpha, RunningFacts DEF ArbnoAlpha
  <1>2. /\ Sigmalen \in Nat /\ Delta \in 0 .. Sigmalen /\ zeta \in [Box -> ZetaType]
        /\ nam \in Seq(EntryType) /\ nv \in [Vars -> ValueType]
    BY <1>1, RunningFacts
  <1>3. Set("frames", first) /\ UNCHANGED <<Delta, nam, nv>> /\ Call(1, "alpha", "try")
    BY DEF ArbnoAlpha
  <1>4. Frame(Span(Delta, 0), Delta) \in FrameType /\ Frame(Span(Delta, 0), Delta).start = Delta
    BY <1>2 DEF Frame, FrameType, Span, SpanType
  <1>5. first \in Seq(FrameType) /\ Len(first) = 1 /\ first[1].start = Delta /\ first # <<>>
    BY <1>4
  <1>6. /\ zeta' \in [Box -> ZetaType] /\ \A m \in Box \ {n} : zeta'[m] = zeta[m]
        /\ zeta'[n].frames = first
    BY <1>1, <1>2, <1>3, <1>5, SetFrames DEF FrameType
  <1>7. OwnStep
    BY <1>1, <1>2, <1>3, <1>6 DEF OwnStep, Aside
  <1>8. 1 \in DOMAIN Pat[n].kids
    BY <1>1, KidCount
  <1>9. hist'[n] = hist[n] /\ hist'[k].cursor = Delta' /\ hist'[k].nam = nam'
    BY <1>1, <1>3, <1>8, CallHist
  <1> HIDE DEF first
  <1>10. FramesRise(n, zeta', hist')
    <2>1. \A i \in 1 .. Len(first) : i = 1
      BY <1>5
    <2>2. \A i \in 1 .. Len(first) : first[i].start \in 0 .. Sigmalen
      BY <1>2, <1>5, <2>1
    <2>3. \A i, j \in 1 .. Len(first) : ~ i < j
      BY <2>1
    <2> QED BY <1>1, <1>5, <1>6, <1>9, <2>2, <2>3 DEF FramesRise
  <1>11. ArbnoWaits(c, zeta', hist')
    BY <1>1, <1>3, <1>5, <1>6, <1>9, <1>10 DEF ArbnoWaits, Top
  <1>12. Waits(c, zeta', hist') /\ Awaited(c, zeta') = k
    BY <1>1, <1>11 DEF Waits, Awaited
  <1> QED BY <1>1, <1>3, <1>7, <1>8, <1>12, CallKeeps

(* An ARBNO may succeed where its body left the cursor.                        *)
LEMMA ArbnoRests ==
  ASSUME StatementOK(stmt), Running, OwnStep, Pat[Me].fn = "arbno",
         NEW span, Return("gamma", span), FramesRise(Me, zeta', hist),
         Ahead(Kid(Me, 1), Delta', Top(zeta'[Me].frames).start),
         hist[Me].cursor <= Delta', CapturesKept => nam' = hist[Me].nam
  PROVE  Rests(Me, zeta', hist')
  <1>1. /\ hist'[Me].cursor = hist[Me].cursor /\ hist'[Me].nam = hist[Me].nam
        /\ hist'[Me].end = Delta' /\ hist'[Me].out = nam'
    BY ReturnHist
  <1>2. FramesRise(Me, zeta', hist')
    BY <1>1 DEF FramesRise
  <1> QED BY <1>1, <1>2 DEF Rests, LeafFn

(* ARBNO, resumed: the last frame is dropped and the cursor put to the one before. *)
LEMMA ArbnoBetaKeeps ==
  ASSUME StatementOK(stmt), Inv, ArbnoBeta, Aside
  PROVE  Inv'
  <1> DEFINE n == Me
             f == zeta[n].frames
             depth == Len(f) - 1
  <1>1. /\ Running /\ n \in Box /\ Pat[n].fn = "arbno"
        /\ Rests(n, zeta, hist) /\ Ahead(n, Delta, hist[n].end) /\ (CapturesKept => nam = hist[n].out)
    BY AtBeta, RunningFacts DEF ArbnoBeta
  <1>2. /\ Sigmalen \in Nat /\ Delta \in 0 .. Sigmalen /\ zeta \in [Box -> ZetaType]
        /\ nam \in Seq(EntryType) /\ nv \in [Vars -> ValueType]
        /\ hist[n].cursor \in 0 .. Sigmalen /\ hist[n].end \in 0 .. Sigmalen
    BY <1>1, RunningFacts
  <1>3. /\ FramesRise(n, zeta, hist) /\ hist[n].cursor <= hist[n].end
        /\ CapturesKept => nam = hist[n].nam
    BY <1>1 DEF Rests, LeafFn
  <1>4. n \notin Undisturbed
    BY <1>1, UndisturbedFacts DEF Strays
  <1>5. /\ f \in Seq(FrameType) /\ Len(f) \in Nat /\ Len(f) >= 1
        /\ \A i \in 1 .. Len(f) : f[i].start \in 0 .. Sigmalen /\ hist[n].cursor <= f[i].start
    BY <1>1, <1>3, FrameFacts
  <1>6. UNCHANGED <<nam, nv>> /\ Span(0, 0) \in SpanType
    BY DEF ArbnoBeta, Span, SpanType
  <1>7. CASE UNCHANGED <<Delta, zeta>> /\ OmegaExit
    <2>1. OwnStep
      BY <1>1, <1>2, <1>6, <1>7 DEF OwnStep, Aside
    <2>2. Ahead(n, Delta', hist[n].cursor) /\ Return("omega", Span(0, 0))
      BY <1>1, <1>2, <1>3, <1>4, <1>7 DEF Ahead, OmegaExit
    <2> QED BY <1>1, <1>3, <1>6, <2>1, <2>2, ReturnKeeps
  <1>8. CASE depth > 0 /\ Set("frames", Unwound(f)) /\ Delta' = f[depth].start
    <2>1. depth \in 1 .. Len(f) /\ Len(f) > 1
      BY <1>5, <1>8
    <2>2. /\ Unwound(f) \in Seq(FrameType) /\ Len(Unwound(f)) = depth
          /\ \A i \in 1 .. depth : Unwound(f)[i] = f[i]
      BY <1>5, <2>1, UnwoundFacts
    <2>3. /\ zeta' \in [Box -> ZetaType] /\ \A m \in Box \ {n} : zeta'[m] = zeta[m]
          /\ zeta'[n].frames = Unwound(f)
      BY <1>1, <1>2, <1>8, <2>2, SetFrames DEF FrameType
    <2>4. Delta' \in 0 .. Sigmalen /\ hist[n].cursor <= Delta'
      BY <1>5, <1>8, <2>1
    <2>5. OwnStep
      BY <1>1, <1>2, <1>6, <2>3, <2>4 DEF OwnStep, Aside
    <2>6. FramesRise(n, zeta', hist)
      <3>1. /\ f[1].start = hist[n].cursor
            /\ \A i, j \in 1 .. Len(f) : i < j => f[i].start < f[j].start
        BY <1>3 DEF FramesRise
      <3>2. \A i \in 1 .. depth : i \in 1 .. Len(f)
        BY <1>5
      <3>3. Unwound(f) # <<>> /\ 1 \in 1 .. depth
        BY <1>5, <2>1, <2>2
      <3> HIDE DEF f, depth
      <3> QED BY <1>5, <2>2, <2>3, <3>1, <3>2, <3>3 DEF FramesRise
    <2>7. Top(zeta'[n].frames).start = Delta'
      BY <1>5, <1>8, <2>1, <2>2, <2>3 DEF Top
    <2>8. CASE OmegaExit
      <3>1. Ahead(n, Delta', hist[n].cursor) /\ Return("omega", Span(0, 0))
        BY <1>4, <2>4, <2>8 DEF Ahead, OmegaExit
      <3> QED BY <1>1, <1>3, <1>6, <2>5, <3>1, ReturnKeeps
    <2>9. ASSUME NEW a \in 0 .. Sigmalen, NEW k \in 0 .. Sigmalen, Gamma(Span(a, k))
          PROVE  Inv'
      <3>1. Return("gamma", Span(a, k)) /\ Span(a, k) \in SpanType
        BY <1>2, <2>9 DEF Gamma, Span, SpanType
      <3>2. Ahead(Kid(n, 1), Delta', Top(zeta'[n].frames).start)
        BY <1>2, <2>4, <2>7 DEF Ahead
      <3>3. Rests(n, zeta', hist')
        BY <1>1, <1>3, <1>6, <2>4, <2>5, <2>6, <3>1, <3>2, ArbnoRests
      <3>4. ~ SpansKept
        BY <1>1 DEF SpansKept
      <3> QED BY <1>1, <2>5, <3>1, <3>3, <3>4, ReturnKeeps
    <2> QED BY <2>8, <2>9, <1>8 DEF ArbnoBeta
  <1> QED BY <1>7, <1>8 DEF ArbnoBeta

(* The body of an ARBNO has returned.                                          *)
LEMMA ArbnoBack ==
  ASSUME StatementOK(stmt), Inv, NEW port \in {"gamma", "omega"}, BackAt(port, "arbno", "try")
  PROVE  /\ Running /\ Me \in Box /\ Pat[Me].fn = "arbno" /\ 1 \in DOMAIN Pat[Me].kids
         /\ FramesRise(Me, zeta, hist)
         /\ Top(zeta[Me].frames).start <= Delta /\ hist[Me].cursor <= Delta
         /\ port = "omega" => Ahead(Kid(Me, 1), Delta, Top(zeta[Me].frames).start)
         /\ CapturesKept => nam = hist[Me].nam
         /\ ~ SpansKept
  <1> DEFINE n == Me
             k == Kid(n, 1)
             old == [box |-> n, at |-> "try"]
  <1>1. /\ Running /\ n \in Box /\ Pat[n].fn = "arbno"
        /\ ctl.box = Awaited(old, zeta) /\ Waits(old, zeta, hist)
        /\ port = "gamma" => /\ Rests(ctl.box, zeta, hist)
                             /\ Delta = hist[ctl.box].end /\ nam = hist[ctl.box].out
        /\ port = "omega" => /\ Ahead(ctl.box, Delta, hist[ctl.box].cursor)
                             /\ CapturesKept => nam = hist[ctl.box].nam
    BY AfterKid, RunningFacts
  <1>2. /\ ctl.box = k /\ FramesRise(n, zeta, hist)
        /\ hist[k].cursor = Top(zeta[n].frames).start /\ (CapturesKept => hist[k].nam = hist[n].nam)
    BY <1>1 DEF Awaited, Waits, ArbnoWaits
  <1>3. 1 \in DOMAIN Pat[n].kids
    BY <1>1, KidCount
  <1>4. k \in Dropped
    BY <1>1, <1>3, KidOfRunning DEF Drops
  <1>5. /\ hist[n].cursor <= Top(zeta[n].frames).start /\ Top(zeta[n].frames).start \in 0 .. Sigmalen
        /\ hist[n].cursor \in 0 .. Sigmalen /\ Delta \in 0 .. Sigmalen
    <2>1. hist[n].cursor \in 0 .. Sigmalen /\ Delta \in 0 .. Sigmalen /\ zeta[n] \in ZetaType
      BY <1>1, RunningFacts
    <2>2. /\ hist[n].cursor <= Top(zeta[n].frames).start
          /\ Top(zeta[n].frames).start \in 0 .. Sigmalen
      BY <1>1, <1>2, <2>1, FrameFacts DEF Top
    <2> QED BY <2>1, <2>2
  <1>6. Top(zeta[n].frames).start <= Delta
    BY <1>1, <1>2 DEF Rests, Ahead
  <1>7. CapturesKept => nam = hist[n].nam
    BY <1>1, <1>2, <1>4 DEF Rests
  <1>8. ~ SpansKept
    BY <1>1 DEF SpansKept
  <1>9. hist[n].cursor <= Delta
    BY <1>5, <1>6
  <1> QED BY <1>1, <1>2, <1>3, <1>6, <1>7, <1>8, <1>9

(* Both successes of an ARBNO whose body has returned: it stalls, or fails.     *)
LEMMA ArbnoSucceeds ==
  ASSUME StatementOK(stmt), Inv, NEW port \in {"gamma", "omega"}, BackAt(port, "arbno", "try"),
         port = "gamma" => Delta = Top(zeta[Me].frames).start,
         UNCHANGED <<Delta, zeta, nam, nv>>, Gamma(Top(zeta[Me].frames).matched), Aside
  PROVE  Inv'
  <1> DEFINE n == Me
  <1>1. /\ Running /\ n \in Box /\ Pat[n].fn = "arbno" /\ FramesRise(n, zeta, hist)
        /\ hist[n].cursor <= Delta /\ (CapturesKept => nam = hist[n].nam) /\ ~ SpansKept
        /\ port = "omega" => Ahead(Kid(n, 1), Delta, Top(zeta[n].frames).start)
    BY ArbnoBack
  <1>2. /\ Sigmalen \in Nat /\ Delta \in 0 .. Sigmalen /\ zeta \in [Box -> ZetaType]
        /\ nam \in Seq(EntryType) /\ nv \in [Vars -> ValueType]
    BY <1>1, RunningFacts
  <1>3. OwnStep
    BY <1>1, <1>2 DEF OwnStep, Aside
  <1>4. Top(zeta[n].frames).matched \in SpanType
    BY <1>1, FrameFacts DEF FrameType
  <1>5. Return("gamma", Top(zeta[n].frames).matched)
    BY DEF Gamma
  <1>6. Ahead(Kid(n, 1), Delta', Top(zeta'[n].frames).start)
    BY <1>1, <1>2 DEF Ahead
  <1>7. FramesRise(n, zeta', hist)
    BY <1>1
  <1>8. Rests(n, zeta', hist')
    BY <1>1, <1>3, <1>5, <1>6, <1>7, ArbnoRests
  <1> QED BY <1>1, <1>3, <1>4, <1>5, <1>8, ReturnKeeps

(* The body of an ARBNO has matched nothing: no frame is added.                *)
LEMMA ArbnoStallKeeps ==
  ASSUME StatementOK(stmt), Inv, ArbnoStall, Aside
  PROVE  Inv'
  BY ArbnoSucceeds DEF ArbnoStall

(* The body of an ARBNO has failed: the repetitions before it are the match.   *)
LEMMA ArbnoOmegaKeeps ==
  ASSUME StatementOK(stmt), Inv, ArbnoOmega, Aside
  PROVE  Inv'
  BY ArbnoSucceeds DEF ArbnoOmega

(* The body of an ARBNO has succeeded: a frame is added, and it is asked again. *)
LEMMA ArbnoRepeatKeeps ==
  ASSUME StatementOK(stmt), Inv, ArbnoRepeat, Aside
  PROVE  Inv'
  <1> DEFINE n == Me
             k == Kid(n, 1)
             c == [box |-> n, at |-> "try"]
             f == zeta[n].frames
             next == NextFrame(n, ctl.span)
             g == Append(f, next)
  <1>1. /\ Running /\ n \in Box /\ Pat[n].fn = "arbno" /\ 1 \in DOMAIN Pat[n].kids
        /\ FramesRise(n, zeta, hist) /\ Top(f).start <= Delta /\ (CapturesKept => nam = hist[n].nam)
    BY ArbnoBack DEF ArbnoRepeat
  <1>2. /\ Sigmalen \in Nat /\ Delta \in 0 .. Sigmalen /\ zeta \in [Box -> ZetaType]
        /\ nam \in Seq(EntryType) /\ nv \in [Vars -> ValueType] /\ ctl.span \in SpanType
    BY <1>1, RunningFacts
  <1>3. /\ Set("frames", g) /\ UNCHANGED <<Delta, nam, nv>> /\ Call(1, "alpha", "try")
        /\ Delta # Top(f).start
    BY DEF ArbnoRepeat
  <1>4. /\ f \in Seq(FrameType) /\ Len(f) \in Nat /\ Len(f) >= 1 /\ Top(f) \in FrameType
        /\ \A i \in 1 .. Len(f) : f[i].start \in 0 .. Sigmalen
    BY <1>1, FrameFacts
  <1>5. next \in FrameType /\ next.start = Delta
    BY <1>2, <1>4 DEF NextFrame, Frame, FrameType, Span, SpanType
  <1> HIDE DEF next
  <1>6. /\ g \in Seq(FrameType) /\ Len(g) = Len(f) + 1 /\ g[Len(f) + 1] = next
        /\ \A i \in 1 .. Len(f) : g[i] = f[i]
    BY <1>4, <1>5, AppendProperties
  <1>7. /\ zeta' \in [Box -> ZetaType] /\ \A m \in Box \ {n} : zeta'[m] = zeta[m]
        /\ zeta'[n].frames = g
    BY <1>1, <1>2, <1>3, <1>6, SetFrames DEF FrameType
  <1>8. OwnStep
    BY <1>1, <1>2, <1>3, <1>7 DEF OwnStep, Aside
  <1>9. hist'[n] = hist[n] /\ hist'[k].cursor = Delta' /\ hist'[k].nam = nam'
    BY <1>1, <1>3, CallHist
  <1>10. FramesRise(n, zeta', hist')
    <2>1. /\ f[1].start = hist[n].cursor
          /\ \A i, j \in 1 .. Len(f) : i < j => f[i].start < f[j].start
      BY <1>1 DEF FramesRise
    <2>2. f[Len(f)].start < Delta /\ f[Len(f)].start \in Int
      BY <1>1, <1>2, <1>3, <1>4 DEF Top
    <2> HIDE DEF f, g
    <2>3. \A i \in 1 .. Len(f) : f[i].start < Delta
      BY <1>2, <1>4, <2>1, <2>2
    <2>4. \A i \in 1 .. Len(g) : i \in 1 .. Len(f) \/ i = Len(f) + 1
      BY <1>4, <1>6
    <2>5. \A i \in 1 .. Len(g) : g[i].start \in 0 .. Sigmalen
      BY <1>2, <1>4, <1>5, <1>6, <2>4
    <2>6. ASSUME NEW i \in 1 .. Len(g), NEW j \in 1 .. Len(g), i < j
          PROVE  g[i].start < g[j].start
      <3>1. i \in 1 .. Len(f) /\ g[i] = f[i]
        BY <1>4, <1>6, <2>6
      <3>2. CASE j = Len(f) + 1
        BY <1>5, <1>6, <2>3, <3>1, <3>2
      <3>3. CASE j \in 1 .. Len(f)
        BY <1>6, <2>1, <2>6, <3>1, <3>3
      <3> QED BY <2>4, <3>2, <3>3
    <2>7. g # <<>> /\ g[1].start = hist[n].cursor
      BY <1>4, <1>6, <2>1
    <2> QED BY <1>7, <1>9, <2>5, <2>6, <2>7 DEF FramesRise
  <1>11. ArbnoWaits(c, zeta', hist')
    BY <1>1, <1>3, <1>5, <1>6, <1>7, <1>9, <1>10 DEF ArbnoWaits, Top
  <1>12. Waits(c, zeta', hist') /\ Awaited(c, zeta') = k
    BY <1>1, <1>11 DEF Waits, Awaited
  <1> QED BY <1>1, <1>3, <1>8, <1>12, CallKeeps

(* NOT and INTERR, entered: they ask their kid.                                *)
LEMMA AskAlphaKeeps ==
  ASSUME StatementOK(stmt), Inv, AskAlpha, Aside
  PROVE  Inv'
  <1> DEFINE n == Me
             k == Kid(n, 1)
             c == [box |-> n, at |-> "ask"]
  <1>1. /\ Running /\ n \in Box /\ Pat[n].fn \in {"not", "interr"}
        /\ Delta = hist[n].cursor /\ nam = hist[n].nam
    BY AtAlpha, RunningFacts DEF AskAlpha
  <1>2. /\ Sigmalen \in Nat /\ Delta \in 0 .. Sigmalen /\ zeta \in [Box -> ZetaType]
        /\ nam \in Seq(EntryType) /\ nv \in [Vars -> ValueType]
    BY <1>1, RunningFacts
  <1>3. Set("start", Delta) /\ UNCHANGED <<Delta, nam, nv>> /\ Call(1, "alpha", "ask")
    BY DEF AskAlpha
  <1>4. /\ zeta' \in [Box -> ZetaType] /\ \A m \in Box \ {n} : zeta'[m] = zeta[m]
        /\ zeta'[n].start = Delta
    BY <1>1, <1>2, <1>3, SetStart
  <1>5. OwnStep
    BY <1>1, <1>2, <1>3, <1>4 DEF OwnStep, Aside
  <1>6. 1 \in DOMAIN Pat[n].kids
    BY <1>1, KidCount
  <1>7. hist'[n] = hist[n] /\ hist'[k].cursor = Delta' /\ hist'[k].nam = nam'
    BY <1>1, <1>3, <1>6, CallHist
  <1>8. Waits(c, zeta', hist') /\ Awaited(c, zeta') = k
    BY <1>1, <1>3, <1>4, <1>7 DEF Waits, AskWaits, Handed, Awaited
  <1> QED BY <1>1, <1>3, <1>5, <1>6, <1>8, CallKeeps

(* The kid of a box that asks it has answered.                                 *)
LEMMA Answered ==
  ASSUME StatementOK(stmt), Inv, NEW port \in {"gamma", "omega"}, NEW fn \in {"not", "interr"},
         BackAt(port, fn, "ask")
  PROVE  /\ Running /\ Me \in Box /\ Pat[Me].fn = fn
         /\ zeta[Me].start = hist[Me].cursor /\ hist[Me].cursor <= Delta
         /\ port = "omega" => Ahead(Me, Delta, hist[Me].cursor)
         /\ CapturesKept => nam = hist[Me].nam
  <1> DEFINE n == Me
             k == Kid(n, 1)
             old == [box |-> n, at |-> "ask"]
  <1>1. /\ Running /\ n \in Box /\ Pat[n].fn = fn
        /\ ctl.box = Awaited(old, zeta) /\ Waits(old, zeta, hist)
        /\ port = "gamma" => /\ Rests(ctl.box, zeta, hist)
                             /\ Delta = hist[ctl.box].end /\ nam = hist[ctl.box].out
        /\ port = "omega" => /\ Ahead(ctl.box, Delta, hist[ctl.box].cursor)
                             /\ CapturesKept => nam = hist[ctl.box].nam
    BY AfterKid, RunningFacts
  <1>2. ctl.box = k /\ zeta[n].start = hist[n].cursor /\ Handed(hist, n, k)
    BY <1>1 DEF Awaited, Waits, AskWaits
  <1>3. 1 \in DOMAIN Pat[n].kids
    BY <1>1, KidCount
  <1>4. k \in Dropped /\ (n \in Undisturbed => k \in Undisturbed)
    BY <1>1, <1>3, KidOfRunning DEF Drops
  <1>5. CASE port = "gamma"
    BY <1>1, <1>2, <1>4, <1>5 DEF Rests, Handed
  <1>6. CASE port = "omega"
    BY <1>1, <1>2, <1>4, <1>6 DEF Ahead, Handed
  <1> QED BY <1>1, <1>2, <1>5, <1>6

(* NOT and INTERR put the cursor back, whatever the kid has answered.          *)
LEMMA AskBackKeeps ==
  ASSUME StatementOK(stmt), Inv, Aside,
         NEW fn, NEW port, (fn = "not" /\ port = "omega") \/ (fn = "interr" /\ port = "gamma"),
         AskBack(fn, port)
  PROVE  Inv'
  <1> DEFINE n == Me
  <1>1. CASE BackAt(port, fn, "ask") /\ Delta' = Asked(n) /\ Gamma(Span(Delta', 0))
    <2>1. /\ Running /\ n \in Box /\ Pat[n].fn = fn
          /\ zeta[n].start = hist[n].cursor /\ (CapturesKept => nam = hist[n].nam)
      BY <1>1, Answered
    <2>2. /\ Sigmalen \in Nat /\ zeta \in [Box -> ZetaType] /\ hist[n].cursor \in 0 .. Sigmalen
          /\ nam \in Seq(EntryType) /\ nv \in [Vars -> ValueType]
      BY <2>1, RunningFacts
    <2>3. UNCHANGED <<zeta, nam, nv>> /\ Delta' = hist[n].cursor
      BY <1>1, <2>1 DEF AskBack, Asked
    <2>4. OwnStep
      BY <2>1, <2>2, <2>3 DEF OwnStep, Aside
    <2>5. Return("gamma", Span(Delta', 0)) /\ Span(Delta', 0) \in SpanType
      BY <1>1, <2>2, <2>3 DEF Gamma, Span, SpanType
    <2>6. /\ hist'[n].cursor = hist[n].cursor /\ hist'[n].nam = hist[n].nam
          /\ hist'[n].end = Delta' /\ hist'[n].out = nam'
      BY <2>1, <2>5, ReturnHist
    <2>7. Rests(n, zeta', hist')
      BY <2>1, <2>2, <2>3, <2>6 DEF Rests, LeafFn
    <2>8. Span(Delta', 0) = Span(hist[n].cursor, Delta' - hist[n].cursor)
      BY <2>2, <2>3
    <2> QED BY <2>1, <2>4, <2>5, <2>7, <2>8, ReturnKeeps
  <1>2. ASSUME NEW other \in {"gamma", "omega"} \ {port}, BackAt(other, fn, "ask"), UNCHANGED Delta, OmegaExit
        PROVE  Inv'
    <2>1. /\ Running /\ n \in Box /\ Pat[n].fn = fn /\ hist[n].cursor <= Delta
          /\ other = "omega" => Ahead(n, Delta, hist[n].cursor)
          /\ CapturesKept => nam = hist[n].nam
      BY <1>2, Answered
    <2>2. /\ Sigmalen \in Nat /\ Delta \in 0 .. Sigmalen /\ zeta \in [Box -> ZetaType]
          /\ nam \in Seq(EntryType) /\ nv \in [Vars -> ValueType]
      BY <2>1, RunningFacts
    <2>3. UNCHANGED <<zeta, nam, nv>>
      BY DEF AskBack
    <2>4. OwnStep
      BY <1>2, <2>1, <2>2, <2>3 DEF OwnStep, Aside
    <2>5. Return("omega", Span(0, 0)) /\ Span(0, 0) \in SpanType
      BY <1>2 DEF OmegaExit, Span, SpanType
    <2>6. n \notin Undisturbed \/ other = "omega"
      BY <2>1, UndisturbedFacts DEF Strays
    <2>7. Ahead(n, Delta', hist[n].cursor)
      BY <1>2, <2>1, <2>6 DEF Ahead
    <2> QED BY <2>1, <2>3, <2>4, <2>5, <2>7, ReturnKeeps
  <1> QED BY <1>1, <1>2 DEF AskBack

-----------------------------------------------------------------------------
(* Captures *)

(* The types of a list that is popped.                                         *)
LEMMA PopType ==
  ASSUME nam \in Seq(EntryType)
  PROVE  NAME_pop(nam) \in Seq(EntryType)
  <1>1. CASE nam = <<>>
    BY <1>1 DEF NAME_pop
  <1>2. CASE nam # <<>>
    <2>1. Len(nam) \in Nat /\ Len(nam) >= 1
      BY <1>2, EmptySeq
    <2>2. SubSeq(nam, 1, Len(nam) - 1) \in Seq(EntryType)
      BY <2>1, SubSeqProperties
    <2> QED BY <1>2, <2>2 DEF NAME_pop
  <1> QED BY <1>1, <1>2

(* A push adds the entry of the capture, and a pop takes it away again.        *)
LEMMA PushFacts ==
  ASSUME nam \in Seq(EntryType), NEW e \in EntryType
  PROVE  LET l == NAME_push(nam, e)
         IN /\ l \in Seq(EntryType) /\ l # <<>> /\ l[Len(l)] = e /\ NAME_pop(l) = nam
  <1> DEFINE l == NAME_push(nam, e)
  <1>1. l = Append(nam, e)
    BY DEF NAME_push
  <1>2. /\ l \in Seq(EntryType) /\ l # <<>> /\ Len(l) = Len(nam) + 1 /\ l[Len(l)] = e
        /\ Len(nam) \in Nat /\ \A i \in 1 .. Len(nam) : l[i] = nam[i]
    BY <1>1, AppendProperties
  <1>3. NAME_pop(l) = SubSeq(l, 1, Len(nam))
    BY <1>2 DEF NAME_pop
  <1>4. SubSeq(l, 1, Len(nam)) = nam
    <2>1. /\ SubSeq(l, 1, Len(nam)) \in Seq(EntryType) /\ Len(SubSeq(l, 1, Len(nam))) = Len(nam)
          /\ \A i \in 1 .. Len(nam) : SubSeq(l, 1, Len(nam))[i] = l[i]
      BY <1>2, SubSeqProperties
    <2> QED BY <1>2, <2>1, SeqEqual
  <1> QED BY <1>2, <1>3, <1>4

(* What a capture leaves of its push: nothing.                                 *)
LEMMA Dropping ==
  ASSUME StatementOK(stmt), Running, DropPending
  PROVE  /\ zeta' \in [Box -> ZetaType] /\ \A m \in Box \ {Me} : zeta'[m] = zeta[m]
         /\ nam' \in Seq(EntryType)
         /\ ~ Pat[Me].immediate => ~ zeta'[Me].pending
         /\ ~ Pat[Me].immediate /\ zeta[Me].pending => nam' = NAME_pop(nam)
         /\ Pat[Me].immediate \/ ~ zeta[Me].pending => nam' = nam
  <1>1. /\ Me \in Box /\ zeta \in [Box -> ZetaType] /\ nam \in Seq(EntryType)
    BY RunningFacts
  <1>2. CASE ~ Pat[Me].immediate /\ zeta[Me].pending /\ nam' = NAME_pop(nam) /\ Set("pending", FALSE)
    <2>1. /\ zeta' \in [Box -> ZetaType] /\ \A m \in Box \ {Me} : zeta'[m] = zeta[m]
          /\ zeta'[Me].pending = FALSE
      BY <1>1, <1>2, SetPending
    <2> QED BY <1>1, <1>2, <2>1, PopType
  <1>3. CASE (Pat[Me].immediate \/ ~ zeta[Me].pending) /\ UNCHANGED <<nam, zeta>>
    BY <1>1, <1>3
  <1> QED BY <1>2, <1>3 DEF DropPending

(* A capture, entered: its child starts where it does.                         *)
LEMMA CapAlphaKeeps ==
  ASSUME StatementOK(stmt), Inv, CapAlpha, Aside
  PROVE  Inv'
  <1> DEFINE n == Me
             k == Kid(n, 1)
             c == [box |-> n, at |-> "child"]
  <1>1. /\ Running /\ n \in Box /\ Pat[n].fn = "cap"
        /\ Delta = hist[n].cursor /\ nam = hist[n].nam
    BY AtAlpha, RunningFacts DEF CapAlpha
  <1>2. /\ Sigmalen \in Nat /\ Delta \in 0 .. Sigmalen /\ zeta \in [Box -> ZetaType]
        /\ nam \in Seq(EntryType) /\ nv \in [Vars -> ValueType]
    BY <1>1, RunningFacts
  <1>3. Set("pending", FALSE) /\ UNCHANGED <<Delta, nam, nv>> /\ Call(1, "alpha", "child")
    BY DEF CapAlpha
  <1>4. /\ zeta' \in [Box -> ZetaType] /\ \A m \in Box \ {n} : zeta'[m] = zeta[m]
        /\ zeta'[n].pending = FALSE
    BY <1>1, <1>2, <1>3, SetPending
  <1>5. OwnStep
    BY <1>1, <1>2, <1>3, <1>4 DEF OwnStep, Aside
  <1>6. 1 \in DOMAIN Pat[n].kids
    BY <1>1, KidCount
  <1>7. hist'[n] = hist[n] /\ hist'[k].cursor = Delta' /\ hist'[k].nam = nam'
    BY <1>1, <1>3, <1>6, CallHist
  <1>8. Waits(c, zeta', hist') /\ Awaited(c, zeta') = k
    BY <1>1, <1>3, <1>4, <1>7 DEF Waits, CapWaits, Handed, Awaited
  <1> QED BY <1>1, <1>3, <1>5, <1>6, <1>8, CallKeeps

(* A capture, resumed: its entry is popped and its child resumed.              *)
LEMMA CapBetaKeeps ==
  ASSUME StatementOK(stmt), Inv, CapBeta, Aside
  PROVE  Inv'
  <1> DEFINE n == Me
             k == Kid(n, 1)
             c == [box |-> n, at |-> "child"]
  <1>1. /\ Running /\ n \in Box /\ Pat[n].fn = "cap"
        /\ Rests(n, zeta, hist) /\ hist[n].exit = "gamma"
        /\ Ahead(n, Delta, hist[n].end) /\ (CapturesKept => nam = hist[n].out)
    BY AtBeta, RunningFacts DEF CapBeta
  <1>2. /\ Sigmalen \in Nat /\ Delta \in 0 .. Sigmalen /\ nv \in [Vars -> ValueType]
    BY <1>1, RunningFacts
  <1>3. DropPending /\ UNCHANGED <<Delta, nv>> /\ Call(1, "beta", "child")
    BY DEF CapBeta
  <1>4. /\ zeta' \in [Box -> ZetaType] /\ \A m \in Box \ {n} : zeta'[m] = zeta[m]
        /\ nam' \in Seq(EntryType) /\ (~ Pat[n].immediate => ~ zeta'[n].pending)
        /\ ~ Pat[n].immediate /\ zeta[n].pending => nam' = NAME_pop(nam)
        /\ Pat[n].immediate \/ ~ zeta[n].pending => nam' = nam
    BY <1>1, <1>3, Dropping
  <1>5. OwnStep
    BY <1>1, <1>2, <1>3, <1>4 DEF OwnStep, Aside
  <1>6. CapRests(n, zeta, hist)
    BY <1>1 DEF Rests
  <1>7. 1 \in DOMAIN Pat[n].kids
    BY <1>1, KidCount
  <1>8. hist' = hist /\ (k \in Undisturbed => n \in Undisturbed)
    BY <1>1, <1>3, <1>7, CallHist, KidOfRunning
  <1>9. Waits(c, zeta', hist') /\ Awaited(c, zeta') = k
    BY <1>1, <1>4, <1>6, <1>8 DEF Waits, CapWaits, CapRests, Awaited
  <1>10. hist[k].exit = "gamma" /\ Ahead(k, Delta', hist[k].end)
    BY <1>1, <1>3, <1>6, <1>8 DEF CapRests, Relays, Ahead
  <1>11. CapturesKept => nam' = hist[k].out
    BY <1>1, <1>4, <1>6 DEF CapRests
  <1> QED BY <1>1, <1>3, <1>5, <1>7, <1>9, <1>10, <1>11, CallKeeps

(* The child of a capture has failed: so does the capture, and its entry goes. *)
LEMMA CapOmegaKeeps ==
  ASSUME StatementOK(stmt), Inv, CapOmega, Aside
  PROVE  Inv'
  <1> DEFINE n == Me
             k == Kid(n, 1)
             old == [box |-> n, at |-> "child"]
  <1>1. /\ Running /\ n \in Box /\ Pat[n].fn = "cap"
        /\ ctl.box = Awaited(old, zeta) /\ Waits(old, zeta, hist)
        /\ Ahead(ctl.box, Delta, hist[ctl.box].cursor) /\ (CapturesKept => nam = hist[ctl.box].nam)
    BY AfterKid, RunningFacts DEF CapOmega
  <1>2. /\ Sigmalen \in Nat /\ Delta \in 0 .. Sigmalen /\ nv \in [Vars -> ValueType]
    BY <1>1, RunningFacts
  <1>3. DropPending /\ UNCHANGED <<Delta, nv>> /\ Return("omega", Span(0, 0)) /\ Span(0, 0) \in SpanType
    BY DEF CapOmega, OmegaExit, Span, SpanType
  <1>4. ctl.box = k /\ Handed(hist, n, k) /\ (~ Pat[n].immediate => ~ zeta[n].pending)
    BY <1>1 DEF Awaited, Waits, CapWaits
  <1>5. /\ zeta' \in [Box -> ZetaType] /\ \A m \in Box \ {n} : zeta'[m] = zeta[m]
        /\ nam' \in Seq(EntryType) /\ nam' = nam
    BY <1>1, <1>3, <1>4, Dropping
  <1>6. OwnStep
    BY <1>1, <1>2, <1>3, <1>5 DEF OwnStep, Aside
  <1>7. 1 \in DOMAIN Pat[n].kids
    BY <1>1, KidCount
  <1>8. n \in Undisturbed => k \in Undisturbed
    BY <1>1, <1>7, KidOfRunning
  <1>9. Ahead(n, Delta', hist[n].cursor) /\ (CapturesKept => nam' = hist[n].nam)
    BY <1>1, <1>3, <1>4, <1>5, <1>8 DEF Ahead, Handed
  <1> QED BY <1>1, <1>3, <1>6, <1>9, ReturnKeeps

(* The child of a capture has succeeded.                                       *)
LEMMA Captured ==
  ASSUME StatementOK(stmt), Inv, BackAt("gamma", "cap", "child")
  PROVE  LET k == Kid(Me, 1)
         IN /\ Running /\ Me \in Box /\ Pat[Me].fn = "cap" /\ 1 \in DOMAIN Pat[Me].kids
            /\ Handed(hist, Me, k) /\ Rests(k, zeta, hist)
            /\ hist[k].exit = "gamma" /\ Delta = hist[k].end /\ nam = hist[k].out
            /\ hist[Me].cursor <= Delta
            /\ SpansKept => ctl.span = Span(hist[Me].cursor, Delta - hist[Me].cursor)
            /\ Entry(Me, ctl.span) \in EntryType /\ Text(ctl.span) \in ValueType
  <1> DEFINE n == Me
             k == Kid(n, 1)
             old == [box |-> n, at |-> "child"]
  <1>1. /\ Running /\ n \in Box /\ Pat[n].fn = "cap"
        /\ ctl.box = Awaited(old, zeta) /\ Waits(old, zeta, hist) /\ Rests(ctl.box, zeta, hist)
        /\ hist[ctl.box].exit = "gamma" /\ Delta = hist[ctl.box].end /\ nam = hist[ctl.box].out
        /\ SpansKept => ctl.span = Extended(hist, ctl.box)
    BY AfterKid, RunningFacts
  <1>2. ctl.box = k /\ Handed(hist, n, k)
    BY <1>1 DEF Awaited, Waits, CapWaits
  <1>3. 1 \in DOMAIN Pat[n].kids
    BY <1>1, KidCount
  <1>4. hist[n].cursor <= Delta
    BY <1>1, <1>2 DEF Rests, Handed
  <1>5. SpansKept => ctl.span = Span(hist[n].cursor, Delta - hist[n].cursor)
    BY <1>1, <1>2 DEF Extended, Handed
  <1>6. Pat[n] \in BoxDef /\ ctl.span \in SpanType
    BY <1>1, PatternFacts, RunningFacts
  <1>7. Entry(n, ctl.span) \in EntryType
    BY <1>1, <1>6 DEF Entry, EntryType, BoxDef
  <1>8. Text(ctl.span) \in ValueType
    BY <1>6 DEF Text, ValueType, SpanType
  <1> QED BY <1>1, <1>2, <1>3, <1>4, <1>5, <1>7, <1>8

(* The child of a conditional capture has succeeded: its entry is pushed.      *)
LEMMA CapPushKeeps ==
  ASSUME StatementOK(stmt), Inv, CapPush, Aside
  PROVE  Inv'
  <1> DEFINE n == Me
             k == Kid(n, 1)
             e == Entry(n, ctl.span)
  <1>1. /\ Running /\ n \in Box /\ Pat[n].fn = "cap" /\ 1 \in DOMAIN Pat[n].kids
        /\ Handed(hist, n, k) /\ hist[k].exit = "gamma" /\ Delta = hist[k].end /\ nam = hist[k].out
        /\ hist[n].cursor <= Delta
        /\ SpansKept => ctl.span = Span(hist[n].cursor, Delta - hist[n].cursor)
        /\ e \in EntryType
    BY Captured DEF CapPush
  <1>2. /\ Sigmalen \in Nat /\ Delta \in 0 .. Sigmalen /\ zeta \in [Box -> ZetaType]
        /\ nam \in Seq(EntryType) /\ nv \in [Vars -> ValueType] /\ ctl.span \in SpanType
    BY <1>1, RunningFacts
  <1>3. /\ ~ Pat[n].immediate /\ nam' = NAME_push(nam, e) /\ Set("pending", TRUE)
        /\ UNCHANGED <<Delta, nv>> /\ Return("gamma", ctl.span)
    BY DEF CapPush, Gamma
  <1>4. /\ zeta' \in [Box -> ZetaType] /\ \A m \in Box \ {n} : zeta'[m] = zeta[m]
        /\ zeta'[n].pending = TRUE
    BY <1>1, <1>2, <1>3, SetPending
  <1>5. e.box = n
    BY DEF Entry
  <1> HIDE DEF e
  <1>6. nam' \in Seq(EntryType) /\ nam' # <<>> /\ nam'[Len(nam')].box = n /\ NAME_pop(nam') = nam
    BY <1>1, <1>2, <1>3, <1>5, PushFacts
  <1>7. OwnStep
    BY <1>1, <1>2, <1>3, <1>4, <1>6 DEF OwnStep, Aside
  <1>8. /\ hist'[n].cursor = hist[n].cursor /\ hist'[n].nam = hist[n].nam
        /\ hist'[n].end = Delta /\ hist'[n].out = nam' /\ hist'[k] = hist[k]
    BY <1>1, <1>3, ReturnHist
  <1>9. CapRests(n, zeta', hist')
    BY <1>1, <1>3, <1>4, <1>6, <1>8 DEF CapRests, Handed, Relays
  <1>10. CapturesKept => n \notin Dropped
    BY <1>1, <1>3 DEF CapturesKept
  <1>11. Rests(n, zeta', hist')
    BY <1>1, <1>8, <1>9, <1>10 DEF Rests, LeafFn
  <1> QED BY <1>1, <1>2, <1>3, <1>7, <1>11, ReturnKeeps

(* The child of an immediate capture has succeeded: its text is assigned, or its *)
(* function called.                                                            *)
LEMMA CapAssignKeeps ==
  ASSUME StatementOK(stmt), Inv, CapAssign, Aside
  PROVE  Inv'
  <1> DEFINE n == Me
             k == Kid(n, 1)
             e == Entry(n, ctl.span)
  <1>1. /\ Running /\ n \in Box /\ Pat[n].fn = "cap" /\ 1 \in DOMAIN Pat[n].kids
        /\ Handed(hist, n, k) /\ Rests(k, zeta, hist)
        /\ hist[k].exit = "gamma" /\ Delta = hist[k].end /\ nam = hist[k].out
        /\ hist[n].cursor <= Delta
        /\ SpansKept => ctl.span = Span(hist[n].cursor, Delta - hist[n].cursor)
        /\ Text(ctl.span) \in ValueType
    BY Captured DEF CapAssign
  <1>2. /\ Sigmalen \in Nat /\ Delta \in 0 .. Sigmalen /\ zeta \in [Box -> ZetaType]
        /\ nam \in Seq(EntryType) /\ nv \in [Vars -> ValueType] /\ ctl.span \in SpanType
    BY <1>1, RunningFacts
  <1>3. Pat[n].immediate /\ UNCHANGED <<Delta, zeta, nam>> /\ Span(0, 0) \in SpanType
    BY DEF CapAssign, Span, SpanType
  <1>4. \/ Commit(e, TRUE) /\ Return("gamma", ctl.span)
        \/ Commit(e, FALSE) /\ Return("omega", Span(0, 0))
    BY DEF CapAssign, Gamma, OmegaExit
  <1>5. nv' \in [Vars -> ValueType]
    <2>1. e.span = ctl.span
      BY DEF Entry
    <2> QED BY <1>1, <1>2, <1>4, <2>1, Assigns DEF Commit
  <1>6. OwnStep
    BY <1>1, <1>2, <1>3, <1>5 DEF OwnStep, Aside
  <1>7. k \in Box /\ k # n /\ (Drops(n) \/ n \in Dropped => k \in Dropped)
    BY <1>1, KidOfRunning
  <1>8. CASE Commit(e, TRUE) /\ Return("gamma", ctl.span)
    <2>1. /\ hist'[n].cursor = hist[n].cursor /\ hist'[n].nam = hist[n].nam
          /\ hist'[n].end = Delta /\ hist'[n].out = nam /\ hist'[k] = hist[k]
      BY <1>1, <1>3, <1>8, ReturnHist
    <2>2. CapRests(n, zeta', hist')
      BY <1>1, <1>3, <2>1 DEF CapRests, Handed, Relays
    <2>3. CapturesKept /\ n \in Dropped => nam = hist[n].nam
      BY <1>1, <1>7 DEF Rests, Handed
    <2>4. Rests(n, zeta', hist')
      BY <1>1, <2>1, <2>2, <2>3 DEF Rests, LeafFn
    <2> QED BY <1>1, <1>2, <1>3, <1>6, <1>8, <2>4, ReturnKeeps
  <1>9. CASE Commit(e, FALSE) /\ Return("omega", Span(0, 0))
    <2>1. Pat[n].kind = "NM_CALL"
      BY <1>9 DEF Commit, Entry
    <2>2. Drops(n) /\ Strays(n)
      BY <1>1, <1>3, <2>1 DEF Drops, Strays
    <2>3. n \notin Undisturbed /\ k \in Dropped
      BY <1>1, <1>7, <2>2, UndisturbedFacts
    <2>4. CapturesKept => nam' = hist[n].nam
      BY <1>1, <1>3, <2>3 DEF Rests, Handed
    <2>5. Ahead(n, Delta', hist[n].cursor)
      BY <1>1, <1>3, <2>3 DEF Ahead
    <2> QED BY <1>1, <1>3, <1>6, <1>9, <2>4, <2>5, ReturnKeeps
  <1> QED BY <1>4, <1>8, <1>9

(* Every step of the boxes.                                                    *)
LEMMA BoxStepKeeps ==
  ASSUME StatementOK(stmt), TabsFit, Inv, BoxStep
  PROVE  Inv'
  <1>1. Aside
    BY DEF BoxStep, Aside
  <1>2. CASE LeafAlpha \/ LeafBeta \/ ArbAlpha \/ ArbBeta
    BY <1>1, <1>2, LeafAlphaKeeps, LeafBetaKeeps, ArbAlphaKeeps, ArbBetaKeeps
  <1>3. CASE AtpAlpha
    BY <1>1, <1>3, AtpAlphaKeeps
  <1>4. CASE AtpBeta \/ AskBeta
    <2>1. EnteredAt("beta", {"atp", "not", "interr"}) /\ UNCHANGED <<Delta, zeta, nam, nv>> /\ OmegaExit
      BY <1>4 DEF AtpBeta, AskBeta, EnteredAt
    <2> QED BY <1>1, <2>1, StillFails
  <1>5. CASE SeqAlpha \/ SeqBeta \/ SeqLeftGamma \/ SeqLeftOmega \/ SeqRightGamma \/ SeqRightOmega
    BY <1>1, <1>5, SeqAlphaKeeps, SeqBetaKeeps, SeqLeftGammaKeeps, SeqLeftOmegaKeeps,
       SeqRightGammaKeeps, SeqRightOmegaKeeps
  <1>6. CASE AltAlpha \/ AltBeta \/ AltGamma \/ AltNext \/ AltOmega
    BY <1>1, <1>6, AltAlphaKeeps, AltBetaKeeps, AltGammaKeeps, AltNextKeeps, AltOmegaKeeps
  <1>7. CASE ArbnoAlpha \/ ArbnoBeta \/ ArbnoStall \/ ArbnoRepeat \/ ArbnoOmega
    BY <1>1, <1>7, ArbnoAlphaKeeps, ArbnoBetaKeeps, ArbnoStallKeeps, ArbnoRepeatKeeps, ArbnoOmegaKeeps
  <1>8. CASE AskAlpha
    BY <1>1, <1>8, AskAlphaKeeps
  <1>10. CASE AskBack("not", "omega")
    <2> DEFINE fn == "not"
               port == "omega"
    <2>1. AskBack(fn, port) /\ ((fn = "not" /\ port = "omega") \/ (fn = "interr" /\ port = "gamma"))
      BY <1>10
    <2> HIDE DEF fn, port
    <2> QED BY <1>1, <2>1, AskBackKeeps
  <1>11. CASE AskBack("interr", "gamma")
    <2> DEFINE fn == "interr"
               port == "gamma"
    <2>1. AskBack(fn, port) /\ ((fn = "not" /\ port = "omega") \/ (fn = "interr" /\ port = "gamma"))
      BY <1>11
    <2> HIDE DEF fn, port
    <2> QED BY <1>1, <2>1, AskBackKeeps
  <1>9. CASE CapAlpha \/ CapBeta \/ CapOmega \/ CapPush \/ CapAssign
    BY <1>1, <1>9, CapAlphaKeeps, CapBetaKeeps, CapOmegaKeeps, CapPushKeeps, CapAssignKeeps
  <1> QED BY <1>2, <1>3, <1>4, <1>5, <1>6, <1>7, <1>8, <1>9, <1>10, <1>11 DEF BoxStep

-----------------------------------------------------------------------------
(* Every step of the executor keeps the invariant *)

(* Every statement begins with the invariant.                                  *)
LEMMA InitInv ==
  ASSUME Init
  PROVE  StatementOK(stmt) /\ Inv
  <1>1. StatementOK(stmt)
    BY ProgramAssumption DEF Init
  <1>2. Sigmalen \in Nat /\ 1 \in Box /\ Sigma \in Seq(Chars)
    BY <1>1, PatternFacts
  <1>3. zeta \in [Box -> ZetaType]
    BY DEF Init, FreshState, ZetaType, Span, SpanType
  <1>4. ctl \in [port : {"none", "alpha", "beta", "gamma", "omega"}, box : Box, span : SpanType]
    BY <1>2 DEF Init, Span, SpanType
  <1>5. calls = <<>> /\ nam = <<>> /\ calls \in Seq(CallType) /\ nam \in Seq(EntryType)
    BY DEF Init
  <1>6. nv \in [Vars -> ValueType]
    BY DEF Init, Unset, ValueType
  <1>7. /\ result \in [outcome : {"none", "S", "F", "undefined"}, start : Int, end : Int, value : Seq(Chars)]
        /\ Divides(result)
    BY <1>2 DEF Init, Divides
  <1>8. /\ hist = [n \in Box |-> [cursor |-> 0, nam |-> <<>>, exit |-> "none", end |-> 0, out |-> <<>>]]
        /\ phase = "scan" /\ scan = 0 /\ slot = 1 /\ Delta = 0
    BY DEF Init
  <1>9. hist \in [Box -> [cursor : Int, nam : Seq(EntryType), exit : {"none", "gamma", "omega"},
                         end : Int, out : Seq(EntryType)]]
    BY <1>8
  <1>10. TypeOK
    BY <1>3, <1>4, <1>5, <1>6, <1>7, <1>8, <1>9 DEF TypeOK
  <1>11. InSubject(Delta, hist)
    BY <1>2, <1>8 DEF InSubject
  <1>12. AllRest(Stacked(calls), zeta, hist)
    BY <1>8 DEF AllRest
  <1> QED BY <1>1, <1>5, <1>7, <1>8, <1>10, <1>11, <1>12 DEF Inv

(* The scan enters the root at its position.                                   *)
LEMMA TryPositionKeeps ==
  ASSUME StatementOK(stmt), Inv, TryPosition
  PROVE  Inv'
  <1> DEFINE fresh == [cursor |-> scan, nam |-> nam, exit |-> "none", end |-> scan, out |-> nam]
  <1>1. /\ TypeOK /\ calls = <<>> /\ InSubject(Delta, hist) /\ AllRest(Stacked(calls), zeta, hist)
        /\ slot >= 1 /\ Divides(result)
    BY DEF Inv, TryPosition
  <1>2. /\ phase' = "match" /\ Delta' = scan
        /\ ctl' = [port |-> "alpha", box |-> 1, span |-> Span(0, 0)]
        /\ hist' = [hist EXCEPT ![1] = fresh]
        /\ UNCHANGED <<stmt, scan, zeta, calls, nam, slot, nv, result>>
    BY DEF TryPosition
  <1>3. Sigmalen \in Nat /\ 1 \in Box
    BY PatternFacts
  <1>4. scan \in 0 .. Sigmalen
    BY <1>1, <1>3 DEF TryPosition, Omega, TypeOK
  <1>5. hist \in [Box -> [cursor : Int, nam : Seq(EntryType), exit : {"none", "gamma", "omega"},
                          end : Int, out : Seq(EntryType)]]
    BY <1>1 DEF TypeOK
  <1>6. nam \in Seq(EntryType) /\ scan \in Int /\ scan \in Nat
    BY <1>1 DEF TypeOK
  <1>7. /\ hist' \in [Box -> [cursor : Int, nam : Seq(EntryType), exit : {"none", "gamma", "omega"},
                             end : Int, out : Seq(EntryType)]]
        /\ hist'[1] = fresh /\ \A m \in Box \ {1} : hist'[m] = hist[m]
    BY <1>2, <1>3, <1>5, <1>6
  <1>8. ctl' \in [port : {"none", "alpha", "beta", "gamma", "omega"}, box : Box, span : SpanType]
    BY <1>2, <1>3 DEF Span, SpanType
  <1>9. TypeOK'
    BY <1>1, <1>2, <1>6, <1>7, <1>8, SameStatement DEF TypeOK
  <1>10. InSubject(Delta', hist')
    BY <1>1, <1>2, <1>4, <1>7 DEF InSubject
  <1>11. AllRest(Stacked(calls'), zeta', hist')
    <2> SUFFICES ASSUME NEW m \in Box \ Stacked(calls), hist'[m].exit = "gamma"
                 PROVE  Rests(m, zeta, hist')
      BY <1>2 DEF AllRest
    <2>1. m # 1 /\ hist'[m] = hist[m]
      BY <1>7
    <2>2. Rests(m, zeta, hist)
      BY <1>1, <2>1 DEF AllRest
    <2>3. ASSUME NEW k \in KidsOf(m) PROVE hist'[k] = hist[k]
      <3>1. PICK i \in DOMAIN Pat[m].kids : k = Kid(m, i)
        BY DEF KidsOf, Kid
      <3>2. k \in Box /\ m < k /\ m \in 1 .. Len(Pat)
        BY <3>1, TreeFacts, PatternFacts
      <3>3. k # 1
        BY <3>2
      <3> QED BY <1>7, <3>2, <3>3
    <2> QED BY <2>1, <2>2, <2>3, RestsKept
  <1>12. LeadsTo(calls', 1, zeta', hist')
    BY <1>1, <1>2 DEF LeadsTo
  <1>13. AtPort(ctl', Delta', nam', hist')
    BY <1>2, <1>7 DEF AtPort
  <1> QED BY <1>1, <1>2, <1>9, <1>10, <1>11, <1>12, <1>13, SameStatement DEF Inv

(* The root has failed: the next position is tried.                            *)
LEMMA PositionFailsKeeps ==
  ASSUME StatementOK(stmt), Inv, PositionFails
  PROVE  Inv'
  <1>1. /\ TypeOK /\ calls = <<>> /\ InSubject(Delta, hist) /\ AllRest(Stacked(calls), zeta, hist)
        /\ slot >= 1 /\ Divides(result)
    BY DEF Inv, PositionFails
  <1>2. /\ phase' = "scan" /\ scan' = scan + 1
        /\ UNCHANGED <<stmt, Delta, zeta, ctl, calls, nam, slot, nv, result, hist>>
    BY DEF PositionFails
  <1>3. TypeOK'
    BY <1>1, <1>2, SameStatement DEF TypeOK
  <1> QED BY <1>1, <1>2, <1>3, SameStatement DEF Inv

(* Steps after which no box runs any more.                                     *)
LEMMA LaterKeeps ==
  ASSUME StatementOK(stmt), TypeOK, calls = <<>>, UNCHANGED <<stmt, scan, Delta, ctl, calls, hist>>,
         phase' \in {"commit", "replace", "done"}, slot' \in Nat, slot' >= 1, Divides(result'),
         zeta' \in [Box -> ZetaType], nam' \in Seq(EntryType), nv' \in [Vars -> ValueType],
         result' \in [outcome : {"none", "S", "F", "undefined"}, start : Int, end : Int, value : Seq(Chars)]
  PROVE  Inv'
  <1>1. TypeOK'
    BY SameStatement DEF TypeOK
  <1> QED BY <1>1, SameStatement DEF Inv

(* What the steps after the match begin with.                                  *)
LEMMA LaterFacts ==
  ASSUME StatementOK(stmt), Inv
  PROVE  /\ TypeOK /\ slot \in Nat /\ slot >= 1 /\ Divides(result) /\ Sigmalen \in Nat
         /\ zeta \in [Box -> ZetaType] /\ nam \in Seq(EntryType) /\ nv \in [Vars -> ValueType]
         /\ result \in [outcome : {"none", "S", "F", "undefined"}, start : Int, end : Int, value : Seq(Chars)]
         /\ phase # "match" => calls = <<>>
  BY PatternFacts DEF Inv, TypeOK

(* The match is over without an effect: no position is left, or the replaced   *)
(* subject would have no home.                                                 *)
LEMMA GivesUpKeeps ==
  ASSUME StatementOK(stmt), Inv, MatchFails \/ MatchUnused
  PROVE  Inv'
  <1>1. /\ TypeOK /\ slot \in Nat /\ slot >= 1 /\ Divides(result) /\ zeta \in [Box -> ZetaType]
        /\ nv \in [Vars -> ValueType]
        /\ result \in [outcome : {"none", "S", "F", "undefined"}, start : Int, end : Int, value : Seq(Chars)]
        /\ calls = <<>>
    BY LaterFacts DEF MatchFails, MatchUnused
  <1>2. /\ phase' = "done" /\ nam' = <<>> /\ result' = [result EXCEPT !.outcome = "F"]
        /\ UNCHANGED <<stmt, slot, nv, scan, Delta, zeta, ctl, calls, hist>>
    BY DEF MatchFails, MatchUnused, machine
  <1>3. /\ result' \in [outcome : {"none", "S", "F", "undefined"}, start : Int, end : Int, value : Seq(Chars)]
        /\ Divides(result')
    BY <1>1, <1>2 DEF Divides
  <1>4. nam' \in Seq(EntryType)
    BY <1>2
  <1> QED BY <1>1, <1>2, <1>3, <1>4, LaterKeeps

(* The root has succeeded: the match divides the subject.                      *)
LEMMA MatchFoundKeeps ==
  ASSUME StatementOK(stmt), Inv, MatchFound
  PROVE  Inv'
  <1>1. /\ TypeOK /\ Divides(result) /\ zeta \in [Box -> ZetaType] /\ nam \in Seq(EntryType)
        /\ nv \in [Vars -> ValueType] /\ Sigmalen \in Nat
        /\ result \in [outcome : {"none", "S", "F", "undefined"}, start : Int, end : Int, value : Seq(Chars)]
    BY LaterFacts
  <1>2. /\ phase' = "commit" /\ slot' = 1 /\ calls = <<>>
        /\ result' = [result EXCEPT !.start = Delta - ctl.span.len, !.end = Delta]
        /\ UNCHANGED <<stmt, nam, nv, scan, Delta, zeta, ctl, calls, hist>>
    BY DEF MatchFound, machine
  <1>3. Delta \in 0 .. Sigmalen /\ ctl.span.len \in Nat
    BY <1>1 DEF Inv, InSubject, MatchFound, TypeOK, SpanType
  <1>4. SpansKept => 0 <= Delta - ctl.span.len
    <2>1. ctl.box \in Box /\ SpansKept => ctl.span = Extended(hist, ctl.box) /\ Delta = hist[ctl.box].end
      BY DEF Inv, AtPort, MatchFound
    <2>2. ctl.box \in Box /\ hist[ctl.box].cursor \in 0 .. Sigmalen /\ hist[ctl.box].end \in 0 .. Sigmalen
      BY <1>1 DEF Inv, InSubject, MatchFound, TypeOK
    <2> QED BY <1>1, <2>1, <2>2 DEF Extended, Span
  <1>5. /\ result' \in [outcome : {"none", "S", "F", "undefined"}, start : Int, end : Int, value : Seq(Chars)]
        /\ result'.start = Delta - ctl.span.len /\ result'.end = Delta /\ result'.outcome = result.outcome
    <2> DEFINE from == Delta - ctl.span.len
               r == [result EXCEPT !.start = from]
    <2>1. from \in Int /\ Delta \in Int /\ result' = [r EXCEPT !.end = Delta]
      BY <1>1, <1>2, <1>3
    <2> HIDE DEF from
    <2>2. /\ r \in [outcome : {"none", "S", "F", "undefined"}, start : Int, end : Int, value : Seq(Chars)]
          /\ r.start = from /\ r.outcome = result.outcome
      BY <1>1, <2>1
    <2> HIDE DEF r
    <2> QED BY <2>1, <2>2 DEF from
  <1>6. Divides(result')
    BY <1>1, <1>3, <1>4, <1>5 DEF Divides
  <1> QED BY <1>1, <1>2, <1>5, <1>6, LaterKeeps

(* A capture of the naming list is assigned.                                   *)
LEMMA CommitSlotKeeps ==
  ASSUME StatementOK(stmt), Inv, CommitSlot
  PROVE  Inv'
  <1>1. /\ TypeOK /\ slot \in Nat /\ slot >= 1 /\ Divides(result) /\ zeta \in [Box -> ZetaType]
        /\ nam \in Seq(EntryType) /\ nv \in [Vars -> ValueType]
        /\ result \in [outcome : {"none", "S", "F", "undefined"}, start : Int, end : Int, value : Seq(Chars)]
        /\ calls = <<>>
    BY LaterFacts DEF CommitSlot
  <1>2. /\ phase' \in {"commit", "replace", "done"} /\ slot' = slot + 1
        /\ UNCHANGED <<stmt, nam, result, scan, Delta, zeta, ctl, calls, hist>>
    BY DEF CommitSlot, machine
  <1>3. nv' \in [Vars -> ValueType]
    <2>1. nam[slot] \in EntryType
      BY <1>1 DEF CommitSlot
    <2>2. Text(nam[slot].span) \in ValueType
      BY <2>1 DEF EntryType, SpanType, Text, ValueType
    <2> QED BY <1>1, <2>2, Assigns DEF CommitSlot, Commit
  <1>4. slot' \in Nat /\ slot' >= 1 /\ Divides(result')
    BY <1>1, <1>2
  <1> QED BY <1>1, <1>2, <1>3, <1>4, LaterKeeps

(* All captures have been assigned.                                            *)
LEMMA CommitDoneKeeps ==
  ASSUME StatementOK(stmt), Inv, CommitDone
  PROVE  Inv'
  <1>1. /\ TypeOK /\ slot \in Nat /\ slot >= 1 /\ Divides(result) /\ zeta \in [Box -> ZetaType]
        /\ nv \in [Vars -> ValueType]
        /\ result \in [outcome : {"none", "S", "F", "undefined"}, start : Int, end : Int, value : Seq(Chars)]
        /\ calls = <<>>
    BY LaterFacts DEF CommitDone
  <1>2. /\ phase' = "replace" /\ nam' = <<>>
        /\ zeta' = [n \in Box |-> [zeta[n] EXCEPT !.pending = FALSE]]
        /\ UNCHANGED <<stmt, scan, Delta, ctl, calls, slot, nv, result, hist>>
    BY DEF CommitDone
  <1>3. zeta' \in [Box -> ZetaType]
    BY <1>1, <1>2 DEF ZetaType
  <1>4. nam' \in Seq(EntryType) /\ Divides(result')
    BY <1>1, <1>2
  <1> QED BY <1>1, <1>2, <1>3, <1>4, LaterKeeps

(* The replacement takes the place of the match.                               *)
LEMMA ReplaceKeeps ==
  ASSUME StatementOK(stmt), Inv, Replace
  PROVE  Inv'
  <1> DEFINE before == result.start
             after  == OmegaRestored - result.end
  <1>1. /\ TypeOK /\ slot \in Nat /\ slot >= 1 /\ Divides(result) /\ zeta \in [Box -> ZetaType]
        /\ nam \in Seq(EntryType) /\ nv \in [Vars -> ValueType] /\ Sigmalen \in Nat
        /\ result \in [outcome : {"none", "S", "F", "undefined"}, start : Int, end : Int, value : Seq(Chars)]
        /\ calls = <<>>
    BY LaterFacts DEF Replace
  <1>2. /\ phase' = "done" /\ UNCHANGED <<stmt, slot, nam, nv, scan, Delta, zeta, ctl, calls, hist>>
    BY DEF Replace, machine
  <1>3. CASE result' = [result EXCEPT !.outcome = "S"]
    BY <1>1, <1>2, <1>3, LaterKeeps DEF Divides
  <1>4. CASE /\ before >= 0 /\ after >= 0
             /\ result' = [result EXCEPT !.outcome = "S",
                             !.value = SubSeq(Sigma, 1, before) \o stmt.repl
                                         \o SubSeq(Sigma, result.end + 1, OmegaRestored)]
    <2> DEFINE text == SubSeq(Sigma, 1, before) \o stmt.repl \o SubSeq(Sigma, result.end + 1, OmegaRestored)
    <2>1. before \in 0 .. Sigmalen /\ result.end \in 0 .. Sigmalen /\ OmegaRestored = Sigmalen
      BY <1>1, <1>4 DEF Divides, OmegaRestored
    <2>2. Sigma \in Seq(Chars) /\ stmt.repl \in Seq(Chars)
      BY PatternFacts DEF StatementOK
    <2>3. \A i \in 1 .. Sigmalen : Sigma[i] \in Chars
      BY <2>2 DEF Sigmalen
    <2>4. SubSeq(Sigma, 1, before) \in Seq(Chars)
      BY <1>1, <2>1, <2>3, SubSeqProperties
    <2>5. SubSeq(Sigma, result.end + 1, OmegaRestored) \in Seq(Chars)
      BY <1>1, <2>1, <2>3, SubSeqProperties
    <2>6. text \in Seq(Chars)
      BY <2>2, <2>4, <2>5, ConcatProperties
    <2> HIDE DEF text
    <2>7. result' = [result EXCEPT !.outcome = "S", !.value = text]
      BY <1>4 DEF text
    <2>8. /\ result' \in [outcome : {"none", "S", "F", "undefined"}, start : Int, end : Int, value : Seq(Chars)]
          /\ Divides(result')
      BY <1>1, <2>6, <2>7 DEF Divides
    <2> QED BY <1>1, <1>2, <2>8, LaterKeeps
  <1>5. CASE (before < 0 \/ after < 0) /\ result' = [result EXCEPT !.outcome = "undefined"]
    <2>1. ~ SpansKept
      BY <1>1, <1>5 DEF Divides, OmegaRestored
    <2>2. /\ result' \in [outcome : {"none", "S", "F", "undefined"}, start : Int, end : Int, value : Seq(Chars)]
          /\ Divides(result')
      BY <1>1, <1>5, <2>1 DEF Divides
    <2> QED BY <1>1, <1>2, <2>2, LaterKeeps
  <1> QED BY <1>3, <1>4, <1>5 DEF Replace

-----------------------------------------------------------------------------
(* The invariant, and what follows from it *)

(* A step that changes nothing.                                                *)
LEMMA SameKeeps ==
  ASSUME Inv, UNCHANGED vars
  PROVE  Inv'
  <1>1. /\ stmt' = stmt
        /\ UNCHANGED <<phase, slot, nam, nv, result, scan, Delta, zeta, ctl, calls, hist>>
    BY DEF vars, machine
  <1>2. TypeOK'
    BY <1>1, SameStatement DEF Inv, TypeOK
  <1> QED BY <1>1, <1>2, SameStatement DEF Inv

(* The statement stays the same.                                               *)
LEMMA StatementStays ==
  ASSUME [Next]_vars
  PROVE  stmt' = stmt
  BY DEF Next, BoxStep, ExecStep, TryPosition, PositionFails, MatchFails, MatchUnused, MatchFound,
         CommitSlot, CommitDone, Replace, Done, vars

(* Every step of the executor.                                                 *)
LEMMA ExecStepKeeps ==
  ASSUME StatementOK(stmt), Inv, ExecStep
  PROVE  Inv'
  BY TryPositionKeeps, PositionFailsKeeps, GivesUpKeeps, MatchFoundKeeps, CommitSlotKeeps,
     CommitDoneKeeps, ReplaceKeeps DEF ExecStep

(* The invariant is inductive.                                                 *)
LEMMA StepKeeps ==
  ASSUME IInv, [Next]_vars
  PROVE  IInv'
  <1>1. StatementOK(stmt) /\ stmt' = stmt
    BY StatementStays DEF IInv
  <1>2. StatementOK(stmt)' /\ (TabsFit' <=> TabsFit)
    BY <1>1, SameStatement DEF StatementOK, PatternOK
  <1>3. ASSUME TabsFit PROVE Inv'
    <2>1. Inv
      BY <1>3 DEF IInv
    <2>2. CASE BoxStep
      BY <1>1, <1>3, <2>1, <2>2, BoxStepKeeps
    <2>3. CASE ExecStep
      BY <1>1, <2>1, <2>3, ExecStepKeeps
    <2>4. CASE UNCHANGED vars
      BY <2>1, <2>4, SameKeeps
    <2> QED BY <2>2, <2>3, <2>4 DEF Next, Done
  <1> QED BY <1>2, <1>3 DEF IInv

(* The invariant holds at every step of every statement.                       *)
THEOREM Invariance == Spec => []IInv
  <1>1. Init => IInv
    BY InitInv DEF IInv
  <1>2. IInv /\ [Next]_vars => IInv'
    BY StepKeeps
  <1> QED BY <1>1, <1>2, PTL DEF Spec

(* Every variable has its type, if no TAB goes beyond the subject.             *)
THEOREM TypeCorrect == Spec => [](TabsFit => TypeOK)
  <1>1. IInv => (TabsFit => TypeOK)
    BY DEF IInv, Inv
  <1> QED BY <1>1, Invariance, PTL

(* The cursor never leaves the subject, if no TAB takes it there: every other  *)
(* box compares before it advances, and no beta takes back more than was gone. *)
THEOREM CursorStays == Spec => [](TabsFit => CursorInSubject)
  <1>1. IInv => (TabsFit => CursorInSubject)
    BY DEF IInv, Inv, InSubject, CursorInSubject
  <1> QED BY <1>1, Invariance, PTL

(* A box is resumed only after it has succeeded, and has not been entered      *)
(* since: the state that its beta reads is the one that success left.          *)
THEOREM ResumedOnlyAfterSuccess == Spec => [](TabsFit => ResumedAfterGamma)
  <1>1. IInv => (TabsFit => ResumedAfterGamma)
    BY DEF IInv, Inv, AtPort, ResumedAfterGamma, Exits
  <1> QED BY <1>1, Invariance, PTL

(* A box that fails has put the cursor back to where it was entered, unless it *)
(* strays, has a box that strays below it, or is resumed together with one.    *)
THEOREM CursorPutBack == Spec => [](TabsFit => CursorRestored)
  <1>1. IInv => (TabsFit => CursorRestored)
    BY DEF IInv, Inv, AtPort, Ahead, CursorRestored, Exits
  <1> QED BY <1>1, Invariance, PTL

(* A box that fails has taken back every capture pushed since it was entered,  *)
(* if no capture lies below a box that drops its kid's success.                *)
THEOREM CapturesTakenBack == Spec => [](TabsFit /\ CapturesKept => NamesUnwound)
  <1>1. IInv => (TabsFit /\ CapturesKept => NamesUnwound)
    BY DEF IInv, Inv, AtPort, NamesUnwound, Exits
  <1> QED BY <1>1, Invariance, PTL

(* A capture that pops the naming list pops its own push, on the same premise. *)
THEOREM PopsItsOwn == Spec => [](TabsFit /\ CapturesKept => PopsOwnPush)
  <1>1. ASSUME StatementOK(stmt), Inv, CapturesKept,
               EnteredAt("beta", {"cap"}) \/ BackAt("omega", "cap", "child"),
               ~ Pat[Me].immediate, zeta[Me].pending
        PROVE  nam # <<>> /\ nam[Len(nam)].box = Me
    <2>1. CASE EnteredAt("beta", {"cap"})
      <3>1. Rests(Me, zeta, hist) /\ nam = hist[Me].out /\ Pat[Me].fn = "cap"
        BY <1>1, <2>1, AtBeta
      <3> QED BY <1>1, <3>1 DEF Rests, CapRests
    <2>2. CASE BackAt("omega", "cap", "child")
      <3> DEFINE old == [box |-> Me, at |-> "child"]
      <3>1. Waits(old, zeta, hist) /\ Pat[Me].fn = "cap"
        BY <1>1, <2>2, AfterKid
      <3> QED BY <1>1, <3>1 DEF Waits, CapWaits
    <2> QED BY <1>1, <2>1, <2>2
  <1>2. IInv => (TabsFit /\ CapturesKept => PopsOwnPush)
    BY <1>1 DEF IInv, PopsOwnPush
  <1> QED BY <1>2, Invariance, PTL

(* The span that a box returns runs from where it was entered to the cursor,   *)
(* if the pattern has neither ARBNO nor SUCCEED.                               *)
THEOREM SpansCover == Spec => [](TabsFit /\ SpansKept => SpanIsMatch)
  <1>1. ASSUME Inv, SpansKept, Exits("gamma")
        PROVE  ctl.span = Span(hist[ctl.box].cursor, Delta - hist[ctl.box].cursor)
    BY <1>1 DEF Inv, AtPort, Extended, Exits
  <1>2. IInv => (TabsFit /\ SpansKept => SpanIsMatch)
    BY <1>1 DEF IInv, SpanIsMatch
  <1> QED BY <1>2, Invariance, PTL

(* On the same premise the parts around the match have a length: the copies of *)
(* the replacement are defined.                                                *)
THEOREM ReplacementDefined == Spec => [](TabsFit /\ SpansKept => result.outcome # "undefined")
  <1>1. IInv => (TabsFit /\ SpansKept => result.outcome # "undefined")
    BY DEF IInv, Inv, Divides
  <1> QED BY <1>1, Invariance, PTL

(* At every success of an ARBNO its frames rise from the one to the next, and  *)
(* the last one begins at the cursor, if the body puts the cursor back.        *)
THEOREM FramesFollow == Spec => [](TabsFit => FramesFollowCursor)
  <1>1. ASSUME StatementOK(stmt), Inv, Exits("gamma"), Pat[ctl.box].fn = "arbno"
        PROVE  LET frames == zeta[ctl.box].frames
               IN /\ KidsOf(ctl.box) \subseteq Undisturbed => Delta = Top(frames).start
                  /\ \A i \in 1 .. Len(frames) - 1 : frames[i].start < frames[i + 1].start
    <2> DEFINE n == ctl.box
               f == zeta[n].frames
    <2>1. /\ TypeOK /\ LeadsTo(calls, n, zeta, hist) /\ AllRest(Stacked(calls), zeta, hist)
          /\ hist[n].exit = "gamma" /\ Delta = hist[n].end
      BY <1>1 DEF Inv, AtPort, Exits
    <2>2. n \in Box /\ calls \in Seq(CallType) /\ zeta[n] \in ZetaType
      BY <2>1 DEF TypeOK
    <2>3. n \notin Stacked(calls)
      <3> SUFFICES ASSUME NEW i \in 1 .. Len(calls), n = calls[i].box PROVE FALSE
        BY DEF Stacked
      <3>1. calls[i].box \in Nat /\ calls[i].box < n
        BY <1>1, <2>1, <2>2, StackBoxes DEF LeadsTo
      <3> QED BY <3>1
    <2>4. Rests(n, zeta, hist)
      BY <2>1, <2>2, <2>3 DEF AllRest
    <2>5. /\ \A i, j \in 1 .. Len(f) : i < j => f[i].start < f[j].start
          /\ Ahead(Kid(n, 1), Delta, Top(f).start)
      BY <1>1, <2>1, <2>4 DEF Rests, FramesRise
    <2>6. Kid(n, 1) \in KidsOf(n)
      BY <1>1, <2>2, KidCount DEF KidsOf, Kid
    <2>7. Len(f) \in Nat
      BY <2>2 DEF ZetaType
    <2>8. \A i \in 1 .. Len(f) - 1 : f[i].start < f[i + 1].start
      BY <2>5, <2>7
    <2> QED BY <2>5, <2>6, <2>8 DEF Ahead
  <1>2. IInv => (TabsFit => FramesFollowCursor)
    BY <1>1 DEF IInv, FramesFollowCursor
  <1> QED BY <1>2, Invariance, PTL

-----------------------------------------------------------------------------
(* Functions called at the commit *)

(* A capture that the walk has passed is assigned, or a later one that needs   *)
(* no call in between has taken or will take its place.                        *)
Passed(i) == \/ nam[i].kind = "NM_CALL"
             \/ \E j \in i + 1 .. slot - 1 : nam[j].var = nam[i].var
             \/ nv[nam[i].var] = Text(nam[i].span)
             \/ \E j \in slot .. Len(nam) : /\ nam[j].var = nam[i].var
                                            /\ \A k \in i + 1 .. j : nam[k].kind # "NM_CALL"
Walked == phase = "commit" => /\ slot <= Len(nam) + 1
                              /\ \A i \in 1 .. slot - 1 : Passed(i)

(* The walk goes on by one capture.                                            *)
LEMMA SlotPassed ==
  ASSUME StatementOK(stmt), Inv, Walked, CommitSlot
  PROVE  Walked'
  <1>1. /\ slot \in Nat /\ slot >= 1 /\ nam \in Seq(EntryType) /\ Len(nam) \in Nat
        /\ nv \in [Vars -> ValueType]
    BY LaterFacts
  <1>2. phase = "commit" /\ slot <= Len(nam) /\ slot' = slot + 1 /\ nam' = nam
    BY DEF CommitSlot
  <1>3. \A i \in 1 .. Len(nam) : nam[i].var \in Vars
    <2>1. \A i \in 1 .. Len(nam) : nam[i] \in EntryType
      BY <1>1
    <2> QED BY <2>1 DEF EntryType
  <1>4. \/ Superseded(nam, slot) /\ nv' = nv
        \/ \E done \in BOOLEAN : Commit(nam[slot], done)
    BY DEF CommitSlot
  <1>5. ASSUME NEW i \in 1 .. slot - 1
        PROVE  Passed(i)'
    <2>1. Passed(i) /\ i \in 1 .. Len(nam)
      BY <1>1, <1>2 DEF Walked
    <2>2. CASE nam[slot].var = nam[i].var
      <3>1. slot \in i + 1 .. slot' - 1
        BY <1>1, <1>2
      <3> QED BY <1>2, <2>2, <3>1 DEF Passed
    <2>3. CASE nam[slot].var # nam[i].var
      <3>1. nv'[nam[i].var] = nv[nam[i].var]
        BY <1>1, <1>2, <1>3, <1>4, <2>1, <2>3 DEF Commit
      <3>2. CASE nam[i].kind = "NM_CALL"
        BY <1>2, <3>2 DEF Passed
      <3>3. CASE \E j \in i + 1 .. slot - 1 : nam[j].var = nam[i].var
        <4>1. PICK j \in i + 1 .. slot - 1 : nam[j].var = nam[i].var
          BY <3>3
        <4>2. j \in i + 1 .. slot' - 1
          BY <1>1, <1>2
        <4> QED BY <1>2, <4>1, <4>2 DEF Passed
      <3>4. CASE nv[nam[i].var] = Text(nam[i].span)
        BY <1>2, <3>1, <3>4 DEF Passed
      <3>5. CASE \E j \in slot .. Len(nam) : /\ nam[j].var = nam[i].var
                                             /\ \A k \in i + 1 .. j : nam[k].kind # "NM_CALL"
        <4>1. PICK j \in slot .. Len(nam) : /\ nam[j].var = nam[i].var
                                            /\ \A k \in i + 1 .. j : nam[k].kind # "NM_CALL"
          BY <3>5
        <4>2. j \in slot' .. Len(nam)
          BY <1>1, <1>2, <2>3, <4>1
        <4> QED BY <1>2, <4>1, <4>2 DEF Passed
      <3> QED BY <2>1, <3>2, <3>3, <3>4, <3>5 DEF Passed
    <2> QED BY <2>2, <2>3
  <1>6. ASSUME NEW i \in 1 .. slot, i = slot
        PROVE  Passed(i)'
    <2>1. i \in 1 .. Len(nam) /\ i + 1 = slot'
      BY <1>1, <1>2, <1>6
    <2>2. CASE Superseded(nam, slot)
      <3>1. PICK j \in i + 1 .. Len(nam) : /\ SameTarget(nam[i], nam[j])
                                           /\ \A k \in i + 1 .. j : nam[k].kind # "NM_CALL"
        BY <1>6, <2>2 DEF Superseded
      <3>2. nam[j].var = nam[i].var
        BY <3>1 DEF SameTarget
      <3> QED BY <1>2, <2>1, <3>1, <3>2 DEF Passed
    <2>3. CASE \E done \in BOOLEAN : Commit(nam[slot], done)
      <3>1. nam[i].kind = "NM_CALL" \/ nv' = [nv EXCEPT ![nam[i].var] = Text(nam[i].span)]
        BY <1>6, <2>3 DEF Commit
      <3>2. nam[i].kind = "NM_CALL" \/ nv'[nam[i].var] = Text(nam[i].span)
        BY <1>1, <1>3, <2>1, <3>1
      <3> QED BY <1>2, <3>2 DEF Passed
    <2> QED BY <1>4, <2>2, <2>3
  <1>7. \A i \in 1 .. slot' - 1 : Passed(i)'
    BY <1>1, <1>2, <1>5, <1>6
  <1> QED BY <1>1, <1>2, <1>7 DEF Walked

(* Every step keeps what the walk has done.                                    *)
LEMMA WalkKept ==
  ASSUME StatementOK(stmt), Inv, Walked, [Next]_vars
  PROVE  Walked'
  <1>1. CASE CommitSlot
    BY <1>1, SlotPassed
  <1>2. CASE MatchFound
    <2>1. slot' = 1 /\ nam' = nam /\ Len(nam) \in Nat
      BY <1>2, LaterFacts DEF MatchFound
    <2> QED BY <2>1 DEF Walked
  <1>3. CASE UNCHANGED vars
    BY <1>3 DEF Walked, Passed, vars
  <1>4. CASE BoxStep
    <2>1. phase' = "match"
      BY <1>4 DEF BoxStep, LeafAlpha, LeafBeta, ArbAlpha, ArbBeta, AtpAlpha, AtpBeta, SeqAlpha, SeqBeta,
         SeqLeftGamma, SeqLeftOmega, SeqRightGamma, SeqRightOmega, AltAlpha, AltBeta, AltGamma, AltNext,
         AltOmega, ArbnoAlpha, ArbnoBeta, ArbnoStall, ArbnoRepeat, ArbnoOmega, AskAlpha, AskBeta, AskBack,
         CapAlpha, CapBeta, CapOmega, CapPush, CapAssign, EnteredAt, BackAt
    <2> QED BY <2>1 DEF Walked
  <1>5. CASE TryPosition \/ PositionFails \/ MatchFails \/ MatchUnused \/ CommitDone \/ Replace
    <2>1. phase' # "commit"
      BY <1>5 DEF TryPosition, PositionFails, MatchFails, MatchUnused, CommitDone, Replace
    <2> QED BY <2>1 DEF Walked
  <1> QED BY <1>1, <1>2, <1>3, <1>4, <1>5 DEF Next, ExecStep, Done

(* A function that a capture calls at the commit finds every variable that was *)
(* captured before it assigned: NAME_commit leaves out a capture only if a     *)
(* later one overwrites it before the next call.                               *)
THEOREM CallsSeeCaptures == Spec => [](TabsFit => CallSeesCaptures)
  <1> DEFINE J == TabsFit => Walked
  <1>1. Init => J
    BY DEF Init, Walked
  <1>2. IInv /\ J /\ [Next]_vars => J'
    BY WalkKept, StatementStays, SameStatement DEF IInv
  <1>3. ASSUME Inv, Walked
        PROVE  CallSeesCaptures
    <2> SUFFICES ASSUME phase = "commit", slot <= Len(nam), nam[slot].kind = "NM_CALL",
                        NEW i \in 1 .. slot - 1, nam[i].kind # "NM_CALL",
                        ~ \E j \in i + 1 .. slot - 1 : nam[j].var = nam[i].var
                 PROVE  nv[nam[i].var] = Text(nam[i].span)
      BY DEF CallSeesCaptures
    <2>1. slot \in Nat /\ Len(nam) \in Nat
      BY <1>3 DEF Inv, TypeOK
    <2>2. \A j \in slot .. Len(nam) : slot \in i + 1 .. j
      BY <2>1
    <2> QED BY <1>3, <2>2 DEF Walked, Passed
  <1>4. IInv /\ J => (TabsFit => CallSeesCaptures)
    BY <1>3 DEF IInv
  <1> QED BY <1>1, <1>2, <1>4, Invariance, PTL DEF Spec
-----------------------------------------------------------------------------
(* The promise *)

Promised == Waiting(IF phase = "commit" THEN SubSeq(nam, slot, Len(nam)) ELSE nam)
Captures == [var : Vars, calls : BOOLEAN, text : ValueType]
Doing    == CASE phase \in {"scan", "match"} -> "matching" [] phase = "commit" -> "assigning"
              [] phase = "replace" -> "replacing" [] phase = "done" -> "done"
AtOnce   == {Pat[n].var : n \in {m \in Box : Pat[m].immediate \/ Pat[m].fn = "atp"}}

(* What waits is the naming list, entry by entry.                              *)
LEMMA WaitingFacts ==
  ASSUME NEW list \in Seq(EntryType)
  PROVE  /\ Waiting(list) \in Seq(Captures) /\ Len(Waiting(list)) = Len(list)
         /\ \A i \in 1 .. Len(list) : /\ Waiting(list)[i].var = list[i].var
                                      /\ Waiting(list)[i].calls = (list[i].kind = "NM_CALL")
                                      /\ Waiting(list)[i].text = Text(list[i].span)
  <1> DEFINE entry(i) == [var |-> list[i].var, calls |-> list[i].kind = "NM_CALL",
                          text |-> Text(list[i].span)]
  <1>1. DOMAIN list = 1 .. Len(list) /\ Len(list) \in Nat
    OBVIOUS
  <1>2. Waiting(list) = [i \in 1 .. Len(list) |-> entry(i)]
    BY <1>1 DEF Waiting
  <1>3. ASSUME NEW i \in 1 .. Len(list) PROVE entry(i) \in Captures
    <2>1. list[i] \in EntryType
      BY <1>1
    <2>2. list[i].var \in Vars /\ list[i].span \in SpanType
      BY <2>1 DEF EntryType
    <2>3. Text(list[i].span) \in ValueType
      BY <2>2 DEF SpanType, Text, ValueType
    <2>4. (list[i].kind = "NM_CALL") \in BOOLEAN
      OBVIOUS
    <2> QED BY <2>2, <2>3, <2>4 DEF Captures
  <1>4. \A i \in 1 .. Len(list) : /\ entry(i).var = list[i].var
                                 /\ entry(i).calls = (list[i].kind = "NM_CALL")
                                 /\ entry(i).text = Text(list[i].span)
    OBVIOUS
  <1> HIDE DEF entry
  <1>5. Waiting(list) \in Seq(Captures) /\ Len(Waiting(list)) = Len(list)
    BY <1>1, <1>2, <1>3
  <1>6. \A i \in 1 .. Len(list) : Waiting(list)[i] = entry(i)
    BY <1>2
  <1>7. ASSUME NEW i \in 1 .. Len(list)
        PROVE  /\ Waiting(list)[i].var = list[i].var
               /\ Waiting(list)[i].calls = (list[i].kind = "NM_CALL")
               /\ Waiting(list)[i].text = Text(list[i].span)
    <2>1. Waiting(list)[i] = entry(i)
      BY <1>6
    <2>2. Waiting(list)[i].calls = entry(i).calls
      BY <2>1
    <2>3. entry(i).calls = (list[i].kind = "NM_CALL")
      BY <1>4
    <2>4. Waiting(list)[i].calls = (list[i].kind = "NM_CALL")
      BY <2>2, <2>3
    <2> QED BY <1>4, <2>1, <2>4
  <1> QED BY <1>5, <1>7
(* Nothing waits in an empty list.                                             *)
LEMMA NothingWaits == Waiting(<<>>) = <<>>
  <1>1. <<>> \in Seq(EntryType) /\ Len(<<>>) = 0
    OBVIOUS
  <1>2. Waiting(<<>>) \in Seq(Captures) /\ Len(Waiting(<<>>)) = 0
    BY <1>1, WaitingFacts
  <1> QED BY <1>2, EmptySeq

(* A longer list waits with a longer list, and a shorter one with a shorter.   *)
LEMMA FrontWaits ==
  ASSUME NEW s \in Seq(EntryType), NEW t \in Seq(EntryType), Len(s) <= Len(t),
         \A i \in 1 .. Len(s) : s[i] = t[i]
  PROVE  Promise!IsFrontOf(Waiting(s), Waiting(t))
  <1>1. /\ DOMAIN s = 1 .. Len(s) /\ DOMAIN t = 1 .. Len(t) /\ Len(s) \in Nat /\ Len(t) \in Nat
        /\ Len(Waiting(s)) = Len(s) /\ Len(Waiting(t)) = Len(t)
    BY WaitingFacts
  <1>2. DOMAIN Waiting(s) = 1 .. Len(s)
    BY <1>1 DEF Waiting
  <1>3. \A i \in 1 .. Len(s) : Waiting(s)[i] = Waiting(t)[i]
    BY <1>1 DEF Waiting
  <1> QED BY <1>1, <1>2, <1>3 DEF Promise!IsFrontOf

(* While it matches, a statement assigns one variable of "$" or "@", or adds   *)
(* or drops captures at the end of the list.                                   *)
LEMMA Matching ==
  ASSUME StatementOK(stmt), TypeOK, phase \in {"scan", "match"}, phase' \in {"scan", "match"},
         stmt' = stmt, result' = result, nam' \in Seq(EntryType),
         \/ UNCHANGED <<nam, nv>>
         \/ nam' = nam /\ \E v \in AtOnce : \E x : nv' = [nv EXCEPT ![v] = x]
         \/ nv' = nv /\ \E e : nam' = Append(nam, e)
         \/ nv' = nv /\ nam' = NAME_pop(nam)
  PROVE  [Promise!Next]_Promise!vars
  <1>1. /\ nam \in Seq(EntryType) /\ nv \in [Vars -> ValueType]
    BY DEF TypeOK
  <1>2. /\ Doing = "matching" /\ Doing' = "matching" /\ AtOnce' = AtOnce
        /\ Promised = Waiting(nam) /\ Promised' = Waiting(nam')
    BY SameStatement DEF Doing, Promised, AtOnce, Waiting, Text
  <1>3. Waiting(nam') \in Seq(Captures)
    BY WaitingFacts
  <1>4. CASE UNCHANGED <<nam, nv>>
    BY <1>2, <1>4 DEF Promise!vars, Doing, Promised, AtOnce
  <1>5. CASE nam' = nam /\ \E v \in AtOnce : \E x : nv' = [nv EXCEPT ![v] = x]
    <2>1. \E v \in AtOnce : \A u \in DOMAIN nv \ {v} : nv'[u] = nv[u]
      BY <1>5
    <2>2. Promised' = Promised
      BY <1>2, <1>5
    <2>3. Promise!Match
      BY <1>2, <2>1, <2>2 DEF Promise!Match, Doing, Promised, AtOnce
    <2> QED BY <2>3 DEF Promise!Next
  <1>6. CASE nv' = nv /\ \E e : nam' = Append(nam, e)
    <2>1. Len(nam) <= Len(nam') /\ \A i \in 1 .. Len(nam) : nam[i] = nam'[i]
      BY <1>1, <1>6
    <2>2. Promise!IsFrontOf(Waiting(nam), Waiting(nam'))
      BY <1>1, <2>1, FrontWaits
    <2>3. Promise!Match
      BY <1>2, <1>3, <1>6, <2>2 DEF Promise!Match, Doing, Promised, AtOnce, Captures
    <2> QED BY <2>3 DEF Promise!Next
  <1>7. CASE nv' = nv /\ nam' = NAME_pop(nam)
    <2>1. Len(nam') <= Len(nam) /\ \A i \in 1 .. Len(nam') : nam'[i] = nam[i]
      BY <1>1, <1>7 DEF NAME_pop
    <2>2. Promise!IsFrontOf(Waiting(nam'), Waiting(nam))
      BY <1>1, <2>1, FrontWaits
    <2>3. Promise!Match
      BY <1>2, <1>3, <1>7, <2>2 DEF Promise!Match, Doing, Promised, AtOnce, Captures
    <2> QED BY <2>3 DEF Promise!Next
  <1> QED BY <1>4, <1>5, <1>6, <1>7
(* A step of the boxes is a step of the match.                                 *)
LEMMA BoxesMatch ==
  ASSUME StatementOK(stmt), TabsFit, Inv, BoxStep
  PROVE  [Promise!Next]_Promise!vars
  <1>1. /\ phase = "match" /\ phase' = "match" /\ stmt' = stmt /\ result' = result
    BY DEF BoxStep, LeafAlpha, LeafBeta, ArbAlpha, ArbBeta, AtpAlpha, AtpBeta, SeqAlpha, SeqBeta,
       SeqLeftGamma, SeqLeftOmega, SeqRightGamma, SeqRightOmega, AltAlpha, AltBeta, AltGamma, AltNext,
       AltOmega, ArbnoAlpha, ArbnoBeta, ArbnoStall, ArbnoRepeat, ArbnoOmega, AskAlpha, AskBeta, AskBack,
       CapAlpha, CapBeta, CapOmega, CapPush, CapAssign, EnteredAt, BackAt
  <1>2. TypeOK /\ nam' \in Seq(EntryType)
    <2>1. TypeOK /\ TypeOK' /\ stmt' = stmt
      BY <1>1, BoxStepKeeps DEF Inv
    <2> QED BY <2>1, SameStatement DEF TypeOK
  <1>3. CASE AtpAlpha
    <2>1. Me \in Box /\ Pat[Me].fn = "atp"
      BY <1>3, AtAlpha, RunningFacts DEF AtpAlpha
    <2>2. nam' = nam /\ nv' = [nv EXCEPT ![Pat[Me].var] = CursorAt(Delta)] /\ Pat[Me].var \in AtOnce
      BY <1>3, <2>1 DEF AtpAlpha, AtOnce
    <2> QED BY <1>1, <1>2, <2>2, Matching
  <1>4. CASE CapAssign
    <2>1. Me \in Box
      BY <1>4, Captured DEF CapAssign
    <2>2. nam' = nam /\ Pat[Me].var \in AtOnce
      BY <1>4, <2>1 DEF CapAssign, AtOnce
    <2>3. nv' = [nv EXCEPT ![Pat[Me].var] = Text(ctl.span)] \/ nv' = nv
      BY <1>4 DEF CapAssign, Commit, Entry
    <2> QED BY <1>1, <1>2, <2>2, <2>3, Matching
  <1>5. CASE CapPush
    <2>1. nv' = nv /\ nam' = Append(nam, Entry(Me, ctl.span))
      BY <1>5 DEF CapPush, NAME_push
    <2> QED BY <1>1, <1>2, <2>1, Matching
  <1>6. CASE CapBeta \/ CapOmega
    <2>1. nv' = nv /\ (nam' = NAME_pop(nam) \/ nam' = nam)
      BY <1>6 DEF CapBeta, CapOmega, DropPending
    <2> QED BY <1>1, <1>2, <2>1, Matching
  <1>7. ASSUME ~ AtpAlpha, ~ CapAssign, ~ CapPush, ~ CapBeta, ~ CapOmega
        PROVE  UNCHANGED <<nam, nv>>
    BY <1>7 DEF BoxStep, LeafAlpha, LeafBeta, ArbAlpha, ArbBeta, AtpBeta, SeqAlpha, SeqBeta,
       SeqLeftGamma, SeqLeftOmega, SeqRightGamma, SeqRightOmega, AltAlpha, AltBeta, AltGamma, AltNext,
       AltOmega, ArbnoAlpha, ArbnoBeta, ArbnoStall, ArbnoRepeat, ArbnoOmega, AskAlpha, AskBeta, AskBack,
       CapAlpha
  <1>8. CASE UNCHANGED <<nam, nv>>
    BY <1>1, <1>2, <1>8, Matching
  <1> QED BY <1>3, <1>4, <1>5, <1>6, <1>7, <1>8

(* The list without its oldest entry.                                          *)
LEMMA TailWaits ==
  ASSUME NEW list \in Seq(EntryType), list # <<>>
  PROVE  Waiting(Tail(list)) = Tail(Waiting(list)) /\ Waiting(list) # <<>>
  <1> DEFINE w == Waiting(list)
             t == Waiting(Tail(list))
  <1>1. /\ Tail(list) \in Seq(EntryType) /\ Len(Tail(list)) = Len(list) - 1
        /\ \A i \in 1 .. Len(list) - 1 : Tail(list)[i] = list[i + 1]
        /\ Len(list) \in Nat /\ Len(list) >= 1
    BY HeadTailProperties, EmptySeq
  <1>2. w \in Seq(Captures) /\ Len(w) = Len(list) /\ t \in Seq(Captures) /\ Len(t) = Len(list) - 1
    BY <1>1, WaitingFacts
  <1>3. ASSUME NEW i \in 1 .. Len(list) - 1 PROVE t[i] = w[i + 1]
    <2>1. /\ i \in DOMAIN Tail(list) /\ i + 1 \in DOMAIN list
          /\ Tail(list)[i] = list[i + 1]
      BY <1>1
    <2>2. t[i] = [var |-> list[i + 1].var, calls |-> list[i + 1].kind = "NM_CALL",
                  text |-> Text(list[i + 1].span)]
      BY <2>1 DEF Waiting
    <2>3. w[i + 1] = [var |-> list[i + 1].var, calls |-> list[i + 1].kind = "NM_CALL",
                      text |-> Text(list[i + 1].span)]
      BY <2>1 DEF Waiting
    <2> QED BY <2>2, <2>3
  <1> HIDE DEF w, t
  <1>4. w # <<>>
    BY <1>1, <1>2
  <1>5. /\ Tail(w) \in Seq(Captures) /\ Len(Tail(w)) = Len(list) - 1
        /\ \A i \in 1 .. Len(list) - 1 : Tail(w)[i] = w[i + 1]
    BY <1>2, <1>4, HeadTailProperties
  <1>6. t = Tail(w)
    BY <1>2, <1>3, <1>5, SeqEqual
  <1> QED BY <1>4, <1>6 DEF w, t

(* The walk over the naming list assigns the oldest capture that waits, or     *)
(* leaves it out where that cannot be seen, or its function fails.             *)
LEMMA WalkAssigns ==
  ASSUME StatementOK(stmt), Inv, CommitSlot
  PROVE  Promise!AssignOldest
  <1> DEFINE rest == SubSeq(nam, slot, Len(nam))
             w == Waiting(rest)
             e == nam[slot]
  <1>1. /\ slot \in Nat /\ slot >= 1 /\ nam \in Seq(EntryType) /\ Len(nam) \in Nat
        /\ nv \in [Vars -> ValueType]
    BY LaterFacts
  <1>2. /\ phase = "commit" /\ phase' = "commit" /\ slot <= Len(nam) /\ slot' = slot + 1
        /\ UNCHANGED <<stmt, nam, result>>
    BY DEF CommitSlot
  <1>3. \/ Superseded(nam, slot) /\ nv' = nv
        \/ \E done \in BOOLEAN : Commit(nam[slot], done)
    BY DEF CommitSlot
  <1>4. /\ rest \in Seq(EntryType) /\ Len(rest) = Len(nam) - slot + 1 /\ rest # <<>>
        /\ \A i \in 1 .. Len(rest) : rest[i] = nam[slot + i - 1]
    <2>1. \A i \in slot .. Len(nam) : nam[i] \in EntryType
      BY <1>1
    <2>2. /\ rest \in Seq(EntryType) /\ Len(rest) = Len(nam) - slot + 1
          /\ \A i \in 1 .. Len(nam) - slot + 1 : rest[i] = nam[slot + i - 1]
      BY <1>1, <1>2, <2>1, SubSeqProperties
    <2>3. Len(rest) # 0
      BY <1>1, <1>2, <2>2
    <2> QED BY <2>2, <2>3, EmptySeq
  <1>5. SubSeq(nam, slot + 1, Len(nam)) = Tail(rest)
    BY <1>1, <1>2, HeadTailOfSubSeq
  <1> HIDE DEF rest
  <1>6. /\ w \in Seq(Captures) /\ Len(w) = Len(rest) /\ Len(w) \in Nat /\ 1 \in 1 .. Len(w)
        /\ \A i \in 1 .. Len(w) : /\ w[i].var = rest[i].var /\ w[i].text = Text(rest[i].span)
                                  /\ w[i].calls = (rest[i].kind = "NM_CALL")
    <2>1. Len(rest) \in Nat /\ Len(rest) >= 1
      BY <1>1, <1>2, <1>4
    <2> QED BY <1>4, <2>1, WaitingFacts
  <1>7. Waiting(Tail(rest)) = Tail(w) /\ w # <<>> /\ rest[1] = e
    BY <1>1, <1>4, <1>6, TailWaits
  <1>8. /\ Doing = "assigning" /\ Doing' = "assigning" /\ AtOnce' = AtOnce
        /\ Promised = w /\ Promised' = Tail(w)
    <2>1. Promised' = Waiting(SubSeq(nam, slot + 1, Len(nam)))
      BY <1>2, SameStatement DEF Promised, Waiting, Text
    <2>2. Promised = w
      BY <1>2 DEF Promised, rest
    <2> QED BY <1>2, <1>5, <1>7, <2>1, <2>2, SameStatement DEF Doing, AtOnce
  <1> HIDE DEF w
  <1>9. \/ nv' = [nv EXCEPT ![w[1].var] = w[1].text]
        \/ (Promise!Hidden \/ w[1].calls) /\ nv' = nv
    <2>1. CASE Superseded(nam, slot) /\ nv' = nv
      <3>1. PICK j \in slot + 1 .. Len(nam) : /\ SameTarget(nam[slot], nam[j])
                                              /\ \A k \in slot + 1 .. j : nam[k].kind # "NM_CALL"
        BY <2>1 DEF Superseded
      <3> DEFINE i == j - slot + 1
      <3>2. i \in 2 .. Len(w) /\ i \in 1 .. Len(rest) /\ rest[i] = nam[j] /\ 1 \in 1 .. Len(rest)
        <4>1. Len(w) = Len(nam) - slot + 1 /\ Len(rest) = Len(w)
          BY <1>4, <1>6
        <4>2. i \in 2 .. Len(w) /\ 1 \in 1 .. Len(rest) /\ slot + i - 1 = j
          BY <1>1, <4>1
        <4> QED BY <1>1, <1>4, <4>1, <4>2
      <3>3. w[i].var = w[1].var
        <4>1. w[i].var = rest[i].var /\ w[1].var = rest[1].var
          BY <1>6, <3>2
        <4>2. nam[slot].var = nam[j].var
          BY <3>1 DEF SameTarget
        <4> QED BY <1>7, <3>2, <4>1, <4>2
      <3>4. ASSUME NEW k \in 1 .. i PROVE ~ w[k].calls
        <4>1. k \in 1 .. Len(w) /\ k \in 1 .. Len(rest) /\ k \in Int
          BY <1>6, <3>2
        <4>5. rest[k] = nam[slot + k - 1]
          BY <1>4, <4>1
        <4>2. nam[slot].kind # "NM_CALL"
          BY <3>1 DEF SameTarget
        <4>3. rest[k].kind # "NM_CALL"
          <5>1. slot + k - 1 = slot \/ slot + k - 1 \in slot + 1 .. j
            BY <1>1, <4>1
          <5> QED BY <3>1, <4>2, <4>5, <5>1
        <4>4. w[k].calls = FALSE
          BY <1>6, <4>1, <4>3
        <4> QED BY <4>4
      <3>5. Promise!Hidden
        BY <1>8, <3>2, <3>3, <3>4 DEF Promise!Hidden, Promised
      <3> QED BY <2>1, <3>5
    <2>2. CASE \E done \in BOOLEAN : Commit(nam[slot], done)
      <3>1. \/ nv' = [nv EXCEPT ![e.var] = Text(e.span)]
            \/ e.kind = "NM_CALL" /\ nv' = nv
        BY <2>2 DEF Commit
      <3>2. CASE nv' = [nv EXCEPT ![e.var] = Text(e.span)]
        BY <1>6, <1>7, <3>2
      <3>3. CASE e.kind = "NM_CALL" /\ nv' = nv
        <4>1. w[1].calls = TRUE
          BY <1>6, <1>7, <3>3
        <4> QED BY <3>3, <4>1
      <3> QED BY <3>1, <3>2, <3>3
    <2> QED BY <1>3, <2>1, <2>2
  <1> QED BY <1>2, <1>7, <1>8, <1>9 DEF Promise!AssignOldest, Doing, Promised, AtOnce
(* A step of exec_stmt.                                                        *)
LEMMA ExecPromised ==
  ASSUME StatementOK(stmt), Inv, ExecStep
  PROVE  [Promise!Next]_Promise!vars
  <1>1. /\ TypeOK /\ nam \in Seq(EntryType) /\ Len(nam) \in Nat /\ slot \in Nat /\ slot >= 1
        /\ result.outcome \in {"none", "S", "F", "undefined"}
        /\ result \in [outcome : {"none", "S", "F", "undefined"}, start : Int, end : Int, value : Seq(Chars)]
    BY LaterFacts
  <1>2. Waiting(<<>>) = <<>>
    BY NothingWaits
  <1>3. ASSUME stmt' = stmt
        PROVE  AtOnce' = AtOnce /\ \A list : Waiting(list)' = Waiting(list)
    BY <1>3, SameStatement DEF AtOnce, Waiting, Text
  <1>4. CASE TryPosition \/ PositionFails
    <2>1. /\ phase \in {"scan", "match"} /\ phase' \in {"scan", "match"}
          /\ UNCHANGED <<stmt, nam, nv, result>>
      BY <1>4 DEF TryPosition, PositionFails
    <2> QED BY <1>1, <2>1, Matching
  <1>5. CASE MatchFails \/ MatchUnused
    <2>1. /\ phase \in {"scan", "match"} /\ phase' = "done" /\ nam' = <<>>
          /\ result' = [result EXCEPT !.outcome = "F"] /\ UNCHANGED <<stmt, nv>>
      BY <1>5 DEF MatchFails, MatchUnused
    <2>2. /\ Doing = "matching" /\ Doing' = "done" /\ Promised' = <<>> /\ AtOnce' = AtOnce
          /\ result'.outcome = "F" /\ result'.value = result.value
      BY <1>1, <1>2, <1>3, <2>1 DEF Doing, Promised
    <2>3. Promise!GiveUp
      BY <2>1, <2>2 DEF Promise!GiveUp, Doing, Promised, AtOnce
    <2> QED BY <2>3 DEF Promise!Next
  <1>6. CASE MatchFound
    <2>1. /\ phase = "match" /\ phase' = "commit" /\ slot' = 1 /\ UNCHANGED <<stmt, nam, nv>>
          /\ result'.outcome = result.outcome /\ result'.value = result.value
      BY <1>1, <1>6 DEF MatchFound
    <2>2. SubSeq(nam, 1, Len(nam)) = nam
      BY <1>1
    <2>3. Doing = "matching" /\ Doing' = "assigning" /\ Promised' = Promised /\ AtOnce' = AtOnce
      BY <1>3, <2>1, <2>2 DEF Doing, Promised
    <2>4. Promise!Succeed
      BY <2>1, <2>3 DEF Promise!Succeed, Doing, Promised, AtOnce
    <2> QED BY <2>4 DEF Promise!Next
  <1>7. CASE CommitSlot
    BY <1>7, WalkAssigns DEF Promise!Next
  <1>8. CASE CommitDone
    <2>1. /\ phase = "commit" /\ phase' = "replace" /\ slot > Len(nam) /\ nam' = <<>>
          /\ UNCHANGED <<stmt, nv, result>>
      BY <1>8 DEF CommitDone
    <2>2. SubSeq(nam, slot, Len(nam)) = <<>>
      BY <1>1, <2>1, SubSeqEmpty
    <2>3. /\ Doing = "assigning" /\ Doing' = "replacing" /\ Promised = <<>> /\ Promised' = <<>>
          /\ AtOnce' = AtOnce
      BY <1>2, <1>3, <2>1, <2>2 DEF Doing, Promised
    <2>4. Promise!Assigned
      BY <2>1, <2>3 DEF Promise!Assigned, Doing, Promised, AtOnce
    <2> QED BY <2>4 DEF Promise!Next
  <1>9. CASE Replace
    <2>1. phase = "replace" /\ phase' = "done" /\ UNCHANGED <<stmt, nam, nv>>
      BY <1>9 DEF Replace
    <2>2. result'.outcome \in {"S", "undefined"}
      BY <1>1, <1>9 DEF Replace
    <2>3. Doing = "replacing" /\ Doing' = "done" /\ Promised' = Promised /\ AtOnce' = AtOnce
      BY <1>3, <2>1 DEF Doing, Promised
    <2>4. Promise!Finish
      BY <2>1, <2>2, <2>3 DEF Promise!Finish, Doing, Promised, AtOnce
    <2> QED BY <2>4 DEF Promise!Next
  <1> QED BY <1>4, <1>5, <1>6, <1>7, <1>8, <1>9 DEF ExecStep

(* A statement implements what Statement promises: while it matches only "$"   *)
(* and "@" assign; a match that fails leaves nothing waiting; the captures of  *)
(* one that is found are assigned in order, and then the subject is replaced.  *)
THEOREM PromiseKept == Spec /\ TabsFit => KeepsPromise
  <1>1. Init => Promise!Init
    <2> SUFFICES ASSUME Init PROVE Promise!Init
      OBVIOUS
    <2>1. nam = <<>> /\ phase = "scan" /\ result.outcome = "none"
      BY DEF Init
    <2> QED BY <2>1, NothingWaits DEF Promise!Init
  <1>2. IInv /\ TabsFit /\ [Next]_vars => [Promise!Next]_Promise!vars
    <2> SUFFICES ASSUME IInv, TabsFit, [Next]_vars
                 PROVE  [Promise!Next]_Promise!vars
      OBVIOUS
    <2>1. CASE BoxStep
      BY <2>1, BoxesMatch DEF IInv
    <2>2. CASE ExecStep
      BY <2>2, ExecPromised DEF IInv
    <2>3. CASE UNCHANGED vars
      BY <2>3 DEF vars, machine, Promise!vars, Waiting, Text, Box, Pat
    <2> QED BY <2>1, <2>2, <2>3 DEF Next, Done
  <1>3. TabsFit /\ [Next]_vars => TabsFit'
    BY StatementStays, SameStatement
  <1> QED BY <1>1, <1>2, <1>3, Invariance, PTL DEF Spec, KeepsPromise, Promise!Spec
=============================================================================
