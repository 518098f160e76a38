------------------------------ MODULE NodeCache ------------------------------
(***************************************************************************)
(* How bb_build turns a pattern into a graph of boxes, and the cache of    *)
(* built graphs that it and the live mode of exec_stmt share               *)
(* (runtime/x86/stmt_exec.c).  A pattern is a DAG of PATND_t nodes, since  *)
(* a pattern held by a variable may occur in many others.  Every block of  *)
(* state that a box keeps (its zeta, and the frame stack of an ARBNO) has  *)
(* a number, so that sharing is visible.  What the boxes do in a match is  *)
(* the module ByrdBoxes; here a match only resolves its *X boxes, and runs *)
(* functions whose statements match in turn.                               *)
(***************************************************************************)
EXTENDS CacheTable, Sequences, SequencesExt, FiniteSets

CONSTANTS
    Kind, Kids,              \* the kind and the children of each pattern node
    Statements,              \* the patterns that statements match with
    Values, Texts,           \* the patterns and the strings that *X may find in X
    MaxLive, MaxBlocks       \* bounds: nested matches, blocks allocated

ASSUME NodeCacheAssumption ==
    /\ Kind \in [Nodes -> {"chr", "or", "cat", "arbno", "dsar", "var", "nme", "callcap"}]
    /\ Kids \in [Nodes -> Seq(Nodes)]
    /\ Statements \subseteq Nodes /\ Values \subseteq Nodes
    /\ None \notin Texts

VARIABLES mode,    \* g_bb_mode
          next,    \* the number of the next block to be allocated
          child,   \* what the block of a *X box points to, and for which value
          wiped,   \* the blocks that a memset has zeroed
          live     \* the matches under way, the innermost last

vars == <<mode, cache, next, child, wiped, live>>

(* bb_node_t: the function, the block of its zeta, the node it was made of *)
(* where the zeta keeps something of it, the children and the own stack.   *)
Box(fn, at, node, kids, stack) ==
    [fn |-> fn, at |-> at, node |-> node, kids |-> kids, stack |-> stack]

(***************************************************************************)
(* Which patterns are cached.                                              *)
(***************************************************************************)
DeferredOnly == {"dsar", "var"}       \* for a mutant: captures are forgotten

AlwaysVariant == {"dsar", "var", "nme"}

RECURSIVE patnd_is_invariant(_)

patnd_is_invariant(p) ==
    /\ Kind[p] \notin AlwaysVariant
    /\ \A i \in DOMAIN Kids[p] : patnd_is_invariant(Kids[p][i])

(***************************************************************************)
(* Building.  A builder takes and returns what it may change: the cache,   *)
(* the blocks, and the box it has made.                                    *)
(***************************************************************************)
Zeta(m, fn, node, kids) ==
    [m EXCEPT !.box = Box(fn, m.next, node, kids, 0), !.next = @ + 1]

HandsOutTemplate(m, p) ==             \* for a mutant: no copy at all
    [m EXCEPT !.box = Template(m.cache, p)]

(* A hit: the root's block is copied, whatever it points to is not.        *)
cache_get_fresh(m, p) ==
    LET t == Template(m.cache, p) IN
    IF t.at = 0 THEN [m EXCEPT !.box = t]
    ELSE [m EXCEPT !.box = [t EXCEPT !.at = m.next], !.next = @ + 1,
                   !.wiped = IF t.at \in @ THEN @ \cup {m.next} ELSE @]

(* The pairs of a concatenation, folded from the right.                    *)
PairWith(m, left) == LET right == m.box IN [left EXCEPT
    !.box = Box("seq", left.next, None, <<left.box, right>>, 0), !.next = @ + 1]

AllButTheFirst(ps) == Reverse(Tail(Front(ps)))  \* for a mutant: i > 0 for i >= 0

Elements(ps) == Reverse(Front(ps))

RECURSIVE bb_build(_, _)

Concatenated(ps, m) ==
    FoldLeft(LAMBDA right, p : PairWith(right, bb_build(p, right)),
             bb_build(Last(ps), m), Elements(ps))

Arms(ps, m) ==
    FoldLeft(LAMBDA r, p : LET b == bb_build(p, r.m) IN
                           [m |-> b, boxes |-> Append(r.boxes, b.box)],
             [m |-> m, boxes |-> <<>>], ps)

Built(p, m) ==
    LET ps == Kids[p]
        arms == Arms(ps, m)
    IN CASE Kind[p] = "cat" /\ Len(ps) = 0 -> Zeta(m, "eps", None, <<>>)
         [] Kind[p] = "cat" /\ Len(ps) = 1 -> bb_build(ps[1], m)
         [] Kind[p] = "cat" /\ Len(ps) > 1 -> Concatenated(ps, m)
         [] Kind[p] = "or"                 -> Zeta(arms.m, "or", None, arms.boxes)
         [] Kind[p] = "arbno"              ->
              LET z == Zeta(arms.m, "arbno", None, arms.boxes) IN
              [z EXCEPT !.box.stack = z.next, !.next = @ + 1]
         [] OTHER                          -> Zeta(arms.m, Kind[p], p, arms.boxes)

bb_build(p, m) ==
    IF m.caching /\ patnd_is_invariant(p) /\ Hit(m.cache, p) THEN cache_get_fresh(m, p)
    ELSE LET n == Built(p, m) IN
         IF m.caching /\ patnd_is_invariant(p)
         THEN [n EXCEPT !.cache = cache_insert(@, p, n.box)] ELSE n

(* The builders of machine code make the same boxes without the cache and  *)
(* bake the blocks into the code: what they return has no block to copy.   *)
RECURSIVE HasCode(_)

HasCode(p) == Kind[p] # "var" /\ \A i \in DOMAIN Kids[p] : HasCode(Kids[p][i])

bb_build_binary(p, m) ==
    LET n == bb_build(p, [m EXCEPT !.caching = FALSE])
        blob == Box("blob", 0, None, <<n.box>>, 0)
    IN [n EXCEPT !.box = blob, !.cache = cache_insert(@, p, blob)]

Memory == [cache |-> cache, next |-> next, wiped |-> wiped, box |-> <<>>, caching |-> TRUE]

Store(m) ==
    /\ m.next <= MaxBlocks + 1
    /\ cache' = m.cache /\ next' = m.next /\ wiped' = m.wiped

(***************************************************************************)
(* The graphs in use.                                                      *)
(***************************************************************************)
Resolved(b) ==
    IF b.fn \in {"dsar", "var"} /\ b.at \in DOMAIN child THEN <<child[b.at].box>> ELSE <<>>

RECURSIVE Unrolled(_)

(* The boxes of a graph, once for every path to them.                      *)
Unrolled(b) ==
    IF b.at \in wiped THEN <<b>>
    ELSE FoldLeft(LAMBDA s, k : s \o Unrolled(k), <<b>>, b.kids \o Resolved(b))

InUse == FlattenSeq([i \in DOMAIN live |-> Unrolled(live[i].root)])

Running == ToSet(Unrolled(Last(live).root))

(***************************************************************************)
(* Phase 2 of exec_stmt: the graph of the statement's pattern.  A match    *)
(* nests in another when a box of that one calls a function.               *)
(***************************************************************************)
Begin(p, root) == live' = Append(live, [pattern |-> p, root |-> root])

MayBegin(p) ==
    /\ Len(live) < MaxLive
    /\ live # <<>> => \E b \in Running : b.fn = "callcap"

ExecBuilt(p) ==
    /\ MayBegin(p)
    /\ mode = "live" => ~Hit(cache, p) /\ ~HasCode(p)
    /\ LET m == bb_build(p, Memory) IN Store(m) /\ Begin(p, m.box)
    /\ UNCHANGED <<mode, child>>

(* Live mode: a cached root is used as it is; otherwise machine code is    *)
(* tried, and cached whatever the pattern is.                              *)
ExecReused(p) ==
    /\ MayBegin(p)
    /\ mode = "live" /\ Hit(cache, p)
    /\ Begin(p, Template(cache, p))
    /\ UNCHANGED <<mode, cache, next, child, wiped>>

ExecCompiled(p) ==
    /\ MayBegin(p)
    /\ mode = "live" /\ ~Hit(cache, p) /\ HasCode(p)
    /\ LET m == bb_build_binary(p, Memory) IN Store(m) /\ Begin(p, m.box)
    /\ UNCHANGED <<mode, child>>

Finish ==
    /\ live # <<>>
    /\ live' = Front(live)
    /\ UNCHANGED <<mode, cache, next, child, wiped>>

(* Between programs; nothing is matching then.                             *)
Reset ==
    /\ live = <<>>
    /\ cache' = cache_reset(cache)
    /\ UNCHANGED <<mode, next, child, wiped, live>>

(***************************************************************************)
(* bb_deferred_var at alpha, for a box of the innermost match.             *)
(***************************************************************************)
Deferred(b) == b.fn \in {"dsar", "var"} /\ b.at \notin wiped

Enter(d, value, box) ==
    /\ child' = [x \in DOMAIN child \cup {d.at} |->
                   IF x = d.at THEN [value |-> value, box |-> box] ELSE child[x]]
    /\ UNCHANGED live

(* X holds a pattern: it is compared with the child's state, which it      *)
(* never is, so the child is built anew.                                   *)
FindPattern(d, p) == LET m == bb_build(p, Memory) IN Store(m) /\ Enter(d, p, m.box)

(* X holds a string: a literal of the same text is kept.                   *)
FindText(d, s) ==
    /\ \A b \in ToSet(Resolved(d)) : b.fn # "chr" \/ b.node # s
    /\ LET m == Zeta(Memory, "chr", s, <<>>) IN Store(m) /\ Enter(d, s, m.box)

(* X holds neither: a child made for an earlier value is kept, and its     *)
(* block zeroed unless it is one of those that only hold a configuration.  *)
FindOther(d) ==
    \/ /\ Resolved(d) = <<>>
       /\ LET m == Zeta(Memory, "eps", None, <<>>) IN Store(m) /\ Enter(d, None, m.box)
    \/ /\ \E b \in ToSet(Resolved(d)) :
             /\ b.fn # "chr" /\ b.at # 0
             /\ wiped' = wiped \cup {b.at}
       /\ UNCHANGED <<cache, next, child, live>>

Init ==
    /\ mode \in {"driver", "live"}
    /\ cache = [s \in 0..Cap - 1 |-> EmptySlot]
    /\ next = 1 /\ child = <<>> /\ wiped = {} /\ live = <<>>

Execute == \E p \in Statements : ExecBuilt(p) \/ ExecReused(p) \/ ExecCompiled(p)

Resolve ==
    /\ live # <<>>
    /\ UNCHANGED mode
    /\ \E d \in {b \in Running : Deferred(b)} :
          \/ \E p \in Values : FindPattern(d, p)
          \/ \E s \in Texts : FindText(d, s)
          \/ FindOther(d)

Next == Execute \/ Finish \/ Reset \/ Resolve

Spec == Init /\ [][Next]_vars

(***************************************************************************)
(* The properties.                                                         *)
(***************************************************************************)
Places == DOMAIN InUse

RECURSIVE Unfolds(_, _), UnfoldsCat(_, _)

UnfoldsCat(b, ps) ==
    IF Len(ps) = 1 THEN Unfolds(b, ps[1])
    ELSE b.at \in wiped \/
         (b.fn = "seq" /\ Unfolds(b.kids[1], Head(ps)) /\ UnfoldsCat(b.kids[2], Tail(ps)))

Unfolds(b, p) ==
    \/ b.at \in wiped
    \/ b.fn = "blob" /\ Unfolds(b.kids[1], p)
    \/ /\ Kind[p] = "cat" /\ b.fn # "blob"
       /\ IF Kids[p] = <<>> THEN b.fn = "eps" ELSE UnfoldsCat(b, Kids[p])
    \/ /\ Kind[p] # "cat" /\ b.fn = Kind[p] /\ b.node \in {p, None}
       /\ Len(b.kids) = Len(Kids[p])
       /\ \A i \in DOMAIN b.kids : Unfolds(b.kids[i], Kids[p][i])

BlocksOf(b) == {b.at, b.stack} \ {0}

Allocated(b) == \A x \in ToSet(Unrolled(b)) : BlocksOf(x) \subseteq 1..next - 1

(* Blocks are numbered in the order of allocation, a slot holds a graph    *)
(* exactly when it has a key, and *X boxes alone have resolved children.   *)
TypeOK ==
    /\ mode \in {"driver", "live"}
    /\ next \in 1..MaxBlocks + 1 /\ wiped \subseteq 1..next - 1
    /\ \A s \in 0..Cap - 1 :
          \/ cache[s] = EmptySlot
          \/ cache[s].key \in Nodes /\ cache[s].template # <<>> /\ Allocated(cache[s].template)
    /\ DOMAIN child \subseteq 1..next - 1
    /\ \A x \in DOMAIN child : /\ child[x].value \in Values \cup Texts \cup {None}
                              /\ Allocated(child[x].box)
    /\ Len(live) <= MaxLive
    /\ \A i \in DOMAIN live : live[i].pattern \in Statements /\ Allocated(live[i].root)

(* Whatever was built, copied and cached before, in whichever mode, and    *)
(* with the table full or keys colliding, a match runs the graph of its    *)
(* own pattern, and so does every *X of the value it has found: only a     *)
(* block that the memset of bb_deferred_var has zeroed is not as built.    *)
GraphUnfolds ==
    /\ \A i \in DOMAIN live : Unfolds(live[i].root, live[i].pattern)
    /\ \A x \in DOMAIN child :
          child[x].value \in Values => Unfolds(child[x].box, child[x].value)

(* A box that depends on a variable or writes one (stmt_exec.c:222-228)    *)
(* is built for one place of one match: driver mode never hands it out a   *)
(* second time, at any depth below what is cached.                         *)
VariantFresh ==
    mode = "driver" =>
        \A i, j \in Places :
            (i # j /\ InUse[i].fn \in {"dsar", "var", "nme"}) => InUse[i].at # InUse[j].at

(* Two matches under way never start from the same block, even when both   *)
(* are of one cached pattern, or one is of a pattern inside the other's.   *)
RootsApart ==
    mode = "driver" =>
        \A i \in DOMAIN live : Cardinality({j \in Places : InUse[j].at = live[i].root.at}) = 1

(* "fn is shared (stateless); zeta is per-match" (stmt_exec.c:307): no     *)
(* block is at two places of the matches under way.                        *)
ZetaPerMatch ==
    mode = "driver" =>
        \A i, j \in Places : i # j => BlocksOf(InUse[i]) \cap BlocksOf(InUse[j]) = {}
=============================================================================
