# A verification of the snobol4x runtime

TLA+ models of the pattern matcher of snobol4x and of the Prolog and Icon engines beside
it, model-checked with TLC, and proofs about them checked by TLAPS. Paths below are relative to the repository; unless
they say otherwise they lie in `src/runtime/x86/`.

## 1. The system

snobol4x compiles SNOBOL4, Icon, Prolog and other languages to one tree and runs it in
several ways. What all ways share is the *Byrd box*: a small machine with four ports.
A box is entered at alpha (start) or at beta (resume, find another solution), and
leaves through gamma (success) or omega (failure). Everything is single-threaded C;
what is hard in it is not parallelism but *shared mutable state under backtracking and
re-entry*.

| component | state | operations | correct when |
|---|---|---|---|
| Byrd boxes (`bb_boxes.c`, `bb_box.h`) | a private state per box; shared: the cursor Delta, the naming list | alpha and beta of 26 box functions | boxes enumerate the solutions of the pattern in order; failing restores the cursor and the list |
| Statement executor (`stmt_exec.c`, `bb_broker.c`) | the globals Sigma, Omega, Delta, Sigmalen; the node cache | `exec_stmt`: subject, build, scan, commit, replace | the leftmost match, its captures, and only its text replaced |
| Naming list (`snobol4_nmd.c`, `name_t.c`) | a chain of contexts, each a stack of pending captures | push, pop, commit, enter, leave | a match assigns its own captures, in order, once |
| Calls and evaluation (`src/driver/interp.c`, `eval_code.c`) | `call_stack`, `call_depth`, saved variables and globals | `call_user_function`, `EXPVAL_fn`, EVAL, the longjmp of an error | whoever was interrupted finds its state again |
| Tree interpreter (`src/driver/interp.c`) | the variables, the control stack of statements | evaluate expressions, run statements | as the other executors do |
| Executable pool (`bb_pool.c`) | slab, bump pointer, page protections | init, alloc, seal, free, destroy | no page has two owners; code is executable, open buffers are writable |
| Machine-code builders (`bb_build.c`, `bb_flat.c`, `bb_emit.c`) | blobs in the pool, live node cache | build a pattern, flatten it | blobs live as long as they are used; same search as the C boxes |
| Pattern constructors, library (`snobol4_pattern.c`, `snobol4.c`, ...) | pattern descriptors, keywords | build pattern trees, builtins | values are as the operators say |
| Stack machine (`sm_interp.c`, `sm_lower.c`, `sm_codegen.c`) | operand stack, program counter | lower and run | agrees with the tree interpreter |
| Prolog (`src/frontend/prolog/`) | trail, bindings, choice boxes, the target of cuts | unify, undo, choice, cut | the first solution is found; failure undoes bindings; a cut removes its own clause's choices |
| Icon (`src/frontend/icon/`, `src/runtime/interp/icn_runtime.c`) | generator states, a stack of procedure frames, coroutines | build, alpha and beta of each generator; `every` | a loop gets each result once, in order |
| Driver, monitor (`src/driver/`) | options; two executors in lock step | run, compare | reports the first difference |
| SIL port (`src/silly/`) | its own arena and stacks | allocate, mark, sweep | reachable blocks survive |
| Parsers, other back ends | - | text to trees; the boxes in JS, JVM, .NET | - |

How they interact. `exec_stmt` asks `bb_build` for the graph of boxes of a pattern,
enters a naming context, and lets `bb_broker` (mode BB_SCAN) enter the root at every
cursor position until it returns through gamma. Boxes call each other as C functions.
They may call *out*: a deferred expression runs `EXPVAL_fn`, a capture whose target is
a function call runs `call_user_function`, and both may run whole statements, with
`exec_stmt` re-entered and the same globals in use. On success `NAME_commit` walks the
pending captures and assigns them; this again may call functions. A runtime error jumps
(longjmp) to the statement loop from wherever it is raised.

Prolog and Icon use the same broker in its other modes. BB_ONCE runs a Prolog goal to its
first solution; the graph grows while it runs, since a choice builds the boxes of a
clause when it tries it. BB_PUMP runs a loop body at each result of an Icon generator;
between two entries of the generator the body changes what the boxes read, and a
procedure that has suspended keeps its frame on the stack that the body uses.

The hard behaviours are therefore: resuming a box whose private state is stale;
the cursor and the naming list getting out of step with the boxes; a nested statement
changing what the outer one has yet to read; a longjmp between an entry and its exit;
buffers reused under the wrong page protection; a cached graph of boxes used in two
places; a cut that reaches the wrong predicate; a loop body that runs between two results
of its own generator. `PROJECT.json` lists each hazard at
its line with the properties that guard it.

## 2. The modules

| module | models | lines it stands for |
|---|---|---|
| `NamList` | one naming list: push, pop, which entries `NAME_commit` skips | `snobol4_nmd.c` |
| `ByrdBoxes` | one pattern-match statement: boxes, broker, `exec_stmt` | `bb_boxes.c`, `bb_broker.c`, `stmt_exec.c` |
| `MatchReference` | what a pattern matches, as a function, with the properties that compare the two | (a definition to check against) |
| `Statement` | what a statement promises about the program's variables, without boxes | (the abstract specification of `ByrdBoxes`) |
| `Patterns` | constructors with which the checking modules write patterns | `bb_build` of `stmt_exec.c` makes the same graphs |
| `CacheTable` | the hash table of built graphs | `stmt_exec.c` |
| `NodeCache` | how patterns become graphs of boxes, the cache of graphs, deferred patterns | `stmt_exec.c` |
| `NameContexts` | the chain of naming contexts under nested matches, calls, expressions and errors | `snobol4_nmd.c`, the callers in `stmt_exec.c`, `eval_code.c`, `interp.c` |
| `SubjectGlobals` | the four globals and `call_depth` under the same nesting | `interp.c`, `eval_code.c`, `stmt_exec.c` |
| `BoxPool` | the executable-memory pool | `bb_pool.c` |
| `Bindings` | Prolog variables and the trail | `prolog_unify.c` |
| `PrologBoxes` | one Prolog goal: its boxes, cut, when bindings are undone | `pl_broker.c`, `bb_broker.c` |
| `PrologTerms` | terms, unification, the boxes of a body goal: what `PrologBoxes` takes as parameters | `pl_runtime.c`, `prolog_unify.c`, `pl_broker.c` |
| `PrologReference` | the first solution of a program, as a function, with the properties that compare the two | (a definition to check against) |
| `Trail` | the trail under every order of binding, marking and unwinding | `prolog_unify.c` |
| `Checkpoints` | a store that is copied whole at choice points and put back | (the abstract specification of `Trail`) |
| `IconGenerators` | nested `every` loops over generator boxes and suspending procedures | `icon_gen.c`, `icn_runtime.c`, `interp.c` |
| `IconReference` | the values a loop is to get, as a function, with the properties that compare the two | (a definition to check against) |
| `KeyTable` | `key(T)` over a table that changes while it is suspended | `icon_gen.c`, `interp.c`, `snobol4.c` |
| `ByrdBoxesProofs` | the inductive invariant of `ByrdBoxes` and its theorems; a statement implements `Statement` | |
| `PrologProofs` | the inductive invariant of `PrologBoxes` and its theorems | |
| `NameContextsProofs`, `SubjectGlobalsProofs`, `BoxPoolProofs`, `TrailProofs`, `CacheTableProofs`, `KeyTableProofs` | the other theorems | |
| `MCMatch`, `MCResume`, `MCDivergence`, `MCNameContexts`, `MCSubjectGlobals`, `MCBoxPool`, `MCNodeCache`, `MCProlog`, `MCTrail`, `MCIcon` | small instances | |

What uses what: `NamList` is used by both `ByrdBoxes` and `NameContexts`; the first has
one context and every detail of the match, the second has all contexts and a match
reduced to the calls it makes on its list. `Bindings` is used by both `PrologBoxes` and
`Trail`; the first has the terms, and marks where the boxes keep them, the second any
term and any order of marks. `ByrdBoxes` instantiates `Statement`, and `Trail` instantiates
`Checkpoints`, under refinement mappings. `IconGenerators` extends `KeyTable`. `NodeCache` extends `CacheTable` and makes the graphs that `ByrdBoxes`
runs: `ByrdBoxes` takes every box to have a state of its own, and `div_share` is the case in
which the cache does not give it one.

### ByrdBoxes and Statement

A pattern is a sequence of boxes, the root first, kids by position. The C call stack is
`calls`, innermost first, each entry a box and the place in its code where it waits;
`ctl` is the port in control with the span a returning child hands over. One action is
what a box function does between two calls. Thus `bb_seq` gives `SeqAlpha`, `SeqBeta`
and the four returns `SeqLeftGamma`, `SeqLeftOmega`, `SeqRightGamma`, `SeqRightOmega`,
which are the labels of its C code.

- The private state `zeta[n]` is one record with the fields all box kinds need
  (`delta` of the primitives, `count` and `start` of ARB, `current` of ALT, `matched` of
  SEQ, `frames` of ARBNO, `pending` of a capture), in place of one struct per kind.
- Spans are a position and a length; the text follows from the subject. The position is
  kept because the code keeps a pointer.
- `bb_arbno` at beta returns a local span that nothing has assigned. That is undefined
  in C; `ArbnoBeta` returns any span of the subject, or fails, since the
  null span is how a box says omega.
- The node cache copies the root with the flags a former match left; `Init` starts
  captures with `has_pending` set or not.
- `bb_not` and `bb_interr` are in the library of boxes and modelled with it, although
  `bb_build` makes neither.
- Functions that a capture calls are outside (`Commit`): they may fail, and otherwise
  give a variable to assign. What functions do to the globals and to naming contexts is
  the subject of `SubjectGlobals` and `NameContexts`.
- `hist` is a history variable that no guard reads: each box's cursor and list at its
  last alpha, its last exit, and the cursor and list (`end`, `out`) it left there.
- `StatementOK` says what a program is: a pattern is a tree, so that every box has a state
  of its own, and a statement whose subject is no variable has the null string as its subject.
- Some boxes fail with the cursor ahead of where they were entered (`Strays`): ARB that has
  run out, REM, NOT whose child succeeds, an ARBNO that is resumed, a capture whose
  function fails. Whatever is resumed before them is led astray. `Undisturbed`
  is the largest set of boxes that this cannot reach; `CursorRestored` and
  `FramesFollowCursor` speak of these.

`Statement` forgets the boxes, the cursor and the search. A statement matches, and while it does only
the targets of `$` and `@` change; it gives up and forgets what was waiting,
or assigns the waiting captures in their order, once, leaving out at most those that a
later one hides; then it replaces. The mapping takes `waiting` from the naming list
behind the entries already committed.

### NameContexts and SubjectGlobals

Both keep the C stack as `frames`. In `NameContexts` a frame is a match, a commit, an
expression or a function; `chain` is the list of contexts from the root to
`g_ctx_current`. Contexts live in C stack frames of `exec_stmt` and `EXPVAL_fn`; after
a longjmp they stay linked although their frames are gone. The model keeps them as
elements of the chain that no frame owns; that their memory may be reused by later
frames is not modelled. `ref` is a history variable: the variables, had `NAME_commit`
skipped nothing.

In `SubjectGlobals` a frame holds what its code saved. `own` and `lost` are history:
the globals as the match alone would have them, and those that a pattern evaluated by
EVAL has put at risk. EVAL of a pattern calls `exec_stmt` on the null string with
nothing saved; the property says exactly which waiting matches that hurts.

### CacheTable and NodeCache

A pattern is a DAG of nodes, because a pattern held by a variable may be part of many. `bb_build`
walks it and allocates a block of state per box; every block has a number, so that two
boxes with one block are visible as such. The cache is the open-addressed table of `CacheTable` with
its linear probing, keyed by node; `mode` is the way `exec_stmt` builds: in driver mode through
`cache_get_fresh`, in live mode as compiled blobs, which the same table keeps. A match
under way is an element of `live`. It resolves its deferred boxes (`bb_deferred_var`,
which keeps or rebuilds its child depending on the variable's value) and may call
functions whose statements match in turn. What the boxes do in a match is `ByrdBoxes`.
The inverse of building is in `Unfolds`: which pattern a graph of boxes is a graph of.

### PrologBoxes, Trail

The ports, `calls` and `ctl` are as in `ByrdBoxes`. Boxes are appended to `boxes` as
they are made: a choice makes its clause's when it tries it, a body goal its own when it
is entered. `heap` has the variable cells and the trail. `cutflag` is the global
`g_pl_cur_cut_flag`, as the box whose flag it points to. Freed memory is not reused by
the model; that a box is not entered after what it points to has been freed is part of `ResumedAfterGamma`.
The builtins are unification, `is`, and `\+`, which runs a goal of its own in BB_ONCE.
What goes down into a term or a goal is recursive, and a parameter: `MakeTerms`, `UnifyArgs`, `MakeGoal`, which
`MCProlog` gives the values `TermsOf`, `UnifyAll` and `GoalBox` of `PrologTerms`. The control does not look into
terms, so what is proved of it holds for any; of the boxes of a goal it needs `GoalsBuilt`, of terms and
unification `BindingsTrailed`.

Two history variables, which no guard reads, say what backtracking should be. `open` is the list of the boxes that were
entered at alpha and have not failed since, in that order; a box that fails takes from it all that was
entered after it. `hist` has of each box what it found at its last alpha (the cells, the height of the trail,
its place in `open`), and the port it left by with the length of `open` then. `ResumedAfterGamma` says that
backtracking is chronological: a box is resumed when `open` has the length that it left. `FailureUnbinds` says that
what fails has undone its bindings, and `\+` when it succeeds. Of `\+` that is resumed it says nothing:
at beta it undoes nothing, and nor does an `is` behind it, whose binding is only undone by the next box further out.

`Trail` leaves out boxes and terms: variables get bound one at a time, marks are taken,
unwound to and forgotten in any order that keeps the younger above the older. This is
every use that a client can make of the trail, so its theorem holds for clients that
`PrologBoxes` leaves out.

### IconGenerators

A program is a tree of boxes and up to two nested `every` loops. A box calls only its
operands, and the program can do nothing in between; so one entry of the outermost
box of a loop, with all it calls, is one step, given by functions that carry the state
through (`icn_bb_to`, `icn_bb_binop`, ...; one per box function of the code).
Between two entries the body runs: it may contain the next loop, break, insert and delete keys of the table,
add to the list, and call. A procedure that suspends is a coroutine. Its
place in its own loop is kept in its box, but its variables are in `icn_frame_stack`,
which it shares with everyone, and its frame stays there while it is suspended.
`staged` is the one global through which a new coroutine is told its call. `out` is
what the bodies have been given.

`IconReference` evaluates an expression to the sequence of its values, each with the value of `x` at that
moment, and from it what nested bodies are to get.

### KeyTable

The generator `key(T)` apart from the loops, because what is hard in it is the table. `First` and `Following` are what its two
entries do; `IconGenerators` uses them for its box, and `Insert` and `Delete` in the body. Entries are numbered in the order in which they are made, 0 is the null
pointer, and `table.cell` keeps the deleted ones, since the generator may stand on one; a chain is the least set of entries
that is closed under links (`Chain`). A key is what `_tbl_hash` and `strcmp` look at. Values are left out, and with them the
insertion of a key that is there, which changes nothing else; `!T` walks the same way (`icn_bb_tbl_iterate`). `given`
and `kept` are history: what the generator gave, and what stayed in the table, since alpha. `KeySpec` is the
generator alone, entered at any time (`Alpha`, `Beta`), between any insertions and deletions.

### BoxPool

Addresses are offsets in the slab. `live` is what the clients hold, in order of
allocation. Each `abort()` is a state from which nothing follows, so its run says
CHECK_DEADLOCK FALSE; every other passing run checks deadlock (`ByrdBoxes`, `PrologBoxes` and
`IconGenerators` have an explicit end).

### Alternatives to definitions

Some definitions stand next to a variant with a comment "the mutated form" or "for a
mutant" (`SeqGivesUp` beside `SeqRightOmega`, `Unlinked` beside `NAME_ctx_leave`). They are
plausible mistakes. `PROJECT.json` names, for each property, the variant under which TLC
finds it violated. They are used nowhere else.

## 3. What is checked

| run | instance, distinct states | shows |
|---|---|---|
| match | `MCMatch`: statements over subjects of 0, 3 and 4 characters; 669,427 | The boxes find the reference's first solution (`FirstMatch`), captures and replacement are those of that solution (`EffectOfMatch`), spans cover what the cursor moved over (`SpanIsMatch`), failing undoes the cursor (`CursorRestored`) and the pushes (`NamesUnwound`), a pop takes its own push (`PopsOwnPush`), a box is resumed only after success (`ResumedAfterGamma`), no box goes beyond the subject (`CursorInSubject`), and the statement ends (`Termination`). |
| resume | `MCResume`: ARBNO before a box that fails; captures that call functions; SUCCEED; 564,953 | The frames of ARBNO rise and agree with the cursor (`FramesFollowCursor`) and run out (`ResumptionEnds`); a function called at commit sees the captures made before it (`CallSeesCaptures`); the executor implements `Statement` (`KeepsPromise`). |
| contexts | two variables, two values, three frames, three pending captures, a chain of three; 2,954,200 | A match finds its own captures in its context (`OwnNames`); skipping superseded captures never shows (`SkippingIsInvisible`). |
| globals | four subjects, three frames, four call frames; 349,200 | A match finds its globals again (`GlobalsKept`); every running function has a call frame (`CallFramesHeld`). |
| pool | a slab of four 4-byte pages, buffers of 3, 4 and 6 bytes; 27,709 | `NoSharedPage`, `OpenBufferWritable`, `SealedCodeExecutable`. |
| cache | eleven blocks, four slots, two nested matches, patterns that share nodes, either mode; 50,218 | Every match runs the graph of its own pattern (`GraphUnfolds`), cached keys are found (`SlotsReachable`), what depends on variables is built anew for each place (`VariantFresh`), and no two matches share a root (`RootsApart`). |
| prolog | `MCProlog`: some nineteen hundred programs; 141,882 | The boxes of a body goal are new and form a tree (`GoalsBuilt`), what unification binds is trailed (`BindingsTrailed`), the first solution of the reference is found (`FirstSolution`), failing unbinds (`FailureUnbinds`), boxes are resumed after success and the youngest first (`ResumedAfterGamma`), whoever sets the target of cuts puts the old one back (`CutTargetRestored`), every goal is answered (`Termination`). |
| trail | four variables, one of them anonymous, two terms, three marks; 6,672 | The trail lists exactly what is to be unbound (`TrailListsBound`) and implements `Checkpoints` (`RestoresCopies`). |
| icon | `MCIcon`: some 350 programs; 21,017 | Bodies get the reference's values in order (`Delivers`); `key(T)` gives no key twice and each key that stays in the table, whatever the body inserts and deletes (`KeysOnce`). |

`TypeOK` is checked with each of them, but for *contexts*, *globals* and *trail*, where it
is proved, and *resume*, which shares it with *match*.

Why the bounds suffice.

- *match*. A search goes wrong by one box's port meeting another's; patterns of three
  boxes have every pair in sequence with a third that makes them backtrack, and
  alternation or capture around either. Four characters are enough for a repetition of
  a two-character body, balanced parentheses with something after them, and every
  boundary (empty subject, last character, behind it). Statements
  whose result the reference does not tell are left to *resume*: ARBNO resumed by its
  successor, SUCCEED, and functions that may fail. TAB stays within the subject. Also left out are
  the statements on which the code is known to differ from its documents (section 5): BAL before an
  opening parenthesis that nothing closes; a bare FENCE that is resumed while a box before it, or
  another scan position, could still be tried (so FENCE is run anchored behind or before boxes with one
  solution, and unanchored where nothing behind it fails); ABORT beside an alternative.
  Put back into the run, each of them violates `FirstMatch`.
- *contexts*. Two entries on one variable with a call between is the shortest list on
  which skipping can go wrong, three leave one to pop. Three
  frames give a match in a function in a commit. A chain of three has the root, an outer
  and an inner context, or one lost by an error. Values are only ever copied and
  compared, so they are symmetric.
- *globals*. Three frames give a match, what it calls, and a match within. Subjects of
  lengths 0, 1 and 2, two of the same length, tell every global apart. Four call frames
  leave room for three nested calls after an error has lost one, and can be exhausted.
  The theorems are for every depth.
- *pool*. Sizes below, at and above a page, four pages, so that the slab is used up with
  every mix, and a sealed prefix can end inside a buffer.
- *cache*. More cacheable nodes than slots, so that the table fills up; two keys that belong
  in one slot, and one that wraps around; a node below two patterns, and twice below one; a pattern
  deferred to a cached one, to a string, and to another pattern the next time. Two nested matches
  are one use inside another. Eleven blocks let both be of the largest pattern and
  leave some for deferred children; the run explores every order within that.
- *prolog*. Bodies of three goals out of thirteen kinds (facts with several clauses, `\+`,
  disjunctions, a recursive predicate, a predicate with cuts) before six tests, a cut as the first or the
  middle goal, and bodies one call further down that are resumed from outside. Three goals are what it takes for one to fail, one to be resumed and
  one to have a cut in between.
- *trail*. Three marks: two that are unwound past and one below. One variable that is anonymous.
- *icon*. Every kind of box as an operand of every operator, one operand inside, and the same in
  two nested loops; ranges of up to three values; a `NestedMax` of 2 and a
  `FrameMax` of 4, so that both limits are met. The table has two keys that collide and one that does not,
  chains that are empty and become so, and five entries over its life, enough to delete the entry where `key` stands, the one
  behind it, and to insert a key again.

What *icon* leaves out, because the code does something else than its loops promise there
(section 5): two procedures in one expression; a procedure as right
operand of an operator whose left one has several values; `x` read or assigned while a procedure is suspended;
break or a call in the body of a loop over a procedure; `by 0`; get and push on the list that `!L` goes
through (put only in single loops). Within these borders `Delivers` is stated without exception.

Fairness. `FairSpec` of `ByrdBoxes` is weak fairness of `BoxStep \/ ExecStep`: the code is one
thread that always executes its next instruction. `FairSpec` of `PrologBoxes` is the same,
written out (infinitely often the goal is answered, or a step is taken), because evaluating
ENABLED costs more than the run. Nothing else is assumed fair; the choices that stay open (an
unassigned span, a function that fails) may be resolved in any way, and `Termination` and
`ResumptionEnds` hold for all. SUCCEED is excluded there: a pattern with it may search for
ever. For Icon no fairness is stated: `Delivers` compares `out` with a finite
sequence at the end, and that the end comes follows from the absence of deadlock, since every
step consumes a value or changes the place.

## 4. What is proved

Every theorem is for all values of the constants under the named assumptions.

**ByrdBoxesProofs.** For all subjects and all patterns, of any depth. Assumed:
`ProgramAssumption`, that programs are made of statements as above. The code does not keep its promises for every
pattern (section 5), so most theorems have a premise on the statement's pattern, which never changes.
`TabsFit`: no TAB asks for a position behind the subject; the machine without it reads outside the subject, and
every theorem has it. `CapturesKept`: no conditional capture lies below an ARBNO, a NOT, an
INTERR or a called immediate capture, which drop their child's success without resuming it. `SpansKept`: no ARBNO,
whose span may be unassigned, and no SUCCEED, which returns a span where it is resumed, not where it was entered.

| theorem | premise | for every pattern |
|---|---|---|
| `TypeCorrect`, `CursorStays`, `ResumedOnlyAfterSuccess` | `TabsFit` | `TypeOK`, `CursorInSubject`, `ResumedAfterGamma` |
| `CursorPutBack`, `FramesFollow` | `TabsFit` | `CursorRestored`, `FramesFollowCursor` |
| `CapturesTakenBack`, `PopsItsOwn` | and `CapturesKept` | `NamesUnwound`, `PopsOwnPush` |
| `SpansCover`, `ReplacementDefined` | and `SpansKept` | `SpanIsMatch`; no replacement is undefined |

None of these is inductive. That the box in control finds the cursor where it should be depends on what every
box below it will do when it is resumed, and that on what each of them did when it last succeeded. `Inv`
says it of all boxes at once:

- `Rests(n)`, of a box that has succeeded and is not on the C stack: what its private state must be for its beta
  to find the way back. A concatenation was entered where its left child was, its right child where the left one
  succeeded, and it succeeded where the right one did (`SeqRests`); an alternation knows the child that
  succeeded (`AltRests`); the entry that a capture has pushed is the last of the list it left, and below it is the
  list its child left (`CapRests`); a box without children can compute where it was entered from where it
  succeeded (`Undo`); the frames of an ARBNO rise from where it was entered (`FramesRise`).
- `Waits(c)`, of a box on the C stack: the same for as far as it has come.
- `LeadsTo`: the stack is the path from the root of the tree to the box in control. Since boxes form a tree, a step
  of one box changes the state of no box on the path, and the history of no box but the one it calls.
- `AtPort`: what the box in control finds at its alpha and beta, and its caller after gamma and omega.

The cursor a box finds is not always where it should be, so the invariant says `Ahead`: never before it, and exactly there
in an `Undisturbed` box. "Never before" is what keeps the cursor in the subject even when boxes stray.

The proof has two halves. `CallKeeps` and `ReturnKeeps` are about the machine: whatever box runs, its call or return keeps the
invariant, if it waits as `Waits` says, or rests as `Rests` says when it succeeds and leaves the cursor and the list as
they were when it fails. Then there is one lemma per action (`SeqLeftGammaKeeps`, ...) that shows just this of the box's code,
and one per action of `exec_stmt`. That SPAN, BREAK and BAL stay within the subject needs that the least
length with their property exists (`LeastExists`, from the well-foundedness of the naturals).

`CallsSeeCaptures` is `CallSeesCaptures` for every naming list. It is not inductive: a
capture that the walk has left out is not assigned yet, and the reason why no function sees this lies
ahead of the walk. `Walked` says of every capture passed: assigned, or overwritten since, or a later one
will overwrite it, with no call before that. `PromiseKept` is the refinement, `Spec /\ TabsFit => KeepsPromise`: every
step of a box is a step of the match in `Statement` or a stutter, the same for each step of `exec_stmt`; the
subtle one is `WalkAssigns`, that a capture left out is one that `Statement` lets be hidden.

**BoxPoolProofs** (`TypeCorrect`, `PagesExclusive`, `ProtectionCorrect`, `CodeExecutable`). Assumed: the
page size is positive and divides the slab (`PageSizeAssumption`, `PoolSizeAssumption`,
`WholePages`), requests are positive (`SizesAssumption`). None of the properties is
inductive: that a new buffer overlaps no old one follows only from the old ones lying
in order, page-aligned, below the bump pointer (`Stacked`); that it is writable, only
from all pages above the bump pointer being writable (`FreePagesWritable`), which
`bb_free` has to re-establish; that a page shared by the end of a sealed prefix and
the rest of its buffer does no harm, from `SealedWithinBuffer`; and `bb_pool_init`
starts from nothing because of `NoSlabNoBuffer`. `IInv` is their conjunction with the
properties; there is a lemma for each of `Alloc`, `Seal`, `Free`, and lemmas
about rounding to pages (`PageCeilBounds`, `AlignedSum`, ...) that carry the arithmetic.

**NameContextsProofs** (`TypeCorrect`, `Isolation`, `CommitInOrder`). Assumed:
`NameContextsAssumption`, which only says that the bounds are numbers and that functions save
variables. `Isolation` is `Spec => []OwnNames`: the captures waiting for a match are
those it made, however deep the nesting and whatever errors have been. The
strengthening `InStep` ties the C stack to the chain: the innermost frame works with the
current context; a function has inherited the context of its caller, any other frame
has entered a new one. All actions are one of three kinds of step, and each kind has a
lemma: `Grow` (a frame starts), `Shrink` (it ends), `Change` (the innermost works on its
own context). A runtime error empties the stack and leaves the chain, so that `InStep` holds again trivially:
the lost contexts lie below all that come later.

`CommitInOrder` is `Spec => []SkippingIsInvisible`. During a commit a variable may
differ from the reference, but only as long as an entry further on, with no function
call before it, will assign it (`StoreInv`, `StillToCome`). At a call, and at the end of the list,
nothing is still to come, so the program never sees a difference. This is the
justification of the "NM_CALL barrier" of `snobol4_nmd.c`.

**SubjectGlobalsProofs** (`TypeCorrect`, `MatchesUndisturbed`, `FramesApart`). Assumed:
`SubjectGlobalsAssumption`: subjects are strings, the null string is one, bounds are numbers. `GlobalsKept`
speaks of the match in control only and is not inductive: it has to be known of every
match that waits where it will find each global. `Found` says where: in the global itself if the match is
in control, else in what the frame above it has saved, and for Sigmalen, which
an expression does not save, in the global still, or in what a
function called from the innermost expression has saved. `Held` is that for all matches and all globals that
they have not lost. There is one lemma for each way the stack changes: a call saves what
it finds (`HeldUnderCall`), a statement is only started above a function, or costs the matches below
what it assigns (`HeldUnderMatch`), the match in control moves (`HeldByTop`), and whatever ends gives
back what it saved (`HeldAfter`). `FramesApart` is by counting the functions on the stack; an error makes
the count drop and `call_depth` stay, so the inequality survives it and the equation would not.

**TrailProofs** (`TypeCorrect`, `TrailInOrder`, `TrailRestores`). Assumed: `TrailAssumption`, that no term is the mark
of a free variable and the named variables are among the variables.
`TrailInOrder` is `Spec => []TrailListsBound`; `TrailRestores` is the
refinement, `Spec => Copies!Spec`: every step of the trail is a step of the store with copies, or a
stutter. The mapping says what the store was at mark n: the named variables trailed since are free, the others
as they are (`AsOf`). That binding changes no copy needs the trail to
list each bound variable once (else a copy would see it still bound), and that unwinding to a mark keeps the older
copies needs the marks to be in order (`MarksInOrder`) and the terms of
named variables never to change while they are on the trail (`NamedKept`).

**PrologProofs** (`Resumption`, `FailureUndone`, `TargetKept`, `TypeCorrect`, `Invariance`, `OpenInOrder`). For all programs, of
any depth of calls and of resumption, and whatever terms and unification are. Assumed: `PrologAssumption`, that
predicates are sequences of clauses, clauses have sequences of goals and of arguments, and the main predicate has a clause.

| theorem | premise | for every program |
|---|---|---|
| `Invariance`, `TargetKept` | `GoalsBuilt` | the invariant of the boxes; `CutTargetRestored` |
| `OpenInOrder`, `Resumption`, `FailureUndone`, `TypeCorrect` | and `BindingsTrailed` | the invariant of the open boxes; `ResumedAfterGamma`; `FailureUnbinds`; `TypeOK` |

The premises are what the control needs of terms and goals; the run *prolog* checks both. `GoalsBuilt` is about
`pl_box_goal_from_ir`: the boxes of a body goal are new, form a tree, have as many children as their kind asks for and
the fields that only their steps assign still zero, and the predicates called exist. `BindingsTrailed` is about `unify` and the
making of terms: they bind free cells only and trail the named ones, add cells, trail no others, and `unify` answers true or false. These functions are recursive, so the premises cannot be proved; that the
boxes of a *clause* form a chain is (`ClauseShape`, `ClauseTree`).

`Resumption` is `ResumedAfterGamma`: no box is resumed unless it has succeeded last and all entered
since have failed, and no body goal is built from an environment that the head has not made or has freed. Nothing of
this is inductive. `IInv` says:

- `Struct`: no box has two parents, and a body goal is the right child of a conjunction whose left child is the head
  of its clause, or a conjunction for an earlier goal of the same clause (`Chained`). Boxes are made while the goal runs,
  so this has to survive `Attach`: a box takes the root of new boxes as its child.
- `Stacked`: the C stack is the path from the root to the box in control. The boxes under `\+` hang in no tree:
  they are reached by the stack only.
- `Settled`: a box that has succeeded and is not on the stack has children that have; `Waiting`: so has the
  left goal of a conjunction that waits for the right, and a disjunction that waits has the phase of its branch.
- `Nested`: the innermost frame that tries a clause from the start owns the cut target, and each such frame has saved the
  owner outside it. This gives `TargetKept`, which is `CutTargetRestored`. That the frames of a *resumed* clause
  do not take part is the finding *div_cut*.

`EnterKeeps` and `LeaveKeeps` are about the machine, as for `ByrdBoxes`, and there is one lemma for the steps of each
kind of box. From `IInv` the head's environment follows by going down the chain: the least box of it that
has succeeded has the head itself as its left child (`ChainFired`, `Least`).

`FailureUndone` is `Spec /\ []GoalsBuilt /\ []BindingsTrailed => []FailureUnbinds`. That unwinding to a box's mark brings
back the cells it found holds as long as every box between has only trailed what it bound, and nobody has
unwound further than to a mark taken since. The second is where it can go wrong: `\+` and the choices unwind without being asked, to marks
they took at their alpha. It holds because boxes are left in the opposite order of their entry, which `OInv` says of `open`:

- `Listed`, `KidsAfter`: each open box has its place, behind its parent's.
- `InOrder`: a box that rests has opened a stretch of `open`, from its place to the length it left; its
  children's stretches lie in it, those of a conjunction side by side (`Spanned`), and any two stretches are disjoint or one inside
  the other.
- `Path`, `Apart`: the boxes on the C stack were entered in the order of the stack, and no stretch that began before one of them reaches
  to it. So the box in control stands at the end, what it calls is appended, and what a failing box cuts off is its own.
- `Kept`: of each open box the trail is at least as high as its mark, the marks rise with the places, and unwinding to the mark gives
  the cells of its alpha (`Recalled`).

`BindRecalls` and `UnwindRecalls` say what binding and unwinding leave of `Recalled`, `EnterOpen` and `LeaveOpen` what a call and a return
do to the stretches, and there is again one lemma for the steps of each kind of box.

`TypeCorrect` follows from both invariants and `TInv`, which adds the fields that neither speaks of (`Plain`) and that
a frame other than a choice's has saved nothing (`Framed`). That what a choice saves, and so puts back, is a box or none
is not about types: it is `Nested`.

**CacheTableProofs** (`KeysFound`). Assumed: `CacheTableAssumption`, that there is a slot, that every key
belongs to one, and that the null pointer is no key. One step of `NodeCache` may insert many keys, one per
pattern node it builds, so the theorem is about the table alone: `TableSpec` is any sequence of the
insertions and resets that are all `NodeCache` does to it, `TableSpec => []SlotsReachable` that each key is
found where it is. The strengthening `Reachable` says
that the way from where a key belongs to its slot meets neither the key nor an empty slot. An insertion fills a slot
that was empty, hence on no other key's way, at the end of the new key's own (`InsertKeeps`). That `NodeCache` uses the
table in no other way is by its definitions, not by a theorem: it has recursive operators.

**KeyTableProofs** (`KeysGivenOnce`). Assumed: `KeyTableAssumption`, that there is a bucket and that every key belongs to one.
The invariant says of the table (`Sound`) that links lead to older entries of the same bucket and that behind an entry, *deleted or
not*, its key does not come again; of the generator (`Stands`, `Once`) that the keys it gave are of its bucket or
earlier ones and that none lies ahead of it; and of a key that stayed that it is given, ahead, or in a later bucket (`ToCome`).
The case of deleted entries is the point: they keep a link that nobody updates, so the generator may go through several of
them, and it must come back into its chain without missing or repeating anything. A deletion takes no other entry out of any
chain and adds none (`RemovedChains`), whether the chain begins at a head, at a live entry or at a dead one; an
insertion leaves the old chains as they are (`AddedChains`). Both follow from the closed sets alone, without induction.
The theorem is about `KeySpec`. That an Icon program only inserts, deletes and enters the box is by the definitions of
`IconGenerators`, which has recursive operators, not by a theorem.

Only model-checked: what a statement's search finds (`FirstMatch`, `EffectOfMatch`) and that it ends
(`Termination`, `ResumptionEnds`); of `PrologBoxes` what depends on terms (`GoalsBuilt`, `BindingsTrailed`, `FirstSolution`) and `Termination`; everything about `IconGenerators` but its table; `NodeCache` but for its table. The
reference searches and the terms, patterns and expressions of the last three are walked by recursive definitions
(`MatchReference`, `patnd_is_invariant`, `unify`, `Values`), and the prover can neither
unfold a recursive operator nor use induction over data. Liveness under fairness is out of its reach too.

## 5. Findings

Each is a run that TLC ends with a counterexample, in which the code does something
else than the repository says of it.

| run | what happens |
|---|---|
| div_alt | `bb_alt` at beta does not go on to the later alternatives: `('a' \| 'ab') 'c'` does not match `abc`. The JavaScript box does go on. |
| div_cut | A Prolog choice that is resumed runs its clause before it makes itself the target of cuts, so that a cut behind a resumed goal cuts the predicate that called its own. The comment at `pl_broker.c:410` says that a cut never leaks to a parent. |
| div_share | `cache_get_fresh` copies the root's block and no other: a cached pattern that occurs twice, or is matched in a match of itself, has the blocks of its children in two places. The comments at `stmt_exec.c:236` and `:307` say the state is per match. |

Also met while modelling the matcher:

- `bb_abort` only fails, and the alternative beside it matches; `stmt_exec.c:897` ("immediate match
  failure, no backtracking"), README.md:66 and IR_AUDIT.md:213 say it ends the match.
- A bare FENCE that is resumed fails like any other box: the boxes before it are resumed and the scan
  goes on. `bb_boxes.c:712` ("β cuts (no retry)"), `stmt_exec.c:873` ("no backtrack across fence") and
  README.md:66 say it ends the match. `BAL FENCE RPOS(0)` matches `a)b` at its last character.
- BAL takes text with a parenthesis still open, where `bb_boxes.c:390` says "the maximal balanced
  prefix": `BAL RPOS(0)` matches `((a)` from 0, not from 1.
- FENCE(P) is built as a concatenation, which resumes P when the fence fails; `stmt_exec.c:883`
  says beta cuts.
- `bb_arbno` at beta drops a repetition without resuming its body: its captures stay on the list
  and reach the next scan position (`stmt_exec.c:1312`), and the span it returns has not
  been assigned.
- TAB(n) is not checked against the length of the subject; ARB that has run out, REM, NOT whose child succeeds, an ARBNO that is resumed after
  its body has moved on, and an immediate capture whose function fails leave the
  cursor where it was, so that the match of `ARBNO('a' ARB 'b')` is reported to begin
  elsewhere than it was tried.
- `EXPVAL_fn` promises a full save and restore (`eval_code.c:538`) and leaves Sigmalen as the
  expression left it. An error in a function jumps past `call_depth--` (`interp.c:518`, `:828`):
  &FNCLEVEL stays too high and the frames are lost for good. An error in a deferred pattern leaves
  `g_dvar_depth` too high (`stmt_exec.c:995`).
- `bb_deferred_var` zeroes the block of a child it has kept (`stmt_exec.c:1108`), which may be the one that
  a cached template points to, called pristine at `:268`.
- XCALLCAP patterns count as invariant although `stmt_exec.c:222-228` lists captures as variant.
  Live mode uses a cached graph's root without a copy (`:1256`). With the cache full a pattern
  is built again at every execution, and a miss hands out the template's own block.

The reference in `MatchReference` follows the code in `bb_alt` and `bb_arbno`, as their own comments describe
them, so that everything else about the search can be checked. BAL, FENCE and ABORT have their documented
meaning in it, and *match* leaves out the statements on which the three items above make the code
differ from it; section 3 lists them. FENCE(P), a concatenation in the code, is not in the runs as a kind of its own.

While modelling Prolog:

- `is` in the left branch of a disjunction that then fails is not undone. A cut does not stop goals at its left from
  being resumed, and `->` does not commit. An anonymous variable inside a compound, or
  in an argument of `\+`, is not trailed, so that it stays bound. `FirstSolution` is stated for programs without
  these (`Plain`); the other properties are for all.

While modelling Icon:

- `icn_coro_stage` is one global, read only when the coroutine first runs: with two procedures in one
  expression (`f() | g()`) both boxes run the call staged last (`icn_runtime.c:505`).
- `icn_active_ss` becomes null when an inner generator procedure ends, so that the suspends of the outer
  are lost (`icn_runtime.c:356`, `:511`).
- The frame of a suspended procedure stays on top: `every x := f()` assigns, and its body
  reads, a variable of that frame. A procedure called from the body overwrites the
  suspended frame, and the `returning` flag it leaves ends the loop after the first value
  (`driver/interp.c:2376`; the comment before it says frames are preserved and restored). A
  procedure given up by a limit (`f() \ 1`) leaves its frame behind. break and return in the body of a loop over a
  procedure set a flag of the wrong frame and are ignored (`:2382`); a break
  inside a compound body does not stop the statements after it, and an inner loop clears it.
- `icn_bb_suspend` at alpha does not start again, so that as a right operand a procedure gives its
  values for the first left value only (`icon_gen.c:191`).
- The statement-level drive (`interp.c:2312`) resumes only the first leaf of `every x := a + b`
  and runs the body even when the assignment has failed; of nested suspends every one runs on and only the last value is kept.
- The builtin fallback of `icn_call_builtin` ignores the argument it is given. `by 0` loops for ever.
  get and push during `!L` skip and repeat elements. `\e` as a generator does not filter.

And in the SIL port's collector, read but not modelled: `GCM_fn` drops the continuation when its
work stack is full (`arena.c:361`); `GCBA` marks nothing when the copied title has no PTR flag (`:423`);
`GCBB` writes links at the new address before the blocks move (`:468`); the block of the collector
itself is unmarked after the first collection.

## 6. Not modelled, and the plan

Outside the models: the evaluation of expressions, parsing, conversions and builtins, input and output, instruction
encoding, garbage collection of strings, and the other languages' back ends. Captures
into keywords or with an indirect target assign like any other variable. An immediate
capture whose function fails leaves its child's captures pending; the patterns of
*resume* do not nest captures in one. The largest C files by lines (`artifacts/`, `archive/backend/`) are
generated programs and retired emitters.

What is left, in order:

1. *Icon*: the statement-level drive of assignments, conjunction, string scanning, strings and
   reals; co-expressions.
2. *Prolog*: `findall`, assert and retract, catch and throw.
3. *The flat code of alternation* in `bb_flat.c`, which wires beta differently from
   `bb_alt`; `bb_usercall`; which blobs of the live mode are ever freed.
4. *The stack machine* against the tree interpreter on small programs; the *lock-step
   monitor*; the *marking phase* of the SIL port's collector with its bounded work stack.
5. *Proofs*: the copying of graphs in `NodeCache` (`RootsApart`), apart from the recursive definitions it is used with.
