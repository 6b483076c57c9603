# DTL: a TLA+ verification project

DTL is a small expression language for transforming data: a lexer, a parser and a
compiler in Go produce an AST, a tree-walking executor evaluates it, a registry
caches compiled functions for concurrent hosts, and a standard library supplies
builtins.  This directory holds TLA+ models of the interpreter from its scanner to
its library, the TLC configurations that check them, and proofs that TLAPS checks.
Two kinds of module meet in it: state machines of what is concurrent, shared or
limited (registry, pattern cache, limits, scopes, names, lexer, memory of values),
and operators for what is a function of its input (parser, compiler, evaluator,
builtins), which further state machines drive over generated texts, programs and
values.

## 1. The system

| Component | State it keeps | Operations | Interacts with |
|---|---|---|---|
| `registry` | `compiled` (name to function) behind an RWMutex; loader; builtin overlay; globals | `GetCompiled`, `Register`, `Invalidate`, `Execute`, `ExecuteInline`, `Validate*`, `RegisterBuiltin` | compiles through `compiler`; is the executor's `FunctionLookup`; calls the host's loader |
| `executor`: limits | per activation an `evalCtx` (depth, start, context, scope) | `ExecuteInto`, `callFunction`, `callUserFunction`, `evalLambda`, `lambdaClosure.Call`, `evalTry`, `checkLimits` | `capability.Enter`; builtins apply lambdas |
| `executor`: scopes | chained `env`s, closures with a scratch scope | `newEnv`, `reset`, `snapshot`, `get`, `set`, `evalFor` | closures escape through lets, results and builtins |
| `executor`: expressions | the activation's scope, the debug log | `evalExpr` and its cases, `execBody`, `callUserFunction`, `ExecuteInto` | calls builtins and user functions, catches errors |
| `executor`: names | the `use` namespaces of a function (`__uses__`) | `callFunction`, `resolveViaUses` | must agree with `compiler.resolveFn` |
| `compiler` | scopes, `uses`, errors, dependencies | `Compile`, `checkStmt`, `checkExpr`, `resolveFn` | asks the registry's resolver, and through it the loader |
| pattern cache (`stdlib/regex.go`) | map, LRU list, mutex; one per process | `compilePattern` | every `regex::` builtin of every goroutine |
| builtin tables | one shared base table per process; an overlay per registry and per executor | `Shared`, `RegisterBuiltin`, `lookupBuiltin`, `GetBuiltins` | registry and executor keep the overlay in step |
| `lexer` | cursor, indentation stack, the depth of each interpolation | `Tokenize`, `scanToken`, `handleIndentation`, `scanString`, `scanInterpolation` | parser |
| `parser` | cursor, lookahead, error list | recursive descent with precedence climbing | lexer |
| `stdlib` collections, paths, objects, statistics | none of their own; they share slices and maps with their arguments | one builtin each | executor calls them, they apply lambdas |
| `stdlib` text, math, dates, encodings | none | wrappers of Go's library | executor calls them |
| `cmd/dtl-lsp` | document table | open, change, close, completion, hover | `lang` for completion, `parser` and `compiler` for diagnostics |

### What is hard in it, and what makes it correct

*Registry.*  `GetCompiled` takes the lock four times, and between them it calls the
loader and the compiler.  A publication of the host (it writes its storage, then
calls `Invalidate` or `Register`) can fall into any of the gaps.  Correct: the
cache serves an old version only in the cases the code cannot exclude; a stored
function is found unless it is dropped in one particular gap; the version that
runs was published under the name the caller used; call graphs that become cyclic
through the loader are cut by the depth limit; executions end.

*Executor limits.*  A lambda is written under one activation and applied under
another, through a builtin that knows neither the execution's depth nor its
context.  `try` turns any error into a value.  Correct: the depth counts the
calls, nothing starts past the deadline, each function has its own authority and
sees the cancellation, and a program that catches its own timeout still ends.

*Executor scopes.*  Scopes are chained by reference; to save allocations a
closure rebinds one scope from call to call.  Whoever keeps a reference must have
a copy.  Correct: variables never change once bound.

*Pattern cache.*  A map and a list must describe the same patterns, within a
bound, under one mutex held across three exits.  Correct: it behaves as an atomic
least-recently-used memo.

*Names.*  The compiler resolves a bare name before the `use` namespaces, the
executor after them; a lambda's body is resolved where it is written by the one
and when it is applied by the other.

*Lexer.*  INDENT and DEDENT come from a stack of widths; strings contain expressions
that contain strings, so three loops call each other and each looks at the source
before the next one moves.  Correct: blocks follow the widths of the lines, the
pieces of strings nest, an interpolation ends at its own brace, tokens say where they
stand, and every text is scanned to its end.

*Parser.*  Look-ahead decides between a group and a lambda, a flag set for patterns
switches one kind of lambda off, line breaks count in some places, and errors do not
stop the loops.  Correct: a tree, written with no more parentheses than its operators
need and in any layout, is read back; a text for which no error is reported loses
nothing.

*Compiler and evaluator.*  Two walks over one tree, the one in the order of the text
and the other in the order of evaluation, each with scopes, namespaces and a list of
the forms of expressions of its own.  Correct: what compiles finds its variables and
calls what was recorded as a dependency, and the language's equivalent spellings
evaluate alike, to their errors and debug output.

*Collections, paths, objects, statistics.*  Values are immutable to the program and
Go slices and maps to the code; positions and sizes are 64-bit integers of the
program's choice; the same question is answered by loops written several times.
Correct: no call changes a value another one returned, nothing outside an array or
an interval is reached, and the builtins agree with one another.

## 2. The models

| Module | Models | Extended or instantiated by |
|---|---|---|
| `PatternMemo` | the abstract specification: an atomic LRU memo of compile results | `RegexCache` (INSTANCE ... WITH) |
| `RegexCache` | `compilePattern`: one action per step, mutex included | `MCRegexCache`, `RegexCacheProofs` |
| `Registry` | the registry's cache, executions, the loader and the host | `MCRegistry`, `RegistryProofs` |
| `CallLimits` | one execution's activations: depth, deadline, contexts, try | `MCCallLimits`, `CallLimitsProofs` |
| `Scopes` | environments, closures, scratch scopes, snapshots | `MCScopes`, `ScopesProofs` |
| `NameResolution` | which function a call names, at registration and at run time | `MCNameResolution`, `NameResolutionProofs` |
| `Lexer` | the scanner: indentation, strings, interpolations, comments, positions | `MCLexer`, `LexerProofs`, `LexerBlocksProofs` |
| `Syntax` | the tree of `ast.go` | `Parser`, `Compiler`, `Evaluator` |
| `Scalars` | values, integers that wrap, and the coercions that need no text | `Values`, `Positions` |
| `Values` | texts, comparison and the language's arithmetic | `Evaluator`, `Parser`, `Collections` |
| `Parser` | `parser.go` over tokens | `Notation` |
| `Notation` | not code: how a tree is written, in the forms of `SPEC.md` | `Texts`, `Programs` |
| `Texts` | texts that are written from trees or typed, and parsed | `MCTexts` |
| `Compiler` | `checkStmt`, `checkExpr`, types, names, dependencies | `Programs` (INSTANCE) |
| `Evaluator` | `execBody`, `evalExpr`, calls, `ExecuteInto` | `Programs` |
| `Programs` | `ExecuteInline`: parser, compiler and evaluator composed | `MCPrograms` |
| `Positions` | the builtins that compute positions and integers, and what they promise | `Collections`, `PositionsProofs` |
| `Collections`, `Statistics`, `Paths` | the other builtins as operators on values | `Sharing`, `Library` |
| `Sharing` | the builtins as operators on a heap of arrays and maps | `Library` |
| `Library` | not code: what the builtins promise each other | `MCLibrary` |

### PatternMemo and RegexCache

`entries` maps a pattern to the entry its list element holds, `order` is the list,
`mu` the mutex.  An entry is identified with its pattern and its outcome; a list
element is identified with its entry, which is sound because one is made for each
insertion and its value is never changed.  `Call` is a builtin reaching
`compilePattern`; `Lock`, `Hit`, `Miss`, `Insert`, `Evict` and `Unlock` are its
steps, finer than the mutex needs, so that dropping the mutex would show.
`regexp.Compile` is a function of the pattern; failures are cached as the code
caches them.  The refinement maps the concrete list to `recent`, with the entry
just pushed left out until the eviction is done: that is the linearization point.

### Registry

A source is its version and says which names it calls (`Deps`).  A thread's `pc`
walks through `GetCompiled`: `LookupHit`/`LookupMiss` (the read lock), `Load`/
`LoadFails` (the loader), `Resolve`/`ResolveFails` for each name the compiler
resolves through `registerResolver`, `Cache` (the write lock in `Register`),
`Reread` (the second read lock).  `Enter` is what both callers of a found function
do: the depth check and the frame.  `CallDep` and `Return` run the body, each call
going through `GetCompiled` again.  `ExecuteInline` compiles against the registry
without the loader, as the code does.  Hosts `Publish` a version and then
`Invalidate` or `Register` it, or `Delete` and `Invalidate`.

History variables: `unsettled` holds a name from a publication's end until the
next, when some other actor still carries an older source of it (`Overtaken`) or
when its registration was refused; `dropped` holds the threads whose entry was
invalidated between `Cache` and `Reread`.  Neither is read by an action's guard.

Arguments, results and globals are left out (the plan has them), a source that does
not parse behaves as one that does not compile, and builtins do not occur in
`Deps` because they always resolve.

### CallLimits

`frames` is the Go stack of evaluator activations with their `evalCtx`.  The
program is any program: at each step the innermost activation may call, write a
lambda, apply one, enter a `try` with or without a default, raise, or return.
`Limit` is `checkLimits`, in its order; `Enter` is the check a child context makes
before its body.  An interceptor is modelled by the authority it sets: the name of
the function entered last.  `LambdaFrame` is what a closure applied by a builtin
gets: its own depth plus one, its own start, and `context.Background()`.  `Tick`
and `Cancel` come from outside.  `level` is a history field: the true nesting, as
long as every lambda below was applied by the activation that wrote it.

### Scopes

`heap` holds the scopes by address, `closures` the closures with their captured
scope, scratch scope and `inCall`, `frames` the activations.  `Snapshot` copies the
chain for as long as the scopes are reusable; `Apply` makes or resets the scratch
scope, `ApplyAgain` is a call of a closure that is running.  A scope's inline and
spilled bindings are one function from names to values.  `seen` and `view` are
history fields: what the text of a lambda, and of an activation, sees by the rules
of lexical scope, every name with its value or unbound.  The scope of a function body is
shared by the lambdas that stand in it, so a later `let` there is seen by those already
written: `home` (history) names that scope, and `Let` adds the variable to `seen` of its
lambdas.  `CapturesStableOutsideLoops` and `ActivationsIsolated` compare both ways, what
should be seen with what is and the other way round, so that a binding left over from an
earlier call is as much a violation as a lost one.  `looped` is history too: the lambda was
written in a `for` loop of a lambda, or in a lambda of which that is true; the scopes of such
a loop have the scratch scope of the lambda around it for a parent, so whatever is captured
there may change.  Both properties leave out the lambdas and the activations concerned, each
by itself (`OutsideLoops`).

### NameResolution

The model writes a function statement by statement and compiles it as it goes:
`CompileUse` and `CompileCall` are `checkStmt` and `checkExpr`, `ResolveHit`,
`ResolveMiss` and `ResolveFails` the loop of `resolveFn`, one look into the registry
each.  `declared` is `compileCtx.uses`.  When every call has a target the function
may `Begin`; `RunUse`, `EvalLambda` and `RunCall` execute it, `ApplyLambda` applies a
lambda it has evaluated, at any time, also after its last statement.  `uses` is
`__uses__`, found through the lambda's captured scope, so that namespaces declared
after the lambda count when it is applied.  `LookupHit`, `LookupMiss` and
`LookupFails` are `resolveViaUses` and the rest of `callFunction`.  `known` is what a
look finds: builtins, cached functions and what the loader has.  Both sides look
there because a registration asks the loader too; a stored source is taken to
compile (what happens when it does not is in `Registry`).  `learned` and `forgotten`
are history.

### Lexer

`calls` is the Go stack of `scanString` and `scanInterpolation`; an action is one
round of the innermost loop.  In `run` and in an interpolation that round is
`scanToken`: `HandleIndentation` at a line start, then one action per kind of
character.  `inToken` says that `scanInterpolation` has looked at the character (and
counted a brace) and `scanToken` is about to scan, which may be elsewhere once the
indentation is consumed.  The character "x" stands for what words and numbers are
made of.  `from`, `to` and `since` are history.  `Nesting` reads the tokens as a
parser would.

### Syntax, Values, Parser, Notation and Texts

A node of the tree is a record whose `node` says its kind; positions are left out.  A
value is a tuple whose first element is its Go type.  Integers wrap at `IntBits` bits (`Scalars`).
A float is an exact fraction: rounding, infinities and NaN are not modelled, and
`Printed` writes n/d where Go writes decimals, which tells equal from different numbers
as Go does.  The order of strings is that of the constant `Texts`, because TLC compares
none.

A parsing function of `parser.go` is an operator from a parser state (tokens,
position, errors, `inPattern`) to a node and a state.  Errors are the positions at
which they were reported.  `Notation` is the other direction and is no translation: it
writes a tree in the forms of `SPEC.md`, and parentheses only where the levels of the
operators ask for them, in one of several spellings and layouts.  `SPEC.md` says nothing of
precedence, so the levels are those of `parser.go`'s own functions, `parsePipe` to
`parsePostfix`: what is checked is that the parser reads back what these levels mean, in every
combination.  An expression that goes on in another line does so at the same level
("level") or in an indented line ("indented"), which gives INDENT and DEDENT tokens outside
brackets: after operators, arrows, `then`, `else`, `=` and keys, and before `|`.  The parser
does not take most of these, though `SPEC.md` shows them (see the disagreements below); for
them `ReadsWhatWasWritten` says that what is read to the end is what was written, so that the
DEDENT of such a line is never taken for the end of a block around it without anything left
over.  `Texts` writes trees
(`WriteExpression`, `WriteFunction`) or lets an author type phrase after phrase
(`Enter`), and parses after each step.  The parser reaches `Texts` as two constants,
functions of the tokens; `MCTexts` gives it `ParseExpression` and `Parse`, tabulated
lazily, because TLC's coverage statistics unfold an operator at every use and a parser of
mutually recursive operators has no end of uses.  The loops of the parser are functions of
the domain `Any`: TLC evaluates their argument first, which keeps its stack short.

### Compiler, Evaluator and Programs

The compiler's scopes are records of names and types, its result a set of errors and a
set of dependencies (the order of errors is not kept).  The evaluator is a function from an activation
and a node to an outcome: value, error, debug log and, as history, the calls made.
`Then` is Go's `if err != nil { return }`.  An activation's scope is a function from
names to values; that chains of shared scopes amount to that is what `Scopes` is about,
as `CallLimits` is about deadlines and contexts.  Of the builtins `Evaluator` has `map`
(it calls back), `count`, and those of the host as constants.  `Programs` takes a
function from its tokens through `ParseSource`, `CompileSource` and `ExecuteSource`, as
`ExecuteInline` does, and ends where that returns an error.  An outcome says, as history,
whether its run met the depth limit (`limited`), also when a `try` hid the error:
`SpellingsAgree` has a loop equal a map but where the map meets it.  Parser, compiler and executor
are its constants `Reads`, `Compiles` and `Runs`, for which `MCPrograms` takes `Parse`,
`Compile` and `Execute` (as `MCTexts` does).

### Positions, Collections, Statistics, Paths, Sharing and Library

One operator for each builtin, `Fn` and its name in the code.  `Fails` is an error the
builtin returns and `Panics` a run-time panic of Go: `make` with a negative size, a
slice outside its array.  Lambdas are the constant operator `Apply`.  What computes
positions or integers and calls no lambda stands in `Positions`, without recursion over
values, so that it can be proved about; with it what these builtins promise (`InBounds`,
`PiecesFit`, `Progresses`), which `Library` checks on its instance.  A path is the
sequence of its segments (`splitPath` is left out).  `Stdev`, `zscore`, `correlation`
and `cv` take square roots and are left out, as is `ewma`.

`Sharing` says where those values live: a value is a scalar, a reference to a map, or a
slice of an array (address and two bounds), and each builtin either returns part of its
argument or allocates.  `held` are the values the program has, `values` (history) what
each was when it was returned.  A program is a sequence of calls on values it holds.
`Library` evaluates laws between the builtins on the newest value.

## 3. The runs

| Run | Instance | Shows |
|---|---|---|
| `regex_cache` | 2 callers, 4 patterns (one invalid), room for 2 | map and list agree, bound, own answers, every call returns, refinement of `PatternMemo` |
| `registry` | 2 threads, 1 host, 2 mutually recursive functions, 2 versions, depth 2 | depth limit, published versions only, what "not found" means |
| `registry_failures` | 1 thread, 2 hosts, failing loader, deletions, depth 1 | when the cache is stale; executions end |
| `call_limits` | 2 functions, depth 3, timeout 1, 5 activations, 2 lambdas, 4 clock values | depth, contexts, deadline, termination |
| `confined` | 2 functions, 1 lambda | violation: a function called from a lambda is not confined |
| `scopes` | 2 names, 2 values for arguments and 1 for locals, 5 scopes, 3 closures, 3 activations | captures, isolation, scratch scopes |
| `scopes_loop_capture` | 2 names, 2 values for arguments and 1 for locals, 3 scopes, 2 closures, 3 activations | violation: a capture in a `for` inside a lambda changes |
| `name_resolution` | 3 names, 2 namespaces, 3 statements, every registry for one of the names, 1 change of it | what compiles is found and is what runs, but in named cases |
| `lexer` | texts of up to 3 pieces out of 15, a lone carriage return among them, up to 4 lines out of 8, up to 4 pieces (or 6 of braces, quotes and words) in an interpolation | positions, blocks, nesting, interpolation depth, termination |
| `programs` | some 2 500 functions: every operation over 8 leaves (debug output and errors among them), loops, lambdas and queries under `use` and `let`, 4 user functions, one of them a call chain as deep as the limit, 5 argument maps | variables bound, dependencies complete, spellings agree |
| `parser` | every construct in every place of every other, some 3 200 expressions, and 150 functions around them, 5 styles, one with indented continuation lines; texts of up to 4 of 21 phrases | the parser reads what was written, or refuses or leaves unread an indented line; typed phrases are not lost silently |
| `library` | arrays of up to 3 scalars with the extremes of 6-bit integers (1 call), 3 nested documents (2 calls), `maxRange` 8 and `seq` limit 6 | no value changes; positions and progressions at their limits; builtins agree |

**Bounds.**  In `RegexCache` two callers already interleave in every pair of steps,
and four patterns over a room of two make an evicted pattern come back.  In
`Registry` staleness needs one fill, one publication and its notification; two
versions tell old from new; two threads and two hosts (in different runs) give every
pair of actors.  In `CallLimits` the stack is deeper than the depth limit and the
clock runs past the timeout, so both limits are hit from every kind of frame; two
lambdas allow one to be applied inside another.  `Scopes` needs one scope for the
function, a scratch scope and a snapshot, and a scope each for a second closure and
for a recursive call: five.  A third closure allows a lambda in a lambda that stands in a
loop of a lambda.  An argument may be passed or not, so that a scope bound anew shows as a
name that is bound or no longer is; two argument values tell what one call bound from what
another did, and a third value what a `let` or a loop bound.  The run's properties are
proved for any number of each.
  `NameResolution` needs a `use`, a lambda
and another `use` or call: three statements; a second change of the registry would
only undo or repeat what one does to the single name in question.
  In `Lexer` two levels
closed by one line take three lines, and a blank, comment or inconsistent line among
them a fourth; a string with an interpolation inside an interpolation takes six
pieces after the opening two.
  In `Texts` two places of nesting are what a rule of precedence or a state left behind
relates; four phrases open a construct, go wrong in it and go on.  In the indented style
some 430 of the texts that have an INDENT are read as written, some 2 300 are refused and
some 340 are not read to their end, so the property's cases all occur.  In `Programs` a
lambda in a loop, a shadowed variable and a failing operand before one that writes to
the log need two or three levels; `Fits` is a chain of calls that fits in the depth
limit below a loop and not below a lambda.  In `Library` six bits give every sum and product of
two operands room to wrap and TLC's own integers room not to, and `PositionsProofs` has
any number of them; two calls make a value
that shares memory with its origin and an operation on either.

**Fairness.**  `Registry`: weak fairness of each thread's steps (a goroutine that
runs is scheduled); hosts need none.  `RegexCache`: weak fairness inside the critical section and
strong fairness of the lock, which `sync.Mutex` provides by handing the lock to a
waiter after a millisecond.  `CallLimits`: weak fairness of the evaluator and of the clock; the clock is
bounded, far enough for the deadline of any start to pass.  `Lexer`: weak fairness of its one
sequential loop.

**Deadlock** is checked but in `Scopes`, where the program ends when its outermost
activation finishes, and in `NameResolution`, where it ends after its last statement
or when it does not compile, in `Lexer`, where it ends after the EOF token, in `Programs`,
`Texts` and `Library`, where the last text is parsed, the function has ended or the
bound on calls is reached.

### Disagreements between the code and what is said of it

* `confined`: `capability.go:35` and `README.md:91` say `Enter` is called for each
  user function.  It is, but the higher-order builtins apply lambdas with
  `context.Background()`, so no interceptor is found, and no cancellation seen.
  What does hold is `HostContextOutsideLambdas`.
* `scopes_loop_capture`: `executor.go:280-285` says a snapshot will not be rebound,
  because scopes that are not reusable are stable.  The scope of a `for` iteration
  is not reusable, but its parent may be.  What does hold is
  `CapturesStableOutsideLoops`.

Disagreements met while modelling that no run is spent on; the models do what the code
does, and where a property would fail for one of them its text says so:

* `executor.go:99` says "MaxDepth bounds nested user-function calls".  A closure
  continues from the depth at which it was written, so passing a lambda down a chain of
  calls restarts the count.  What does hold is `DepthIsNesting`.  A lambda's body also counts
  one level itself (`executor.go:954`) and a `for` body none (`executor.go:1089`), so over a
  chain of calls that just fits, `for` succeeds and `map` fails (`SpellingsAgree`).
* `SPEC.md:124-129` shows a `let` whose value stands in an indented line, and `SPEC.md:161-165`
  a pipe whose `|` does.  `parseLetStmt` (`parser.go:445-451`) and the operators
  (`parser.go:467-505`) skip line breaks, and before `|` not even these: at the INDENT the parser
  reports an error inside a block, and in a one-line function or a lone expression it stops
  and leaves the rest unread without an error.  After a lambda's arrow an indented line is
  read (`skipLayout`, `parser.go:191`), but outside brackets its DEDENT then ends the
  block around it: in a function the statements behind `let f = x =>` with an indented body are
  left unread, without an error.  What does hold is `ReadsWhatWasWritten`.
* `compiler.go:543` says its order of lookups matches the executor's exactly.  It tries
  the bare name first and the executor (`executor.go:777`) last.  What does hold is
  `RunsWhatWasCompiled`, `FoundUnlessForgotten` and `CallsAreDependencies`.
* `lexer.go:32` calls STRING_START the opening quote before the first interpolation.  In
  `"{a}{b}"` there is a second one, at which `parseInterpolatedString` stops.  What does
  hold is `PiecesNest`.
* `stats_extra.go:30` says `mode` takes the smallest of tied values; it takes the smallest
  text of type and value, so that of 9 and 10 it is 10.
* `collections_extra.go:286` says the set operations compare as `unique` does; they
  compare types too (`SetKey`), `unique` and `includes` do not.
* A `return` does not end a body (`executor.go:384`): the statements after it run, and the
  last value wins.
* `for y in xs: m::f(y)` on one line is not read, because `y: m::f` is taken for one name
  (`HasPrefix`); what stands behind a complete expression is ignored without an error.
* `seq` stops after 10001 elements and wraps past the largest integer; `range` and
  `random_int` over a distance that is no 64-bit integer, `top_n` of a negative number and
  `chunk` by nearly the largest integer panic (`LimitsOnlyAtEdges` names each).
* The compiler compares neither the number of arguments nor defaults with parameters, so
  a called function can meet an unbound variable of its own (`MaybeUnbound`).
* `==` compares a number with a string by its text, so it is not transitive: 1000000 equals
  1e6 and 1e6 equals "1e+06", but 1000000 does not.  (`Printed` has no exponents: the one
  disagreement here that the model does not show.)

Three restrictions in the properties of `Lexer` are of the same kind, though no text of
the repository speaks of them: a line break or a block comment inside an interpolation
makes the lexer miss the brace that ends it (`DepthCountsBraces`), and a line break
just before that brace lets the next token in the line be taken for the line's first
(`BlocksFollowLines`);
and a carriage return without a newline is a break between tokens and none in strings and
comments, so that a text with both has no line numbers a reader would agree on
(`TakenForBreak`).

## 4. The proofs

Eight modules prove for every value of the constants what the runs show on the instances
above: `RegexCacheProofs`, `RegistryProofs`, `CallLimitsProofs`, `NameResolutionProofs`,
`ScopesProofs`, `LexerProofs`, `LexerBlocksProofs` and `PositionsProofs`.  They use the
models' named assumptions and, in one theorem, the three that its run makes of the
registry's environment.  Every safety property of the runs of the state machines from
`RegexCache` to `Lexer` is a theorem; `PROJECT.json` lists them under "theorems".

*RegexCache.*  The invariant adds to the properties where each caller is relative
to the mutex (`HolderInv`): only its holder is inside, and what it has inserted is
at the front and in the map.  `EntriesMatchOrder` is inductive only with that:
`Insert` relies on the miss having been seen under the same lock.  The list
operators are defined as functions so that their lemmas need no induction.
`CacheImplementsMemo` is the refinement of `PatternMemo`.  `Hit` and
`Evict`, which ends an insertion whether or not the list is full, are the memo's `Use`,
`Call` and `Unlock` its `Ask` and `Return`; all else stutters.  It rests on two lemmas on
the memo's list, for a pattern that is in it and one that is not, and on the invariant:
a hit finds the pattern in the list because the map has it.

*Registry.*  `StaleOnlyWhenOvertaken` is strengthened by `FillInv`: an actor that
carries a source storage no longer holds has its name being published or already
unsettled.  `DepthBounded` is strengthened by `PlaceInv`: what `pc` says of
`frames`, `want` and `todo` (a thread before `Enter` has room for one more frame,
an idle thread has none).  There is one lemma for each group of actions: those of
`GetCompiled`, of execution, and of the hosts; host steps share two lemmas, one for
announcing a publication and one for settling it.

*Calls of the registry*, in the same module.  `RunsInv` follows a version on its
way: from the storage to the loader's caller, the cache and a frame it stays one that
was published under that name; and a frame, or the name looked for, is one that the
body below calls.  `NotFoundMeansDropped` assumes what its property is about: all functions
stored, none deleted, a loader that does not fail.  Then a thread in front of its second
look into the map finds an entry, or is in `dropped` (`StillCached`).

*CallLimits.*  `NothingStartsPastDeadline` compares the clock with the execution's own
start, while `checkLimits` compares it with the start an `evalCtx` carries.  The
invariant (`StartsInherited`) says that all activations and all lambdas carry that
one start; it is kept because every frame and every closure takes it from the frame
or the closure it comes from.  `Rooted` (a function is at the bottom) is what leaves
an activation to go on in after a `try` has caught an error.
`HostContextOutsideLambdas` is inductive with the types: a frame is added with an
entered context, and a popped one leaves the others as they were.  `DepthIsNesting` counts
the calls below an activation, as a cardinality; `Counted` adds that a lambda kept the
level of its writer, and each way to add a frame adds one call to the set or none.

*NameResolution.*  The property compares two searches made at different times with
different lists of namespaces.  The invariant relates them: the namespaces a statement
was compiled with are a beginning of those in use when it runs (`UsesAsDeclared`,
`DeclaredInOrder`), what the compiler passed over was unknown then, so it is known later only
if learned (`FoundByCompiler`), and what the executor passed over was unknown too, so
if it was the call's target it has been forgotten (`PassedOver`).

*Scopes.*  A scope is `Solid` when no scope on its chain is ever bound anew (is
reusable).  The invariant says that what a closure captured is solid unless the closure is
`looped`, that no reusable scope is another's parent, which closure's scratch scope an
activation runs in, and that the chain of every closure and activation ends in the scope of
the function body its text stands in (`AtHome`), which is no other function's.  That last part
is what a `let` needs: it binds in the scope at the end of a chain, and is seen from
exactly the scopes whose chain ends there and that have nothing nearer (`ViewGains`,
`LetSeen`), the lambdas to whose `seen` the history adds it.  All other steps leave what is
seen as it was but from the one scope they bind (`Rebinds`, `SeenStays`).  A step is then
split by what it does to the heap (it adds a scope, or rebinds one: `Grown`,
`PutUnder`), to the closures (`ClosuresStay`) and to the activations (`FramesStay`),
each with lemmas of its own.  Properties of chains are inductions along the parents,
which the prover cannot do as such: since parents are older than their children
(`Ordered`), the lemmas take the least address for which the claim would fail
(`LeastNat`) and show it for that one from its parent.  The attempt to prove
`CapturesStableOutsideLoops` showed that `looped` has to be inherited; with three closures
TLC shows the same.

*Lexer.*  The theorems hold for texts of any length and any spellings of operators within a
line.  They share one invariant.  `Typed` says that calls of `scanString` and
`scanInterpolation` alternate, which is what "back in scanString" relies on.
`PlacesTrue` adds to `PositionsTrue` the cursor and the start each open string keeps for
its next piece: a token emitted later takes its place from there, so those must be true
long before it exists, and stay true while NEWLINE tokens and breaks are added behind them.
`Pieces` adds to `PiecesNest` what the last token is (`LastPiece`), the only thing by
which the code knows whether a piece is a string's first.  For the depth, `InterpTokens` says
which tokens belong to each open interpolation, `InterpsCounted` that the tokens show as
many open as the stack has, and `LineStartBroken` that a line can begin in one only after
a NEWLINE there; then `Depths` says for every open interpolation, not only the innermost,
that its depth is one more than the braces open among its own tokens, plus the one that
`scanInterpolation` has counted and `scanToken` has not scanned (`Ahead`).  When an inner
interpolation ends its braces are balanced, so the outer one goes on as if they were not
there.  A step is reduced to what it does (`Scanned`, `Stepped`, and a lemma for each
action of strings and interpolations), and each part of the invariant follows from that.
What a loop (`After`, `CommentEnd`) or a recursive function (`Nesting`) comes to is shown
for the first position at which it would fail (`LeastNat`).

*Blocks of the lexer* (`LexerBlocksProofs`).  `BlocksFollowLines` speaks of the finished
token list; nothing in it says how the scanner gets there.  The invariant takes the stack
of levels and the INDENT and DEDENT tokens as two records of the same blocks: the tokens
leave as many blocks open as the stack has levels above zero (`LevelsCounted`), an INDENT
that is open has its line's width at its depth of the stack and only lines as wide
behind it (`OpenBlock`), and one that is closed was closed at the first narrower line, or
at the end (`ClosedBlock`).  With them goes where lines begin (`LinesBehind`) and that the
top level is no wider than the last line (`TopLevel`), so that a wider line is wider than
the line before it, whether or not that one reported an error.  A step away from
the head of a line is quiet (`Quiet`: the stack stays and no layout token is emitted); at
the head, the line is as wide as the top level or has no code, pushes a level, or closes
all above one (`DeepOfClose` says how deep the tokens are meanwhile); each kind has its
lemmas for each part of the invariant.  The invariant holds as long as no line began
inside an interpolation, which is the condition of the property; once one has, that stays
so.  TLC checked the invariant on the run's instance first.

*Positions* (`PositionsProofs`).  The run has six-bit integers and arrays of three; here
integers have any width, arrays any length that an integer can hold, and `MaxRange` and
`MaxSeq` any value.  `WrapFacts` says by how much a sum wraps, and that is all that the
theorems need of the width.  `PositionsStayInBounds`: the sum that `chunk` hands to `make` wraps only for
sizes the property names, and a resolved index is in the array.  `PiecesAlwaysFit`: the
pieces are described by their elements and their lengths, and two sequences with the same
of both are one (`SameElements`); for `chunk` the last piece needs division.
`ProgressionsStayBetween`: the loop of `seq` is a recursive function, which exists because no
number of rounds is the least without one (`UpToExists`); the terms before the bound are
a beginning of all terms, so their number says which they are (`TermsAreFirst`), and after
that many rounds the loop stands still, if the next term has not wrapped (`RoundsAreTerms`).
The three are what `LimitsOnlyAtEdges` and `PiecesAgree` say of single calls.  What those
add stays with TLC: `top_n` sorts, `concat` and `flatten` are folds, and that the arrays
are what a program's calls return.

*Only model-checked.*  Liveness (`EveryCallReturns`, `ExecutionsEnd`,
`ExecutionEnds`, `LexingEnds`) because fairness and ENABLED are out of the prover's reach;
and all that parses, compiles, evaluates or walks nested values (`Texts`, `Programs`,
`Sharing`, `Library`), which is recursion over trees, with RECURSIVE operators, which the
prover cannot handle.

## 5. The plan

A module for `env`'s two stores, inline and spilled bindings, that refines
the function from names to values of `Scopes`.  The heap of `Sharing` with its walks along
paths as functions of the path, so that "no call writes to what was there before" can be proved
for any program.

## 6. Not modelled

*Builtin tables*: filled once by init functions and at set-up, unchanged afterwards.
*Language server*: an external library's loop hands it one message after another; what
it publishes are the parser's and the compiler's errors.  *Global variables and
validation* in the registry: `injectGlobalVars` writes to a map that the host owns, and
`Validate*` runs the parser and the compiler without keeping anything.  *Square roots,
rounding, text, formatting, dates, encodings* wrap Go's library.  *`lang`* inspects text
for the editor's completion.  *Slug, benchmarks, syntax files* are not part of the
interpreter.
