# A formal model of the y-- compiler and virtual machine

y-- is a scripting language: a lexer and a recursive-descent parser build a
statement tree, `ByteCodeCompiler` (src/src/compiler.cpp,
src/include/ylang/compiler.hpp) turns it into chunks of bytecode, and
`VM::run` (src/src/vm.cpp) executes them on one thread with a value stack and a
stack of call frames.  The compiler and the machine share an unwritten contract:
the compiler counts, in its vector `locals`, how high the stack stands at every
instruction, and addresses variables by that count; and it lays out try
statements so that the handlers the machine has installed are those of the
enclosing try bodies.  Nothing at run time checks the contract.  This project
states it, checks it on every small program, and proves what follows from it for
every program.

Around that core the program keeps many things twice, for speed: what the compiler
believes of variables, a variable's flags, the best overload of a signature, the
results of a function, the order of a class's ancestors, the class a method runs for,
and reference counts beside a collector.  For each there is a module of what the
language promises, which has them once, and the detailed module is shown to
implement it.

## 1. The system and what is modelled

| Component | State | Operations | Interacts with | Hard part | Modules |
| --- | --- | --- | --- | --- | --- |
| Dispatch loop, calls, exceptions (vm.cpp 8640-12237, vm.hpp) | `stack`, `frames` (ip, base, handler stack), `isReturning`, `pendingReturn` | one per opcode, and the catch clause of `run` | runs the compiler's chunks | a return or an error that meets try statements, calls and finally blocks | `YVM`, `Verifier` |
| Statement compiler (compiler.cpp 4-1080, compiler.hpp) | `locals`, `scopeDepth`, `loopStack`, `chunk`, the activations of `compileStmt` | one per statement kind; `addLocal`, `endScope`, `patchJump`, `emitLoop` | hands chunks to the machine | break, continue and return among nested scopes; jumps patched later | `CodeGen` |
| Switch jump tables (compiler.cpp 633-741, vm.cpp 9748-9766) | table bytes, constants, body addresses | choice of form, layout, `OP_SWITCH_TABLE` | part of the two above | operands of one and two bytes | `SwitchTable` |
| Runner (yrun.cpp) | - | compile the file, append NOTYPE and RETURN, run | all | - | `CompileAndRun` |
| Optimizing compiler (compiler.cpp 277-600, 823-880, 1088-1243; typed opcodes of vm.cpp) | the values known of locals and globals, a nested VM | `tryExtractConstant`, `tryEvaluateCompileTimeLoop`, `OP_FAST_*`, `OP_INC_LOCAL`, `OP_JUMP_IF_NOT_LT` | runs the machine inside the compiler | knowledge that is out of date; ints that overflow | `Values`, `Source`, `Folding` |
| Global variables (objects.hpp 1390-1470, vm.cpp 10579-10790) | `Env::vars`: value, alias, flags twice | `set`, `get`, `OP_DEFINE_VAR`, `OP_SET_VAR`, `OP_DEFINE_REF`, `OP_SET_REF` | every line of a session | which copy of the flags a line looks at; pointers into variables | `Scopes`, `Environment` |
| Calls, overloads, cached functions (vm.hpp 169-475) | `OverloadObject::overloads`, `signatureCache`, results kept | `callValue` | variables hold the functions | a cached choice or result that later lines change | `Calls`, `Scopes`, `Environment` |
| Classes, method resolution, access (vm.cpp 8719-9300, 11487-11606, objects.hpp 692-790) | class objects with order and tables, instances, frames | class statements, construct, invoke, super, operators, get, set, increment | calls, variables | order of parents, owners of functions, tables shared by what inherits | `ClassText`, `Objects`, `Classes` |
| Garbage collector (vm.hpp 36-163, objects.hpp 99-166) | the list from `gc_head`, reference counts, marks | instructions and natives that hold objects; mark, sweep | everything that holds a value | what only C++ variables hold; a sweep whose next object dies | `Reachability`, `Memory`, `Heap` |
| Constant pool, serialization, assembler | `Chunk` | `addConstant`, write and read `.ymc` | compiler, machine | index widths | `addConstant` is in `SwitchTable`; the rest not modelled |
| Iteration | iterator objects | FOR_ITER, SKIP_ITER | machine | zip of unequal lengths | effect on the stack is in `YVM` |
| Module imports | `importStack` of a VM | import, import from | a nested VM per module | cycles | not modelled |
| BigInt | limbs | arithmetic | machine | borrow, sign of zero | not modelled; `Values` has the border between ints and big integers |
| Lexer, parser | token position | recursive descent | compiler | - | not modelled: `CodeGen` ranges over its trees |
| Native libraries, value methods (vm.cpp 7-8640), AST interpreter, vendored code, build files | | | | | not modelled: independent library functions, dead code, third-party code |

What makes each modelled component correct:

* machine: no undefined step; handlers are those of the text; a finally block
  that is owed is run; a pending return belongs to a running finally block; a run
  without loops ends;
* compiler: the height it counts is the height the machine has; a local access
  reaches the declared variable; every jump lands where the height and the
  handlers agree;
* jump table: whatever form a switch is compiled to, it reaches the body of the
  case equal to its value;
* optimizing compiler: optimizing does not show;
* variables and calls: a constant never changes, a lock keeps a type, a reference
  is another name, a call runs the best function its name has now;
* classes: members are found along one order and used by whom their declaration says;
* collector: what the program can reach stays, what it cannot goes, and a
  collection ends.

## 2. Modules

* `YVM` - the machine.  One action per control instruction; `Raise` is the catch
  clause of `VM::run`, `Leave` the part of `OP_RETURN` that leaves a frame,
  `Undefined` a step whose C++ has undefined behaviour (pop of an empty vector,
  index past the end, ip outside the chunk), which ends the run in its own
  status; `Abort` is the `CTLEAbort` thrown on reading a `NoType` local.  A value
  is abstracted to the address of the instruction that pushed it, an error to its
  type, the truth of a condition to a choice.  `NATIVE` stands for every
  expression that may raise, `POP2_PUSH` for the operators that may not.
  An address is an instruction index; 0 is the placeholder of an unpatched jump
  or of an absent finally block.  History variables: `skipped`, and in a frame
  `owed`, the try statements whose finally block is still to run.
  An instruction carries four annotations the machine never reads (`h` height,
  `hs` enclosing try bodies, `ow` finally blocks owed, `rf` the try statement whose
  finally block a return may be running): what the compiler believes.
* `CodeGen` - `compileStmt`.  The statement tree is chosen while it is compiled: an
  action per statement, and for a statement with blocks an action per place where
  a block starts or ends; `open` is the C++ stack of activations.  So the states
  of the module are the states of the compiler on all programs of at most
  `MaxStmts` statements nested at most `MaxNest` deep.  An activation also has three ghost fields, which no
  action reads: the height, the scope depth and the number of loops where it began (`h`, `d`, `n`).  An `if` arm, a loop
  condition and a switch value are expressions of one instruction.  A switch is the
  linear scan here; the table form has the same stack effect.
* `Verifier` - a bytecode verifier (`Verified`): a condition on every instruction
  and its successors; and the properties of the machine.
* `CompileAndRun` - the two composed as yrun.cpp does.
* `MCCompileAndRun` - the small instances.
* `SwitchTable`, `MCSwitchTable` - jump tables, with bytes of `Byte` values
  and table entries of `Word` values.
* `Values`, `Source` and `Folding` - numbers and expressions; what a block of statements means when
  nothing is optimized; and the same block compiled with everything the compiler knows, then executed.  `Folding`
  keeps the compiler's `locals` and `knownGlobals` and emits a description of the code of each statement; the
  refinement is by the shared variables (`ip`, slots, globals, what is printed).  A guarded statement stands in a
  branch that may or may not be taken.
* `Calls` - functions, ranking, binding, conversions: operators both of the next two use.
* `Scopes` and `Environment` - what variables and calls promise, and `Env` with its pointers, flags and caches.
  One action per kind of line of a REPL session; an error ends the line only.  The mapping reads the
  pointers: a name's cell is the variable its alias leads to (`CellOf`), the cells are those some name reaches
  (`Cells`), and both caches are gone.
* `ClassText`, `Objects` and `Classes` - class statements, what they mean, and the tables of the machine.
  A step is an operation of the method that runs, or its return.  `Objects` leaves open which order of the ancestors
  is used, as long as every class's order of its parents is respected; the mapping gives it `mro`, and forgets
  the tables of methods and fields, the owner of a function and the class in the slot of `obj`.
* `Reachability`, `Memory` and `Heap` - what can be reached; a memory that never loses it; and the list of objects
  with reference counts, the stacks of a chain of VMs (natives that call back run one of their own), and
  `gc_collect` step by step: mark, then one object of the sweep at a time.  `Promise` maps held objects and the
  contents of those that can be reached.
* `MCFolding`, `MCEnvironment`, `MCClasses`, `MCHeap` - their small instances.
* `VerifierProofs`, `CodeGenProofs`, `CompileAndRunProofs`, `AddressingProofs`, `FinallyProofs`,
  `SwitchTableProofs`, `EnvironmentProofs`, `HeapProofs` - section 5.

Definitions named "Variant" in a comment are plausible mistakes; putting one in the
place of the definition after it makes a property of a run fail, which shows the
property depends on that definition.

### Programs and risks

`Kinds` selects the statement kinds of the programs, `Risks` the harmful combinations
they may use.  The combinations were found by the checks: each, when allowed,
violates the property named here.

| Risk | Combination | Property violated |
| --- | --- | --- |
| `let_in_do` | a let directly in a do-while block: popped once, pushed per iteration | StackDiscipline |
| `let_in_try` | a let in a try body below depth 0: the body opens no scope | StackDiscipline |
| `break_foreach` | break in for-each leaves streams and counter on the stack | LexicalAddressing (run `break_foreach`) |
| `continue_in_switch` | continue in a switch: a jump nobody patches | NeverUndefined |
| `jump_out_of_try` | break or continue out of a try statement: no TRY_EXIT | FinallyAlwaysRuns, HandlersFollowText |
| `error_in_catch` | a failing statement in a catch clause of a try with finally, a try statement there that rethrows included | FinallyAlwaysRuns |
| `finally_without_catch_all` | an error no clause takes is rethrown before finally | FinallyAlwaysRuns |
| `call_owing_finally` | an error in a callee passes the callers' handlers over | FinallyAlwaysRuns (run `callee_error`) |
| `return_skipping_finally` | a return in nested try statements or in a catch clause | FinallyAlwaysRuns |
| `return_from_inner_scope` | an intercepted return with block locals on the stack | StackDiscipline |
| `busy_finally` | a return, error or try in a finally block a return entered | PendingReturnOwned |
| `let_without_value` | reading such a local aborts past every handler | (status "aborted", in runs `loops` and `ends`) |
| `recursion` | a function calling itself as a statement leaves nothing on the stack the limit measures | (frames grow without bound; no run) |
| `return_in_try` | an intercepted return as such | none: harmless, and allowed in `exceptions` |

Two of them and the jump-table width are runs that expect the violation (`break_foreach`, `callee_error`,
`switch_span`): each contradicts a sentence of src/README.md or a comment of the code (the findings of PROJECT.json
quote it).
The others are shown by adding the risk to the `Risks` of a configuration.  Outside the risks
the properties hold, and section 5 says what that implies for all programs.

The other modules have `Risks` of the same kind, each of which, put in the configuration of the run,
makes its refinement fail (or, where said, another property).  A hazard of PROJECT.json whose trigger is a risk says so in
its note: the passing runs do not meet it.

`Folding` (run `folding`):

| Risk | Combination | Where |
| --- | --- | --- |
| `fold_locals` | a loop evaluated while compiling, in a block with locals: they are popped before they are read back; then every one is stored, const ones included, and believed from there on, also when the loop stands in a branch that is not taken; ImplementsSource fails after two statements, e.g. a const local and a loop that only declares a local of its own, where storing the const back raises ConstError | compiler.cpp 1090-1153, compiler.hpp 42-48 |
| `shadow` | a local hides a global but not what is known of it | compiler.cpp 1194 |
| `redefine_function` | the variable of a known function is assigned, or defined in a branch | compiler.hpp 766 |
| `count_const`, `count_wide`, `float_limit` | counting in place asks no flags, overflows, and cuts a limit to an int | vm.cpp 9710-9740, compiler.cpp 863 |
| `typed_div` | two locked ints divide as ints | vm.cpp 9869 |
| `big_literal` | a folded literal is what a double holds of it | compiler.cpp 1172 |

`Environment` (run `session`):

| Risk | Combination | Where |
| --- | --- | --- |
| `redefine_reference` | declaring a name that is a reference sets a hidden value | objects.hpp 1433 |
| `redeclare_flags` | declaring again makes nothing constant or locked | objects.hpp 1433-1435 |
| `lost_lock` | after an assignment the lock is not seen through references | vm.cpp 10714-10740 |
| `refer_constant`, `refer_undeclared`, `replace_target` | a reference replaces a constant, leads to the static variable of `lookup`, or empties the variable other references lead to | vm.cpp 10745-10788, objects.hpp 1410 |
| `late_overload` | an overload that would win a signature already called (violates CacheCurrent) | vm.cpp 10622 |
| `short_rest` | missing arguments rule a function with *rest out only when it is bound | vm.hpp 213 |
| `outvoted` | three castable arguments outvote an exact one; src/README.md:295-298 ranks exact matches first | vm.hpp 237-247 |
| `surplus_remembered` | a kept result answers a call with arguments left over | vm.hpp 427-444 |
| `cached_reading` | a cached function reads a global | vm.hpp 427 |

`Classes` (run `classes`):

| Risk | Combination | Where |
| --- | --- | --- |
| `third_overload`, `mixed_access` | a third function of a name is lost; two of two levels share the later one | vm.cpp 8906-8923 |
| `let_level`, `store_level`, `inherited_field`, `static_access` | the level of a field is that of its last store, in the table of the instance's own class; statics go unchecked | compiler.cpp 293, vm.cpp 8766-8791, 9204 |
| `no_constructor` | a class without a constructor does not run its parent's | vm.cpp 9332 |
| `operator_access`, `method_value`, `increment` | an operator, a method taken as a value and an increment are not checked | vm.cpp 8719-8765, 9086, 9236 |
| `operator_slot`, `main_slot` | the caller is looked for in the second slot of the frame: an operator's method finds the operand's class there, the main program a local, or the receiver or first argument of the call itself (`A.h()` with `A` a local class in the first slot runs a private `h`) | vm.cpp 8735, 11569 |
| `inconsistent_order` | an order that contradicts itself is cut short | objects.hpp 750 |
| `super_skips` | the next class of the order lacks the method and a later one has it | vm.cpp 8875 |
| `class_again`, `class_dropped` | a class statement executed twice; a class that is gone under its instances | vm.cpp 8905, objects.hpp 767 |

`Heap` (run `heap`):

| Risk | Combination | Where |
| --- | --- | --- |
| `native_local` | a native that calls back is the only holder of its receiver or elements | vm.cpp 6907, vm.hpp 142 |
| `pending_return` | a return that waits for a finally block is the only holder | vm.cpp 8651 |
| `opaque` | only a slice or a reference holds the object | vm.hpp 106-118 |

## 3. Runs

| Run | Checks | Bounds |
| --- | --- | --- |
| `loops` | StackDiscipline, LexicalAddressing, NeverUndefined over declarations, assignments, if/elif/else, all loops, switch, break, continue, skip | 3 statements, nesting 2, one function |
| `exceptions` | HandlersFollowText, FinallyAlwaysRuns, PendingReturnOwned over let, call, throw, return, try/catch/finally | 3 statements over 2 functions, nesting 2, 2 clauses |
| `verifier` | CompilesToVerified: all statement kinds together compile to code the verifier accepts | 3 statements, 2 functions, nesting 2; compiled, not run |
| `ends` | VMTypeOK, ProgramsEnd with harmful combinations | 3 statements, 2 functions, no loops |
| `switch` | DispatchReachesCase | 3 cases, keys with gaps on both sides of the limit, Byte = 5, Word = 64, pools of 0 and 2 constants |
| `folding` | KnowledgeSound, ImplementsSource | blocks of 4 statements from a menu of 33; ints to 9, doubles exact to 8 |
| `session` | CacheCurrent, KeepsPromise, FlagsHold | 4 lines, 3 names, a native and 3 functions (a default, a *rest, cached ones), 0, 1, 3 or 4 arguments |
| `classes` | KeepsClasses | a diamond of 4 classes, one object, methods of methods to depth 3 |
| `heap` | CursorAlive, KeepsMemory, LeavesNoGarbage, CollectionAdvances | 3 objects, one variable, stacks of 2, one callback, a collection before every instruction |
| `break_foreach`, `callee_error`, `switch_span` | one property each, violated | as above |

Why the bounds are enough: nesting 2 gives every pair of enclosing statements (a loop
in a try in the function, a try in a finally block), three statements give a
pair and the statement that exposes it.  The hazards found all appear within them.
Two functions give a caller and a callee; a third adds only a frame
that does nothing new, because no instruction looks past the frame below the top.
`StackLimit` is 2 in place of 65000 so that RecursionError is raised, except in
`loops`, where nothing calls.  `Warning` stands for the warning types the dispatch loop
prints and steps over.

For the four refinements: four statements let the compiler learn, forget to unlearn, loop and read; the menu has
every pair of a statement and what it may know.  Four lines are a declaration, a reference or overload, a call and a
change after it; `EnvironmentProofs` covers longer sessions.  A diamond is the smallest inheritance in which
the order of ancestors differs from the chain of parents; one object is enough because no step
relates two.  Three objects are a cycle and an outsider; `HeapProofs` covers more.  `heap`
identifies states up to the names of addresses, which no step tells apart, and checks no liveness.  `classes`
drops the last line and its answer from the fingerprint (VIEW): no guard reads them, and the property is one of
steps, each of which is checked when it is generated.  `session`, `classes` and `folding` do not check deadlock: a
session or a block that has reached its length stops.

Fairness: `FairSpec` adds weak fairness of `Run`.  The dispatch loop is a single thread that
never waits for anything, so an instruction that can execute does.  The
compiler needs none for ProgramsEnd, which speaks of a run already started.
Liveness is restricted to programs without loops: a loop may run for ever by right.

## 4. What the properties say

* StackDiscipline - every frame's part of the stack has the height the compiler counted.
* LexicalAddressing - the slot GET_LOCAL, SET_LOCAL or SKIP_ITER touches holds the value of the
  declaration the compiler resolved the name to.
* NeverUndefined - no step has undefined behaviour.
* HandlersFollowText - a frame's handlers are those of the try bodies around its
  instruction, with the stack depth of their statement; while a return runs a finally
  block, that block's handler is on top, marked.
* FinallyAlwaysRuns - no frame is left, and no try statement entered again, owing a finally block.
* PendingReturnOwned - `isReturning` is raised only while some handler is marked as inside its finally block.
* KnowledgeSound - after each statement a variable has the value and type the compiler then knew of it.
* ImplementsSource - each statement, as compiled, changes variables, prints and fails as written.
* CacheCurrent - a choice of an overload that is kept is the one a fresh ranking would make.
* FlagsHold - no line changes what a constant reads, nor the type of a locked variable.
* KeepsPromise - every line does to the variables what `Scopes` promises and gives what it promises.
* KeepsClasses - every operation finds, runs, refuses and leaves what `Objects` says.
* KeepsMemory - no step frees, empties or changes what the program can reach, except the program's own writes.
* LeavesNoGarbage - when a collection is over, everything left can be reached.
* CursorAlive - the sweep never stands on a deleted object.
* CollectionAdvances - every step of the sweep shortens the list or the way to its end, so that it ends.
* CompilesToVerified, ProgramsEnd, VMTypeOK, DispatchReachesCase - see section 3.

## 5. Proofs

All proofs are checked by TLAPS.

* `VerifierProofs!TypeCorrect`: `VMSpec => []VMTypeOK` for every program, verified or not, from the assumptions
  on the constants only.  `TypeInv` adds that a running machine has a frame.
* `VerifierProofs!VerifiedRunsSafely`: if every program is `Verified`, then
  StackDiscipline, HandlersFollowText and NeverUndefined hold always.  None of the
  three is inductive alone: an error cuts the stack to the depth its handler recorded, so
  the height after it is right only if the handlers are; a return resizes to the
  caller's base, so suspended frames need their heights; the handlers are right only if
  a pending return is known to be in the block of the marked handler.  `VInv` is
  their conjunction with the type invariant and the verification of the code.  There is one
  lemma for each way the machine moves: `FlowStep` (to a successor instruction), `RaiseStep`,
  `EnterFinallyStep`, `LeaveStep`, `CallStep`, `TryEnterStep`, `TryExitStep`,
  `EndFinallyStep`; `VerifiedStep` has one case per instruction, and `AlwaysDefined`
  shows that an undefined step is impossible.
* `CompileAndRunProofs!CompilerCorrect`: `Spec => []CompilesToVerified`, for every number of functions and statements,
  any depth of nesting and any number of clauses.  The hypotheses (`Accepted`) are that functions are numbered as the
  compiler numbers them, that the errors the compiler names are error types, and that none of seven risks is taken
  (`Harmful`): each of these makes code the verifier refuses, as section 2 says, and the other risks are allowed.
  `CompilesToVerified` says nothing before a chunk is finished, so the invariant `Working` is about half a chunk:
  - `Sound`: every instruction so far does what the verifier asks of it, with an imagined instruction behind the
    last that has the height and the handlers of what comes next; the jumps still to be patched are excused from
    landing (the holes), and every hole belongs to an open statement or to a loop;
  - `Expects`: what each open statement needs of the addresses it keeps when it will patch them: the height and the
    handlers a jump has must be those of the place it will land at; for a try statement also that an intercepted return
    has the height of the finally block;
  - `Nesting`: the locals fall into layers by scope depth, one for each open statement (`Split`), so that `endScope` pops
    exactly the statement's own, and the loops of `loopStack` are those of the open statements (`LoopOK`);
  - `Contexts`, `Intercepted`: the handlers of a statement extend those of the statement around it, and a try
    statement whose finally block a return enters knows so before the block begins.
  `Emit`, `Made` and `On` are the calculus of the proof: emitting an instruction keeps `Sound`, patching
  removes holes, ending a scope lowers the mark; `<Action>Compiles` has one lemma for each action, and
  `WholeStep` puts them together with the steps of the machine.  `CodeGenProofs` has the definitions and the lemmas on
  code, `CompileAndRunProofs` the actions and the theorems.
* `CompiledRunsSafely`: with `Funcs = 1..NumFuncs`,
  `Spec /\ []CompilesToVerified => [](StackDiscipline /\ HandlersFollowText /\ NeverUndefined)`, from which, with
  `CompilerCorrect`: `CompiledKeepsDiscipline`, `CompiledHandlersFollowText`, `CompiledNeverUndefined` and
  `CompiledReturnOwned` (`[]PendingReturnOwned`) for every program outside the harmful combinations, with any stack
  limit, error hierarchy and number of functions.
* `AddressingProofs!CompiledLexicalAddressing`: `Spec => []LexicalAddressing` from the same hypotheses.  The verifier
  follows heights and handlers but not which declaration filled a slot, so `CompilerCorrect` is not enough; the proof
  adds a second verifier, of labels, that no compiler runs.
  - The machine (second part of `VerifierProofs`): a label lists the declarations that fill the first slots of a frame
    (only so many of them as matter), and one label l knows another if it begins with it (`Knows`).  A chunk is `Addressed`
    by labels of its instructions if each successor, jump target and handler is known by the instruction that leads to it, but for the value the instruction
    pushes itself, and an instruction that names a local finds the declaration in its label.  A label is only ever
    forgotten on the way, so code reached from several places is labelled by what they agree on, and an error may
    cut the stack anywhere above the handler's label.  `LabelsWith` is the invariant: every frame holds the label of its
    instruction, a suspended one that of the instruction after its call, and no label reaches into the frame above.
    `LabelledStep` has a case for each instruction, `LabelledAddresses` the conclusion.
  - The compiler: what it knows at a place is its own vector `locals`.  `Knit` is `Addressed` of half a chunk, with
    the end labelled by `locals` and with jumps to be patched (`Hole`) excused; `Tied` says of the addresses an open
    statement keeps what they will know when it patches them: that a break's jump, for instance, knows the label
    of the locals the loop began with.  Emitting, patching and ending a scope are `OneWired`, `PatchWired` and
    `Sewed`; `<Action>Laces` has one lemma for each action, and `AddressingFinish` gives `Addressed` for what is handed over.
* `FinallyProofs!CompiledFinallyRuns`: `Spec => []FinallyAlwaysRuns` for programs that besides the seven take none of
  five more risks (`Careful`), those whose row in section 2 says that a finally block is left out, `let_without_value`
  among them because the abort passes every block.  What is allowed includes returns out of a try body and errors in
  every place but a catch clause with a block behind it.  `FinallyAlwaysRuns` speaks of the debts `owed` of frames, the
  machine knows only handlers and jump targets, and the text says where a debt begins and ends; so the proof has two halves.
  - The machine (third part of `VerifierProofs`): `PaysDebts` is one more verifier.  An instruction between a TRY_ENTER and the finally block it names
    (`Spans`) owes that block; a jump may not go past it (`Settles`), an instruction that may fail has a handler that
    is not outside it, a return is intercepted by it (`Pays`).  The code behind a clause for every error, a rethrow among
    it, is never reached: `D` collects such instructions, and `Laid` says how clauses follow one another so that nothing
    falls into them.  `DebtsWith` is the invariant of a run; it also has that what a clause looks at is an error and that
    no local without a value is on the stack.  `DebtStep` has a case for each instruction.
  - The compiler: `Even` is `PaysDebts` of half a chunk, with holes excused and the try statements that are open owed by
    all that comes next; `Rises` says that code was added without making a place the compiler still knows unreachable,
    and `Keeping` what each open statement needs of the jumps and addresses it holds.  `<Action>Tidy` has one lemma for each
    action, `StatementTidy` collects them, `ChunkPays` gives `PaysDebts` for what is handed over.

  The attempt at this proof found that an earlier form of the model let a try statement inside a catch clause rethrow past
  the finally block of the outer one without taking a risk (`MayRethrow` is the guard it needed): the last clause that
  matches nothing is followed by an OP_RETHROW that is as much an error in the clause as any other.
* `SwitchTableProofs!SwitchRight`: for every `Byte` and `Word`, switches with distinct keys
  no two of which are `Byte - 1` or `Byte` apart, fewer than `Byte` constants
  before them and code of at most `Word` bytes: `[]DispatchReachesCase`.  The
  invariant `IInv` says that the scanned bounds are keys, that the header's operands did not wrap, and that the
  bodies lie behind the table, each under its key; `TableJumpRight` draws the conclusion.

* `HeapProofs!HeapIsMemory`: if no risk is taken, `Spec => KeepsMemory` for every set of objects and
  variables and all bounds.  The invariant says that every object's contents exist, that
  nothing outside the list is held, that what the program has out of the collector's sight is also in
  sight, and that during a sweep the objects in sight are marked and the marked are closed under contents; so
  the sweep empties only objects that cannot be reached, and what counting frees was not reachable either.
* `HeapProofs!CursorStaysAlive`, `SweepAdvances` and `CollectionIsComplete`: `Spec => []CursorAlive` and
  `Spec => CollectionAdvances` whatever the program hides from the collector, and `Spec => LeavesNoGarbage` if no
  risk is taken.  `OrderInv` says that the list has the objects of the heap, each once: what unlinking leaves is in the
  old order (`UnlinkedIs`, by counting ranks), so a list of the same length is the same list and the cursor's place is one
  further, and otherwise the sweep starts over with a shorter one.  `GInv` adds that no step leaves an object without
  a support from what is held (`Counted`: what counting keeps is the largest set each of whose members has a holder),
  that only what can be reached is marked, and that unmarked containers behind the cursor are empty; at the end nobody
  but the marked holds anything (`NothingLeft`).
* `EnvironmentProofs!EnvironmentIsScopes`, `CacheStaysCurrent`, `FlagsAlwaysHold`: for every set of names,
  functions, literals and argument lists and any number of lines, if no risk is taken, `Spec => KeepsPromise`,
  `Spec => []CacheCurrent` and `Spec => FlagsHold`.  `IInv` says that aliases lead to declared variables
  (`VarsInv`), that the two copies of the flags differ by a lost lock at most and a constant is no alias
  (`FlagsInv`), that caches hold what ranking gives (`OverloadsInv`) and that a kept result is the
  result of the function for those arguments when it reads no global (`MemoInv`).  Every line is one of four
  changes of variables (nothing, a value stored in a cell, a new variable, another alias: `SameVars`, `Stored`,
  `Created`, `Linked`), each of which is shown to be a change of cells; `PickedOverload` shows that the sum
  ranks the candidates as the promised order does unless it is outvoted.

Only model-checked: ImplementsSource and KnowledgeSound (a loop is evaluated by recursive functions over its
rounds, so the proof is an induction over data, and the value of an expression is computed, by cases, from
tables of small numbers), KeepsClasses (C3 is an iteration over lists), and
ProgramsEnd (liveness is beyond the prover).

## 6. Not modelled, and abstractions to know

* In the machine and the statement compiler: values, arithmetic, parameters, closures and return
  types.  An expression is one instruction there; the other modules have what they need of each.
* Compile-time evaluation of loops is taken to decline in `CodeGen`; `Folding` has it.  There, strings, lists and
  loops over them are left out, a function has no parameters, and a loop runs a fixed number of rounds.
  A loop evaluated while compiling pops the enclosing locals (the nested compiler's scopes start at 0), so what it
  hands back is read beyond the end of the stack; that is undefined, and `Folding` lets any local come back as the
  loop left it or as anything (`ReadBack`).  A loop whose evaluation ends has no unknown local to read, so on a
  first evaluation every local is constant and the stores fail anyway: only loops in blocks without locals are folded
  without harm, and these leave no code.
* The second slot in which OP_INVOKE looks for the caller is, in the main program, a choice of `Classes` at each call
  (`Seconds`), because a call may stand in any block; a function that is no method is like the main program there.
* In `Environment`: references to elements and properties, keyword arguments, environments with a parent.
* In `Classes`: native classes, iterators, destructors; a method's body is any sequence of operations.
* In `Heap`: an object is a container the collector looks into or one it does not; what is in it is a set; marking
  goes a layer at a time and the marks are cleared at the end rather than at the beginning of the next collection.
  One thread: the routes of an HTTP server (vm.cpp 4946) run VMs on worker threads without a lock, which is
  undefined behaviour from the first step on.
* Imports, iteration over containers, big-integer limbs, the constant pool's file format, the lexer and parser: section 1
  and the notes of PROJECT.json say why.
* `HeapObject::typeLocked`, which a locked declaration sets, is read by no modelled step.
* The `else` block of try is parsed (parser.hpp 1493) but never compiled, so it does not exist here.
* Byte offsets of code other than jump tables: the 16-bit offsets of TRY_ENTER are
  truncated without a check in the code, instruction indices here are not.
* One run per machine in `CompileAndRun`.  When the program defines a function `main`, yrun.cpp 236-253 runs
  a second chunk that calls it on the same machine, with the stack the first run left.  `BeginRunOf` starts its
  frame at the height it finds, so the machine is ready for that; the runner is not.  The lines
  of a REPL (306-400), after each of which stack and frames are cleared, are those of `Environment`.

## 7. Plan

1. KeepsClasses without the order: access and owners for any order that is given.
2. Keyword arguments in `Calls`; references to list elements in `Environment`, composed with `Heap`.
