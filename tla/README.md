# TLA+ models of the LR(k) toolchain, the hash map, the FSM pipeline and the expression JIT

This directory checks four parts of the repository with TLC:

- the LR(k) toolchain (`src/lr-k`): loader, FIRST_k, table builder, table
  file, runtime parser;
- the hash map (`src/hash-map/unordered_map.h`);
- the regex and automaton pipeline (`src/fsm-pipeline`);
- the expression JIT (`src/compiler.cpp`, driven by
  `src/compiler-at-home/eval-expression.c`).

`PROJECT.json` lists the components, the runs, one mutant per checked
property, the source lines each definition translates, the findings and the
hazards.

## 1. The system

### 1.1 Parts and how they interact

| Part | Source | State | Operations | Interacts with |
|---|---|---|---|---|
| Grammar loader | `src/lr-k/src/grammar.cpp` | `_view2id`/`_id2view`, `_rhs_storage`, `numbered_prod`, `_rhs`, `start`, `nonterminals` | `Parser::Parser` (one iteration per line), `Grammar::Grammar` (S check, `S_0 -> S`) | read by FIRST_k, the builder, the exporter |
| KString | `include/utils.hpp`, `first_k.hpp` | `str[K]`, `len` | truncating `operator+`, `k_concat` | FIRST_k, builder, ACTION keys |
| FIRST_k | `include/first_k.hpp` | `k_first`, worklist, membership set | `build_kfirst` | builder |
| Table builder | `include/builder.hpp` | `table_`, `goto_`, `action_`, kernel index, worklist | `closure`, `build`, final ACCEPT | exporter |
| Action encoding | `src/utils.cpp` | one `uint32_t` | constructor, `get_action`, `get_rule_id` | builder, file, runtime |
| Table file | `include/connector.hpp` | a binary stream; the importer's `tokens`/`_rhs_storage` buffers | `Exporter::serialize`, `Importer::load` | generator CLI to parser CLI |
| Runtime parser | `include/runtime_parser.hpp` | `memory` stack, `index`, `result` | `parse` | parser CLI |
| Hash map | `src/hash-map/unordered_map.h` | one circular list through `fake_node_`, `bkt_ptr_` (before-first pointers plus a tail slot), `bkt_count_`, `n_elt_` | insert/emplace, `operator[]`, find, erase, reserve, rehash | standalone |
| FSM pipeline | `src/fsm-pipeline/src/*.cpp`, `include/pipeline.hpp` | boost graphs with typed vertices and labelled edges | `parseRegex`, `epsNfaToNfa`, `NfaToDfa`, `DfaToMinDfa`, `faToRegex`, chained by `getPipeline` | standalone CLI |
| Expression JIT | `src/compiler.cpp`, `src/compiler-at-home` | `global_ptr`, the node tree, an mmap'd code buffer; at run time r0-r12, LR, sp and the stack | `compile` (strip spaces, parse with `Polynom`/`Monom`/`Func`, `put_into_register`, `BX LR`), then the caller runs the ARM32 code, which calls back into C functions | `eval-expression.c` supplies the symbol table and calls the result |

There are no threads anywhere. Every component is a sequential loop. What a
test hardly reaches is:

- an order the library leaves unspecified (`unordered_map` iteration,
  `has_token` numbering);
- a fixed point that has to be exact (FIRST_k, `closure`, ε-closure, the
  minimisation worklist);
- an off-by-one (lookahead positions, the runtime window, `2 * |rhs|` in
  `size_t`, a span offset, a bucket index);
- a long sequence of legal calls that breaks an index (the hash map);
- one of several exits of a loop (`parse`, `load`, `buildNfa`).

### 1.2 Modules

One step of every detailed module is one iteration of the loop it models,
with every call the iteration makes.

| Module | Models | State (code names) | Actions |
|---|---|---|---|
| `Loader` | `Parser::Parser`, `Grammar::Grammar` | `view2id`, `id2view`, `storage`, `numbered`, `temp_rhs`, `spans`, `start`, `nonterminals` | `ParseLine`, `FinishParser`, `Augment` |
| `KString`, `Grammar`, `LRAction` | the value types | none (operators) | |
| `LRReference` | the spec's definitions, written without the code | none | FIRST_k by rounds, canonical collection, conflicts, membership, right-most derivations |
| `FirstK` | `build_kfirst` | `k_first`, `worklist`, `worklist_double_entry_check` | `PopChanged`, `PopUnchanged` |
| `LRBuilder` | `Builder` | `table_`, `goto_`, `action_`, `worklist`, `status` | `BuildStart`, `ProcessState`, `ConflictFound`, `SetAccept` |
| `Codec` | `serialize`, `load` | none (operators over a stream) | `load` reads the fields back into the shared buffers and their views |
| `LRRuntime` | `RuntimeParser::parse` | `text`, `index`, `memory`, `result`, `pstatus` | `ParseStart`, `SyntaxError`, `Shift`, `ReduceStep`, `Accept` |
| `LRPipeline` | `compiler.cpp` then `parser.cpp` | `phase` plus the above | FIRST_k, build, export and load (a cut stream as a fault), parse |
| `HashMap` | `UnorderedMap<int, V>` | `right`, `bkt_ptr_`, `bkt_count_`, `n_elt_`, `val`, `fault` | `Insert`, `Assign` (`operator[]`), `Reserve`, `Erase` (each with `rehash_if_need_`/`rehash_`/`add_to_index_`) |
| `AbstractMap` | what a map promises | `dict` | `Insert`, `Assign`, `Erase` |
| `Regex` | `parseRegex` | `infix`, `postfix`, `ops`, `pos`, `g`, `frags`, `rpc` | `Preprocess`, `ReadOperand`, `ReadOpenParen`, `ReadCloseParen`, `ReadOperator`, `PostfixEnd`, `BuildOperand`, `BuildOperator`, `BuildSkip`, `BuildEnd` |
| `EpsNfa` | `epsNfaToNfa`, `EpsilonClosure` | none (operators) | |
| `NfaToDfa` | `NfaToDfa` | `nfa`, `out`, `dmap`, `queue`, `npc` | `NfaBegin`, `NfaPop` (one worklist subset, every symbol), `NfaReturn` |
| `MinDfa` | `DfaToMinDfa`, `CompleteDfa` | `dfa`, `alphabet`, `parts` (P), `worklist` (W), `A`, `syms`, `pc`, `min` | `Begin`, `PopSplitter`, `Refine` (one symbol), `Construct` |
| `FaToRegex` | `faToRegex` and its string helpers | `fa`, `dp` (`dp_prev`), `k`, `xpc`, `regexOut` | `ToRegexBegin` (the empty graph, a graph with no start, or the k = 0 table), `ToRegexRound` (one k iteration over every i, j), `ToRegexEnd` (the union over the finals) |
| `FsmPipeline` | `getPipeline` + `Pipeline::execute` + `main` | `job` (the options and the input), `stage`, `steps`, `at`, `printed`, and the above | `GetPipeline` (the step list, or its exception), `ParseFa`, `Parse`/`ParseDone`, `EpsFree`, `Subset`/`SubsetDone`, `Minimise`/`MinimiseDone`, `ToRegex`/`ToRegexDone`, `StepThrew` (an exception from the current step ends the program), `Render`, `PrintRegex` |
| `MCLRGenerator` | the generator's two analyses on the test grammars | `job` plus `FirstK` and `LRBuilder` state | `FirstStep`, `BuildK1`, `BuildK2` |
| `Jit` | `compile` and the emitted code | `text`, `tree`, `code`, `pc`, `regs`, `sp`, `stack`, `status` | `Compile` (parse and codegen, or a thrown `invalid_argument`/`out_of_range`), one action per instruction kind: `Movw`, `Movt`, `Ldr`, `Push`, `Pop`, `Mov`, `Add`, `Sub`, `Smulbb`, `Blx`, `BxLr`, `Undefined` |
| `MCJit` | `eval-expression.c`'s symbol table and `test_simple.c`'s expressions | | |

Data abstractions:

- A KString is a sequence of at most K ids. A lookahead list is a set, since
  the code keeps it sorted and deduplicated.
- A grammar line is the sequence of its pieces after splitting on `' '`.
- A hash-map node is named by its key. `std::hash<int>` is the identity, so
  `hash_` is the key.
- A regex is a sequence of characters from a small alphabet. A graph is a
  record: `[n, type, edges]` for ε-NFAs, `[n, type, delta]` for DFAs.
  `faToRegex`'s strings are sequences of bytes, so the four bytes of
  `epsilon_utf8` have length four, as `std::string` counts them.
- `parseFa` is taken as given: an FA job carries the graph it returns, or
  `EmptyFa` for an input it throws on. Its graph lists the edges of each
  vertex in symbol order, which is the order `faToRegex` sees them in.
  `NoSymbol` stands for the `std::nullopt` label of an ε-edge.
- Vertex names and edge weights only label the rendered output, so they are
  left out.
- A JIT text is a sequence of chunks: one punctuation character, one digit,
  or a whole symbol name; adjacent word chunks form one word, as in the
  character loop. An emitted instruction is a record saying what its word
  does (`[op, rd, rn, rm, imm]`), not its bits. Register contents are tagged
  values: ints, the caller's registers, the return address, code and frame
  addresses, and `Junk` for what a callee may leave in r1-r3, r12 and LR.

Orders the library leaves unspecified are nondeterministic, `\E order \in
SetToSeqs(...)`. Examples are the `unordered_map` iteration in FIRST_k, the
exporter's row order, and the builder's numbering.

### 1.3 Abstract specification and refinement

`HashMap` is shown to implement `AbstractMap` through `INSTANCE AbstractMap
WITH dict <- VisibleDict`. `VisibleDict` is what `find()` returns for every
key, and the abstract `Spec` is checked as the PROPERTY `Refines`.

The LR(k), loader and FSM modules are checked against reference definitions
written from the spec instead. Examples are `LRReference`, `RefProds`,
`Matches`/`WellFormed` for regexes, `RefClasses` (Myhill–Nerode) for DFAs,
and the subset construction in `SubsetAutomaton`.

## 2. Runs

| Run | cfg | Checks | Shows |
|---|---|---|---|
| `generator` | `MCLRGenerator.cfg` | `TypeOK`, `FirstKSound`, `FixpointReached`, `BuiltIsCanonical`, `ActionsAreCanonical`, `ConflictIffNotLRk`, `Terminates` | On the lr-3 test grammar with K = 3, every queue order ends at the FIRST_3 fixed point. An LR(2), non-LR(1) grammar always throws at K = 1, and at K = 2 every numbering gives the canonical states, GOTO and ACTION. |
| `pipeline_base_k1` | `MCLRPipeline_base_k1.cfg` | `TypeOK`, `StackIsGotoPath`, `LoadedIsExported`, `NoRuntimeFault`, `ParseSound`, `ParseComplete`, `PipelineTerminates` | See below. |
| `pipeline_k0_symbol_names` | `MCLRPipeline_lr0_k0_names.cfg` | `ParseSound` (violation) | With K = 0 the nonterminal name `S` is accepted as input. |
| `pipeline_truncated` | `MCLRPipeline_truncated.cfg` | `LoadedIsExported` (violation) | A table file cut before its last field loads without an error. |
| `loader` | `MCLoader.cfg` | `TypeOK`, `RejectsExactlyMalformed`, `AcceptedGrammarIsSpecGrammar` | Every one- or two-line file over `S`, `A`, `a`, `S_0`, `->`, `eps` is rejected iff malformed, and otherwise loads as the spec reads it. |
| `loader_newline` | `MCLoader_newline.cfg` | `AcceptedGrammarIsSpecGrammar` (violation) | A trailing newline adds a rule with lhs -1. |
| `hashmap` | `MCHashMap.cfg` | `TypeOK`, `IndexConsistent`, `Refines` | See below. |
| `hashmap_erase` | `MCHashMap_erase.cfg` | `Refines` (violation) | `erase` of a bucket's first node loses the rest of the bucket. |
| `hashmap_reserve_zero` | `MCHashMap_reserve0.cfg` | `NoFault` (violation) | `reserve(0)` on a non-empty map divides by zero. |
| `fsm` | `MCFsmPipeline.cfg` | `TypeOK`, `SubsetAutomaton`, `PartitionRefinesNerode`, `PartitionIsNerode`, `MinIsQuotient`, `RegexLanguage`, `ThrowsIffMalformed`, `StepsChain`, `PrintedRegexLanguage`, `Terminates` | See below. |
| `jit` | `MCJit.cfg` | `TypeOK`, `ComputesParsedTree`, `StackBalanced`, `ReturnsToCaller` | See below. |
| `jit_arith` | `MCJit_arith.cfg` | `ValueIsArithmetic` (violation) | The code for `-2-2` returns 0, not -4. |

Notes on four of the runs:

- **`pipeline_base_k1`:** generator, table file and parser on
  `S -> a S b S | eps` at K = 1, on every word of up to 4 names. Accepted words
  are exactly the language, each with its right-most derivation, and the
  loaded tables are the exported ones.
- **`hashmap`:** every sequence of insert, `operator[]` and `reserve(1|2)`
  over keys {0, 1, 2, 11}. This includes 11 buckets shrinking to 1 and growing
  back, and two keys that collide in bucket 0. The bucket index stays an exact
  description of the list, and the map refines `AbstractMap`. Deadlock is
  checked here, because a map always accepts another call.
- **`fsm`:** `main` on a set of jobs, each a choice of `--input-type`,
  `-f`, `-l` and an input:
  - the default regex path (stages 1-4) on every text of up to three
    characters over `a b $ ( ) | * + .` and space, and on the two-byte UTF-8
    `ϵ` in four texts;
  - stages 1-5 on every regex tree of up to four nodes printed with minimal
    parentheses;
  - `-f 4 -l 4` on every subset-construction DFA of up to three vertices;
  - `-f 4` (to stage 5) on those of one vertex and the two-vertex ones whose
    vertex 1 alone accepts;
  - `-f 5` and the default FA path (stages 2-5) on those of one vertex;
  - every `-f` and `-l` from -1 to 6 for both input types, on an empty input.

  The run shows:
  - every option choice `getPipeline` accepts gives a step list whose types
    chain, from the input string to `printRegex` or `renderGraph`, so no
    `any_cast` in `execute` throws (`StepsChain`);
  - the regex `printRegex` writes, read back as `parseRegex` reads it, is
    well formed and denotes the language of the input, on all words up to
    length 4 (`PrintedRegexLanguage`). This takes `faToRegex`'s
    parenthesization, its star shortcut, and its `epsilon_utf8`, which
    `parseRegex` must turn back into `$`;
  - a text throws iff it is malformed (`ThrowsIffMalformed`);
  - the final DFA accepts exactly the regex's language on all words up to
    length 4 (`RegexLanguage`);
  - `NfaToDfa` builds the subset automaton of the reachable subsets
    (`SubsetAutomaton`);
  - the Hopcroft partition only ever refines the Myhill–Nerode classes, ends
    equal to them, and the output is the quotient DFA;
  - every input finishes.

  The run has about 120000 states and takes about 110 s, most of it for
  `Terminates`, whose check re-evaluates the steps of every stage-5 state
  with its table of strings (up to 108 bytes here). This is why `-f 4` to
  stage 5 runs on a quarter of the two-vertex DFAs.
- **`jit`:** `compile` on the 19 expressions of `test_simple.c` that TLC can
  branch through, every text of up to four chunks over `A min five 2 + - * ( )
  ,`, every expression of up to three operators over `2`, `A`, `-2`, and wide
  literals and products. Every time a called C function keeps or clobbers
  r1-r3, r12 and LR is a separate branch. The run shows:
  - whenever the code returns, r0 is the value the instructions give the
    parsed tree, with SMULBB on the low halves (`ComputesParsedTree`);
  - sp never goes above its entry value and is back at it on return
    (`StackBalanced`);
  - the final `BX LR` always holds the caller's return address, so a
    callee's LR never leaks into it (`ReturnsToCaller`).

  It has about 150000 states and takes about 40 s.

The `pipeline_*`, `loader`, `fsm`, `generator` and `jit*` runs set `CHECK_DEADLOCK FALSE`, since
the program exits at the end.

### 2.1 Findings

Each finding has a violation run. The details, with the source lines, are in
`PROJECT.json`.

1. **K = 0 accepts nonterminal names.** With K = 0 every lookahead is empty,
   so `parse` shifts any token (`runtime_parser.hpp:36`). `tokenize` maps every
   exported name, so `S` is accepted with an empty derivation.
2. **`erase` loses keys** (`unordered_map.h:401`). It nulls the bucket of the
   erased node whenever that node was first in its bucket, even if more nodes
   follow. After `insert(0)`, `insert(11)`, `erase(11)`, `find(0)` misses.
3. **`reserve(0)` divides by zero** (`unordered_map.h:506`, through
   `add_to_index_`).
4. **`load` ignores stream errors** (`connector.hpp:89`). A file cut short
   loads, and the parser runs on uninitialised entries.
5. **A blank line is a rule** (`grammar.cpp:43`). A trailing newline gives a
   production with lhs -1 and an empty rhs, which shifts every later rule id.
6. **The JIT's `+` and `-` associate to the right** (`compiler.cpp:323`). A
   `Polynom` takes the whole rest of the text as its right operand, and a
   leading `-` negates everything after it. `-2-2` gives 0 and `1-2-3` gives
   2, where C gives -4 and -4. `test_simple.c` expects C arithmetic; its tests
   pass only because none has two additive operators after a minus.

### 2.2 Mutants

Every property of every passing run has a mutant in `PROJECT.json`. A mutant
is a plausible bug in one mapped definition, and TLC finds it under the run's
own cfg. Examples:

- shift lookaheads from `dot + 1`;
- a single-pass closure;
- the runtime stack read before its resize;
- `add_to_index_` keeping the old first node;
- `reserve` not updating the count;
- no implicit `.` after `*`/`+`;
- an ε-NFA vertex terminal only by its own type;
- `concat_str` without `parenthesize_for_concat`;
- `getPipeline` choosing `renderGraph` only after stages 1-3;
- `NfaToDfa` not queueing a new subset;
- Hopcroft not pushing the smaller half;
- the trap state left out of the predecessors;
- the JIT's SUB with swapped operands, a call that does not save LR, a
  Monom that pops once, and `compile` without the final `BX LR`.

### 2.3 Bounds

| Run | Bound and what it covers |
|---|---|
| FIRST_k | The lr-3 grammar has empty rules, recursion and cut strings. All queue orders: 353 states. |
| Builder | `S -> A x y \| B x z \| c S`, `A -> a`, `B -> a`. Conflicts repeat through `c`, and K = 2 gives about 1400 numbering states. |
| Pipeline | Words of 4 names cover nesting, empty reductions and symbol names used as input. |
| Loader | Two lines are enough for a rule before or after another, a repeated lhs, and a malformed second line. |
| Hash map | 4 keys (two colliding), reserve 1 and 2, which cross both rehash paths. |
| FSM texts | Three characters reach every context of the implicit `.` (six pairs), unbalanced parentheses, and every operator with too few operands. |
| FSM trees | Trees of 4 nodes nest star in concatenation in union. |
| FSM words | Words up to length 4 separate every pair of states of these automata. |
| FSM DFAs | Three vertices are enough to have mergeable states and the trap state. Two vertices to stage 5 reach every case of the helpers: empty entries, unions under concatenation, a starred diagonal, and ε both alone and in a union. The regex trees to stage 5 give minimal DFAs of up to four vertices, the trap included. |
| FSM options | -1 to 6 for `-f` and `-l` covers the defaults, every stage, and one past each end. |
| JIT texts | Four chunks reach every malformed shape (a dangling operator, an unclosed or empty call, a missing comma) and calls nested in products. Up to three operators over `2`, `A`, `-2` reach each pair of `+ - *` in both orders with negative operands, and `A*A*(A*A)` a partial product (42 * 1764) that SMULBB truncates. `40000` and eleven 9s reach the int16 cast and stoi's `out_of_range`, and `PI100*PI100*2` a 32-bit product of int16 operands. The last test of `test_simple.c` (13 calls) is left out: each call doubles the branches of the callee's clobbering. |

### 2.4 Fairness

Every spec is `Init /\ [][Next]_vars /\ WF_vars(Next)`, except `HashMap`,
`Loader` and `Jit`, which have no liveness property. (The loader's loop
runs once over a finite list of lines, so its ending says nothing about the
code.) (`MCLRGenerator` makes only the
FIRST_k step fair, since only its termination is checked.) That the JIT's
code returns to its caller is stated as the invariant `ReturnsToCaller` on
the final `BX LR` instead of as liveness. Each modelled function is one loop in one
thread, so its next iteration runs while the loop condition holds.

## 3. Not modelled, and why

- **The JIT's bit encodings.** An instruction is a record of what it does.
  Only the one place where the bits change behaviour is modelled: a negative
  literal ORs ones into the MOVW word, which makes an undefined instruction.
- **Several `compile` calls.** The symbol table is a global that each call
  adds to. The model compiles one text against a fixed table.
- **The callee-saved r5 and the stack alignment at BLX.** These are listed as
  hazards with notes rather than properties.
- **`parseFa`'s JSON reading and `renderGraph`'s `.dot` output.** They are
  I/O. A job carries the graph `parseFa` returns, or `EmptyFa` for an input
  it rejects. The FA inputs are DFAs with vertex 0 the start, although
  `parseFa` also accepts NFAs and any start vertex. The output path
  (`output_path`, `main.cpp:274-278`) is not modelled.
- **The ϵ spelling.** `epsilon_utf8` (`graph_type.cpp:4`) is the UTF-8 of
  `ϵ` decoded as Latin-1 and encoded again (C3 8F C2 B5). `faToRegex` writes
  these bytes and `parseRegex` reads them back, which `PrintedRegexLanguage`
  checks. A user's `ϵ` (CF B5), however, is two unknown characters: the `fsm`
  run feeds such texts, where `a|ϵ` throws and `aϵ` means `a`. No run states
  what a user's ϵ should mean, so this is a hazard, not a finding.
- **Hash map copy, move and swap.** They need two map objects, and the first
  bucket points into the other object's sentinel.
- **Tokenizer splitting and file opening.** Only the loader's splitting is
  modelled.
- **How the modules are written for TLC:**
  - Loops are steps rather than recursive operators. TLC does not cache
    operator arguments when it evaluates ENABLED for fairness.
  - Recursion passes grown sets through a bound variable
    (`UNION {F(next) : next \in {...}}`).
