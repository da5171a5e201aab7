# TLA+ models of the BDTK / Cider code generator

This directory holds TLA+ specifications of parts of the Cider query compiler
under `src/cpp/src/cider/`. It also holds the TLC configurations that
model-check them and the TLAPS proofs of their main invariants.
`PROJECT.json` lists every component, run, mutant, mapping of definitions to
source lines, finding, hazard and theorem in machine-readable form.

## The system

The excerpt under `src/` contains these parts of the compiler and its
runtime library.

| Part | Source | What it does |
|------|--------|--------------|
| Compile entry | `exec/nextgen/Nextgen.cpp` | `compile()` builds the operator pipeline from the plan. It turns the pipeline into a chain of translators, lets the chain emit the body of `query_func`, then finishes the JIT module. |
| Project translator | `exec/nextgen/operators/ProjectNode.h` | Declares the translator of a projection (`consume`, `consumeNull`). |
| Literal hoisting | `exec/template/ConstantIR.cpp` | Hoists a constant of the plan into the literal buffer. It gets an offset from the pool (`CgenState::getOrAddLiteral`). It emits the loads of the literal once per offset in `query_func`. Each use gets placeholders, which are patched later. |
| Runtime functions | `exec/nextgen/operators/OperatorRuntimeFunctions.h` | Provides the aggregates that generated code calls (sum, min, max and count, each with and without null flags), plus the hash-join probe and the extraction of its results. |
| String operators | `function/string/StringOps.cpp` | Holds the per-row string functions (pad, trim, substring, overlay, replace, split_part, the regex operators) and their chaining. |
| Test builder | `tests/utils/ArrowArrayBuilder.h` | Builds Arrow arrays for the tests. |
| Small helpers | `LLVMFunctionAttributesUtil.cpp`, `WindowExpressionRewrite.h`, `InputMetadata.h`, `CpuBuffer.h` | Attribute setters and declarations whose bodies are outside the excerpt. |

Here is how the parts interact. `compile()` drives the translator chain.
Each translator generates code for its expressions. Every constant it meets
goes through `codegen(Constant)`, which hoists literals. The generated code
calls the runtime functions and the string operators once per row.

## Modules

### LiteralHoisting (`LiteralHoisting.tla`)

This module models `ConstantIR.cpp`, lines 27-36 and 122-323.

`codegen(Constant)` calls `codegenHoistedConstants` with
`constants(1, constant)`, so its device loop runs exactly once, for device 0.
The `CHECK`s taken only for `device_id > 0` (the type and the lockstep
`CHECK_EQ` of the offsets) are never evaluated, and the model has one pool.

The state has five parts:

- `literals`: device 0's pool, from canonical key to slot (offset and width).
- `literalBytes`: its byte counter.
- `loads`: `query_func_literal_loads_`, the loads cached per offset.
- `placeholders`: `row_func_hoisted_literals_`, one entry per placeholder, giving its offset, its sub-index, the shape of its IR value and, as a ghost field, the literal it stands for.
- `status`: `ok`, or how the compilation was aborted.

One action, `codegenHoistedConstants(c)`, models one call of
`codegen(constant, enc_type, dict_id, co)` with `hoist_literals`, as a whole:

1. `getOrAddLiteral` inserts the key if it is new, before the offset is converted.
2. An offset that does not fit `checked_int16_t` is a `range_error`, reported as "Too many literals in the query".
3. Otherwise the cache of loads is looked up, and the loads are emitted on a miss.
4. The placeholders are emitted. The `CHECK_EQ` on their count is the `check_failed` outcome.

A value is abstracted to a model value. An IR value is abstracted to its
shape: the kind of load (`string`: 3 values, `array`: 2, `scalar`: 1) and its
byte width. The `CHECK`s of `codegenHoistedConstantsLoads` on a type's
compression and bit width (lines 134-136, 161, 188, 194) are about data the
model does not carry and are not modelled.

`CgenState::getOrAddLiteral` is not in the excerpt. It is modelled from the
spec (sections 3 and 4.3) and marked `spec_modelled` in the map. It is a
table from the canonical key (value, type, encoding, dictionary id)
to a slot. The first insertion wins. New slots are taken from a byte counter
that only grows.

### StringOps (`StringPad.tla`, `StringOps.tla`)

These modules model `StringOps.cpp`. `StringPad` holds `Pad::lpad`/`rpad`,
the `size_t` width and the `std::string` helpers they use; it has no
recursion, so its proofs can use the SMT backend. `StringSearch` holds
`find`/`rfind` over `StringPad`'s strings. `StringOps` extends both with
`Trim`, `Substring`, `Overlay` and `SplitPart` and the calls of one row.

Strings are sequences over a small alphabet, with 0-based positions as in
`std::string`. Two pieces of C++ are modelled by what they do:

- `size_t` arithmetic is kept modulo `2^SizeBits`.
- `std::string::find`, `rfind` and `substr` are modelled with `npos` and the `out_of_range` exception.

Each loop is kept:

- Trim's two scans are a minimum and a maximum over the positions the scans stop at.
- SplitPart's do-while is the recursive `SplitLoop`, one `SplitStep` per iteration, including the short-circuit that counts a delimiter only when it was found.

Undefined behaviour is a nondeterministic outcome. Trim of an empty string
under RIGHT/BOTH either returns "" or crashes.

The module has a harness. In each step the generated code applies one
operator to one row (`EvalPad`, `EvalTrim`, ...), then moves to the next row
(`NextRow`, a harness step with no counterpart in the library). The reference definitions (`PadRef`, `TrimRef`, `OverlayRef`,
`SplitPartRef`) say what the operators should return. They are written from
the comments and the SQL functions, independently of the code's loops.

### StringChain (`StringChain.tla`)

This module models `StringOps::operator()` and `StringOps::numericEval`
(lines 504-542): one row's string goes through the chain `string_ops_` in
order, the first null result ends the chain and is returned as "", and a
chain ending in `CHAR_LENGTH` applies all operators but the last and hands
the string to its `numericEval`. The operators of the chain are Reverse,
Repeat, Concat (149-165), Replace (292-305), RegexpReplace with
`get_nth_regex_match` (372-441), RegexpSubstr with `get_sub_match` (443-482),
CharLength (107-111) and an operator with a null literal argument.

- `pc` is `chain`, `replace` or `done`; `idx` is the next operator; `modified` is `modified_str`.
- Replace's `while` loop is a step per iteration (`StartReplace`, `ReplaceFound`, `ReplaceDone`), with `loop` holding `replaced_str` and `search_start_index`: its exit depends on what the previous iteration wrote. The other operators are one step each (`ApplyOp`).
- A regular expression is a literal pattern of at least one character. `std::regex_search` then finds its leftmost occurrence, and `std::regex_replace` replaces every non-overlapping one (`RegexReplaceAll`, `MatchesFrom`).
- `Expected(input, ops)` is the reference: the chain folded with reference operators written from the SQL functions (`ReplaceRef`, `RegexpReplaceRef`, ...), not from the loops.

### AggRuntime (`AggRuntime.tla`)

This module models the integer aggregates of `OperatorRuntimeFunctions.h`, lines 28-116.

- An aggregate is a record `[op, width, variant]`: `sum`/`min`/`max` in widths 8 to 64, each `plain`, `with_offset` or `nullable`, and `count` (int64, plain or nullable).
- `agg_val[a][i]` is accumulator `i` of aggregate `a` (`i` is the `with_offset` index), and `agg_null[a]` is its null flag.
- `nextgen_cider_agg` is the template body. `+=` wraps in the accumulator's width (`SignedWrap`). `std::min` and `std::max` are plain minimum and maximum.
- There is one action per macro and function. The nullable ones do nothing on a null input. Otherwise they fold the value and clear the flag.
- `applied` is a ghost: the non-null inputs each accumulator received. `Expected` folds them from the initial value. It is written independently of the macros (a recursive sum, a set minimum and maximum).

The floating-point variants have the same control and are left out: TLC has no floats.

### HashJoinProbe (`HashJoinProbe.tla`)

This module models `look_up_value_by_key`, `extract_join_res_array` and `extract_join_row_id` (lines 118-157).

- The hash table is opaque: `Table[k]` is `findAll(k)`, the matches in table order.
- `buffer` is the shared scratch `context::Buffer`. A non-null key reallocates it and copies the matches in. A null key returns 0 and leaves the buffer as it was.
- The generated loop that calls these functions is not under `src/`, so it is modelled from the spec (section 4.4). For each probe row it calls `look_up_value_by_key` (`pc = "probe"`), then extracts entries `0 .. count-1` (`ExtractMatch`), then moves on (`NextProbeRow`).
- The ghosts `probe` and `emitted` record the current row and the rows emitted for it.

### NextgenCompile and CompileAbstract

`NextgenCompile.tla` models `compile()` in `Nextgen.cpp` (lines 31-68) and the `ProjectNode` chain of `ProjectNode.h`. It is composed with LiteralHoisting through `LH == INSTANCE LiteralHoisting`, and shares its five variables.

`phase` follows the code line by line:

1. `compile`: the context and the module are created, and `build()` runs the builder lambda.
2. `toOpPipeline`: a node without a lowering throws `UnsupportedOperator` and the phase becomes `failed`.
3. `consumeLiteral`: the chain consumes the nodes in order. A project node codegens each of its literals through `LH!codegenHoistedConstants`. "Too many literals" is an exception (`failed`). A fatal CHECK aborts (`aborted`).
4. `consumeNode`: passes control to the next node.
5. `consumeNull`: runs when `FLAGS_null_separate` is set.
6. `createReturn`.
7. `finish`: `module->finish()` and the return of the context. `returned` is the module handed out.

`toOpPipeline` and the translators' bodies are not under `src/`. They are modelled from the spec (sections 4.1-4.2).

`CompileAbstract.tla` is what `compile()` promises its caller. One call either returns the module of the whole pipeline (`AReturn`), or fails or aborts and returns nothing (`AFail`). Either way, it ends. `NextgenCompile` instantiates it with the refinement mapping:

- `aphase <- AbstractPhase`: every intermediate phase maps to `compiling`.
- `aplan <- plan`.
- `amodule <- returned`.

`RefinesAbstract == Abstract!ASpec` is checked as a temporal property.

## Runs

| Run | Config | Expect | Shows |
|-----|--------|--------|-------|
| `literal_hoisting_safety` | `MC_LiteralHoisting.cfg` | pass | Over every sequence of literal uses, a load cached at an offset and reused by a later literal has that literal's kind and width (`PlaceholderShapesMatch`). |
| `agg_runtime` | `MC_AggRuntime.cfg` | pass | Accumulators equal the reference fold of the non-null inputs (sum wraps around). A null flag is 1 exactly when no non-null input arrived. |
| `hash_join_probe` | `MC_HashJoinProbe.cfg` | pass | The extractors never read past the scratch buffer. Every probe row emits exactly its own matches, and a null key never emits the stale matches of an earlier row. |
| `nextgen_compile` | `MC_NextgenCompile.cfg` | pass | `compile()` refines `CompileAbstract`: it returns the whole pipeline or nothing, and every call ends. |
| `string_pad` | `MC_StringOps.cfg` | pass | lpad/rpad return exactly `padded_length_` characters, with the padding cycled from its first character. |
| `string_trim_one_char` | `MC_StringOps_TrimMatchesReference.cfg` | violation | LTRIM("-a") returns "" (see Findings). |
| `string_trim_empty` | `MC_StringOps_TrimStaysInBounds.cfg` | violation | RTRIM/TRIM of "" reads `str[SIZE_MAX]`. |
| `string_overlay_negative_start` | `MC_StringOps_OverlayMatchesReference.cfg` | violation | Overlay with a start far before the string loses the base string. |
| `string_chain` | `MC_StringChain.cfg` | pass | A chain of Replace, RegexpReplace, RegexpSubstr, Concat, Repeat, Reverse, null and CHAR_LENGTH returns what the reference chain returns, null stopping the chain (`ChainMatchesReference`). |
| `string_replace_empty_pattern` | `MC_StringChain_ChainReturns.cfg` | violation | REPLACE with an empty pattern never returns (see Findings). |
| `string_split_part` | `MC_StringOps_SplitPartMatchesReference.cfg` | violation | SplitPart with a delimiter at position 0, or overlapping delimiters in reverse, returns the wrong piece. |

### Bounds

**Literal hoisting.** The run uses 2 values, 1 dictionary, the
types BOOLEAN, INT, BIGINT, TEXT and ARRAY, and an offset limit of 8 bytes
(the code's limit is 32767). These bounds cover the cases that matter:

- Every load kind and every width (1, 4, 8 bytes) occurs.
- A dictionary-encoded and an unencoded string with the same value have different keys.
- The buffer fills up after two to eight literals, so the rejection path is reached both at the boundary and past it.

Symmetry over the values is sound: no definition distinguishes them. The run
sets `CHECK_DEADLOCK FALSE` because a compilation that was aborted
(`too_many_literals`, `check_failed`) takes no further step. This is the
code's behaviour: the exception or the fatal CHECK ends the compilation.

**Aggregates.** The run has six aggregates over two groups:

- int8 sum (nullable and with offset), int8 min (nullable), int8 max (plain), and int64 count (plain and nullable);
- inputs -128, -1 and 100;
- up to three calls.

This reaches sum overflow in both directions (100+100 and -128-1), both extremes of min and max, a null input before, after and without any non-null one, and both offset indices. Only 8-bit widths are run because TLC's integers are 32-bit. The proofs cover every width. `CHECK_DEADLOCK FALSE`: the batch ends after `MaxCalls` calls.

**Hash join.** Keys k1, k2 and k3 have two, one and no matches, over two batches, and there are up to five probe rows. A null key after a key with two matches is what exposes a stale buffer. Five rows allow every ordering of null, empty and non-empty probes that matters. `CHECK_DEADLOCK FALSE`: the run ends after `MaxProbes` rows.

**Compile.** The run has one value and the types INT, BIGINT and TEXT (4-byte, 8-byte and string literals), with a literal range of 8 bytes, and `null_separate` both true and false. There are six plans:

- one that compiles;
- two whose project nodes share a literal, so the second use hits the pool and the load cache;
- one whose last literal lands exactly on the last offset that fits;
- one with more literals than fit ("Too many literals");
- one with an operator that has no lowering.

Every action runs. The `aborted` outcome (the placeholders' `CHECK_EQ`) is not reached: by `LiteralHoistingSafe` a cached load always has its literal's arity. `CHECK_DEADLOCK FALSE`: one `compile()` call ends in `returned` or `failed`, and then nothing more happens.

**String operators.** Strings have up to 4 characters over {"a", "-"}. "-" is
the trim character. The delimiters are "-" and "--". Starts run from -6 to 5
and counts from 0 to 3. split_part_ is 1 to 3 and limit_ is 0 to 3. These
bounds produce leading, trailing, adjacent and overlapping delimiters and
trim characters, starts before the beginning and past the end, and every
limit branch.

**String chains.** Inputs are the strings over {"a", "-"} of up to 3
characters, and `SizeBits` is 16. The eleven chains give: Replace with a
pattern that is and one that is not a prefix of its replacement, and with a
two-character pattern over overlapping occurrences; RegexpReplace of every
occurrence, of the second one, and from a negative start; RegexpSubstr with
and without a sub-match, from start 0, a negative start and past the end,
followed by Concat on either side; a null operator before Reverse;
Repeat of 0 and 2 copies; and CHAR_LENGTH after a string and after a null.
`CHECK_DEADLOCK FALSE`: a call ends in `done`.

### Fairness

`StringChain`'s `Spec` assumes `WF_vars(Next)`: one call of `StringOps::operator()` runs on one thread, with no lock or wait, so an enabled step is taken. Under it, `ChainReturns` says that every call reaches `done`; it is violated (see Findings).

`nextgen_compile` checks a liveness property: the `WF_avars(AReturn \/ AFail)` of `CompileAbstract`, which says that every call ends. `NextgenCompile`'s `Spec` assumes `WF_vars(Next)`. This is justified because `compile()` runs on the caller's thread, synchronously, with no lock, wait or retry. As long as a step is enabled, the thread takes it. Literal hoisting, the aggregates and the probe loop are safety-only. They are synchronous calls from generated code, and no fairness is assumed for them.

## Findings

All five string findings are in `StringOps.cpp`. TLC shows each one on a
single call.

- **Replace, line 297.** With an empty pattern, `find("", search_start_index)` finds it at `search_start_index`, and `search_start_index += pattern_len` adds 0, so the `while` loop never ends. With an empty replacement the string never changes (the model's stutter); with a nonempty one it grows until memory is exhausted. `gen_string_op` accepts any pattern, while the spec says malformed string-operator parameters fail at compile time.

- **Trim, line 244.** When exactly one non-trim character remains, `trim_begin == trim_end`, and the branch commented "all chars should be trimmed" returns "". LTRIM("-a") gives "" instead of "a".
- **Trim, line 233.** For "", `trim_end = str_len - 1` wraps to `SIZE_MAX`, and the RIGHT loop reads outside the string.
- **Overlay, line 285.** `replacement_length_` is unsigned, so a negative `wrapped_start + replacement_length_` wraps before `std::min`, and the base string is dropped. Overlay("-", -6, "", 0) gives "".
- **SplitPart, line 337.** `delimiter_pos == 0` doubles as the "first search" sentinel, so a delimiter found at position 0 is found again. SPLIT_PART("--", "-", 2) gives "-" instead of "". In reverse, `rfind(delimiter_, delimiter_pos - 1)` accepts a delimiter overlapping the previous one.

## Proofs (`LiteralHoistingProofs.tla`)

The proofs hold for every set of values and dictionaries, every subset of
the SQL types and every offset limit. They use only the assumptions
`MaxLitOff \in Nat` and `TypesUsed \subseteq SQLTypes`.

- `TypeCorrect`: `Spec => []TypeOK`.
- `InductiveInvariant`: `Spec => []IInv`.
- `LiteralHoistingSafe`: `Spec => []PlaceholderShapesMatch`.

`PlaceholderShapesMatch` is not inductive on its own: a pool that put two
keys at the same offset would let a later literal reuse the other key's
loads. `IInv` strengthens it with four conjuncts:

- `PoolWidths`: every slot is as wide as its literal's type, so at least one byte.
- `PoolDisjoint`: every slot ends at or before the byte counter, and no two slots overlap.
- `LoadsAtSlots`: every cached load sits at the slot of a key whose shape it has.
- `AcceptedInRange`: while the compilation runs, every slot offset is within the limit.

The step proof splits on the outcome of the call.

- **Accept** (`AcceptStep`). On a hit, disjoint slots of positive width mean the key whose load is cached at the offset is the literal itself, so the cached load has its shape. On a miss, every existing slot ends at or before the counter, so no load is cached at the new offset.
- **Reject** (`RejectStep`). `AcceptedInRange` rules out a hit, so the key is new; it is inserted and the status becomes `too_many_literals`.

The lemmas about a pool (`SlotBelowEnd`, `SameOffsetSameKey`,
`InsertAtEnd`) carry the reasoning about offsets. `IInv` was checked with TLC
on the run's instance before it was proved.

## Proofs (`AggRuntimeProofs.tla`)

These proofs hold for every set of aggregates of every width, every group count, every set of input values and every call bound.

- The lemma `TypeCorrect`: `Spec => []TypeOK`, which the other proofs rest on. Every accumulator stays in `MinOfWidth(w) .. MaxOfWidth(w)`. The argument is `WrapInWidth` for sums and "the minimum or maximum of two values in range is in range" for min and max. The 64-bit range is written as a product of `2^16` factors so that the backends never see a literal above `2^62`.
- `NullFlagCorrect`: `Spec => []NullFlagMeansNeverUpdated`. The step proof is inductive together with `TypeOK`. A nullable step either leaves the flag and `applied` alone (null input) or clears the flag and extends `applied`.

- `OrderAggsCorrect`: `Spec => []OrderAggsMatchReference`. Every min, max and count accumulator equals the reference over the values folded into it.
- `SumCorrect`: `Spec => []SumMatchesReference`. Every sum accumulator equals `SignedWrap(w, SeqSum(applied))`, the wrap of the exact sum.

Both rest on the inductive invariant `OInv`: `TypeOK`, and `AccOK` for every accumulator. `AccOK` says:

- a sum is `SignedWrap(w, SeqSum(s))` of its history `s`;
- a min (max) is one of `Vals`, which is the start value and the history, and it is below (above) all of them;
- a count is `Len(s)`.

`SetMin`/`SetMax` of `Vals` are the reference, and `AccOK` pins them down (`SetMinIs`, `SetMaxIs`). The invariant was checked with TLC on the run's instance before it was proved.

The sum needs two facts.

- `SeqSumAppend`: `SeqSum(Append(s, v)) = SeqSum(s) + v`. `SeqSum` is a recursive function (a `LET f[k \in 0..Len(s)]`), not a RECURSIVE operator. The library's induction theorems take an operator parameter, which the provers cannot instantiate. So the proof goes through a least counterexample instead. `LeastNat` derives "every nonempty set of naturals has a least element" from `WFMin` and `NatLessThanWellFounded`, whose parameters are sets. `PSExists` and `PSUnique` show that the partial-sum function exists and is unique at every prefix length. With them, the prefix of the function for `Append(s, v)` is the one for `s`.
- `WrapAdd`: `SignedWrap(w, SignedWrap(w, x) + v) = SignedWrap(w, x + v)`. Wrapping after every call, as `nextgen_cider_agg_sum` does by storing into `int<w>_t`, equals wrapping the exact sum once. `ModAddWrap` proves it from the uniqueness of the remainder, with the quotients as witnesses of `a - a % m \in {m * q : q \in Int}`.

## Proofs (`StringPadProofs.tla`)

`PadCorrect` covers every string, padding string, padded length and `SizeBits`. `PadOp` returns a value of exactly `padded` characters. When the input is shorter, that value is `PadRef`: the padding cycled from its first character, on the chosen side, followed or preceded by the input. The run checks the same contract as `PadMatchesReference`.

Its hypotheses are `Len(s) <= npos` and a nonempty padding. A `std::string` is never longer than `npos`. An empty padding would make `i % padding_string_length_` (`StringOps.cpp:186`, `206`) a division by zero; the run's `PaddingsAssumption` excludes it too. The lemmas `SubstrInside`, `LpadCorrect` and `RpadCorrect` follow `substr` and `PadFill` through `size_t` arithmetic.

## Proofs (`HashJoinProbeProofs.tla`)

`TypeCorrect`: `Spec => []TypeOK`. The scratch buffer only holds join entries, for every table and key set (under `KeysAssumption`: at least one key).

`ProbeCorrect`: `Spec => [](ExtractInBounds /\ ProbeYieldsMatches)`, for every table, key set and probe bound. It rests on the inductive invariant `IInv`:

- `count = Len(Matches(probe))`;
- unless the key was null, `buffer = Table[probe.key]`;
- `emitted = SubSeq(Matches(probe), 1, index)`;
- at `probe`, `index = count`.

The buffer conjunct is what makes the stale buffer harmless. After a null key the buffer is arbitrary, but the count is 0, so no extraction step is enabled. Each `ExtractMatch` step appends `Matches(probe)[index+1]`, by `SubSeqRecursiveSecond` and `AppendIsConcat`.

## Proofs (`NextgenCompileProofs.tla`)

`CompileRefinesContract`: `Spec => Abstract!AInit /\ [][Abstract!ANext]_Abstract!avars`. This is the safety part of `RefinesAbstract`, for every set of plans (under `PlansAssumption`) and every offset limit. It rests on the inductive invariant `CInv`:

- while the chain consumes node `node`, `lowered` is `SubSeq(plan, 1, node-1)`;
- from `consumeNull` on, `lowered` is the whole plan;
- `returned` is `<<>>` until `finish`.

With `CInv`, `finish` is `AReturn` (the module is `Pipeline(plan)`), a throw or an abort is `AFail`, `compile` is `ABegin`, and every other step is a stutter of the caller's view. `HoistOutcome` shows that a hoisting call ends in one of its three outcomes, so `consumeLiteral` always moves to `consume`, `failed` or `aborted`.

The composition with LiteralHoisting is proved, not only checked.
`NextgenCompile` restates LiteralHoisting's constant assumptions as
`HoistingAssumption`, because an instantiated module's assumptions are not
inherited.

- `HoistingRuns`: `Spec => LHP!Spec`, where `LHP` instantiates `LiteralHoistingProofs`. With `CInv`, `consumeLiteral` is a `codegenHoistedConstants` step and every other action leaves the hoisting variables alone. `SameHoisting` identifies the definitions seen through `LHP` with those seen through `LH`.
- `TypeCorrect`: `Spec => []TypeOK`. The hoisting half is `LHP!TypeCorrect` carried over by `HoistingRuns`. The pipeline half is `CInv`.

Through `HoistingRuns`, `LiteralHoistingSafe` holds of `compile()`'s runs too. `PlansAssumption` requires every plan to start with a source node and have a successor, which is stronger than the code: `Nextgen.cpp:47` dereferences the successor without a check (a hazard in `PROJECT.json`).

## What is only model-checked

- String chains (`StringChain`): the module declares RECURSIVE operators (the regex matcher and the reference chain).
- String chains' termination (`ChainReturns`) is liveness.
- Trim, Substring, Overlay and SplitPart. `StringOps` declares RECURSIVE operators (SplitPart's loop), and tlapm loses its SMT backend in such a module. Pad is proved in `StringPad`, which has no recursion.
- The liveness half of `RefinesAbstract` (`WF_avars(AReturn \/ AFail)`: every call ends). tlapm does not reason about `ENABLED` and fairness. The safety half is proved.

## Not modelled yet, and the plan

- **The null successor at `Nextgen.cpp:47`.** `NextgenCompile` assumes that every pipeline has a source node and a successor. The dereference happens in the translator chain, which is outside `src/`.
- **Floating-point aggregates** (lines 53-66). They have the integer variants' control, and TLC has no floats.
- **The `with_offset` index.** It is drawn from the group range. Generated code outside `src/` computes it, so an out-of-range write is not modelled.
- **Arrow array builder** (`ArrowArrayBuilder.h`). This will model the builder's column/row state.
- **Remaining string operators.** Lower, Upper, InitCap, the base64 operators and TryStringCast are per-character conversions. `RegexpReplace` and `RegexpSubstr` are modelled only for literal patterns, since TLC cannot run `std::regex`; the empty regex match (`StringOps.cpp:429`) is out of reach for that reason.
- **Re-codegen of the successor in `consumeNull`.** Only the literal hoisting of the translator chain is modelled; the non-literal code it emits is not.
- **Not modelled at all.** `LLVMFunctionAttributesUtil.cpp`, `WindowExpressionRewrite.h`, `InputMetadata.h` and `CpuBuffer.h` have no state or control in the excerpt worth a model.
- **Observation, not a finding.** `Pad::rpad` cuts a long string to its last `padded_length_` characters, while `lpad` keeps the first ones. Nothing in the repository says which is meant.
