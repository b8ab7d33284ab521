# TLA+ models of the kimchi circuit writer

This directory model-checks the circuit writer of
`src/circuit-construction/src/lib.rs`. It covers the gadgets, the two backends
they run on, and the compiler from gate specs to wired gates. It also covers
the part of kimchi's `ConstraintSystem` (`src/kimchi/src/circuits/constraints.rs`)
that accepts or rejects what the writer produces, the sampling of the
permutation shifts in `create`, the permutation columns (`sigma`) `create`
builds from them, and the lookup-table construction of
`src/kimchi/src/circuits/lookup/index.rs`.

## The system

A circuit is a Rust closure over the trait `Cs`. Every gadget (`assert_eq`,
`and`, `or`, `add`, `sub`, `equals`, `equals_old`, `constant`, `scale`,
`cond_select`, `add_group`, `double`, `assert_pack`, `zk`, ...) is a default
method of `Cs` built from two primitives, `var` and `gate`. The closure runs
twice, once against each backend.

- `System` numbers each `var()` with `next_variable` and collects the `GateSpec`s:
  a gate type, one variable per column (15 columns), and a coefficient vector.
- `WitnessGenerator` evaluates each `var()` thunk and collects the rows of values.

`System::gates` compiles the specs into `CircuitGate`s. Each gate's wires are
`GateWires = [Wire; PERMUTS]`, filled with `array_init`, so only the first
`PERMUTS = 7` columns are wired. It wires each of those cells to the previous
such cell holding the same variable. It then closes each variable's
cycle by iterating the `first_cell` HashMap.

`ConstraintSystem::create` takes the gates; it panics with fewer than two.
`verify` then checks the witness columns against the gates. For each row, in
this order:

1. The wires of the first `PERMUTS = 7` columns must stay within those columns.
2. Each wire must join equal values.
3. A public row must have coefficient 1.
4. The gate's own constraint must hold.

Two drivers run the closure:

- `generate_prover_index` runs it on `System`. It first emits one Generic row
  per public input.
- `prove` runs it on `WitnessGenerator`. It seeds the witness with the public rows.

The unit tests at the end of `lib.rs` do the same, then call `verify`.

## Modules

| module | models | state / actions |
|---|---|---|
| `CopyCycles` | what compiling promises (spec section 4.11) | `specs`, `wiring`; one `Compile` step producing `CopyWiring(specs)` |
| `Compiler` | `System::gates` (lib.rs 1114-1157) | the loop variables: `row`, the partial `wires`, `first_cell`, `most_recent_cell`, `gates`, the visited `closed`, `done`; actions `ConvertCell`, `PushGate`, `CloseCycle(var)` for any HashMap order, `Return` |
| `Field` | the prime field, small (P = 5) | operators only |
| `Builder` | the `Cs` primitives and the generic gadgets on both backends | `next_variable`, `gates` (indices), `rows` (values), the closure's `handles`, `assertionsHold`, `calls`, `phase`; each gadget is an operator returning a call record, `Run` applies it |
| `CustomGadgets` | the custom-gate gadgets: `add_group`, `double`, `assert_add_group`, `scalar`, `endo_scalar`, `scalar_mul`, `endo`, `poseidon` | `Builder` plus `shifted` (the `ShiftedScalar`s the closure holds) |
| `ConstraintSystem` | `create`'s assertion and `verify` | operators `CreateSucceeds`, `RowError`, `Verify` |
| `Driver` | the drivers and tests: closure, `gates()`, `create`, `verify` | `Builder` plus `verdict`; `Finish` compiles with `CopyCycles`' wiring over the first `PERMUTS` columns (`GateWires`), which `Compiler` is checked to implement |
| `Shifts` | `Shifts::new` and `cell_to_field` (constraints.rs 151-205) | `shifts`, `idx`, the cell `map`, `pc`; `Accept(v)` and `Resample(v)` for each draw `v` of the hash |
| `LookupTable` | what `LookupConstraintSystem::create` computes (index.rs steps 5-9) | `tables`, `result`; one `Create` step producing `Outcome(tables)` |
| `LookupIndex` | the loop of `LookupConstraintSystem::create` (index.rs 64-232) | `lookup_table`, `table_ids`, `non_zero_table_id`, the loop's `t` and `col`, `pc`, `result`; `NextTable`, `CopyColumn`, `RejectColumn`, `FillUnused`, `TooLong`, `Finish`. It is checked to implement `LookupTable` |
| `Permutation` | `create`'s domain, padding and `sigmal1` loop, `sid` (constraints.rs 248-299, 440), with `verify`'s witness padding and wire check; EXTENDS `Shifts`, wires from `CopyCycles` | `circuit`, `witness` (any a prover may choose), `wires`, `sigma`, `step`; `Pad`, `SampleShifts` (Shifts' `Accept`/`Resample`), `Sigma`, `Returned` |
| `Soundness` | the generic gadgets against a dishonest prover: a closure that calls one gadget on free `var()`s, `gates()`, and `verify` on any witness | `inst` (the call), `wires`, `val` (the prover's values), `verdict`; `Prove` (one `verify` on any values), `Done`. Gadgets are `Builder`'s operators, the wiring `CopyCycles`' |
| `MCCompiler`, `MCDriver`, `MCPermutation`, `MCLookupIndex`, `MCSoundness` | model-checking instances | model values and constant sets |

### Running the backends in lockstep

In the model, a `Var` is a record `[index, value]`.

- `index` is the number `System` gives the variable at one allocation.
- `value` is the value `WitnessGenerator` gives at the same allocation.

This is sound because no gadget branches on a thunk's result. `same_x_bool`,
`bits` and the witnesses are read only inside later thunks. So the two runs
allocate and push in the same order.

A gadget is an operator of its arguments and of `k`, the number of
variables the same call has already allocated. It returns a call record:
the specs it pushes, the number of `var()` calls it makes, the handles it
returns, whether a thunk panics, and whether its assertion holds. A gadget
that calls another (`double` calls `add_group`, `endo` calls `scale`,
`add_group` and `double`) uses the callee's record at the right offset.
`Run` applies a record: a panicking thunk ends the run in `witness_panic`,
as `unwrap()` ends `prove`.

Each gadget action appends its specs to `gates` and its value rows to `rows`
in the code's order. It also advances `next_variable` by the exact number of
`var()` calls the gadget makes, fillers included.

`equals` calls `constant(1)` inside its own row's `array_init`. The model
therefore emits `constant`'s row first, and numbers `constant`'s variables in
the middle of that row's fillers, as the code does.

### What is abstracted

- **The field** is GF(5). Every gadget's arithmetic is exact there, and
  zero, one and non-invertible values all occur.
- **Custom gates:** only the Generic gate's check is stated (as
  `verify_generic` does in kimchi's `polynomials/generic.rs`, which is not in
  this tree). The `CompleteAdd`, `VarBaseMul`, `EndoMul`, `Poseidon` and `Zero`
  gates are taken to hold. So what the model shows of the custom gadgets is
  their layout, wiring and allocation order, and the panics of their thunks.
  Their witness values are computed as the code computes them (complete
  addition, the endo loop, the Poseidon rounds), except `scalar_mul`'s ladder:
  `varbasemul::witness` is not in this tree, so its result is any pair of
  field elements and the other ladder cells keep their initial zeros.
- **Poseidon:** `full_round` is not in this tree either. It is written as the
  spec states it: MDS times `(s + rc)^alpha`. `ROUNDS_PER_ROW = 5`, as the code's
  layout needs: `<<0, 4, 1, 2, 3>>` and 15 coefficients per row. The spec
  says 4, which contradicts its own row layout. The MC round constants and MDS
  matrix are small values over GF(5), not the real ones.
- **Scalars:** the other field `Fr` of the cycle is GF(7), larger than F as
  Fq is larger than Fp. So `scalar`'s `from_repr(..).unwrap()` can fail.
- **scalar_mul's length:** `num_bits` is a constant of the model, 15 in the
  runs instead of 255. This gives three row pairs: the first (acc0 and zero),
  a middle one and the last (the scalar and the result). Every row pair of the
  code is one of these three kinds.
- **Padding:** `create` adds Zero gates wired to themselves, and `verify`
  adds zero witness rows. Such rows pass every check, so the model verifies
  the emitted rows only.
- **zk:** the three rows' random values are represented by one draw `r`
  over the whole field.
- **endo's loop** is unrolled `MAX_ENDO_ROWS = 2` times (`EndoIter`); an
  iteration past `length / 4` leaves the accumulator unchanged. The runs use
  `length = 4`, so one `EndoMul` row; an `ASSUME` keeps the lengths within
  the unrolling.
- **assert_pack:** it is called on bits the closure has just allocated with
  `var`. The model counts those allocations in the same step.

## Runs

| run | cfg | expect | shows |
|---|---|---|---|
| compiler | `MCCompiler.cfg` | pass | 3 columns, up to 3 rows, 3 variables (every sharing pattern). Whatever order the HashMap yields, every variable's wires form exactly one cycle over its cells (`CyclesAreVariableClasses`). The loop refines `CopyCycles` (`ImplementsCopyCycles`). 358,565 states. |
| complete | `MCDriver_complete.cfg` | pass | With one public input, every closure of up to 3 calls of `constant`, `assert_eq`, `or`, `add`, `sub`, `equals`, `scale`, `cond_select`, `zk`, `assert_pack` and `poseidon`, with constants {0,1}, verifies whenever its assertions are true (`HonestWitnessVerifies`). A `poseidon` call's 180 allocations, its final row's fillers and the wiring of columns 0-2 line up with the generic gadgets that consume its digest. |
| soundness | `MCSoundness.cfg` | pass | `constant` and `scale` of 0, 1, 3, and `assert_eq`, `or`, `add`, `sub`, `equals`, `cond_select` on distinct or repeated free variables, over GF(5). Any values a prover puts in the cells that `verify` accepts give the result the value the gadget promises, and `assert_eq`'s inputs equal values (`GadgetsSound`). So `equals`' three rows force `res = [x1 == x2]`, which no honest-witness test checks. 113,088 states. |
| curve | `MCDriver_curve.cfg` | pass | Every curve gadget: `add_group`, `double`, `assert_add_group`, `endo_scalar`, `endo`, `scalar` and `scalar_mul`, after at most one `var` or `scalar`. The circuit verifies with its own witness (`HonestWitnessVerifies`): the wires over the first `PERMUTS` columns of the custom rows join equal values, and `endo`'s trailing `scale` row, a `Generic` row, holds. 9,096 states. |
| enforcing | `MCDriver_enforcing.cfg` | pass | Every closure of up to 3 calls of `constant`, `assert_eq`, `and`, `or`, `add`, `sub`, `equals`, `equals_old`, `scale`, `cond_select` and `zk`: if `verify` accepts the witness, every `assert_eq` it made was true (`AssertionsEnforced`), because `assert_eq`'s row is gated on both backends. 20,324 states. |
| and_incomplete | `MCDriver_and.cfg` | violation | `and` of unequal bits fails its own gate: the public input 1 and a `var` of 0 give `1 + 0 - 2·0 = 1`. |
| equals_old_incomplete | `MCDriver_equals_old.cfg` | violation | `equals_old`'s first row asks for `-inv2 = 0`. |
| lookup | `MCLookupIndex.cfg` | pass | Inputs are one or two tables with ids 0, 1 and -1, each with no column (a runtime table built with `data: vec![]`) or up to two columns of up to two entries. The loop implements `LookupTable`, early returns included (`ImplementsLookupTable`). A table without columns panics at `table.data[0]` (line 148) instead of returning a `LookupError`, at the first such table unless an earlier one was inconsistent. An `Ok` table always keeps an all-zero row with id 0 for the dummy lookup (`DummyPresent`). `table_ids` is omitted only if every id is 0 (`IdsOmittedOnlyWhenZero`). 114,660 states. |
| permutation | `MCPermutation.cfg` | pass | `create` pads a three-row circuit to the domain of order 8 in GF(73) and samples the shifts. With a fair oracle it returns (`Termination`). Every witness that `verify`'s wire check accepts satisfies the multiset identity the permutation argument's grand product proves, over the `sigma` `create` built (`PermutationComplete`). 164,412 states. |
| permutation_collision | `MCPermutation_collision.cfg` | violation | The sampler keeps 5 and 62 = 5·ω², which share a coset of the domain. Cells (row 2, col 1) and (row 0, col 2) then get one identity value. A witness with different values in that wired pair satisfies the grand product, which `verify` rejects (`PermutationSound`). |
| lookup_spurious | `MCLookupIndex_spurious.cfg` | violation | The padding rows are all-zero entries of table 0. No check makes an input table 0 contain such an entry, so a lookup of zeros in table 0 can match a padding row (`NoSpuriousEntries`). |
| assert_pack_unenforced | `MCDriver_assert_pack.cfg` | violation | `assert_pack` never calls `gate`, so a false packing verifies. |

### Bounds

- `MaxCalls = 3`: the closure makes at most three calls. This is enough for
  two gadgets to share a variable, and for a free variable or constant to
  feed a gadget.
- `MaxRows = 6`: room for the public row and `equals`' five rows.
- `MaxRows`: 15 in `complete` (the public row, 11 Poseidon rows, a Zero row
  and a generic gadget after them), 20 in `curve`.
- `MaxHandles` counts the public input's variable, which every run holds
  from the start. It is 3 in `curve` and `enforcing`: after a `var`, a
  one-result gadget fits; a two-result gadget (`add_group`, `double`) fits
  only as the first call, on the public variable. It is 4 in `complete`, so
  `poseidon`'s three results fit only when it is called first, on the public
  variable (three times the same input); a `var` before it leaves no room.
- `curve` has `MaxCalls = 2`: a `var` or `scalar`, then any curve gadget on
  the held variables (seven places for `assert_add_group`). The chaining of
  curve gadgets is still reached inside one call, because `double` calls
  `add_group`, and `endo` calls `scale`, `add_group` and `double`. With
  three calls and all eight gadgets, the arguments' branching exceeds
  millions of states.

The custom rows' wires stay within the first `PERMUTS` columns, since
`GateWires` has only `PERMUTS` entries; the cells `add_group` fills with
`zero` in columns 11-14 take no part in the permutation.

### Fairness

The writer, the compiler and the lookup loop are sequential, terminating
programs. No fairness is assumed there, and every run ends in `Terminated`.

`Shifts::new` is different. It loops until Blake2b of a counter yields a
usable value. The model treats the hash as a random oracle: each draw is any
element of `Samples`. `Spec` assumes weak fairness of `Accept`: if a usable
draw stays possible, one eventually comes. This is the probability-one
reading of the random-oracle assumption. Under it, `Termination` holds when
the field has enough usable values. It fails when the acceptance test is
wrong (the `GoodInDomain` mutant). `Permutation`'s `CreateSpec` runs this
sampler inside `create`. It also assumes weak fairness of `Pad` and `Sigma`,
the straight-line code before and after `Shifts::new`.

### Bounds of the kimchi runs

- `lookup`: `D1 = 8`, so `max_num_entries = 8 - 3 - 1 = 4`. Two tables of two
  rows meet the limit exactly, and three rows leave one padding row. Columns
  of unequal length occur, as do narrower tables, tables without columns,
  two tables of one id, and negative ids.
- `permutation`: `PERMUTS` is 7, as in the code. `create` needs more than one
  gate plus 3 zk rows, so its smallest domain has 8 rows: GF(73), with the
  subgroup {1, 10, 22, 27, 46, 51, 63, 72}. Its 8 cosets outside the domain
  hold 4 non-residues each. The hash draws from ten values. These are 0, the
  square 2 and the in-domain non-residue 10, which `sample` rejects. The
  other seven are usable: one from each of six cosets, and 62 in 5's coset.
  Some runs pick six usable values without both 5 and 62, and some pick both.
  The two circuits have three rows. One wires (row 2, col 1) to (row 0,
  col 2), which collide when 5 and 62 are shifts 1 and 2. The other has a
  3-cycle across columns and rows. A prover puts 0 or 1 in each cell of a
  shared variable. A cell alone in its cycle is 0, because it is wired to
  itself and neither check reads its value.
- `soundness`: P = 5, so a prover's value for each cell is any of five.
  Only the variables a nonzero coefficient reaches (and the gadget's
  inputs and result) get a value; every other cell is 0, since no row of
  `verify` reads it. Calling each gadget once on fresh inputs, and on one
  input passed twice, is enough: its rows constrain only its own variables,
  and `verify` checks rows one at a time. `and` and `equals_old` are left
  out, because their rows reject honest witnesses (`and_incomplete`,
  `equals_old_incomplete`); `assert_pack` emits no rows
  (`assert_pack_unenforced`).

## Not modelled

- Proof creation.
- The polynomial precomputations of `create`.
- `LookupInfo` (lookup selectors and the gates' own tables). It is not in
  this tree, so the gates' tables are part of `LookupIndex`'s input. Note that
  `constraints.rs` calls `LookupConstraintSystem::create` with four
  arguments, while `index.rs` defines it with three. The two files come from
  different revisions.
- The permutation argument itself (`polynomials/permutation.rs`) is not in
  this tree. It is stated as the multiset identity its grand product proves
  for random challenges: `GrandProductHolds`.
- The `Blake2b` counter of `Shifts::sample`: the hash is an oracle, so the
  counter is not state.
- A `create` with no lookup table at all (line 174's `lookup_table[0]`):
  whether `LookupInfo` can report lookups used with no gate table is
  decided by code outside this tree.
- Distinct table ids: the doc comment of `ConstraintSystem::create` makes
  them the caller's duty, and nothing in `index.rs` checks them.
- `writer.rs`: not compiled; it is not a `mod` of `lib.rs`.
- `kimchi-visu` and the test scaffolding.
- The custom gates' own constraints (`CompleteAdd`, `VarBaseMul`,
  `EndoMul`, `EndoMulScalar`, `Poseidon`). `CircuitGate::verify` for them
  lives in `polynomials/*.rs` and `gate.rs`, which are not in this tree, so
  `GateHolds` checks only `Generic` rows. The curve gadgets are checked for
  the wiring `verify` does check and for `endo`'s `Generic` row, not
  against their custom rows.
