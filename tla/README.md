# TLA+ models of movy

This directory holds TLA+ models of the parts of movy (a fuzzing and static-analysis toolkit
for Move on Sui and Aptos) whose behaviour a model checker can cover. Each module is translated
from the Rust under `src/crates/`. An `MC_*.tla` module instantiates each one for TLC, and
the `.cfg` files set up the runs. `PROJECT.json` lists:

- the components, modelled or not;
- every run and the properties it checks;
- the mutants that show each property can fail;
- the source lines behind each definition (`map`);
- the findings;
- the hazards of the code.

## The system and its parts

| Part | Source | Module |
|---|---|---|
| Value mutator: mutates one `InputArgument` through a little-endian byte round trip | `movy-fuzz/src/mutators/mutation_utils.rs` | `ValueMutator` |
| Sequence post-processing: reversible transforms of a `MoveSequence` before and after an execution | `movy-fuzz/src/mutators/sequence/post.rs` | `PostProcess` |
| Metadata: merges exported and local ABIs; builds the module→package map, ability index, function-name index, types pool | `movy-replay/src/meta.rs` | `Metadata` |
| Per-function static oracles: bool judgement, infinite loop, precision loss, and `run_all` | `movy-static-analysis/src/sui/{bool_judgement,infinite_loop,precision_loss,mod}.rs` | `BytecodeOracles` |
| Unused private and friend functions | `movy-static-analysis/src/sui/unused_private_fun.rs` | `UnusedFunctions` |
| Unused constants, structs and enums | `movy-static-analysis/src/sui/{unused_const,unused_struct}.rs` | `UnusedDefinitions` |
| Call graph | `movy-analysis/src/call_graph.rs` | `CallGraph`, refining `CallRelation` |
| The call-graph command: globs module files, skips standard-library modules, adds the rest | `movy/src/analysis/call_graph.rs` | `CallGraphCommand`, extending `CallGraph` |
| Resolving the fork point: checkpoint, epoch and epoch start, from arguments or GraphQL | `movy/src/sui/utils.rs` | `OnchainPrimitives` |

How the parts interact:

- The fuzzer draws values with the mutator. The sequence assembler then builds a
  `MoveSequence` from the function index that `Metadata` provides.
- Post-processing runs around each execution. The assembler and the execution are not
  under `src/`, so `PostProcess` models them from the spec, marked `spec_modelled`.
- `run_all` runs the static oracles one after the other on the target packages. It
  concatenates their findings in a fixed order.
- The call graph is built by the call-graph command from one bytecode analysis per
  globbed module file, in glob order. `CallGraphCommand` composes the command's loop
  with `CallGraph`: it EXTENDS the library module and drives its
  `add_bytecode_analysis` action.

The parts share no mutable state, so each module stands alone. The sharing happens in
their inputs: `PostProcess` takes its ABI (`Params`, `Returns`) as a constant, which is
the view of metadata the assembler uses.

## How the modules correspond to the code

- **ValueMutator**.
  - State: the `InputArgument` under mutation, the last `MutationResult`, a flag for a
    panic in `commit`, and the magic pool.
  - Actions: `Mutate` (every tag arm of `MutableValue::mutate`, with `mutate_by` and all
    of its width branches) and `SampleMagicNumber`.
  - `sync` and `commit` are operators, encoded by their real little-endian behaviour.
  - The byte is `ByteBits` bits wide (8 in the code), so every encoding stays finite.
  - Random draws are `\E` over the values the code can draw.
- **PostProcess**.
  - State: the raw sequence, the processed sequence, and the phase of the cycle.
  - Actions: the assembler's `AppendCall`, then `ProcessBalance`, `ProcessKeyStore`,
    `RemoveProcessKeyStore` and `RemoveProcessBalance`, in the order the pipeline
    applies them.
- **Metadata**.
  - State: the inputs of `from_env_filtered`, namely the exported ABIs, the local ABIs,
    package versions, version-lookup errors, objects, and the include/exclude filters.
    It also holds each map the function builds, plus a status.
  - `ExportAbi` is the awaited `export_abi`. Its `?` may fail the build before
    anything else happens. `store_err` says which awaited store call, if any, fails.
  - Building the module→package map is one step per package, in `BTreeMap` order
    (`ResolvePackage`). The step folds over the package's modules and holds the fallible
    `get_version` calls.
  - `Finish` builds the remaining indexes. It also holds the awaited `list_objects`
    (`ObjectsListed`), whose `?` fails the whole build after the other indexes were
    computed.
  - An ABI is a sequence of modules. Each module has an address, a name, functions and
    structs. Every module of one Sui package has the same address: the original package
    id. An upgrade carries the address of the package it upgrades.
  - Versions come from `VersionsOnChain`. Packages with one address have distinct
    versions, and the original package (id equal to the address) is the oldest.
  - For each module of the package whose address is already mapped, `ResolvePackage`
    reads two versions (line 74): the mapped package's and the package's own. The own
    read happens even when the address was mapped by an earlier module of the same
    package. Either read may fail.
  - `get_package_metadata` is the lookup operator the properties use.
- **BytecodeOracles**.
  - State: a function body of stackless bytecode, a native flag, and the reports.
  - `Emit` generates every well-typed body, up to `MaxCode` instructions, from a small
    alphabet. That generation is spec-modelled.
  - `Analyze` is `run_all`'s pass over the body. Each oracle's own `analyze` loop (it
    skips a native function and pushes one finding) is an operator. `analyze`
    concatenates the three in `run_all` order.
  - The three `detect_*` functions are operators. They keep the code's early
    `continue`s and its first-destination and first-definition choices.
- **UnusedFunctions**.
  - Initial states: every visibility, entry flag and call relation the Move verifier
    allows (`MayCall`), and every set of modules that fail to deserialize.
  - `ScanModule` is one iteration of the module loop.
  - `ReportFriends` is the report after the loop (`LoopDone`).
- **UnusedReports** is the abstract specification of that oracle.
  - The candidates are fixed for the run. They are each module's uncalled private
    functions, and the package's uncalled friend functions.
  - `TakeModule` reports one module's candidates, in any order of modules.
    `CloseReport` reports the friends once, after every module.
  - `UnusedFunctions` instantiates it with the reported sets, the scanned modules
    (those no longer pending) and `finished`. The run checks `RefinesUnusedReports`.
- **UnusedDefinitions**.
  - State: every `LdConst`/`Pack*`/parameter content of the functions, the constants
    `deserialize_constant` rejects, and the store's answer to each target package's
    lookups (`Ok`, `Skip` for the three `continue`s, `InfoErr` for the `?` of
    `get_package_info`).
  - `EnterPackage` is one iteration of the loop over `target_packages` that both passes
    share. It queues the package's modules, skips the package, or ends in `"Error"`.
  - `ScanConstants` is the constant pass and `ScanStructs` the struct/enum pass, one
    module per step. `NextPass` moves from one pass to the next.
  - When an unused constant of a deserialized module is rejected, `ScanConstants` ends
    in `"Error"`. That is the `?` through which `run_all` returns `Err` and drops every
    report.
- **CallGraph**.
  - State: the node arena, the index map, the edges in insertion order, and the
    module set.
  - `add_bytecode_analysis` threads the graph through the callers and the unique calls,
    in the code's order.
- **CallRelation** is the abstract specification of the call graph: a set of functions
  and a set of labelled calls.
  - Its one action, `AddModule`, takes the analysis of a module not seen before.
  - `CallGraph` instantiates it with a refinement mapping. The functions are the
    arena's nodes, and the calls are the edges read through the nodes at their two ends.
  - The run checks `RefinesCallRelation` (the abstract `AbsSpec`) as a property.
  - A repeated analysis changes nothing visible, so it is an abstract stuttering step.
- **CallGraphCommand**.
  - State: the `CallGraph` variables, the glob result `globbed`, the loop position, and
    whether the graph was written.
  - `CmdInit` chooses any glob result of up to `MaxAdds` files. Two files may hold the
    same module, e.g. two builds of a package. `glob_modules` and `is_sui_std` are not
    under `src/`, so the standard modules are a constant set.
  - `SkipStd` is the `continue` of line 25. `AddModule` is the call of line 28, the
    library's `add_bytecode_analysis`. `WriteDot` is the final write.
- **OnchainPrimitives**.
  - State: the command-line options, whether a client was given, the chain's latest
    checkpoint, the program counter of the async function, the summary read, and the
    result.
  - `Resolve` is the synchronous part: the all-given shortcut, then the argument
    checks, then the client check.
  - `QueryCheckpoint` and `QueryEpoch` are the two awaits. Each may fail, and the
    checkpoint may not be present yet.
  - `Advance` lets the chain produce checkpoints meanwhile. The GraphQL client is not
    under `src/`, so it is taken to answer consistently or fail.

## Runs

| Run | Checks | Shows |
|---|---|---|
| `value_mutator` | TypeOK, RoundTrip, SkippedLeavesValue, SampledValueIsPoolEntry | shapes kept, `Skipped` means unchanged, the sampled pool entry is written back exactly |
| `value_mutator_panic` (violation) | NoPanic | `mutate_by` writes 8 bytes into a U16/U256, and `commit` panics |
| `post_process` | TypeOK, RefsWellFormed, WellTyped, KeyStoreRoundTrip, BalanceRoundTrip | the transforms keep references valid and typed, and are undone exactly when they changed something |
| `post_process_user_conversion` (violation) | BalanceRoundTrip | the removal also strips a `from_balance` call that the user put there |
| `bytecode_oracles` | TypeOK, InfiniteLoopFlagsExactly, PrecisionLossFlagsExactly | the loop and precision oracles flag exactly the bodies its description picks out; reports come in `run_all` order |
| `unused_functions` | TypeOK, PrivateReportExact, FriendReportExact, RefinesUnusedReports | the reports are exact for every call relation and every set of unreadable modules; at every step, not only at the end, the scan implements `UnusedReports` |
| `unused_functions_dead_code` (violation) | DeadPrivateReported | a private function reachable only from dead code is never reported |
| `unused_definitions` | TypeOK, ConstReportExact, DatatypeReportExact, ErrorOnlyOnStoreOrConstantError, FailsOnStoreOrConstantError (liveness) | the unused constant/struct/enum reports are exact per analysed module, and a skipped package gets none; `run_all` fails exactly on a failed `get_package_info` or an unused constant that does not deserialize, and then it does fail, even after an earlier package was analysed |
| `bytecode_bool_second_result` (violation) | BoolJudgementFlagsExactly | with a call that returns two values, the bool-judgement oracle reads only the first destination and misses a comparison of the second |
| `metadata` | TypeOK, LatestPackageWins, FailsOnlyOnStoreError, PackageMetadataIsLatest, AbilityMapExact, TypesPoolFiltered | module addresses resolve to the newest package; the build fails exactly on a store error or a version read the code really makes, and then publishes no index; `get_package_metadata` returns the newest package's ABI; the ability map and types pool are exact |
| `call_graph` | CmdTypeOK, NodesDeduplicated, EdgesUnique, GraphOfGlobPrefix, RefinesCallRelation | for every glob result, the command's graph has one node per function; at every point of the loop, it holds exactly the edges of the first globbed version of each non-standard module passed; the arena implements `CallRelation` |
| `onchain_primitives` | TypeOK, GivenArgumentsKept, InferredConsistent, ArgumentErrorsExact | given values are kept; queried values agree with the chain even when it enters a new epoch between the awaits; argument errors are exact |

Findings (see `PROJECT.json`):

- **Code bug: the mutator panics.** Lines 206 and 124/127 of `mutation_utils.rs`.
- **Divergence: the balance round trip fails.** When the user's sequence already ends in
  a `from_balance` call and a later call returns a balance, post-processing adds a
  conversion and the removal then strips the user's call too (`post.rs:78`).
- **Spec gap: dead chains are not reported.** The unused-private-function oracle never
  reports a chain of dead private functions, only the chain's head
  (`unused_private_fun.rs:105`).
- **Divergence: the bool-judgement oracle reads one destination.** A call that returns
  two values defines both temps, but the oracle records only `dsts.first()`, so a
  comparison of the second result against a boolean constant is not flagged
  (`bool_judgement.rs:77`).

## Bounds, and why they are enough

- **ValueMutator.**
  - Every integer tag from U8 to U128, and vectors of U8/U16 up to length 2.
  - Two addresses and a magic pool drawn from every subset of the candidates. The pool
    includes entries of widths 1, 2 and 4 bytes and an entry of the wrong width.
  - This covers every arm of `mutate_by`, including the split branch and the empty-pool
    branch.
- **PostProcess.**
  - Up to 3 assembled commands over 5 user functions. These include a generic function
    returning `Balance<T>`, a function taking a key-store object, and one returning two
    balances.
  - This is enough for a balance to flow into a later call, and for a conversion and a
    key-store transfer to appear in the same sequence.
- **BytecodeOracles.**
  - Every body of up to 5 instructions from a 14-instruction alphabet, about 10^6 bodies.
  - The alphabet has boolean and integer loads, copies, `Eq`/`Neq`/`is_empty` calls,
    division, sqrt and multiplication, two branches in both label orders, and two labels.
  - This includes backward and forward branches, redefined temps, and bodies on which
    two oracles fire.
- **UnusedFunctions.**
  - Two modules, three functions (one of them named `init`), and every visibility,
    entry flag and call relation the verifier allows.
- **UnusedDefinitions.**
  - Two target packages of one module each. One module has no functions. There are two
    constants, one struct and one enum.
  - Three lookup outcomes: all succeed; the first package is skipped; the second
    package's `get_package_info` fails after the first package was analysed.
  - At most one parameter per function (`MaxParams = 1`). Marking is a union over
    parameters, and the two functions of a module already give two marks.
  - The parameters include by-value and by-reference uses of the struct.
  - Constant 1 is either accepted or rejected by `deserialize_constant`. Either it is
    used in one module and unused in the other, or it is the second unused constant
    after an accepted one.
- **Metadata.**
  - Three packages of one or two modules each (names `ma`, `mb`). The second package is
    an upgrade of the first, or shares the third package's address.
  - One package is local and one is local-only.
  - Versions 1 and 2, and a version-lookup error on any one package. The ABI export or
    the object listing may fail.
  - Structs with exact, superset and generic ability sets.
  - An include filter and an exclude filter.
- **OnchainPrimitives.**
  - Four checkpoints over two epochs, and a requested checkpoint beyond the chain.
  - Every combination of given and missing options, with and without a client.
  - The tip may cross the epoch boundary between the two queries.
- **CallGraph / CallGraphCommand.**
  - Six analyses: three user modules (two differing analyses for two of them) and one
    standard module. Every glob result of up to 5 files is checked, repeats included.
  - The calls include repeated calls, calls with different type arguments, and
    recursion.

Each bound is the smallest at which the case a property is about occurs. For each
property, a mutant of the code breaks it under the run's own bounds (`mutants` in
`PROJECT.json`).

## Fairness

One run uses fairness.

- `unused_definitions` checks `FairSpec`, which is `Spec /\ WF_vars(Next)`.
  - `run_all` is a sequential async function that the caller awaits to completion, so
    it cannot stop between two iterations of its loops.
  - Under this fairness, `FailsOnStoreOrConstantError` says the failure does happen.
- `onchain_primitives` checks safety only. The code sets no timeout on its two awaits,
  so termination would rest on the endpoint, not on the code.

Every other property is a safety property.

- The oracles and the metadata build are terminating sequential functions. Their models
  stop in a final state, which is why these configs set `CHECK_DEADLOCK FALSE`.
- The mutator and the post-processing cycle are driven by a fuzzing loop that is free to
  stop.

## Not modelled, and why

- The Aptos executor, the Sui store wrappers, the shared types, the flash-loan types and
  the fuzzing feedback helpers. They have no state of their own or are formatting.
- The type-conversion and unchecked-return oracles. Their code is not in the repository.
- The loop over target packages in `unused_private_fun::analyze` (lines 26-35).
  `UnusedFunctions` models one package. The loop's three lookups and its `?` are those
  that `UnusedDefinitions` models for the other two oracles.
- `MoveTypeGraph`. It is not under `src/`.
- The CLI commands other than the call-graph command's loop. They are I/O. The
  type-graph command has the same loop, but around `MoveTypeGraph`, whose code is not
  in the repository.
- The file helpers of `movy/src/sui/utils.rs`. They are I/O.
- The GraphQL answers that `resolve_onchain_primitives` would panic on: an empty epoch
  list, or a negative timestamp. The client's types are not under `src/`.
- The conversions of `movy-types/src/object.rs`. They copy each `Owner` variant field
  by field into the `MoveOwner` variant of the same name, and digests byte for byte.
  There is no control to check beyond what the type system already does.

## Possible extensions

1. Compose `Metadata` with `PostProcess`, so that the assembler draws its calls from the
   function index. This is expected to add little: the index changes which calls are
   drawn, not how a drawn call is post-processed.
2. Model the package loop of `unused_private_fun::analyze` as `UnusedDefinitions`
   models it for the other two oracles. The loop is the same three lookups and the same
   `?`. Its per-package state would multiply the run's 921k initial call relations, so
   it needs a second, smaller instance of the per-package scan.
3. Three of the four hazards without a property (`PROJECT.json`) depend on code outside
   `src/`: the GraphQL client's answers, the timestamp type, and `subst`. They can be
   modelled once that code is available. The fourth, a U8 that is never mutated to 255,
   is a question of what is reachable, not a safety property.
