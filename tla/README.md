# A TLA+ model of llama.cpp-m

llama.cpp-m packages a pinned upstream llama.cpp tree as a C++23 module. Almost
all of its own logic is about *change*: importing an upstream checkpoint,
regenerating what is derived from it, deciding whether the public API may change,
building what changed, and publishing a release whose name, commit, archive and API
agree. This directory models that logic, checks it with TLC and proves its main
theorems with TLAPS.

Paths below are relative to the repository. `PROJECT.json` maps every definition
to the source lines it stands for.

## The system

| Component | State it keeps | Operations | Hard part | What makes it correct |
|---|---|---|---|---|
| Upstream import, `tools/import_upstream.py` | `third_party/llama.cpp`, staging and backup beside it | resolve tag, download, digest, extract, compare, replace | kills, failing renames, retries, two invocations at once | the tree is whole or away, never lost, always a pinned one |
| Export generation, `tools/gen_exports.py` | `src/gen_exports/*` | two walks over the headers, macro expansion, write outputs, check | two walks with separate rules, declarations in any order, outputs written one by one | exported names are guarded names; layouts, values and constants are those of C |
| API snapshot gate, `tools/audit_snapshot.py` | `snapshots/<tag>.json`, acceptance file | classify drift, write, check | stale acceptance, stale snapshot | no unreviewed removal or signature change |
| Release mapping, `tools/check_release.py`, `tools/check_mwrap_release.py` | git tags (read) | identity, existing tag, previous tag, repository checks | tags of an old checkout | version, lock and vendored tree agree; versions increase |
| Release workflow, `.github/workflows/release.yml`, `ci.yml`, `tools/check_ci_run.py` | GitHub releases and workflow runs | checkout, checks, CI evidence, publish | concurrent and re-run workflows, CI re-runs, upstream retags | write-once releases of green, upstream-true commits |
| Upstream watch, `tools/check_upstream.py` | none | two requests, one report | retries, clocks, upstream and the lock move during a check | a candidate has a reason of the policy that held for the lock it was read from |
| Build program, `build.mcpp`, `tools/generate_build_files.py` | generated inputs, build graph | features, Metal embedding, glslc probes, shader edges | reused runs and outputs of incremental builds, probes that fail | a finished build is of the files as they are, with one set of variants |
| Model fetch, `tests/support/fetch_model.py` | cached model, temporaries | verify, download, replace | two invocations on one path, retries, interrupts, kills | success means the pinned model is there; no temporary is left |
| Chat examples and decode tests, `examples/chat-*`, `tests/*_decode.cpp` | model, context, sampler, batch | load, tokenize, decode, sample, free | some forty exit paths, context size, fallback to the host | each resource freed once and in order, no decode over capacity, no device claimed that was not used |
| Module interface, `src/*.cppm` | none | declarations | - | generated, see export generation |
| Smoke checks, `tools/check_native_runtime.py`, `tools/test_template.py` | none | run a tool, compare | - | - |
| Vendored llama.cpp | - | - | - | third party |

How they interact. The lock file (`upstream.lock`) is read by everything: the
import downloads what it pins, the snapshot records its identity, the release
check compares the version with it. Import, generator and audit share the working
tree and no lock or order between them. `check_release` runs all three in check
mode on one commit. The release workflow runs `check_release` on the commit of the
pushed tag, asks GitHub for the latest CI run of that commit, and creates the
release. Upstream is asked twice, for a tag's commit and for the tag's archive,
and git lets it move the tag in between. The build program reads the tree the import
left, and mcpp decides which of its answers are used again. A CI job fetches the
test model and then runs a decode test on it.

## Modules

- `VendoredTree` - abstract: a tree that is one known checkpoint or away.
- `ImportUpstream` - the importer, one process per invocation, one action per
  statement that touches the network or the file system. `RetagUpstream`, `Kill`,
  `Interrupt` and the `Fault` disjuncts are the environment. `MCImportUpstream`
  instantiates it.
- `ReleaseIdentity` - pure: versions, identities and the transition rules.
- `ReleaseLedger` - abstract: one source per version, written once, carrying that
  version.
- `ReleasePipeline` - the publish workflow: tags, release runs, CI runs, upstream
  tags and releases; one action per workflow step, each of which works either on
  the tags its checkout fetched (`seen`) or on what GitHub answers now.
  `MCReleasePipeline` instantiates it.
- `ReleasePipelineProofs` - its theorems.
- `ApiDrift` - pure: the drift of two APIs, what is breaking, what an acceptance
  covers, and what compatibility means for a consumer.
- `ApiGate` - an update from the lock to a release: edit, import, generate (each
  output emptied and then filled), review, audit (lock, tree, old file and write one
  after another), check and release. `MCApiGate` instantiates it.
- `ApiGateProofs` - theorems about both.
- `ImportUpstreamProofs` - theorems about the importer.
- `MacroExpansion`, `ExportWalk` - what `gen_exports.py` makes of the headers: one
  action per declaration for each of its two walks, and the pure functions they use.
  `MCExportWalk` builds the headers, `ExportWalkProofs` has the theorems and
  `MacroExpansionProofs` those about macros, with the inductions they need.
- `BuildProgram` - a run of `build.mcpp`, the edges it submits, and the builds and
  changes around it. `MCBuildProgram`, `BuildProgramProofs`.
- `ModelFetch` - `fetch_model.py`, one process per invocation, one action per
  statement that touches the network or a file.
- `DecodeSession` - the six programs as lists of stages, what each takes and what its
  refusal frees, and the generation loop.
- `InferenceJob` - composes the two: a job whose program starts after its fetch
  succeeded, beside other fetches of the path. `MCInferenceJob`;
  `InferenceJobProofs` has the theorems about all three.
- `UpstreamWatch` - a check of `check_upstream.py` beside time, upstream and the
  maintainers. `MCUpstreamWatch`, `UpstreamWatchProofs`.

Definitions whose comment begins with *Mutant* are plausible bugs of the code; each property is shown to fail under one
of them. They take no part in the specifications.

### What the state stands for

`ImportUpstream`: a directory is `None` or a copy, perhaps partial, of one
checkpoint's files. `dest` is the destination, `staging[p]` and `backup[p]` the two
siblings named after the process' uuid, `archive[p]` the downloaded file, `moved`
the local `moved_existing`, `raised` an exception that is on its way out through
`finally`, `attempts` the retry loop. `pc` names the statement that is next.
A rename onto an existing (non-empty) directory fails, as `os.replace` does. The
private `TemporaryDirectory` with archive and extraction belongs to one process and
is reduced to `archive`; the rules for archive members accept or refuse an archive
as a whole, and a refused one has another digest. The chain of requests behind an
annotated tag is one answer: its tag objects are named by their hash and cannot
change, so the answer is settled when the ref is read.

`ReleasePipeline`: a source is a commit of the wrapper reduced to what the checks
read. `seen` is what the checkout fetched; `uploads`, `basis` and `green` are history
that only properties and the ledger read. `gh release view` is read by its exit status
alone, so `ViewRelease` may go on to `create` although the release is there; what
refuses then is GitHub, which keeps one release per tag. Tags are never moved or
deleted (`docs/upstream-update-policy.md`, lines 65 and 215). Tag spellings that are not the version (leading zeros, bare
tags of the time before `mwrap-`) are not modelled, and neither is the page size of the CI run
list. `actions/checkout` fetches the tag at `GITHUB_SHA`, so in the workflow
`validate_existing_release` compares a commit with itself; it is kept because
`check_release` also runs locally.

`ApiGate`: a tree has an API (`ApiOf`), maps of declarations to fingerprints and
of typed constants to values. A snapshot is the lock identity and the scanned tree:
two different trees are taken to give two different reports, which the header
digests in the report justify. `auditing` is a running `audit_snapshot --output`: the
lock and the tree it has read so far; the maintainer may change each of them, the
acceptance and the outputs between its steps. One audit and one generator run at a
time, and a scan is taken to read one tree. `exports` holds the text of the outputs, names for
`llama.inc` (with `required_ggml.inc`), names with values for `typed_constants.inc`, and
`None` for one that was opened and not yet filled; `llama.skipped.txt` is a list for
the reader that nothing is compared with but itself. A snapshot file that a maintainer
deletes by hand leaves the gate and is not modelled.

`ExportWalk`: a declaration is its kind, its name and what the two walks look at;
`ast` is the list clang prints, with the enumerators inside their enum. A complete
record's implicit node stands behind it, and so do the record of a class template and
whatever else is inside a node. `declarations` is the dictionary of
`collect_api_snapshot`, `members` the local `ggml_enum_members`.
`line` is the line clang reports for a declaration, 0 when it reports none; the two walks
then take different defaults (`LineOf`), which agree because line 1 of `llama.h` has no
`LLAMA_API` (`ApiLinesAssumption`): it is the include guard. A declaration that is broken
over lines is missed by both walks alike. A type is what clang prints for it, one or two
sequences of words; `Unplaced` are the wordings whose place the fingerprint removes
(other anonymous types keep theirs), `BySize` the fixed-width integers. The snapshot is
that of one compiler: "THE SNAPSHOT IS NOT COMPILER-NEUTRAL" (`gen_exports.py:81`), and
nothing is said of what another one would print. Field attributes, bit widths and nested
records are in the list of fields.

`BuildProgram`: a file is a version number or `Absent`. `program` is the last
successful run of the build program: its features, the contents of what it declared
with `rerun_if_changed` (`read`), the defines, the shaders and fragments it listed,
and the merged Metal source it wrote. `built` has for each output what it was made
from. What mcpp does is external and taken from how `build.mcpp` uses it: the program
runs again when no successful run is there or when its features or declared inputs
differ; a failed run leaves none; an edge runs when its command or the content of an
input differs from what its output was made with; an edge waits for the edges that
make its inputs; a generated file that was written again is assembled again.

`ModelFetch`: a file is its content. `temps` has the temporary of each invocation,
and `Temporary(f) == f` is `mkstemp`'s promise of a name of its own. `littered` is
history that only `NoTemporaryLeft` reads. A response body that ends early or is too
long is a content that `Verify` refuses.

`DecodeSession`: `live` has the resources acquired, `freeing` what the path taken has
left to free, one call per step. `logs` is the captured log reduced to whether it says
that a load put layers on the device: every load appends to it, `ClearLogs` empties it,
and the offload check reads nothing else. `offloaded` is what the last load did, which
the program cannot see. `batch` and `used` count tokens, `generated` is the loop counter.
llama.cpp may refuse whatever the program cannot see for itself. A chat example that is asked for the CPU goes the way of `chat-cpu`.

`UpstreamWatch`: checkpoints are numbered in the order of their tags, `dates` are the
committer's, which may be `Skew` ahead. `report` is the last report that a check came
to, with what the check had read and was told; `--release-gate-passed` is any word of
the caller. `Adopt` is the maintainers acting on a report about the lock as it is: they
pin a newer gated checkpoint of any age. The policy's "at most one per month"
(`docs/upstream-update-policy.md`, line 83) is not kept by the tool: the age is counted
from the commit of the pinned checkpoint and nothing records the last update, so a
checkpoint that was old when it was adopted is a candidate again at once. That month is
left to the maintainers, and no property claims it.

## Runs

| Run | Instance | Shows |
|---|---|---|
| `release` | 2 runs, versions b1, b1.1, b2, three sources of which one mixes two checkpoints, 2 CI runs, 1 retag; about 1.2 million states | all safety properties of the pipeline and that it implements `ReleaseLedger` |
| `release_order` | consistent sources, no retag | violated: releases can appear out of version order |
| `release_retag` | three revisions of one build, 3 runs one after another, 1 retag | violated: two releases of one build from two upstream commits |
| `import` | 2 processes, 2 checkpoints, 2 files (one equal in both), 1 retag, 2 faults, 1 kill or interrupt; about 3.4 million states | safety of the vendored tree and that the importer implements `VendoredTree` |
| `import_liveness` | 2 processes, 1 file, 1 fault, 1 break; about 640 thousand states | every started tool ends; a moved tree returns |
| `import_cut` | 1 process, 3 attempts, no fault | violated: a cut body is not retried |
| `api_gate` | 3 trees (two under one tag), 1 release, 1 review; about 2.5 million states | releases are coherent, regeneration is reviewed |
| `api_across_tags` | the same with 2 releases | violated: an update across tags needs no review |
| `inference` | 2 invocations, 2 attempts, 3 contents, prompts of up to 2 tokens, 3 passes, all six programs; about 303 thousand states | the output only becomes the whole pinned model and a program loads no other; frees, context size and device claims of every path; everything ends |
| `export_walk` | headers of up to 3 forms of 15 with and without the required names, 64 enums, 10648 macro tables; about 89 thousand states | exported names are the guarded ones; layouts, enumerator values and constants are those of C |
| `build` | 2 shaders, 2 fragments, 2 contents, 2 compilers, 1 extension, 2 changes; about 1.5 million states | finished builds are current, agree on the variants and claim no refused extension |
| `watch` | 6 ticks, a month of 4, 3 checkpoints, 3 attempts, any options; about 2.1 million states | candidates have reasons, checks an end |

Why the bounds are enough. Two runs or importers give every pairwise interleaving;
the properties relate pairs of releases and pairs of processes. Three versions hold both steps
the rules tell apart, the next revision and the next build. Two files distinguish
partial from whole and equal from changed. Two faults let a rename and the rename
that should repair it both fail. One retag separates the two requests to upstream.
Three trees hold a retagged tree and a later tag, and
make a stale acceptance (names equal, signatures different) possible. Two fetches meet in every step of one another, and the second attempt is both
a retry and the last one. A prompt of two tokens makes a batch that is not one, and
three passes are the first, a middle and the last of the loop. Three forms hold a
forward declaration, a definition and a typedef of one name in every order; three
enumerators a written value, one after it and one after that; three macros a chain, a
diamond and every cycle. Two changes let a file go and come back between two
builds, or change around an update of the compiler; two shaders let a build stop between
them. One release is enough for its coherence, since nothing that a release leaves behind
is read by the tools; six ticks are a month with a clock that is a tick ahead, and
three checkpoints an update and a newer tag after it. Fifteen forms have every kind of
declaration, a function with `LLAMA_API` on its line, on no line and on another one. The theorems below hold without these bounds.

`CHECK_DEADLOCK FALSE` is used where the system ends: when all importers, a walk, or a
job and the fetches beside it have ended, nothing has to happen. `MCBuildProgram`
uses symmetry of shaders, fragments and contents; it checks no liveness.

Fairness. `WF_vars(Step(p))` for each importer: the operating system schedules a
started process, and both requests carry a timeout (30 and 120 seconds), so a
request is answered or fails. Nothing is assumed of kills, faults, retags, or of
starts. `WF_vars(Proceed(f))` for each fetch: every socket operation times out after 60
seconds and the body is read to its expected size and no further. `WF_vars(SessionStep)`:
a started program runs. `WF_vars(CheckStep)`: a started check is one process whose
requests time out after 30 seconds. No other liveness is claimed: a release or an
update waits for people and for GitHub, and a build for whoever starts it.

## What disagrees with the sources' own words

Four runs are expected to find a violation; `PROJECT.json` quotes the lines.

1. `PublishedInOrder`: `check_release.py` wants releases to move forward, but the
   check reads the tags of its own checkout and `release.yml` has no `concurrency`
   group. What does hold is `ValidatedInOrder`: the newer release was validated against
   the older one's tag.
2. `OneCheckpointPerBuild`: "A new checkpoint IS a new build number" is checked
   against the nearest older tag, and a failed candidate's tag counts. What holds
   is `NeighboursAgree`, for releases with no tag between them.
3. `CutIsRetried`: a body that ends early is accepted by the read loop, and its
   digest mismatch is not transient. The digest keeps it out of the tree
   (`VendoredTreeSpec`).
4. `BreakingReleaseIsDecided`: the gate compares with the file of the same tag, and
   a new tag has none. What holds is `RegenerationIsReviewed`, within one tag.

## Proofs

All theorems hold for every value of the constants under the named assumptions of
the modules (versions are pairs of naturals, `None` is new, sources are well formed,
bounds are naturals, APIs are partial maps).

`ReleasePipelineProofs`. `TypeOK` is inductive by itself. The safety properties need
`IInv`: tag maps only grow, so all maps that checkouts saw form a chain
(`SnapshotsAreChain`); a run carries the verdicts of the steps behind it
(`RunsAreSound`), a release those of its run (`ReleasesAreSound`), and what
`RequireCI` would accept now is on record as green (`LatestIsGreen`).
`OrderCorrect`: of two releases the older was validated against a map without the
newer tag, so the chain puts the newer one's map above it, with the older tag in
it. `NeighboursCorrect` follows because the neighbour is then the baseline of the
transition rule. `UpstreamCorrect` adds that without a retag what upstream answered
is what it answers now. `ImplementsLedger` maps `CreateRelease` to `Publish` and
every other step to a stutter, using the verdict of `ValidIdentity` in `RunsAreSound`.

`ApiGateProofs`. `BreakingIsIncompatible` says that the drift report asks for a decision
exactly when compatibility is lost. `ReviewCorrect` needs two more invariants.
`AcceptanceIsReviewed`: an acceptance file is the drift of a reviewed pair; equality of
reports then carries both signatures over. `AuditIsReviewed`: an audit that goes on to
write has compared with the file that it is going to replace, which only audits write;
reviews are never taken back (`ReviewsStay`), so what was reviewed at the comparison is
reviewed at the write, however lock, tree and acceptance changed in between.
`CoherenceCorrect` is inductive with `TypeOK`.

`ImportUpstreamProofs`. `Recoverable` is not inductive: it does not say why a backup
survives. `IInv` adds, per process, what it has in hand at each statement
(`ProcessesAreSound`: only a finished copy of the pinned tree reaches the renames,
and the backup a restore needs is whole), that nobody puts a partial tree in place
(`DestIsWhole`), that every tree in place or in a backup was there or is pinned
(`TreesAreKnown`), and that a destination that was moved away has a holder
(`SomebodyHolds`): a process with a whole backup that has not begun to drop it. The
second test in `finally` is what keeps the holder: it enters `sweepBackup` only while
a destination is there, and whoever takes that one away becomes the holder.
`ImplementsVendoredTree` follows: of the tool's statements only three renames change
the destination, and each is `TakeAway` or `PutInPlace` of a known checkpoint.
The theorems hold for any number of importers, kills, interrupts and failing operations.
`StagingCorrect` needs the paths without disturbances only: faults and breaks are never
taken back, and `StagingIsGone` extends the claim to the statement before the end.
`MatchCorrect` carries `ChecksAreSound`: what a check has compared is equal as long as
everybody beside it only checks, because a process in check mode never reaches
`_replace_tree`. `ContentAssumption` says that a checkpoint's content is that of its files.

`ExportWalkProofs`. `WalkInv` follows both walks: at declaration `at` the snapshot has
exactly the names `ExportsOf` and the enum members give for the declarations behind it,
and the export walk, once it has passed a declaration, has exported its names. That a
name is recorded by one walk exactly when the other exports it is the comparison of
their guards, kind by kind. For layouts it adds that a complete record's entry is only
written over by a record: this rests on `HeadersAssumption`, that a struct has one
definition, which follows the template it is of, its implicit node stands behind it, and
a type's name names nothing else. `ApiLinesAssumption` lets the default lines of the two
walks differ.
`EnumTypesAssumption`, that `GGML_ENUM_TYPES` are among the required types, is what lets
the second walk nest that test. `RecordInv` carries the values: every enumerator behind the
walk that is recorded has the value of C (`EveryValueIsInC`), and every recorded value is
a number (`TypeCorrect`). `EnumValuesAreC` shows that the recursion of
`_resolved_enum_values` is C's rule, the last written value plus the distance, for enums of
any length. The assumptions: `WellFormedEnum`, that the enumerators of a translation unit
have names of their own, and `ImplicitAssumption`, that having no value is not a number.

`MacroExpansionProofs`. `ExpandMacroIsReplaced`: for any table of macros, `_expand_macro`
returns the tokens that are left after as many rounds of replacement as there are names,
and raises when there is something to replace even then. `Ended(k)` has the macros with
nothing left after `k` rounds: a macro is in it when its own tokens are a round earlier
(`EndedNext`), it grows (`EndedGrows`), and it stops growing after as many rounds as there
are names (`EndedStops`). A call on a macro that ends returns what the rounds leave
(`ChainsThatEnd`): its stack cannot hold a macro that ends earlier, so the test for cycles
never strikes. A call on one that does not end always calls another one that does not, and
the names run out, so it meets its own stack (`ChainsThatDoNot`). `EveryConstantIsExpanded`
carries this to the snapshot. `MacrosAssumption` says that there are finitely many names,
that definitions are sequences of tokens, and that raising is not one of these.

The provers instantiate no induction theorem whose premise is an operator. The inductions
are therefore done with sets, from the fact that `<` is well founded on the naturals:
`LeastNumber`, `SetInduction`, `SequenceInduction`. What a recursive function computes is
shown by giving a sequence of values that follows its recursion (`FollowsExist`) and
showing that the function is it (`FlattenFollows`, `RoundsFollow`, `EnumValuesAreC`);
`ExpansionExists` does the same for the recursion over calls, by the number of names that
are not on the stack.

`BuildProgramProofs`. A finished build is current because of what holds before: `BuildInv`
says that the run in use was made from what is declared now (`phase` beyond
`"program"`), that its lists of shaders and fragments are those of the tree it read,
and that an output remembers exactly the inputs it was made from. `Declared` has the
sets of shaders and fragments, so that equality of `read` carries the lists over. These
need no assumption on the constants; `TypeCorrect` needs that `Absent` is neither a
content, a generator nor a run, and that a run which can be reused was not refused
(`RunsAreAccepted`).

`UpstreamWatchProofs`. `WatchInv` follows a candidate's grounds from where they are read to
the report: the triggers are the policy's and the latest tag was read after the lock, so
it is not older (`CheckInv`), and a reported age of `CheckpointAge` whole days means that
many days of ticks (`WholeDays`). Published dates stay and time only passes (`DatesGrow`),
so what was old when it was reported stays old. The assumptions say that days, ages and
attempts are numbers and that `checkpoint-age` is not a trigger by itself.

`InferenceJobProofs`. `FetchInv` adds to `SuccessMeansPinned` that an invocation at
`replace` has the pinned content in its own temporary, which `Temporary` keeps from the
others, so a replacement never takes the output away from whoever is done. `JobInv`
carries it to what a program maps. `OutputIsReplacedWhole` follows, because `Replace` is the
only statement that changes the output. `DecodesAlwaysFit` holds for prompts of any length and
any number of generated tokens. It needs `SessionInv`: the prompt
is measured before the context is sized for it and the loop is the last stage
(`ChatStagesInOrder`, of every stage list), and in the loop the context holds the prompt
and one token for every pass but the one under way (`LoopIsSound`).

`FreesAreAlwaysSafe` and `NothingEverLeaks` need to know what a program holds at each stage
(`Holds`), which the code nowhere says. `Leads(list, before, after)` is a piece of a stage
list that takes a program from holding `before` to holding `after`, every exit of which
frees exactly what is held there, in a safe order; `LeadsOn` joins two pieces, and each of
the programs is put together from the stages they share (`SharedStages`) and its own.
`ResourceInv` then says that what is held, less what is being freed, is `Holds` of the
stage, and that the list being freed is safe. `DeviceIsNeverClaimed` needs that on every
list the check of the device stands behind the last load and, in the tests, a clearing of
the log right before that load; the chat examples load once (`OffloadIsCheckedLast`).
`DeviceInv` turns this into: at the last load the log says nothing, after it only what is
so, and past the check the model is on the device. Of the assumptions these
three need `SizesAssumption` only, that the bounds of the loop are numbers.

Only model-checked. Liveness (`Terminates`, `TreeReturns`, `JobEnds`, `CheckEnds`) is out
of the prover's reach, and so are the four runs that find a violation. Every other
property of the runs, invariant, action property or refinement, is a theorem.

## Not modelled

Components with status `not_modelled`, or the part of a `partly` one that is left out:

- Vendored llama.cpp: third-party source; modelled only as what is imported.
- The module interface: declarations that include generated files.
- `check_native_runtime.py` and `test_template.py`: straight lines that start a tool and
  compare its output.
- `generate_build_files.py`: one loop that writes fixed text of `mcpp.toml`, and the same
  loop comparing it; there is no state between runs that could be stale.
- The source registry of `audit_snapshot.py` (a tokenizer of CMake files): text in, lists
  out; the report as a whole is one value in `ApiGate`.
- In `check_mwrap_release.py` everything but the version and tag rules: assertions about
  the wording of documents.

## Plan

1. Importer, release pipeline, API gate: done.
2. Fetch and session, the two walks, the build program, the upstream watch: done.
3. Every safety property as a theorem: done.
4. `audit_snapshot --output` step by step, so that an import, an edit of the lock or a
   review can come between: done.
5. A release lookup that fails, the log buffer of the device tests, class templates and
   missing line numbers in the two walks, reports of the watch that outlive their lock: done.
