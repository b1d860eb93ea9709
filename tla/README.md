# TLA+ models of the fs_image sandbox and socket-handoff engine

These modules model `src/fs_image/nspawn_in_subvol/`. That code runs build
steps in `systemd-nspawn` containers. It also gives RPM repo servers
sockets that live inside a container's network namespace but are bound
from outside it. Each module is translated from the Python source. Its
comments name the lines it models, and `PROJECT.json` maps every
definition to those lines.

## The system and its parts

| Part (spec section) | Source | Concurrency | Model |
|---|---|---|---|
| Sandbox configuration model (4.1) | `args.py`: `_NspawnOpts`, `_NspawnDebugOnlyNotForProdOpts`, `new_nspawn_opts`, `_new_nspawn_cli_args`, `_normalize_snapshot_to_versionlock` | none: immutable values checked by asserts | `NspawnOpts` |
| Command builder (4.2) | `cmd.py`: `_colon_quote_path`, `bind_args`, `_inject_os_release_args`, `_nspawn_cmd`, `_extra_nspawn_args_and_env`, `nspawn_sanitize_env` | none: pure functions | `NspawnCmd`, `BindArgs`, `BindArgsCheck` |
| Isolation lifecycle (4.3) | `cmd.py`: `_snapshot_subvol`, `maybe_popen_and_inject_fds`, `_nspawn_setup` | context managers; the container process | `NspawnLifecycle`, `NspawnRun` (with the supervisor) |
| Socket handoff (4.4) | `launch_repo_servers.py`: `_create_sockets_inside_netns`, `_make_sockets_and_send_via` | orchestrator against a `sudo nsenter` helper process, over a Unix socket, with timeouts | `SocketHandoff` |
| Readiness supervisor (4.5) | `launch_repo_servers.py`: `launch_repo_servers_for_netns`, `_launch_repo_server` | orchestrator against N repo-server processes; ExitStack teardown | `RepoServers` |
| Compiler items | `compiler/items/make_dirs.py`: `MakeDirsItem`; `compiler/items/phases_provide.py`: `gen_subvolume_subtree_provides`, `PhasesProvideItem` | none: one call against the image's filesystem | `MakeDirs`, `PhasesProvide` |

The parts interact as follows:

1. The lifecycle manager snapshots the layer and builds the nspawn
   command from the configuration.
2. Once the container runs, `launch_repo_servers_for_netns` gets one
   socket per port from inside the container's network namespace. This
   is the handoff.
3. The supervisor binds each socket, gives it to a repo server, and waits
   for that server to listen.

`RepoServers` treats the whole handoff as one step, `CreateSockets`,
which yields every socket or raises. `SocketHandoff` models the handoff
itself and checks that a normal return delivers every socket.

The compiler items stand apart from the engine. They tell the image
compiler's dependency sorter which paths an item requires and provides,
and they change the image.

## Not modelled

- `vm/vmtest.py`: VM boot. The spec excludes it.
- `rpm/storage`, `rpm/tests/*`: plugin registry and test fixtures.
- `tests/*`: test fixtures.

None of these has concurrent or failure-prone state that the engine
depends on. `vmtest.py` is a command-line wrapper that starts a VM and
forwards its exit code. `rpm/storage/__init__.py` only re-exports
plugin classes. Neither has a state change to model beyond starting an
external process.

## Modules

### `RepoServers.tla`: the supervisor

State:
- `pc`: the orchestrator's position.
- `cur`: the loop index over the `zip` of sockets and ports.
- `stack`: the `ExitStack`, as the sequence of entered server indices.
- `server[i]`: the OS state of each repo-server process. It is `none`,
  `running`, `exited` (a zombie) or `reaped`.
- `listening[i]`: `SO_ACCEPTCONN` for each socket.
- `sock[i]`: the parent's copy of each socket.
- `raised`: whether an exception is propagating.

Actions:

| Action | Code |
|---|---|
| `CreateSockets` | the `_create_sockets_inside_netns` call |
| `Bind` | `sock.bind`, which may raise `EADDRINUSE` |
| `Spawn` | `with sock, Popen(...)`, which may raise |
| `Ready` | the `while poll() is None: if SO_ACCEPTCONN: break` loop ending, then the yield and `enter_context` |
| `Interrupt` | an exception inside that loop. The `finally` kills the server, `Popen.__exit__` reaps it and `with sock` closes the socket. |
| `Leave` | the caller's `with` body ending, normally or by raising |
| `Unwind` | one context popped off the `ExitStack`: kill, reap, close |
| `Finish` | the `with ExitStack()` ending |
| `Listen(i)`, `Exit(i)` | what each repo-server process does on its own, at any moment. Both are modelled from the spec, because the binary is not in this repository. |

### `SocketHandoff.tla`: the handoff protocol

This module models two processes that interleave freely.

The orchestrator (`opc`) does the following:
1. It starts the helper with `Popen`.
2. It connects to the listening socket.
3. It calls `recvmsg` with a timeout. This either gets the message, or
   gets end-of-file once the helper has closed its end, or times out.
4. On a timeout it closes the connection. The kernel purges any message
   still queued and closes its descriptors.
5. It asserts the count of descriptors received.
6. It waits for the helper in `Popen.__exit__`.
7. It runs `check_popen_returncode`.

The helper (`hpc`) does the following:
1. It starts under `sudo env nsenter`.
2. It accepts the connection, with a timeout.
3. It creates the N sockets one at a time.
4. It sends all of them in one `sendmsg`. This raises `EPIPE` if the peer
   is gone.
5. Its `ExitStack` closes its sockets last-first.
6. It exits, with status 0 unless it raised.

It may also be killed at any point.

`listen_temporary_unix_socket`, `recv_fds_from_unix_sock` and
`check_popen_returncode` are in `fs_image/common.py`, which is not in the
sources. `OConnect`, `ORecvTimeout` and `OClose` are therefore modelled
from the spec (4.4) and marked `spec_modelled`.

### `NspawnOpts.tla`: the configuration model

Two ways in, chosen in `Init`:
- `mode = "cli"`: `_parse_cli_args` over an `argv` of up to `MaxArgs`
  options, with `allow_debug_only_opts` either way;
- `mode = "api"`: `new_nspawn_opts` called with any keyword values.

State: `argv` and the position `i` in it; the argparse namespace `ns`
(every dest with its default); `vlock`, the normalised
snapshot-to-versionlock map; `dbg`, the debug-only struct; `opts`, the
`_NspawnOpts` built; `pc`, where the call is. `error` stands for every
assert and every argparse usage error.

| Action | Code |
|---|---|
| `ParseArg` | argparse storing one option (`Store`: `store_true`, `store_false`, `append`, last wins), or a usage error for an option this parser did not register |
| `CheckBoot` | `assert args.boot or not args.append_boot_console` |
| `NormalizeVersionlock` | `_normalize_snapshot_to_versionlock` |
| `ExtractDebugOpts` | the innermost `_extract_opts_from_dict`: namespace values with debug options allowed, the production defaults otherwise |
| `NewNspawnOpts` | `new_nspawn_opts` and its two asserts |
| `NewCliArgs` | `_new_nspawn_cli_args` and its `--user=root` assert |

Paths, users and versionlock files are model values. `ApiKwargs` (built
from `Kwargs`) is the set of keyword calls. `SnapshotIntoArgs` is the set
of values `--snapshot-into` takes. Converters
(`Path.from_argparse`, `pwd.getpwnam`) are left out: they do not change
which options are accepted.

### `BindArgs.tla` and `BindArgsCheck.tla`: quoting of bind mounts

`ColonQuote` is `_colon_quote_path`: a path is a sequence of characters,
and every `\` and `:` gets a backslash in front. `BindArgs` is
`bind_args`. `NspawnFields` is a reference definition of how
`systemd-nspawn` splits a `--bind` value on unescaped colons and drops
the escapes. `BindArgsCheck` enumerates every pair of paths and checks
the round trip.

`ColonQuote` and `Split` scan left to right, as `re.sub` and the
`systemd-nspawn` parser do. Each is a recursive function over prefix
lengths (`q[i]` is the quoting of the first `i` characters), not a
RECURSIVE operator, so that the proof module can reason about them.
`SplitStep` tests the escape flag with IF before its CASE on the
character: after a backslash the next character is literal, whatever it
is, and a CASE with both tests as guards would overlap.

### `NspawnCmd.tla`: the command builder

One `Build` step computes the three fields of `_NspawnSetup` that come
from the builder:
- `nspawn_cmd`: `_nspawn_cmd` followed by `_extra_nspawn_args_and_env`;
- `nspawn_env`: `nspawn_sanitize_env`;
- `cmd_env`: the `K=V` list, with forwarded `THRIFT_TLS_` variables
  inserted at position 0 in the order `os.environ` yields them, then
  `opts.setenv`.

Arguments are records (option, value). The filesystem lookups
(`_exists_in_image`, `_artifacts_may_require_repo`, `/dev/fuse`) are
nondeterministic facts in `facts`. The machine name comes from a set
standing for `uuid4()`.

### `NspawnLifecycle.tla`: snapshot and container process

State:
- `mode`: `none`, `ephemeral` (`TempSubvolumes`) or `persisted`
  (`snapshot_into`);
- `stage`: where the setup and its caller are;
- `snap`: the snapshot made (`absent`, `created`, `mounted`, `deleted`);
- `proc`: the container process (`none`, `running`, `exited`, `reaped`);
- `failed`: whether an exception propagates;
- `sigint`: whether that exception is a `KeyboardInterrupt`.

| Action | Code |
|---|---|
| `Snapshot` | `nullcontext`, `Subvol.snapshot` or `tmp_subvols.snapshot`; the last two may raise |
| `CloneMounts` | `clone_mounts`, which may raise |
| `Build` | the builder and the yield; its lookups may raise |
| `Launch` | `with maybe_popen_and_inject_fds(...)`: `popen` or `popen_and_inject_fds_after_sudo` (one action: both wait on exit) |
| `ProcExit` | the container exits on its own (spec-modelled) |
| `Body` | the caller's body ends: it returns, raises, or is cancelled by `KeyboardInterrupt` (spec-modelled) |
| `Wait` | `Popen.__exit__` reaps the process; without an interrupt it waits as long as it takes |
| `InterruptedWait` | under `KeyboardInterrupt`, `Popen.__exit__` (Python 3.7+) waits only 0.25 s and returns without reaping a process still running; a Ctrl-C during that plain wait lands here too |
| `Release` | the `with` exits: `TempSubvolumes` deletes the ephemeral snapshot |

Spec 4.3 says the snapshot outlives the container. On the cancellation
path the code does not keep that promise: after `InterruptedWait`,
`TempSubvolumes` deletes the ephemeral snapshot while the container may
still run. `SnapshotOutlivesProcess` therefore states the promise with
exactly that exception; with the exception removed TLC reaches the
deletion under a live container in 7 steps (ephemeral mode, snapshot,
mounts, build, launch, interrupted body, interrupted wait, release).

### `NspawnRun.tla`: a run with repo servers

This module extends `NspawnLifecycle` and instantiates `RepoServers`
with its variables renamed. The supervisor moves only while the
container runs, when `--serve-rpm-snapshot` was given. `ServeBody` lets
the caller's body end only after the supervisor's `with` has exited. The
drivers that nest the two are not in this repository, so this glue
follows spec sections 4.3, 4.5 and 5 and is marked `spec_modelled`. No
property of the run rests on that glue: the run checks the lifecycle's
promises with the supervisor's steps interleaved.

### `MakeDirs.tla`: `MakeDirsItem`

State: `into_dir` and `path_to_make` (sequences of names), the image's
paths with their types, what `provides()` yielded, where the stat
options went, and the build's status.

| Definition | Code |
|---|---|
| `RequiresMet` | `requires()`: `require_directory(into_dir)`. The sorter builds the item only once this holds, so `Init` starts there. |
| `Provides` | the `while inner_dir != self.into_dir` loop of `provides()`, as a recursive function over the joined path's prefixes |
| `Plan` | the sorter calling `provides()` |
| `Build` | `mkdir -p` of the joined path, failing on a name that is a file, then `build_stat_options` on `into_dir/<first name>`. The build-appliance and direct branches are one action. |

### `PhasesProvide.tla`: what the phases left in the image

State: the image's paths and types, the protected paths
(`protected_path_set`, which always holds the meta directory), the
subtree, and the result of running the generator to its end.

One `Provide` step computes the result:
- `DoNotAccess`: the first loop;
- `Pruned` and `Found`: `find -P` with its `-prune` list;
- `find` failing on a missing subtree;
- the assert on protected found paths;
- the final `subtree_exists` assert.

`is_path_protected` is in `compiler/items/common.py`, which is not in
the sources. It is modelled from its contract: a path that is a
protected path, or lies below one.

`Pruned` compares paths exactly. `find -path` reads its argument as a
glob, so a mount path holding `*`, `?` or `[` could prune other paths
too, or miss its own. The model's names hold none of these characters,
so that case is not checked.

## Runs

| Run | Expect | Checks | Shows |
|---|---|---|---|
| `repo_servers` (`MCRepoServers.cfg`) | pass | `TypeOK`, `NoOrphanServers`, `ReverseTeardown`, `Termination` | With 3 ports and a failure possible at every step, no repo server outlives the call. Servers are reaped in reverse start order. The call always ends under the fairness below. |
| `repo_servers_ready` (`MCRepoServersReady.cfg`) | violation | `ServedSocketsListen` | A server that dies before listening ends the poll loop, and the supervisor yields it to the caller as ready. Spec 4.5 calls that a fatal startup failure. |
| `repo_servers_sockets` (`MCRepoServersSockets.cfg`) | violation | `SocketsClosedWhenDone` | After a failed `bind`, the handed-off sockets that no server owns yet are not closed by the cleanup. Spec 5 says cleanup closes them. |
| `socket_handoff` (`MCSocketHandoff.cfg`) | pass | `TypeOK`, `HandoffComplete`, `HandoffTerminates` | With 5 sockets, both timeouts, helper exceptions and kills at every step: a normal return hands over all sockets, from a helper that exited 0 and kept none. Under the fairness below, the call always ends, although `Popen.__exit__` waits for the helper without a timeout. |
| `nspawn_opts` (`MCNspawnOpts.cfg`) | pass | `TypeOK`, `OptsValid` | Every `argv` of up to 3 options over every registered flag and some unknown ones, in both parser modes, and every direct keyword call: whatever is accepted is valid. |
| `nspawn_opts_network` (`MCNspawnOptsNetwork.cfg`) | violation | `PrivateNetworkFlagHonoured` | The production parser accepts `--no-private-network` and then drops it: the container keeps its private network, against the option's help. |
| `bind_args` (`MCBindArgsCheck.cfg`) | pass | `QuoteRoundTrip` | For every pair of paths of up to 3 characters over `a`, `:` and `\\`, `systemd-nspawn` reads back exactly the source and destination. |
| `nspawn_cmd` (`MCNspawnCmd.cfg`) | pass | `EnvPrecedence`, `MountsAsConfigured` | The user's command sees a `setenv` value over a forwarded TLS value over nothing, and the container gets exactly the configured mounts, in order, with their access. |
| `make_dirs` (`MCMakeDirs.cfg`) | pass | `MadeAsProvided` | For every image of paths up to 2 deep and every pair of paths: `mkdir -p` makes only directories the item provided, everything provided exists afterwards, and the stat options land on the outermost provided directory. |
| `phases_provide` (`MCPhasesProvide.cfg`) | pass | `PhasesProvideCover` | For every image of paths up to 2 deep and every set of mounts, `PhasesProvideItem` never raises and accounts for every path exactly once: as itself, or under a DoNotAccess mount. |
| `phases_provide_subtree` (`MCPhasesProvideSubtree.cfg`) | violation | `AssertionsHold` | On the subtree `/a`, with no mount at or above it, the generator trips its own "filtered out by find" assert when the image holds `/a/m` and `m` is protected. |
| `nspawn_run` (`MCNspawnRun.cfg`) | pass | `SnapshotOutlivesProcess`, `SnapshotReleased` | In every snapshot mode and at every failure point, with or without 2 repo servers: the snapshot is deleted under a live container only when a `KeyboardInterrupt` cut the wait short, and the ephemeral snapshot is always released. |

Every property of a passing run has a mutant in `PROJECT.json`. A mutant
is a bug variant of one action, defined just before it, that breaks the
property:
- `Ready` entered outside the stack, or waiting on `SO_ACCEPTCONN` alone;
- `Unwind` taking the oldest context first;
- one socket too many in `CreateSockets`;
- `HCreate` making one socket too many;
- `OCheck` without the status check;
- `--snapshot-into` read without mapping `""` to `None`, the
  `snapshot_into` assert left out;
- only colons escaped;
- forwarded TLS variables placed after `setenv`, read-write mounts
  passed as read-only;
- the process not waited for, the temporary snapshot deleted only on
  success;
- the helper counting the last socket before making it, so that it
  never leaves the creation loop (`HCreateEndless`, for
  `HandoffTerminates`);
- the `provides()` loop stopping one directory short;
- `find` run without the prune list.

### Finding in the configuration model

`args.py:297` registers `--no-private-network` on every parser, with
dest `private_network`. That field belongs to the debug-only struct,
which the production parser builds from its defaults. The parsed value
stays in the namespace and is dropped. So the option is accepted and
does nothing, although its help says it lets the container use the host
network.

### Finding in the compiler items

`phases_provide.py:72` passes `relpath`, which is relative to the
subtree, to `is_path_protected`. `protected_paths` are relative to the
image root. For the subtree `/a`, a path `/a/meta` is found, its
`relpath` is `meta`, and the assert fires, although `find` pruned
nothing it should have. The comment says such a path "should have been
filtered out by `find`". The only caller in this repository,
`PhasesProvideItem`, passes `/`, where the two bases agree. The
`phases_provide` run shows that this case is correct, so the bug is
latent.

### Bounds

- **3 ports** gives a first, a middle and a last pair. It lets a failure
  strike with 0, 1 or 2 servers on the stack, and lets two servers be
  unwound against each other.
- **5 sockets** in the handoff lets a helper fail or be killed after any
  number of sockets are made or closed. A partial delivery would show up
  as a result smaller than the batch.
- The zero case (an empty port file) is covered by the proofs, which hold
  for every `NumPorts`.
- **`MaxArgs = 3`** gives an option, its opposite and a third, so
  last-wins and append both show. Two snapshots and one versionlock file
  allow an unserved and a duplicated versionlock.
- **Paths of up to 3 characters** over a letter, a colon and a backslash
  include a trailing backslash, `\\:` and `::`, the cases where quoting
  goes wrong.
- **Four environment variables** give two TLS ones, one reserved one and
  one plain one. `setenv` lists of up to 2 entries allow an override and
  a duplicate. Mount lists of up to 1 entry per kind keep the state
  space small while still covering both kinds.
- **Two names and depth 2** for the compiler items. This gives a
  missing, an existing and a file-blocked first directory for
  `mkdir -p`. It also gives mounts at the top and one level down, a
  mount that does not exist, and a subtree holding a name that is
  protected at the root.
- **2 repo servers** in `nspawn_run` let the supervisor's steps interleave
  with every lifecycle step, the interrupted wait included.

### Fairness

`FairSpec` assumes weak fairness of the orchestrator's actions, except
`Interrupt`. The orchestrator is a single thread that keeps running while
it can, and nothing guarantees an interrupt.

It also assumes weak fairness of `Listen(i) \/ Exit(i)` for each server.
A repo server that runs either calls `listen()` on start-up or dies.

`Termination` depends on both assumptions.

For the handoff, `FairSpec` assumes weak fairness of every step of the
orchestrator and of the helper except the failures. The helper can
raise while making its sockets (`EMFILE`), or be killed. Neither is
owed. Raising elsewhere is fair only as a timeout: an `accept` or `send`
whose peer is gone times out. The helper's start (`HStart`) is assumed
fair, which holds only if the `sudo` policy does not prompt.
`HandoffTerminates` relies on that. Under these assumptions the
`Popen.__exit__` wait, which has no timeout of its own, ends. It depends in particular on
the poll loop's exit through `poll()`: a loop that watched only
`SO_ACCEPTCONN` would hang on a server that died first, and the
`ReadyOnListenOnly` mutant shows this.

## Proofs (TLAPS)

### `RepoServers_proofs.tla`

These theorems hold for every `NumPorts \in Nat`. That is the only
assumption, `NumPortsAssumption`.

- `TypeCorrect`: `Spec => []TypeOK`.
- `NoOrphans`: `Spec => []NoOrphanServers`.
- `ReverseOrder`: `Spec => ReverseTeardown`.

`NoOrphanServers` speaks only of the final state, so it is not inductive.
The inductive invariant `IInv` strengthens it with the following facts:
- `StackPrefix`: the stack holds `1, 2, ...` in order.
- `StackMatchesLoop`: during the loop, the stack holds exactly the pairs
  before `cur`, and it only shrinks afterwards.
- `CurInRange`: inside the loop body, `cur` names a real pair.
- `CreateFirst`: the loop starts at 1.
- `LiveOnStack`: every server whose process exists is on the stack, or is
  the one in its readiness loop, whose `finally` kills it.
- `DoneEmpty`: at the end the stack is empty.

The argument runs as follows:
- `Finish` needs an empty stack, so `LiveOnStack` leaves no live server.
- `Unwind` reaps the top of the stack, which is its largest index by
  `StackPrefix`, so every live server above it is gone. That gives
  `ReverseOrder`.

The proof has one case per action. The `raised \in BOOLEAN` part of the
type is proved with Zenon, and the rest with the SMT backend.

### `NspawnLifecycle_proofs.tla`

These theorems have no assumption; the lifecycle has no constants.
- `LifecycleTypeCorrect`: `Spec => []TypeOK`.
- `SnapshotAfterProcess`: `Spec => []SnapshotOutlivesProcess`: the
  snapshot is deleted under a process that is not reaped only when a
  `KeyboardInterrupt` cut `Popen.__exit__` short.
- `SnapshotAlwaysReleased`: `Spec => []SnapshotReleased`.

The inductive invariant adds five facts, one for each stage:
- `ProcByStage`: no process before `Launch`; after the wait, a reaped
  one unless the exception is a `KeyboardInterrupt`;
- `DeletedOnlyAtEnd`: only `Release` deletes, in ephemeral mode;
- `NoFailureBeforeBody`: an exception before the body leaves at once,
  and no `KeyboardInterrupt` is in flight before the body ends;
- `PersistedMounted`: an unfailed persisted snapshot past
  `_snapshot_subvol` is mounted;
- `SnapByMode`: without `opts.snapshot` nothing is snapshotted.

The theorems are about the lifecycle alone. `NspawnRun` adds only guards
to its actions and leaves its variables alone in the supervisor's steps,
so every run of `NspawnRun` is a run of the lifecycle, and the theorems
cover `nspawn_run` too.

### `SocketHandoff_proofs.tla`

These theorems hold for every `NumSocks \in Nat`. That is the only
assumption, `NumSocksAssumption`.
- `HandoffTypeCorrect`: `Spec => []TypeOK`.
- `HandoffCorrect`: `Spec => []HandoffComplete`.

The inductive invariant adds these facts:
- `HSocksShape`: the helper's sockets are always `1..k`.
- `SendReady`: the helper sends only once it has all of them.
- `InflightShape`: a message carries all the sockets or none.
- `OsocksShape`: the orchestrator received all the sockets or none.
- `ClosedNoInflight`: nothing is queued to a closed end.
- `OPhase`: what the count assert, the wait and the status check each
  established.
- `ExitedClean`: an exited helper holds nothing.

The cardinality steps use `FS_Interval`.

### `NspawnRun_proofs.tla`

`RunSnapshotSafety`: `RunSpec => [](SnapshotOutlivesProcess /\
SnapshotReleased)`, for every `NumPorts`.

`LifecycleOfRun` shows that every step of the run is a step of the
lifecycle or leaves the lifecycle's variables alone: `LifecycleStep` is a
lifecycle action, `ServeBody` is `Body` with a guard, and the supervisor's
steps leave `lvars` unchanged. The lifecycle's `IInv` is therefore an
invariant of the run (`RunInitIInv`, `RunNextIInv`), and it implies both
properties.

### `NspawnOpts_proofs.tla`

These theorems hold for every set of snapshots, version locks and users,
and for every `MaxArgs \in Nat`. That is `OptsAssumption`.
- `OptsTypeCorrect`: `Spec => []TypeOK`.
- `OptsAlwaysValid`: `Spec => []OptsValid`.

`OptsValid` speaks only of the end of the call. Each assert it rests on
runs at its own stage. The invariant `IInv` holds because argparse is
the only step that writes the namespace: each later stage reads it and
writes one struct. `IInv` states what the checks have established at
each stage:
- `OptsBuilt`: the constructor's asserts;
- `BootChecked`: the boot-console assert;
- `LocksServed`: the version locks;
- `ServeAsRoot`: the `--user=root` check;
- `ProdDefaults`: the production debug-only struct.

The type proof types the whole namespace (`NsType`). Its invariant is
split into one predicate per variable, and the lemma `Writers` says
which step writes which variable. `StoreType` has one case per option
argparse stores.

Two operators of `NspawnOpts` are named for the prover:
- `Kwargs` names the keyword arguments of one call;
- `SnapshotIntoArgs` names the values of `--snapshot-into`.

The SMT backend cannot read a record `EXCEPT`, nor a set holding the
empty string. Zenon proves the steps that need those definitions.

### `PhasesProvide_proofs.tla`

`RootProvideCover` proves `ASSUME Subtrees = {<< >>} PROVE Spec =>
[]PhasesProvideCover`. It holds for every set of names, depth, meta
directory, image and set of mounts. The call `PhasesProvideItem` makes
(on "/") never raises, and accounts for every path once.

The argument holds at the root, where:
- `relpath` is the identity;
- every path lies below the subtree, so `DoNotAccess` is the whole
  protected set;
- `find` prunes exactly the paths at or below a protected one;
- the root is below no protected path, so the subtree is found.

Because `Provide` is one step, the invariant is the static facts
(`AtRoot`) with the property itself. The `phases_provide_subtree` run
shows that the same property's asserts fail for another subtree.

### `MakeDirs_proofs.tla`

`MakeDirsMadeAsProvided` proves `Spec => MadeAsProvided` for every set
of names and every depth, with no assumption on the constants.

`provides()` is a loop over the joined path, modelled as the recursive
function `gen` over the lengths from `Len(into_dir)` to that of the
joined path. TLAPS sees a recursive function only as the CHOOSE of a
function that meets its defining equation. `ProvidesIs` gives its
result in closed form: the prefixes of the joined path longer than
`into_dir`. It is proved by a least-counterexample argument from
`WFMin` and the well-foundedness of `<` on `Nat`: at a least length
where the closed form failed, it would already fail one below.
`ImagePrefixClosed` uses the same argument: an image closed under
parents is closed under prefixes, so `mkdir -p` makes only directories
below `into_dir`. The inductive invariant `IInv` adds that the state
while the item is planned is a well-typed image with `into_dir` in it,
and `provided` is empty or exactly what `provides()` yields.
`BuildMade` then shows that the one `Build` step makes exactly the
provided directories. The stat options land on `into_dir` plus the
first name, which is a prefix of every other provided directory
(`JoinOuter`).

### `BindArgs_proofs.tla`

`QuoteRoundTripHolds` proves `Spec => []QuoteRoundTrip` for every
alphabet and every bound on path length. `systemd-nspawn` reads back
exactly the source and the destination that `bind_args` quoted.

The argument:
- `SplitRunDef` and `QuoteRunDef` show that the functions chosen by
  `Split` and `ColonQuote` exist. They build them one length at a time,
  by induction over `0 .. N`. That induction is `UpToInduction`, proved
  from `WFMin`.
- `SplitRunUnique` shows the run is unique. So the run over
  `Append(u, c)` restricted to `u` is the run over `u` (`SplitSnoc`).
- `QuoteStep`: reading the quoting of one character from a state
  outside an escape appends that character to the current field. The
  scanner is outside an escape afterwards. For `\` and `:` this takes
  two scanner steps, for any other character one.
- `QuoteParse` is the induction over the path's length built on
  `QuoteStep`: the quoting of the first `i` characters appends those `i`
  characters.
- `RoundTrip` applies `QuoteParse` to the source. It then reads the one
  unescaped colon, which closes the first field, and applies
  `QuoteParse` to the destination.

The inductive invariant adds to `QuoteRoundTrip` only that `src` and
`dest` are paths and `out` is empty or `bind_args` of them.

### What stays with TLC
- `Termination` and `HandoffTerminates`: TLAPS does not prove liveness.
- `MountsAsConfigured`: it rests on the same round trip for every
  mount in the configured list. Proving it would also need what
  `SelectSeq` returns over a concatenation of bind arguments, for every
  list. That is induction over `SelectSeq`'s own recursion, which the
  library states no fact about.
- `EnvPrecedence`: `CmdEnv` folds over the host environment with
  `FoldLeft` and `SetToSeq`. What the fold yields for every environment
  needs induction over the fold. `FoldLeft` is defined through an
  operator parameter, and the library's theorems about it take one too,
  which the installed provers cannot instantiate.
- In general, induction over data works here only where the model
  writes the recursion as a recursive function. The proof can then
  induct over its domain with `WFMin`, as the two proofs above do.

## Plan

Done:
- All five parts of the engine are modelled, as are the compiler items.
- The handoff is proved safe for every number of sockets.
- The handoff is model-checked to terminate.
- Every safety invariant and action property of the supervisor, the
  lifecycle, the composed run, the configuration model, the
  root-level phases provides, `MakeDirsItem` and the quoting of bind
  mounts is proved for every value of the constants.

Left, in order:
1. **Handoff inside the supervisor.** Instantiate `SocketHandoff` in
   `NspawnRun` in place of `CreateSockets`, with its `raised` renamed.
2. **Liveness of the lifecycle.** Under the assumption that the
   container exits, the call ends and the snapshot is released.
3. **Induction for the command builder.** Prove the facts about
   `SelectSeq` and `FoldLeft` that `MountsAsConfigured` and
   `EnvPrecedence` need, or restate `BindmountArgs` and `CmdEnv` as recursive
   functions over their lists, and prove both.
