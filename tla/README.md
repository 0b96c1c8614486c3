# TLA+ models of the LBBS I/O core and sendmail mailer

These modules model the parts of LBBS that are in `src/`, checked against the
behaviour described in `spec.md`:
- the I/O transformation layer of `src/bbs/io.c`:
  - the transformer registry;
  - the per-connection stack of transformations;
  - the session registry;
  - the sysop console commands that attach a transformation to a live session and list a session's transformations;
- the mailer of `src/modules/mod_sendmail.c`.

Everything is checked with TLC.

## 1. Inventory

| Component | Source | State it keeps | Operations |
|---|---|---|---|
| Transformer registry | `io.c` 50-62, 136-239 | `transformers` list of `{name, type, dir, setup, query, cleanup, module}`, protected by a rwlock | register, unregister, named available, type from name, type available |
| Transformation stack | `io.c` 241-422 | per connection: `transformations[MAX_IO_TRANSFORMS]` of `{transformer, data}`; the node's `rfd/wfd`, which hooks rewire | possible, setup, active, query, teardown all |
| Session registry | `io.c` 64-134, 436-472 | `sessions` list of `{s, id, start, type, owner}`; the `io_session_io` counter | register, unregister, find, listing |
| Console io commands | `io.c` 424-561 | none of their own | `io transformers`, `io sessions` and `io session <id>` (read-only); `io transformation add <id> <name>` (mutates a stack) |
| Module loader, reference counts | outside `src/` (spec 5, 6) | loaded modules, use counts | load (registers transformers); unload (refused while in use) |
| Delimited reader (not modelled) | `include/readline.h`: declarations only; the implementation is not in the repository | `readline_data`: buffer, pos, left, leftover, boundary state, waiting | init, readline, getn, set boundary, get until, append |
| Sendmail mailer | `modules/mod_sendmail.c` | a temporary file, errno | `sendmail()` (sync or async) and its result translation |
| Config interface, Makefile | `include/config.h`, `Makefile` | none | declarations and build rules only |

### How the parts interact

**Connections and setup.**
- Each connection has a worker thread that owns its stack.
- Protocol modules call `bbs_io_transform_setup` on the stack (STARTTLS, COMPRESS).
- Setup reads the shared transformer list under its read lock. It holds that lock while the transformer's `setup` hook runs, and that hook may perform a TLS handshake.
- The hook rewires the node's `rfd/wfd` through its own intermediary.
- On success the slot is stored and the owning module is referenced.
- The node's close path unregisters the session and tears the stack down.

**Console.** Console threads reach another connection's stack through the session registry. `io transformation add` holds the sessions *read* lock and calls the same setup with the node's `rfd/wfd`.

**Loader.** The module loader registers and unregisters transformers under the list's write lock. It refuses to unload a module whose use count is positive.

**Mailer.** Independent of all of this, `sendmail()` writes a message to a temporary file and pipes it to `/usr/sbin/sendmail`:
- either synchronously, removing the file itself;
- or through a backgrounded shell that deletes the file.

## 2. Modules

| Module | Models | State ↔ code |
|---|---|---|
| `TransformStack` | the abstract promise of a stack (spec 4.2) | `layers[c]`: the kinds wrapping the endpoint, innermost first. `Push` requires an absent kind, no TLS over deflate, and free capacity. `Clear` empties it. |
| `IoTransform` | io.c setup, teardown, sessions and console add, plus the loader, running concurrently | `registry` = the `transformers` list. `slots[c][i]` = `{transformer, data != NULL}`. `rfd[c]` = the chain of intermediaries spliced into `node->rfd`. `modref` = the module use counts. `sessions` and `sessionId` = the sessions list and its counter. `tRd`/`sRd` = the holders of the two read locks across steps. `pc` and `op` = each thread's position and the locals of its setup call. `loader` = the module being unloaded. |
| `Sendmail` | `sendmail()` | `pc` = the position in the function. `async` = the argument. `tmp` = the temporary file. `outcome` = the exec helper's return and errno. `errno` = the thread's errno. `bg` = the backgrounded subshell. `result` = the return value. |
| `MC*` | instantiations for TLC | constants, transformer tables, byte streams |

### `IoTransform`

`bbs_io_transform_setup` is split at the points where another thread can run:

| Action | Lines | What it models |
|---|---|---|
| `SetupPossible` | 311 | runs before any lock |
| `SetupFind` | 315-337 | read lock, free slot, lookup by type and direction |
| `SetupHookBegin` | — | the hook reads `*rfd` |
| `SetupHookFail` / `SetupHookOk` | 339-356 | the hook writes `*rfd`; on success `io_transform_store` takes the first slot whose transformer is NULL and writes its data (or, with no such slot, cleanup runs with `res = 1` and the lock is released) |
| `SetupStore` | 254-269, 349-350 | writes the slot's transformer, references the module, unlocks |

The console command is split the same way:

| Action | Lines | What it models |
|---|---|---|
| `CliCheckName` | 512 | the name check |
| `CliFind` | 522-536 | resolves the name's type with `transform_type_from_name`, takes the sessions read lock and enters setup |
| `CliUnlock` | 546 | releases the sessions lock |
| `CliShow` / `CliShowDone` | 474-501 | `io session <id>`: under both read locks, prints the name of the transformer of every slot with data; unlock |
| `CliListTransformers` / `CliListSessions` / `CliListDone` | 424-460 | `io transformers` under the transformers read lock, `io sessions` under the sessions read lock; unlock |

`CliCommand` is the command table `cli_commands_io` (551-561): a console thread runs any of the four commands.

The connection's own steps:
- it queries its stack (`ConnQuery`/`ConnQueryDone`, `bbs_io_transform_query`, 377-399) for the kinds in `QueryTypes`;
- it negotiates a kind only after its pre-check `bbs_io_transformer_available` (221-239) found it, as spec 4.1 says callers do;
- it closes in two steps: `ConnClose` enters `bbs_io_session_unregister` and blocks in the write lock, and `ConnUnregister` is granted the lock and removes the session.

`seen[th]` is the set of transformer pointers that thread `th`'s current traversal dereferenced: `active` inside `possible`, query, `io session` and teardown all test a slot's `data` and then use `->transformer`. `None` in it is a NULL dereference. The set is cleared by the thread's next step.

Writers are single steps guarded by "no reader holds the lock": register, unregister, session register and session unregister.

Two actions come from outside `src/` and are modelled from the spec:
- the connection's protocol (`ConnNegotiate`);
- the loader's use-count check (`UnloadCheck`).

`IoTransform` refines `TransformStack` under the mapping `layers[c] = kinds of rfd[c]`, which is empty once the stack is closed. `AbstractStackSpec` is checked as a property.

### `Sendmail`

`sendmail()` is modelled whole. The model keeps:
- the `eaccess` and `mkftemp` early returns;
- the async path (`fclose`, then `/bin/sh -c "... && rm file &"`);
- the sync path (exec, `fclose`, `remove`);
- the translation of the helper's result and errno.

The environment is modelled as follows:
- The exec helper's outcomes are a small set of exit codes and `(-1, errno)` pairs.
- Whether another process removed the file from `/tmp` before `remove()` is a nondeterministic choice (`Reaped`).

## 3. Runs

| Run | Expect | Checks | Shows |
|---|---|---|---|
| `conn` | pass | TypeOK, NoNullTransformerDeref, EncryptionBeneathCompression, ModuleRefsMatchSlots, ClosedStackReleased, AbstractStackSpec, UnloadCompletes | Two connections negotiate TLS and deflate with 2 slots and up to 3 sessions, while the loader cycles the unused modules. When one thread owns each stack, the split setup is safe, refines the atomic stack, and every unload completes. |
| `cli` | pass | ModuleRefsMatchSlots, ClosedStackReleased, CloseCompletes | One connection that queries every kind and closes, while a console runs every io command: add logging (hooks may fail), io session, and both listings. Use counts stay exact and the closed stack is empty, because the console holds the sessions read lock across setup. A close waiting for the sessions write lock always gets it, because every console command gives the lock back. |
| `cli_lost_layer` | violation | LayersMatchSlots | Both hooks rewire `node->rfd`. An active TLS slot's intermediary is bypassed. |
| `unload_race` | violation | NoDanglingTransformer | An unload after a zero use count, with a setup storing and referencing in between. The slot points to a freed transformer. |
| `unload_starved` | violation | UnloadCompletes | Two connections whose TLS hooks overlap keep the transformers read lock held forever. A fair loader never unloads. |
| `sendmail` | pass | TypeOK, ResultReportsDelivery, TempFileRemoved | Both paths and every exec outcome, with shells that start and nothing else touching `/tmp`. The result reports delivery exactly when the message was delivered, and the temporary file is eventually removed. |
| `sendmail_errno` | violation | ResultReportsDelivery | An exec returning -1/ECHILD (delivered) followed by a `remove()` that fails with ENOENT. The stale errno turns the result into -1. |
| `sendmail_leak` | violation | TempFileRemoved | The async path with a shell that never starts. The file is never deleted. |
| `cli_slot_race` | violation | ModuleRefsMatchSlots | The console adds logging while the node's thread stores TLS: both stores find slot 1's transformer NULL, logging overwrites TLS, and the TLS module keeps a reference no slot accounts for. |
| `cli_null_deref` | violation | NoNullTransformerDeref | `io session` runs while the node thread has written slot 1's data but not its transformer, and reads `t->name` through NULL. |

### Bounds

**IoTransform.**
- Two slots are enough, with three kinds, to reach both exhaustion and the race for the last slot.
- Two connections exercise the module use counts across stacks.
- A client-only TLS transformer is registered before the server one, so the lookup skips by direction.
- Three sessions let each connection close and reopen.
- The console runs have one connection and one console: two threads are all either race needs.
- The `conn` run queries no kind (`QueryTypes = {}`). It has no console, so a query races nothing there, and leaving queries out keeps the run near 2 minutes. The `cli` and `cli_null_deref` runs query every kind.
- One console in `cli` is also what makes `CloseCompletes` hold. Two consoles whose commands overlap forever would keep the sessions read lock held, like the TLS hooks of `unload_starved`. A sysop typing commands does not do that, so the run does not assume it.

**Sendmail.** The outcome set contains:
- exit codes 0, 1 and 127;
- -1 with ECHILD, EAGAIN or EINTR.

### Fairness

The `LiveSpec` of `IoTransform` assumes the following:
- **Weak fairness on each connection thread's setup steps.** A running thread is scheduled.
- **Weak fairness on `ConnTeardown`.** Connections end; the BBS closes idle nodes.
- **Weak fairness on `CliUnlock`, `CliShowDone` and `CliListDone`.** A console command returns.
- **Strong fairness on `ConnUnregister`.** A closing node blocked in the sessions write lock gets it when the lock is free, for the same glibc reason as the loader.
- **Strong fairness on `UnloadModule`.** glibc grants a free rwlock to a waiting writer. With `UnloadModule` enabled infinitely often, it eventually gets the lock. The loader is *not* assumed to win against continuously present readers: glibc's default rwlock prefers readers, and `unload_starved` shows the consequence.

`Sendmail` assumes weak fairness on the call's steps and on the background shell, which is a process the kernel schedules. The runs that check liveness set `CHECK_DEADLOCK FALSE`, because the server may go idle or the call may return.

### Mutants

Each property of a passing run is broken by a plausible bug in a mapped definition:

| Run | Mutated definitions |
|---|---|
| `conn` | traversal dereferencing slots without testing data; ordering check dropped; duplicate check dropped; teardown without unref; teardown unreferencing twice; teardown loop one short; a store that does not release the read lock |
| `cli` | io session that keeps the sessions read lock; store without the module reference; console releasing the sessions lock before setup |
| `sendmail` | translation of the raw result; translation without the ECHILD case; sync path without `remove()` |

## 4. Findings

The findings are in `PROJECT.json`, under "findings":

- **Single-writer assumption broken.** The console command runs setup on another thread's stack (spec 5). This loses an intermediary of the endpoint while its slot stays active.
- **Two stores claim one slot.** `io_transform_store` looks for a NULL transformer and writes data then transformer under a shared read lock; a console and the node thread both take the same slot, and one transformation and its module reference are lost. The comment at io.c:267 says this cannot happen.
- **NULL transformer dereferenced.** Because data is written first, `io session` (and `active`, query and teardown) can see a slot with data and a NULL transformer.
- **Reference taken late.** The module reference is taken after the hook, which leads to the unload race.
- **Writer starvation.** Holding the transformers read lock across the hook can starve a module unload. Spec 5 accepts the lock being held, but not the starvation.
- **`sendmail()` reads a stale errno.** It reads errno after `fclose()` and `remove()` to recognise ECHILD, so a failed `remove()` turns a delivered message into an error.
- **`sendmail()` leaks the temporary file.** The async path leaks it when the backgrounding shell never starts.

## 5. Not modelled, and plan

Not modelled:
- the body of a transformer's `query` callback, which lives in modules outside `src/`;
- the content of `rfd/wfd` beyond the chain of intermediaries;
- transformer internals;
- the strcasecmp duplicate-name refusal and calloc failure of registration; every module in the model registers distinct names;
- hooks that return NULL data, because whether an in-tree hook can do so is decided by modules outside `src/`;
- the delimited reader: `src/` holds only `readline.h`, a struct and prototypes with doc comments, and the implementation is not in the repository. A model of it could only restate spec 4.4, and its properties would hold whatever the code does;
- the console command's choice of transformer: `io transformation add` resolves the name to its kind and sets up the first transformer of that kind, as spec 4.1 and 4.3 describe. It is meant for the logging transformer (io.c:517-520), which is what the console runs give it;
- `mod_sendmail`'s load/unload, which only register the mailer with a list outside `src/`;
- the config interface and Makefile.

What is left cannot be modelled faithfully from this repository:
- **The reader, its timeouts and STARTTLS between two reads.** All of these depend on the reader's implementation or on the protocol handlers, and neither is in the repository.
- **The session counter's wrap.** Reusing a live id takes 2^32 registrations while one session stays open. A faithful 32-bit counter is out of TLC's reach, and a narrowed one would not be this code.
