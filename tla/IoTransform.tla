----------------------------- MODULE IoTransform -----------------------------
(***************************************************************************)
(* The I/O transformation core of src/bbs/io.c as it runs concurrently:    *)
(*  - every connection's worker thread negotiates transformations on its   *)
(*    own stack (bbs_io_transform_setup) and tears them down on close;     *)
(*  - sysop console threads run the io commands: "io transformation add"  *)
(*    calls the same setup on another connection's stack while holding    *)
(*    the sessions list read lock; the listings hold a read lock;          *)
(*  - the module loader registers and unregisters a module's transformers. *)
(* Shared state: the transformers list, the sessions list, each stack's    *)
(* slot array, the endpoint (node->rfd) the setup hooks rewire, and the    *)
(* module use counts.  The transformers list read lock is held by a setup  *)
(* across its hook; writers (register/unregister) are atomic steps that    *)
(* wait for no reader.  Transformer names are exact here: every module    *)
(* registers distinct names, so the case rules of registration never bite. *)
(***************************************************************************)
EXTENDS Naturals, Sequences, FiniteSets, SequencesExt

CONSTANTS
  Conns,         \* connections: one stack, one endpoint, one worker thread each
  Admins,        \* sysop console threads
  Mods,          \* extension modules that provide transformers
  Transformers,  \* registered transformer structs, one per name
  None,          \* NULL
  TypeOf,        \* t->type
  DirOf,         \* t->dir, as the set of direction bits it supports
  ModOf,         \* t->module
  InitRegistry,  \* the transformers list after startup, in load order
  MaxSlots,      \* MAX_IO_TRANSFORMS
  ConnTypes,     \* kinds a connection's protocol negotiates itself
  QueryTypes,    \* kinds a connection's protocol queries (bbs_io_transform_query)
  ConnDir,       \* direction bits a connection asks for
  CliDir,        \* TRANSFORM_SERVER_CLIENT_TX_RX
  AdminNames,    \* transformer names a sysop may give to "io transformation add"
  Unloadable,    \* modules the loader may unload during the run
  HookData,      \* whether a successful setup hook leaves non-NULL private data
  HookMayFail,   \* whether a setup hook may decline (a failed handshake)
  MaxSessions    \* bound on io_session_io (number of sessions registered)

Types == {"tls", "deflate", "log"}

ASSUME /\ TypeOf \in [Transformers -> Types]
       /\ ModOf \in [Transformers -> Mods]
       /\ InitRegistry \in Seq(Transformers)
       /\ MaxSlots \in Nat \ {0}
       /\ ConnTypes \subseteq Types /\ QueryTypes \subseteq Types
       /\ AdminNames \subseteq Transformers
       /\ Unloadable \subseteq Mods
       /\ HookData \subseteq BOOLEAN /\ HookData # {}
       /\ HookMayFail \in BOOLEAN
       /\ MaxSessions \in Nat

VARIABLES
  registry,   \* the transformers list (RWLIST, insertion order)
  loaded,     \* modules currently loaded
  modref,     \* module use counts (bbs_module_ref / bbs_module_unref)
  slots,      \* slots[c][i]: trans->transformations[i] = [tr, data /= NULL]
  rfd,        \* rfd[c]: transformers whose intermediary c's endpoint passes through
  sessions,   \* the sessions list: [id, stack]
  sessionId,  \* io_session_io
  tRd,        \* threads holding the transformers read lock across a setup
              \* hook or the io transformers listing
  sRd,        \* console threads holding the sessions read lock (setup from
              \* the console, io session, io sessions)
  pc,         \* program counter of each connection and console thread
  op,         \* the locals of the setup call a thread is in
  loader,     \* "idle", or the module whose unload passed the use count check
  seen        \* seen[th]: the transformer pointers th dereferenced in its
              \* current traversal (possible, query, io session, teardown);
              \* cleared by the thread's next step

vars == <<registry, loaded, modref, slots, rfd, sessions, sessionId,
          tRd, sRd, pc, op, loader, seen>>

Threads == Conns \cup Admins
EmptySlot == [tr |-> None, data |-> FALSE]
TransformersOf(m) == {t \in Transformers : ModOf[t] = m}
Least(S) == CHOOSE i \in S : \A j \in S : i <= j
Registered(t) == t \in ToSet(registry)

(***************************************************************************)
(* Helpers of io.c.                                                        *)
(***************************************************************************)

\* The slots a traversal visits: those whose data is set.
DataSlots(s) == {i \in 1..MaxSlots : slots[s][i].data}

IsKind(s, i, k) == slots[s][i].tr # None /\ TypeOf[slots[s][i].tr] = k

\* Mutant: the traversal dereferences every slot's transformer, without
\* testing the data first.
DerefsNoDataCheck(s, k) ==
  LET hits == {i \in 1..MaxSlots : IsKind(s, i, k)}
  IN {slots[s][i].tr : i \in {j \in 1..MaxSlots : hits = {} \/ j <= Least(hits)}}

\* bbs_io_transform_active (and the loop of bbs_io_transform_query): the
\* transformer of every slot with data is dereferenced for its type, up
\* to the first of kind k.
Derefs(s, k) ==
  LET hits == {i \in DataSlots(s) : IsKind(s, i, k)}
  IN {slots[s][i].tr : i \in {j \in DataSlots(s) : hits = {} \/ j <= Least(hits)}}

\* bbs_io_transform_active: an occupied slot (data set) of kind k.
Active(s, k) == \E i \in DataSlots(s) : IsKind(s, i, k)

\* Mutant: the ordering rule between encryption and compression dropped.
TransformPossibleNoOrder(s, k) == ~Active(s, k)

\* Mutant: the duplicate check dropped.
TransformPossibleNoDup(s, k) == ~(k = "tls" /\ Active(s, "deflate"))

\* What __bbs_io_transform_possible dereferences: the traversal for k, then
\* for deflate when k is TLS and not yet active.
PossibleDerefs(s, k) ==
  Derefs(s, k) \cup (IF k = "tls" /\ ~Active(s, k) THEN Derefs(s, "deflate") ELSE {})

\* __bbs_io_transform_possible: no duplicate kind, no encryption after
\* compression.
TransformPossible(s, k) ==
  /\ ~Active(s, k)
  /\ ~(k = "tls" /\ Active(s, "deflate"))

\* io_transform_slots_free: a slot without a transformer.
FreeSlots(s) == {i \in 1..MaxSlots : slots[s][i].tr = None}

\* The RWLIST_TRAVERSE in bbs_io_transform_setup: the first transformer in
\* list order whose direction mask meets the request and whose type is k.
FindTransformer(k, dir) ==
  LET ok == {i \in DOMAIN registry :
               DirOf[registry[i]] \cap dir # {} /\ TypeOf[registry[i]] = k}
  IN IF ok = {} THEN None ELSE registry[Least(ok)]

\* find_io_session: the first session with this id.
\* bbs_io_transformer_available (lines 221-239): some registered
\* transformer is of kind k.
TransformerAvailable(k) == \E i \in DOMAIN registry : TypeOf[registry[i]] = k

FindSession(id) ==
  LET ok == {i \in DOMAIN sessions : sessions[i].id = id}
  IN IF ok = {} THEN None ELSE sessions[Least(ok)]

\* transform_type_from_name: the type of the transformer registered under
\* this name, or None for -1.
TransformTypeFromName(n) == IF Registered(n) THEN TypeOf[n] ELSE None

GoTo(th, to) == pc' = [pc EXCEPT ![th] = to]

(***************************************************************************)
(* bbs_io_transform_setup, one action per step between which another       *)
(* thread may run.                                                         *)
(***************************************************************************)

\* Line 311: the possibility check, done before taking the list lock.
SetupPossible(th) ==
  /\ pc[th] = "possible"
  /\ IF TransformPossible(op[th].stack, op[th].type)
       THEN GoTo(th, "find")
       ELSE GoTo(th, op[th].ret)
  /\ seen' = [seen EXCEPT ![th] = PossibleDerefs(op[th].stack, op[th].type)]
  /\ UNCHANGED <<registry, loaded, modref, slots, rfd, sessions, sessionId,
                 tRd, sRd, op, loader>>

\* Lines 315-337: read lock, free slot check, transformer lookup; the lock
\* is kept only when the hook is about to run.
SetupFind(th) ==
  LET t == FindTransformer(op[th].type, op[th].dir)
  IN /\ pc[th] = "find"
     /\ IF FreeSlots(op[th].stack) # {} /\ t # None
          THEN /\ tRd' = tRd \cup {th}
               /\ op' = [op EXCEPT ![th].tr = t]
               /\ GoTo(th, "hook")
          ELSE /\ GoTo(th, op[th].ret)
               /\ UNCHANGED <<tRd, op>>
     /\ seen' = [seen EXCEPT ![th] = {}]
     /\ UNCHANGED <<registry, loaded, modref, slots, rfd, sessions, sessionId,
                    sRd, loader>>

\* Line 339, first half: the hook reads the endpoint *rfd it will wrap.
SetupHookBegin(th) ==
  /\ pc[th] = "hook"
  /\ op' = [op EXCEPT ![th].snap = rfd[op[th].stack]]
  /\ GoTo(th, "hooked")
  /\ UNCHANGED <<registry, loaded, modref, slots, rfd, sessions, sessionId,
                 tRd, sRd, loader, seen>>

\* Mutant: the error path returns without releasing the list lock.
SetupHookFailNoUnlock(th) ==
  /\ pc[th] = "hooked" /\ HookMayFail
  /\ GoTo(th, op[th].ret)
  /\ UNCHANGED <<registry, loaded, modref, slots, rfd, sessions, sessionId,
                 tRd, sRd, op, loader, seen>>

\* The hook declines (res /= 0): nothing stored, lock released.
SetupHookFail(th) ==
  /\ pc[th] = "hooked" /\ HookMayFail
  /\ tRd' = tRd \ {th}
  /\ GoTo(th, op[th].ret)
  /\ UNCHANGED <<registry, loaded, modref, slots, rfd, sessions, sessionId,
                 sRd, op, loader, seen>>

\* The hook succeeds: *rfd now names its intermediary over what it read.
\* Lines 342-353: io_transform_store (lines 254-269) takes the first slot
\* without a transformer and writes its data (line 260); with no such
\* slot left, cleanup runs (it is given only the transformation, so the
\* endpoint stays rewired), res = 1 and the lock is released.
SetupHookOk(th) ==
  LET s == op[th].stack
      t == op[th].tr
  IN /\ pc[th] = "hooked"
     /\ rfd' = [rfd EXCEPT ![s] = Append(op[th].snap, t)]
     /\ IF FreeSlots(s) # {}
          THEN \E d \in HookData :
                 /\ slots' = [slots EXCEPT ![s][Least(FreeSlots(s))].data = d]
                 /\ op' = [op EXCEPT ![th].slot = Least(FreeSlots(s))]
                 /\ GoTo(th, "store")
                 /\ UNCHANGED tRd
          ELSE /\ tRd' = tRd \ {th}
               /\ GoTo(th, op[th].ret)
               /\ UNCHANGED <<slots, op>>
     /\ UNCHANGED <<registry, loaded, modref, sessions, sessionId, sRd,
                    loader, seen>>

\* Mutant: the module is not referenced after the store.
SetupStoreNoRef(th) ==
  LET s == op[th].stack
      t == op[th].tr
  IN /\ pc[th] = "store"
     /\ slots' = [slots EXCEPT ![s][op[th].slot].tr = t]
     /\ tRd' = tRd \ {th}
     /\ GoTo(th, op[th].ret)
     /\ UNCHANGED <<registry, loaded, modref, rfd, sessions, sessionId, sRd,
                    op, loader, seen>>

\* Mutant: the success path returns without releasing the list lock.
SetupStoreNoUnlock(th) ==
  LET s == op[th].stack
      t == op[th].tr
  IN /\ pc[th] = "store"
     /\ slots' = [slots EXCEPT ![s][op[th].slot].tr = t]
     /\ modref' = [modref EXCEPT ![ModOf[t]] = @ + 1]
     /\ GoTo(th, op[th].ret)
     /\ UNCHANGED <<registry, loaded, rfd, sessions, sessionId, tRd, sRd,
                    op, loader, seen>>

\* Line 261, then 350-353: the slot's transformer is written, the module
\* referenced (bbs_module_ref) and the list lock released.
SetupStore(th) ==
  LET s == op[th].stack
      t == op[th].tr
  IN /\ pc[th] = "store"
     /\ slots' = [slots EXCEPT ![s][op[th].slot].tr = t]
     /\ modref' = [modref EXCEPT ![ModOf[t]] = @ + 1]
     /\ tRd' = tRd \ {th}
     /\ GoTo(th, op[th].ret)
     /\ UNCHANGED <<registry, loaded, rfd, sessions, sessionId, sRd, op,
                    loader, seen>>

SetupStep(th) ==
  \/ SetupPossible(th)
  \/ SetupFind(th)
  \/ SetupHookBegin(th)
  \/ SetupHookFail(th)
  \/ SetupHookOk(th)
  \/ SetupStore(th)

(***************************************************************************)
(* A connection's worker thread.                                           *)
(***************************************************************************)

\* A new connection gets a fresh stack and registers its session
\* (bbs_io_session_register).
ConnOpen(c) ==
  /\ pc[c] = "closed"
  /\ sessionId < MaxSessions
  /\ sRd = {}
  /\ slots' = [slots EXCEPT ![c] = [i \in 1..MaxSlots |-> EmptySlot]]
  /\ rfd' = [rfd EXCEPT ![c] = <<>>]
  /\ IF \E i \in DOMAIN sessions : sessions[i].stack = c
       THEN UNCHANGED <<sessions, sessionId>>
       ELSE /\ sessionId' = sessionId + 1
            /\ sessions' = Append(sessions, [id |-> sessionId + 1, stack |-> c])
  /\ seen' = [seen EXCEPT ![c] = {}]
  /\ GoTo(c, "running")
  /\ UNCHANGED <<registry, loaded, modref, tRd, sRd, op, loader>>

\* The protocol negotiates a transformation of kind k on its own stack
\* (e.g. STARTTLS, then COMPRESS), offered only when its pre-check
\* bbs_io_transformer_available(k) found a transformer of that kind.
ConnNegotiate(c, k) ==
  /\ pc[c] = "running"
  /\ TransformerAvailable(k)
  /\ op' = [op EXCEPT ![c] = [stack |-> c, type |-> k, dir |-> ConnDir,
                              tr |-> None, snap |-> <<>>, name |-> None,
                              ret |-> "running", slot |-> 0]]
  /\ GoTo(c, "possible")
  /\ seen' = [seen EXCEPT ![c] = {}]
  /\ UNCHANGED <<registry, loaded, modref, slots, rfd, sessions, sessionId,
                 tRd, sRd, loader>>

\* bbs_io_transform_query for kind k, by the protocol on its own stack
\* (lines 377-399): under the list read lock, the first slot with data of
\* kind k is queried; every transformer visited is dereferenced.
ConnQuery(c, k) ==
  /\ pc[c] = "running"
  /\ seen' = [seen EXCEPT ![c] = Derefs(c, k)]
  /\ GoTo(c, "query")
  /\ UNCHANGED <<registry, loaded, modref, slots, rfd, sessions, sessionId,
                 tRd, sRd, op, loader>>

\* The query returns to the protocol.
ConnQueryDone(c) ==
  /\ pc[c] = "query"
  /\ seen' = [seen EXCEPT ![c] = {}]
  /\ GoTo(c, "running")
  /\ UNCHANGED <<registry, loaded, modref, slots, rfd, sessions, sessionId,
                 tRd, sRd, op, loader>>

\* Closing: the node thread calls bbs_io_session_unregister and blocks in
\* RWLIST_WRLOCK until no console holds the sessions read lock.
ConnClose(c) ==
  /\ pc[c] = "running"
  /\ seen' = [seen EXCEPT ![c] = {}]
  /\ GoTo(c, "unregister")
  /\ UNCHANGED <<registry, loaded, modref, slots, rfd, sessions, sessionId,
                 tRd, sRd, op, loader>>

\* The write lock is granted: the session is removed from the list.
ConnUnregister(c) ==
  /\ pc[c] = "unregister"
  /\ sRd = {}
  /\ sessions' = RemoveFirstMatch(sessions, LAMBDA e : e.stack = c)
  /\ GoTo(c, "teardown")
  /\ UNCHANGED <<registry, loaded, modref, slots, rfd, sessionId,
                 tRd, sRd, op, loader, seen>>

\* Mutant: teardown forgets bbs_module_unref.
ConnTeardownNoUnref(c) ==
  LET gone == {i \in 1..MaxSlots : slots[c][i].data}
  IN /\ pc[c] = "teardown"
     /\ slots' = [slots EXCEPT ![c] =
                    [i \in 1..MaxSlots |-> IF i \in gone THEN EmptySlot
                                                         ELSE slots[c][i]]]
     /\ seen' = [seen EXCEPT ![c] = {slots[c][i].tr : i \in gone}]
     /\ GoTo(c, "closed")
     /\ UNCHANGED <<registry, loaded, modref, rfd, sessions, sessionId,
                    tRd, sRd, op, loader>>

\* Mutant: teardown's loop stops one slot short.
ConnTeardownShort(c) ==
  LET gone == {i \in 1..(MaxSlots - 1) : slots[c][i].data}
  IN /\ pc[c] = "teardown"
     /\ slots' = [slots EXCEPT ![c] =
                    [i \in 1..MaxSlots |-> IF i \in gone THEN EmptySlot
                                                         ELSE slots[c][i]]]
     /\ modref' = [m \in Mods |-> modref[m] -
                     Cardinality({i \in gone : slots[c][i].tr \in TransformersOf(m)})]
     /\ seen' = [seen EXCEPT ![c] = {slots[c][i].tr : i \in gone}]
     /\ GoTo(c, "closed")
     /\ UNCHANGED <<registry, loaded, rfd, sessions, sessionId,
                    tRd, sRd, op, loader>>

\* Mutant: teardown unreferences the module twice per slot.
ConnTeardownDoubleUnref(c) ==
  LET gone == {i \in 1..MaxSlots : slots[c][i].data}
  IN /\ pc[c] = "teardown"
     /\ slots' = [slots EXCEPT ![c] =
                    [i \in 1..MaxSlots |-> IF i \in gone THEN EmptySlot
                                                         ELSE slots[c][i]]]
     /\ modref' = [m \in Mods |-> modref[m] -
                     2 * Cardinality({i \in gone : slots[c][i].tr \in TransformersOf(m)})]
     /\ seen' = [seen EXCEPT ![c] = {slots[c][i].tr : i \in gone}]
     /\ GoTo(c, "closed")
     /\ UNCHANGED <<registry, loaded, rfd, sessions, sessionId,
                    tRd, sRd, op, loader>>

\* bbs_io_teardown_all_transformers: every slot with data is cleaned up
\* through its transformer (teardown_transformation), cleared, and its
\* module unreferenced.
ConnTeardown(c) ==
  LET gone == {i \in 1..MaxSlots : slots[c][i].data}
  IN /\ pc[c] = "teardown"
     /\ slots' = [slots EXCEPT ![c] =
                    [i \in 1..MaxSlots |-> IF i \in gone THEN EmptySlot
                                                         ELSE slots[c][i]]]
     /\ modref' = [m \in Mods |-> modref[m] -
                     Cardinality({i \in gone : slots[c][i].tr \in TransformersOf(m)})]
     /\ seen' = [seen EXCEPT ![c] = {slots[c][i].tr : i \in gone}]
     /\ GoTo(c, "closed")
     /\ UNCHANGED <<registry, loaded, rfd, sessions, sessionId,
                    tRd, sRd, op, loader>>

(***************************************************************************)
(* A console thread: cli_io_session_transformation_add.                    *)
(***************************************************************************)

\* Line 512: bbs_io_named_transformer_available (exact name).
CliCheckName(a, t) ==
  /\ pc[a] = "idle"
  /\ Registered(t)
  /\ op' = [op EXCEPT ![a].name = t]
  /\ GoTo(a, "cli_find")
  /\ UNCHANGED <<registry, loaded, modref, slots, rfd, sessions, sessionId,
                 tRd, sRd, loader, seen>>

CliFind(a, id) ==
  LET e == FindSession(id)
      t == op[a].name
      k == TransformTypeFromName(t)
  IN /\ pc[a] = "cli_find"
     /\ IF e = None \/ k = None
          THEN /\ GoTo(a, "idle")
               /\ UNCHANGED <<sRd, op>>
          ELSE /\ sRd' = sRd \cup {a}
               /\ op' = [op EXCEPT ![a] = [stack |-> e.stack, type |-> k,
                                           dir |-> CliDir, tr |-> None,
                                           snap |-> <<>>, name |-> t,
                                           ret |-> "cli_unlock", slot |-> 0]]
               /\ GoTo(a, "possible")
     /\ UNCHANGED <<registry, loaded, modref, slots, rfd, sessions, sessionId,
                    tRd, loader, seen>>

\* Line 546: the sessions lock is released after the setup returned.
CliUnlock(a) ==
  /\ pc[a] = "cli_unlock"
  /\ sRd' = sRd \ {a}
  /\ GoTo(a, "idle")
  /\ seen' = [seen EXCEPT ![a] = {}]
  /\ UNCHANGED <<registry, loaded, modref, slots, rfd, sessions, sessionId,
                 tRd, op, loader>>

\* cli_io_session (lines 474-501): sessions read lock, find_io_session,
\* then, under the transformers read lock, the name of the transformer of
\* every slot with data is printed.  An unknown id prints an error and
\* changes nothing.
CliShow(a, id) ==
  LET e == FindSession(id)
  IN /\ pc[a] = "idle"
     /\ e # None
     /\ sRd' = sRd \cup {a}
     /\ seen' = [seen EXCEPT ![a] = {slots[e.stack][i].tr : i \in DataSlots(e.stack)}]
     /\ GoTo(a, "show")
     /\ UNCHANGED <<registry, loaded, modref, slots, rfd, sessions, sessionId,
                    tRd, op, loader>>

\* Line 498: the sessions lock is released.
\* Mutant: io session returns without releasing the sessions lock.
CliShowDoneNoUnlock(a) ==
  /\ pc[a] = "show"
  /\ GoTo(a, "idle")
  /\ seen' = [seen EXCEPT ![a] = {}]
  /\ UNCHANGED <<registry, loaded, modref, slots, rfd, sessions, sessionId,
                 tRd, sRd, op, loader>>

CliShowDone(a) ==
  /\ pc[a] = "show"
  /\ sRd' = sRd \ {a}
  /\ GoTo(a, "idle")
  /\ seen' = [seen EXCEPT ![a] = {}]
  /\ UNCHANGED <<registry, loaded, modref, slots, rfd, sessions, sessionId,
                 tRd, op, loader>>

\* cli_io_transformers (lines 424-433): the name of every registered
\* transformer is printed under the transformers read lock.
CliListTransformers(a) ==
  /\ pc[a] = "idle"
  /\ tRd' = tRd \cup {a}
  /\ GoTo(a, "list_transformers")
  /\ UNCHANGED <<registry, loaded, modref, slots, rfd, sessions, sessionId,
                 sRd, op, loader, seen>>

\* cli_io_sessions (lines 435-460): every session is printed under the
\* sessions read lock; the stack is printed as a pointer, not followed.
CliListSessions(a) ==
  /\ pc[a] = "idle"
  /\ sRd' = sRd \cup {a}
  /\ GoTo(a, "list_sessions")
  /\ UNCHANGED <<registry, loaded, modref, slots, rfd, sessions, sessionId,
                 tRd, op, loader, seen>>

\* The listing is printed and its lock released.
CliListDone(a) ==
  /\ pc[a] \in {"list_transformers", "list_sessions"}
  /\ tRd' = tRd \ {a}
  /\ sRd' = sRd \ {a}
  /\ GoTo(a, "idle")
  /\ UNCHANGED <<registry, loaded, modref, slots, rfd, sessions, sessionId,
                 op, loader, seen>>

\* cli_commands_io (lines 551-556): the four io commands a console runs.
CliCommand(a) ==
  \/ \E t \in AdminNames : CliCheckName(a, t)
  \/ \E id \in 1..MaxSessions : CliFind(a, id)
  \/ CliUnlock(a)
  \/ \E id \in 1..MaxSessions : CliShow(a, id)
  \/ CliShowDone(a)
  \/ CliListTransformers(a)
  \/ CliListSessions(a)
  \/ CliListDone(a)

(***************************************************************************)
(* The module loader (outside io.c): loading registers the module's        *)
(* transformers; unloading is refused while the use count is positive,     *)
(* and otherwise the module's unload callback unregisters them.            *)
(***************************************************************************)

\* __bbs_io_transformer_register for each transformer of m, write lock.
LoadModule(m) ==
  /\ loader = "idle"
  /\ m \notin loaded
  /\ tRd = {}
  /\ loaded' = loaded \cup {m}
  /\ registry' = registry \o SetToSeq(TransformersOf(m))
  /\ UNCHANGED <<modref, slots, rfd, sessions, sessionId, tRd, sRd, pc, op, loader, seen>>

\* The loader's use count check.
UnloadCheck(m) ==
  /\ loader = "idle"
  /\ m \in loaded \cap Unloadable
  /\ modref[m] = 0
  /\ loader' = m
  /\ UNCHANGED <<registry, loaded, modref, slots, rfd, sessions, sessionId,
                 tRd, sRd, pc, op, seen>>

\* bbs_io_transformer_unregister for each transformer of the module,
\* write lock.
UnloadModule ==
  /\ loader \in Mods
  /\ tRd = {}
  /\ registry' = SelectSeq(registry, LAMBDA t : ModOf[t] # loader)
  /\ loaded' = loaded \ {loader}
  /\ loader' = "idle"
  /\ UNCHANGED <<modref, slots, rfd, sessions, sessionId, tRd, sRd, pc, op, seen>>

(***************************************************************************)
(* The specification.                                                      *)
(***************************************************************************)

Init ==
  /\ registry = InitRegistry
  /\ loaded = {ModOf[InitRegistry[i]] : i \in DOMAIN InitRegistry}
  /\ modref = [m \in Mods |-> 0]
  /\ slots = [c \in Conns |-> [i \in 1..MaxSlots |-> EmptySlot]]
  /\ rfd = [c \in Conns |-> <<>>]
  /\ sessions = <<>>
  /\ sessionId = 0
  /\ tRd = {}
  /\ sRd = {}
  /\ pc = [th \in Threads |-> IF th \in Conns THEN "closed" ELSE "idle"]
  /\ op = [th \in Threads |-> [stack |-> None, type |-> "log", dir |-> {},
                               tr |-> None, snap |-> <<>>, name |-> None,
                               ret |-> "idle", slot |-> 0]]
  /\ loader = "idle"
  /\ seen = [th \in Threads |-> {}]

Next ==
  \/ \E th \in Threads : SetupStep(th)
  \/ \E c \in Conns :
       \/ ConnOpen(c)
       \/ \E k \in ConnTypes : ConnNegotiate(c, k)
       \/ ConnClose(c)
       \/ ConnUnregister(c)
       \/ ConnTeardown(c)
       \/ \E k \in QueryTypes : ConnQuery(c, k)
       \/ ConnQueryDone(c)
  \/ \E a \in Admins : CliCommand(a)
  \/ \E m \in Mods : LoadModule(m) \/ UnloadCheck(m)
  \/ UnloadModule

Spec == Init /\ [][Next]_vars

\* Fairness the code gives: a thread inside setup, teardown or a console
\* command runs on (a hook returns: handshakes end or time out; a listing
\* ends).  A loader or a closing node blocked in a write lock gets it
\* whenever no reader holds it: glibc hands a free lock to a waiting
\* writer, so those steps are strongly fair.  Opening, negotiating,
\* deciding to close, issuing console commands and loads are choices of
\* users, owed nothing.
Fairness ==
  /\ \A th \in Threads : WF_vars(SetupStep(th))
  /\ \A c \in Conns : WF_vars(ConnTeardown(c))
  /\ \A a \in Admins : /\ WF_vars(CliUnlock(a))
                       /\ WF_vars(CliShowDone(a))
                       /\ WF_vars(CliListDone(a))
  /\ \A c \in Conns : SF_vars(ConnUnregister(c))
  /\ SF_vars(UnloadModule)

LiveSpec == Spec /\ Fairness

(***************************************************************************)
(* Properties.                                                             *)
(***************************************************************************)

TypeOK ==
  /\ registry \in Seq(Transformers)
  /\ loaded \subseteq Mods
  /\ modref \in [Mods -> Nat]
  /\ slots \in [Conns -> [1..MaxSlots -> [tr : Transformers \cup {None},
                                          data : BOOLEAN]]]
  /\ rfd \in [Conns -> Seq(Transformers)]
  /\ sessions \in Seq([id : 1..MaxSessions, stack : Conns])
  /\ tRd \subseteq Threads /\ sRd \subseteq Admins
  /\ loader \in Mods \cup {"idle"}
  /\ seen \in [Threads -> SUBSET (Transformers \cup {None})]

\* Spec 5 ("no read ever observes a half-installed transform"): the
\* traversals that test a slot's data and then dereference its transformer
\* (bbs_io_transform_active, bbs_io_transform_query, cli_io_session and
\* bbs_io_teardown_all_transformers) never meet a slot whose data is set and whose transformer is still NULL,
\* although io_transform_store writes the data first and another thread
\* may be storing on the same stack under the same read lock.
NoNullTransformerDeref == \A th \in Threads : None \notin seen[th]

\* Spec 4.1-4.2: the endpoint never passes through encryption on top of
\* compression: in the chain of intermediaries that setup hooks splice
\* into node->rfd, no TLS layer lies outside a deflate layer.
EncryptionBeneathCompression ==
  \A c \in Conns : \A i, j \in DOMAIN rfd[c] :
    (i < j /\ TypeOf[rfd[c][i]] = "deflate") => TypeOf[rfd[c][j]] # "tls"

\* Spec 5: a module's use count is exactly the number of slots, on all
\* stacks, holding one of its transformers: setup references the module
\* only when the transformation was stored, teardown unreferences it once.
ModuleRefsMatchSlots ==
  \A m \in Mods :
    modref[m] = Cardinality({<<c, i>> \in Conns \X (1..MaxSlots) :
                               slots[c][i].tr \in TransformersOf(m)})

\* Spec 5: a transformer stays registered (its struct is not freed) while
\* a slot refers to it: the use count taken by setup keeps the module's
\* unload from unregistering it.
NoDanglingTransformer ==
  \A c \in Conns : \A i \in 1..MaxSlots :
    slots[c][i].tr # None => Registered(slots[c][i].tr)

\* Spec 3 and 8: once a connection has closed (session unregistered, then
\* teardown), its stack holds nothing, although console threads may have
\* been adding a transformation to it while it closed.
ClosedStackReleased ==
  \A c \in Conns : pc[c] = "closed" => FreeSlots(c) = 1..MaxSlots

\* Spec 5 ("no read ever observes a half-installed transform"): on a live
\* connection with no setup hook in flight, the endpoint passes through
\* exactly the intermediaries of the transformations active on its stack.
HookInFlight(c) ==
  \E th \in Threads : pc[th] \in {"hooked", "store"} /\ op[th].stack = c
LayersMatchSlots ==
  \A c \in Conns :
    (pc[c] \notin {"teardown", "closed"} /\ ~HookInFlight(c))
      => ToSet(rfd[c]) = {slots[c][i].tr : i \in {j \in 1..MaxSlots : slots[c][j].data}}

\* Spec 5: a module whose use count was zero, once its unload has begun,
\* is eventually unregistered: the transformers write lock the unload
\* waits for is eventually granted, although setups on other connections
\* keep taking the read lock.
UnloadCompletes == \A m \in Mods : (loader = m) ~> (loader = "idle")

\* A node that closes is eventually closed: bbs_io_session_unregister waits
\* for the sessions write lock while console commands (io transformation
\* add across a whole setup, io session, io sessions) hold the read lock,
\* and every console command must give it back.
CloseCompletes == \A c \in Conns : (pc[c] = "unregister") ~> (pc[c] = "closed")

\* Refinement: a connection's endpoint evolves as TransformStack allows
\* (atomic pushes of an absent kind, never encryption over compression,
\* within capacity; all layers dropped at close).
Abstract == INSTANCE TransformStack WITH
  Kinds <- Types, Capacity <- MaxSlots,
  layers <- [c \in Conns |->
               IF pc[c] = "closed" THEN <<>>
               ELSE [i \in DOMAIN rfd[c] |-> TypeOf[rfd[c][i]]]]
AbstractStackSpec == Abstract!Spec

=============================================================================
