--------------------------- MODULE PluginLifecycle ---------------------------
(***************************************************************************)
(* The plugin host: class PluginManager of maxwell_core/plugins/manager.py.*)
(*                                                                         *)
(* Startup loads the plugins and completes their asynchronous setups; an   *)
(* owner reloads or uninstalls them; shutdown tears them down.  One of the *)
(* three long operations runs at a time (_lifecycle_lock), in the locations*)
(* where it awaits something (op.at); what runs between two awaits is one  *)
(* action, or several between which nothing can happen that could not have *)
(* happened before the first.  The caller of an operation may be cancelled *)
(* at each await.                                                          *)
(*                                                                         *)
(* What a plugin registers through its context (listeners, job specs,      *)
(* tools, hooks, services, views) is one flag.  A plugin has one job, one  *)
(* background task and one event handler at a time.  Manifests, imports    *)
(* and the code of plugins are choices: each may fail.                     *)
(***************************************************************************)
EXTENDS Naturals, FiniteSets

CONSTANTS
  Plugins,
  Deps,       \* the plugins each plugin requires
  Async,      \* plugins with an asynchronous setup
  Rank,       \* _resolve_load_order()
  Working,    \* plugins with listeners, jobs and background tasks
  Installed,  \* plugins that can be uninstalled
  MaxOps,     \* bound on reloads and teardowns
  MaxCancels, \* bound on cancelled callers
  None        \* nobody's hook or setup runs

ASSUME PluginsAssumption ==
  /\ Deps \in [Plugins -> SUBSET Plugins]
  /\ Rank \in [Plugins -> Nat]
  /\ \A p, q \in Plugins : Rank[p] = Rank[q] => p = q
  /\ \A p \in Plugins : \A d \in Deps[p] : Rank[d] < Rank[p]
  /\ Async \subseteq Plugins /\ Working \subseteq Plugins /\ Installed \subseteq Plugins
  /\ MaxOps \in Nat /\ MaxCancels \in Nat
  /\ None \notin [plugin : Plugins, gen : Nat]

VARIABLES
  gen,         \* number of load_plugins() calls
  loaded,      \* loaded_plugins
  late,        \* those that were loaded after the others, once their dependencies were set up
  complete,    \* those with setup_complete
  active,      \* those whose context is not retired
  registered,  \* plugins with registrations
  published,   \* plugins with tools in bot.tools
  enabled,     \* plugins enabled globally
  pending,     \* _pending_async_setup
  unclosed,    \* _pending_teardown
  jobsStarted, \* _jobs_started
  tasks,       \* tasks that are not over
  dying,       \* those that were cancelled, and so dropped from their group
  op,          \* the operation that holds _lifecycle_lock, and where it is
  boot,        \* how far startup has come
  draining,    \* bot._draining
  ops,         \* reloads and teardowns so far
  cancels,     \* cancelled callers so far
  brought,     \* ghost: plugins of each generation whose module was executed
  closed,      \* ghost: those whose teardown hook was called
  lost,        \* ghost: those uninstalled, or that a cancelled teardown dropped
  stray        \* ghost: cancelled tasks that nobody awaits

tables == <<loaded, late, complete, active, registered>>
pool == <<tasks, dying, jobsStarted>>
bounds == <<ops, cancels>>
ghosts == <<brought, closed, lost, stray>>
vars == <<gen, tables, published, enabled, pending, unclosed, pool, op, boot, draining, bounds, ghosts>>

Kinds == {"job", "background", "event"}
Task == [plugin : Plugins, gen : Nat, kind : Kinds]

\* A plugin of one load.
Instances == [plugin : Plugins, gen : Nat]
Now(S) == {[plugin |-> p, gen |-> gen] : p \in S}

\* The drains of _pending_teardown: in a teardown, before the setups, after a
\* failed setup, after a cancelled one.
Drains == {"flushing", "clearing", "undoing", "unwinding"}
Places == {"idle", "stopping", "joining", "closing", "loading", "setup"} \cup Drains

Operation ==
  [kind : {"none", "setup", "reload", "teardown"}, at : Places, join : SUBSET Task,
   todo : SUBSET Plugins, cur : Instances \cup {None}, failing : BOOLEAN]

\* join: the tasks a gather() awaits; todo: plugins whose hook is still to be
\* called; cur: whose hook or setup runs; failing: no load follows the teardown.
Idle == [kind |-> "none", at |-> "idle", join |-> {}, todo |-> {}, cur |-> None, failing |-> FALSE]

At(place) == op.at = place /\ op.cur = None
Goes(place) == [op EXCEPT !.at = place, !.cur = None]

Init ==
  /\ gen = 0
  /\ loaded = {} /\ late = {} /\ complete = {} /\ active = {} /\ registered = {}
  /\ published = {} /\ enabled = Plugins
  /\ pending = {} /\ unclosed = {}
  /\ jobsStarted = FALSE /\ tasks = {} /\ dying = {}
  /\ op = Idle /\ boot = "new" /\ draining = FALSE
  /\ ops = 0 /\ cancels = 0
  /\ brought = {} /\ closed = {} /\ lost = {} /\ stray = {}

-------------------------------------------------------------------------------
(* Registrations. *)

\* Tasks of the plugins in S that are in their groups.
Grouped(S, kinds) == {t \in tasks \ dying : t.plugin \in S /\ t.kind \in kinds}

\* is_plugin_enabled_for_user(), without a user
Usable(p) ==
  /\ p \in loaded => p \in complete
  /\ p \notin pending
  /\ p \in enabled

\* sync_bot_tools()
SyncTools == published' = {p \in registered' : Usable(p)'}

\* _clear_plugin_registrations() for each plugin of S
Clear(S) ==
  /\ active' = active \ S
  /\ pending' = pending \ S
  /\ registered' = registered \ S
  /\ dying' = dying \cup Grouped(S, Kinds)
  /\ stray' = stray \cup Grouped(S, Kinds)

\* Mutant: a plugin that was rolled back stays in loaded_plugins.
RollbackListed(S) ==
  /\ Clear(S)
  /\ unclosed' = unclosed \cup Now(S \cap loaded)
  /\ complete' = complete \ S
  /\ UNCHANGED <<loaded, late>>

\* Mutant: it leaves loaded_plugins first, so that its context is not found.
RollbackUnretired(S) ==
  /\ registered' = registered \ S /\ pending' = pending \ S
  /\ dying' = dying \cup Grouped(S, Kinds)
  /\ stray' = stray \cup Grouped(S, Kinds)
  /\ unclosed' = unclosed \cup Now(S \cap loaded)
  /\ loaded' = loaded \ S
  /\ late' = late \ S
  /\ complete' = complete \ S
  /\ UNCHANGED active

\* _rollback_plugin() for each plugin of S: one without a module has no hook.
Rollback(S) ==
  /\ Clear(S)
  /\ unclosed' = unclosed \cup Now(S \cap loaded)
  /\ loaded' = loaded \ S
  /\ late' = late \ S
  /\ complete' = complete \ S

\* start_jobs()
StartJobs ==
  IF ~jobsStarted /\ pending = {} /\ loaded \subseteq complete
    THEN /\ jobsStarted' = TRUE
         /\ tasks' = tasks \cup {[plugin |-> p, gen |-> gen, kind |-> "job"] : p \in registered \cap Working}
    ELSE UNCHANGED <<jobsStarted, tasks>>

-------------------------------------------------------------------------------
(* Plugins at work. *)

\* dispatch_event().  A plugin is enabled for everyone or for nobody here; the code
\* may also ask the user or the server, an answer that Toggle changes at any time.
Dispatch(p) ==
  LET t == [plugin |-> p, gen |-> gen, kind |-> "event"]
  IN /\ ~draining /\ p \in registered \cap Working /\ Usable(p)
     /\ t \notin tasks
     /\ tasks' = tasks \cup {t}
     /\ UNCHANGED <<gen, tables, published, enabled, pending, unclosed, dying, jobsStarted, op, boot,
                    draining, bounds, ghosts>>

\* ctx.spawn(), from any code of the plugin that has its context
Spawn(p) ==
  LET t == [plugin |-> p, gen |-> gen, kind |-> "background"]
  IN /\ ~draining /\ p \in registered \cap active \cap Working
     /\ t \notin tasks
     /\ tasks' = tasks \cup {t}
     /\ UNCHANGED <<gen, tables, published, enabled, pending, unclosed, dying, jobsStarted, op, boot,
                    draining, bounds, ghosts>>

\* A job goes on until it is cancelled or the bot drains.
TaskEnds ==
  \E t \in tasks :
    /\ t.kind = "job" => t \in dying \/ draining
    /\ tasks' = tasks \ {t} /\ dying' = dying \ {t} /\ stray' = stray \ {t}
    /\ UNCHANGED <<gen, tables, published, enabled, pending, unclosed, jobsStarted, op, boot, draining,
                   bounds, brought, closed, lost>>

\* enable_plugin() and disable_plugin(), from a tool call or the dashboard
Toggle(p) ==
  /\ p \in loaded
  /\ enabled' = IF p \in enabled THEN enabled \ {p} ELSE enabled \cup {p}
  /\ UNCHANGED <<gen, tables, pending>>
  /\ SyncTools
  /\ UNCHANGED <<unclosed, pool, op, boot, draining, bounds, ghosts>>

\* uninstall_plugin(), a command of the owner: the loop of commands does not run
\* during startup, and awaits each reload.
Uninstall(p) ==
  /\ boot = "running" /\ op.kind \in {"none", "teardown"}
  /\ p \in loaded \cap Installed
  /\ enabled' = enabled \ {p}
  /\ Clear({p})
  /\ loaded' = loaded \ {p} /\ late' = late \ {p} /\ complete' = complete \ {p}
  /\ SyncTools
  /\ lost' = lost \cup (Now({p}) \ closed)
  /\ UNCHANGED <<gen, unclosed, tasks, jobsStarted, op, boot, draining, bounds, brought, closed>>

Drain ==
  /\ boot = "running" /\ ~draining
  /\ draining' = TRUE
  /\ UNCHANGED <<gen, tables, published, enabled, pending, unclosed, pool, op, boot, bounds, ghosts>>

-------------------------------------------------------------------------------
(* load_plugins(). *)

\* What becomes of a plugin: its manifest is refused or its module fails, a
\* dependency failed, a dependency is not set up yet, its setup fails, is to be
\* awaited, or is done.
Fates == {"refused", "blocked", "waiting", "failed", "begun", "done"}

Possible(fate) ==
  \A p \in Plugins :
    LET blocked == \E d \in Deps[p] : fate[d] \in {"refused", "blocked", "failed"}
        waits == \E d \in Deps[p] : fate[d] \in {"waiting", "begun"}
    IN /\ fate[p] = "blocked" => blocked
       /\ fate[p] = "waiting" => waits
       /\ blocked => fate[p] \in {"blocked", "refused"}
       /\ waits /\ ~blocked => fate[p] \in {"waiting", "refused"}
       /\ fate[p] = "begun" => p \in Async
       /\ fate[p] = "done" => p \notin Async

\* The tables are empty before: at startup, and after a teardown.
Load ==
  \E fate \in [Plugins -> Fates] :
    LET of(fates) == {p \in Plugins : fate[p] \in fates}
        new(S) == {[plugin |-> p, gen |-> gen + 1] : p \in S}
    IN /\ Possible(fate)
       /\ gen' = gen + 1
       /\ loaded' = of({"begun", "done"}) /\ late' = {}
       /\ complete' = of({"done"}) /\ active' = loaded' /\ registered' = complete'
       /\ pending' = of({"begun", "waiting"})
       /\ unclosed' = unclosed \cup new(of({"failed"}))
       /\ brought' = brought \cup new(of({"failed", "begun", "done"}))
       /\ UNCHANGED enabled
       /\ SyncTools

Construct ==
  /\ boot = "new" /\ boot' = "loaded"
  /\ Load
  /\ UNCHANGED <<pool, op, draining, bounds, closed, lost, stray>>

-------------------------------------------------------------------------------
(* Teardown hooks. *)

\* Mutant: in load order.
LastFirst(p, S) ==
  \A q \in S \ {p} : \/ p \notin late /\ q \in late
                     \/ (p \in late <=> q \in late) /\ Rank[p] < Rank[q]

\* p is the last of S in the order of loaded_plugins.
Last(p, S) ==
  \A q \in S \ {p} : \/ p \in late /\ q \notin late
                     \/ (p \in late <=> q \in late) /\ Rank[q] < Rank[p]

\* _invoke_teardown(): the hook of x is called, and ends in time or is cut off.
CallHook(x) ==
  /\ op' = [op EXCEPT !.cur = x]
  /\ closed' = closed \cup {x}

\* _drain_teardowns().  The order of the list does not matter here.
DrainNext ==
  /\ op.at \in Drains /\ op.cur = None
  /\ \E x \in unclosed : CallHook(x) /\ unclosed' = unclosed \ {x}
  /\ UNCHANGED <<gen, tables, published, enabled, pending, pool, boot, draining, bounds, brought, lost, stray>>

DrainedHook ==
  /\ op.at \in Drains /\ op.cur # None
  /\ op' = Goes(op.at)
  /\ UNCHANGED <<gen, tables, published, enabled, pending, unclosed, pool, boot, draining, bounds, ghosts>>

-------------------------------------------------------------------------------
(* _teardown_plugins(). *)

TeardownOf(kind, failing) ==
  LET jobs == Grouped(Plugins, {"job"})
  IN /\ pending' = {}
     /\ active' = {}
     /\ dying' = dying \cup jobs /\ jobsStarted' = FALSE
     /\ op' = [kind |-> kind, at |-> "stopping", join |-> jobs, todo |-> loaded, cur |-> None,
               failing |-> failing]

BeginTeardown ==
  /\ op.kind = "none" /\ boot # "new" /\ ops < MaxOps
  /\ ops' = ops + 1
  /\ TeardownOf("teardown", TRUE)
  /\ boot' = IF boot = "running" THEN boot ELSE "failed"
  /\ UNCHANGED <<gen, loaded, late, complete, registered, published, enabled, unclosed, tasks,
                 draining, cancels, ghosts>>

BeginReload ==
  /\ op.kind = "none" /\ boot = "running" /\ ~draining /\ ops < MaxOps
  /\ ops' = ops + 1
  /\ TeardownOf("reload", FALSE)
  /\ UNCHANGED <<gen, loaded, late, complete, registered, published, enabled, unclosed, tasks,
                 boot, draining, cancels, ghosts>>

JobsStopped ==
  /\ At("stopping") /\ op.join \cap tasks = {}
  /\ LET others == Grouped(Plugins, {"background", "event"})
     IN op' = [Goes("joining") EXCEPT !.join = others] /\ dying' = dying \cup others
  /\ UNCHANGED <<gen, tables, published, enabled, pending, unclosed, tasks, jobsStarted, boot, draining,
                 bounds, ghosts>>

TasksJoined ==
  /\ At("joining") /\ op.join \cap tasks = {}
  /\ op' = [Goes("flushing") EXCEPT !.join = {}]
  /\ UNCHANGED <<gen, tables, published, enabled, pending, unclosed, pool, boot, draining, bounds, ghosts>>

Flushed ==
  /\ At("flushing") /\ unclosed = {}
  /\ op' = Goes("closing")
  /\ UNCHANGED <<gen, tables, published, enabled, pending, unclosed, pool, boot, draining, bounds, ghosts>>

\* One that was uninstalled meanwhile has no hook any more.
CloseNext ==
  /\ At("closing")
  /\ \E p \in op.todo :
       /\ Last(p, op.todo)
       /\ IF p \in loaded
            THEN CallHook([plugin |-> p, gen |-> gen])
            ELSE op' = [op EXCEPT !.todo = @ \ {p}] /\ UNCHANGED closed
  /\ UNCHANGED <<gen, tables, published, enabled, pending, unclosed, pool, boot, draining, bounds,
                 brought, lost, stray>>

ClosedHook ==
  /\ op.at = "closing" /\ op.cur # None
  /\ Clear({op.cur.plugin})
  /\ op' = [Goes("closing") EXCEPT !.todo = @ \ {op.cur.plugin}]
  /\ UNCHANGED <<gen, loaded, late, complete, published, enabled, unclosed, tasks, jobsStarted, boot,
                 draining, bounds, brought, closed, lost>>

\* Mutant: the tools stay published.
DropUnsynced ==
  /\ Clear(loaded)
  /\ loaded' = {} /\ late' = {} /\ complete' = {}
  /\ UNCHANGED <<enabled, published>>

\* The outer finally: whatever happened, nothing is left of the plugins.
DropAll ==
  /\ Clear(loaded)
  /\ loaded' = {} /\ late' = {} /\ complete' = {}
  /\ UNCHANGED enabled
  /\ SyncTools

TornDown ==
  /\ At("closing") /\ op.todo = {}
  /\ DropAll
  /\ op' = IF op.failing THEN Idle ELSE Goes("loading")
  /\ UNCHANGED <<gen, unclosed, tasks, jobsStarted, boot, draining, bounds, brought, closed, lost>>

-------------------------------------------------------------------------------
(* complete_pending_setups(). *)

BeginSetups ==
  /\ op.kind = "none" /\ boot = "loaded"
  /\ op' = [Idle EXCEPT !.kind = "setup", !.at = "clearing"]
  /\ UNCHANGED <<gen, tables, published, enabled, pending, unclosed, pool, boot, draining, bounds, ghosts>>

\* The load of a reload succeeds, or raises as a whole.
Reload ==
  /\ At("loading")
  /\ \/ Load /\ op' = Goes("clearing") /\ UNCHANGED <<dying, jobsStarted>>
     \/ /\ TeardownOf("reload", TRUE)
        /\ UNCHANGED <<gen, loaded, late, complete, registered, published, enabled, unclosed, brought>>
  /\ UNCHANGED <<tasks, boot, draining, bounds, closed, lost, stray>>

\* The setups go on.
Drained ==
  /\ At("clearing") \/ At("undoing")
  /\ unclosed = {}
  /\ op' = Goes("setup")
  /\ UNCHANGED <<gen, tables, published, enabled, pending, unclosed, pool, boot, draining, bounds, ghosts>>

\* p is the first of S in the order of _pending_async_setup.
First(p, S) == \A q \in S \ {p} : Rank[p] < Rank[q]

Met(p) == Deps[p] \subseteq loaded

\* A pending plugin whose dependencies are gone.
SetupBlocked(p) ==
  /\ ~Met(p)
  /\ Rollback({p})
  /\ UNCHANGED <<op, brought>>

\* The setup of a plugin begins to run.
SetupBegins(p) ==
  /\ Met(p) /\ p \in Async
  /\ loaded' = loaded \cup {p} /\ late' = late \cup ({p} \ loaded)
  /\ active' = active \cup {p} /\ registered' = registered \cup {p}
  /\ brought' = brought \cup Now({p})
  /\ op' = [op EXCEPT !.cur = [plugin |-> p, gen |-> gen]]
  /\ pending' = pending \ {p}
  /\ UNCHANGED <<complete, unclosed, dying, stray>>

\* A plugin that waited has no asynchronous setup, or fails before it.
SetupAtOnce(p) ==
  /\ Met(p) /\ p \notin loaded
  /\ pending' = pending \ {p}
  /\ \/ /\ p \notin Async
        /\ loaded' = loaded \cup {p} /\ late' = late \cup {p} /\ complete' = complete \cup {p}
        /\ active' = active \cup {p} /\ registered' = registered \cup {p}
        /\ brought' = brought \cup Now({p})
        /\ UNCHANGED <<op, unclosed>>
     \/ /\ unclosed' = unclosed \cup Now({p})
        /\ brought' = brought \cup Now({p})
        /\ op' = Goes("undoing")
        /\ UNCHANGED tables
     \/ UNCHANGED <<tables, unclosed, brought, op>>
  /\ UNCHANGED <<dying, stray>>

NextSetup ==
  /\ At("setup")
  /\ \E p \in pending : First(p, pending) /\ (SetupBlocked(p) \/ SetupBegins(p) \/ SetupAtOnce(p))
  /\ UNCHANGED <<gen, published, enabled, tasks, jobsStarted, boot, draining, bounds, closed, lost>>

\* The awaited setup returns; or it raises or exceeds its time.
SetupEnds ==
  /\ op.at = "setup" /\ op.cur # None
  /\ LET p == op.cur.plugin
     IN \/ /\ complete' = complete \cup {p}
           /\ op' = Goes("setup")
           /\ UNCHANGED <<loaded, late, active, registered, pending, unclosed, dying, stray>>
        \/ /\ Rollback({p})
           /\ op' = Goes("undoing")
  /\ UNCHANGED <<gen, published, enabled, tasks, jobsStarted, boot, draining, bounds, brought, closed, lost>>

\* Tools are published, and a reload starts the jobs.
SetupsDone ==
  /\ At("setup") /\ pending = {}
  /\ UNCHANGED <<enabled, pending, tables>>
  /\ SyncTools
  /\ IF op.kind = "reload" THEN StartJobs ELSE UNCHANGED <<jobsStarted, tasks>>
  /\ boot' = IF op.kind = "setup" THEN "ready" ELSE boot
  /\ op' = Idle
  /\ UNCHANGED <<gen, unclosed, dying, draining, bounds, ghosts>>

\* setup_hook() goes on.
StartUp ==
  /\ op.kind = "none" /\ boot = "ready" /\ boot' = "running"
  /\ StartJobs
  /\ UNCHANGED <<gen, tables, published, enabled, pending, unclosed, dying, op, draining, bounds, ghosts>>

-------------------------------------------------------------------------------
(* Cancellation. *)

\* The CancelledError leaves _complete_pending_setups(), which publishes what is
\* set up: startup is over, and a reload tears down what there is.
Raised ==
  /\ IF op.kind = "setup"
       THEN op' = Idle /\ boot' = "failed" /\ UNCHANGED <<pending, active, dying, jobsStarted>>
       ELSE TeardownOf("reload", TRUE) /\ UNCHANGED boot
  /\ UNCHANGED <<loaded, late, complete, registered, enabled>>
  /\ SyncTools

Unwound ==
  /\ At("unwinding") /\ unclosed = {}
  /\ Raised
  /\ UNCHANGED <<gen, unclosed, tasks, draining, bounds, ghosts>>

\* In the teardown: what has not been closed is dropped.
CancelTeardown ==
  /\ \/ op.at \in {"stopping", "joining"} /\ op.join \cap tasks # {}
     \/ op.at \in {"flushing", "closing"} /\ op.cur # None
  /\ DropAll
  /\ lost' = lost \cup (Now(loaded) \ closed)
  /\ op' = Idle
  /\ UNCHANGED <<unclosed, boot, jobsStarted>>

\* In a drain of the setups.
CancelDrain ==
  /\ op.at \in {"clearing", "undoing", "unwinding"} /\ op.cur # None
  /\ Raised
  /\ UNCHANGED <<unclosed, lost, stray>>

\* In a setup: it is rolled back, with all that are pending.
CancelSetup ==
  /\ op.at = "setup" /\ op.cur # None
  /\ Rollback({op.cur.plugin} \cup pending)
  /\ op' = Goes("unwinding")
  /\ UNCHANGED <<published, enabled, boot, jobsStarted, lost>>

Cancel ==
  /\ cancels < MaxCancels
  /\ cancels' = cancels + 1
  /\ CancelTeardown \/ CancelDrain \/ CancelSetup
  /\ UNCHANGED <<gen, tasks, draining, ops, brought, closed>>

-------------------------------------------------------------------------------
Next ==
  \/ Construct \/ BeginSetups \/ StartUp
  \/ \E p \in Plugins : Dispatch(p) \/ Spawn(p) \/ Toggle(p) \/ Uninstall(p)
  \/ TaskEnds \/ Drain
  \/ BeginTeardown \/ BeginReload
  \/ JobsStopped \/ TasksJoined \/ DrainNext \/ DrainedHook \/ Flushed \/ CloseNext \/ ClosedHook \/ TornDown
  \/ Reload \/ Drained \/ NextSetup \/ SetupEnds \/ SetupsDone
  \/ Cancel \/ Unwound

Spec == Init /\ [][Next]_vars

-------------------------------------------------------------------------------
(* Properties. *)

TypeOK ==
  /\ gen \in Nat
  /\ loaded \in SUBSET Plugins
  /\ late \in SUBSET loaded /\ complete \in SUBSET loaded /\ active \in SUBSET loaded
  /\ registered \in SUBSET loaded
  /\ published \in SUBSET Plugins /\ enabled \in SUBSET Plugins
  /\ pending \in SUBSET Plugins /\ unclosed \in SUBSET Instances
  /\ jobsStarted \in BOOLEAN
  /\ tasks \in SUBSET Task /\ dying \in SUBSET tasks /\ stray \in SUBSET dying
  /\ op \in Operation
  /\ boot \in {"new", "loaded", "ready", "running", "failed"}
  /\ draining \in BOOLEAN
  /\ ops \in Nat /\ cancels \in Nat
  /\ brought \in SUBSET Instances /\ closed \in SUBSET Instances /\ lost \in SUBSET Instances

\* When no operation is under way, dispatch knows the plugins that are set up and
\* no other, whatever failed or was cancelled before: their registrations, their
\* tools if they are enabled, their tasks, each one's job if jobs run.  A plugin
\* that is gone was torn down, is still to be, or was dropped.
NothingHalfLoaded ==
  op.kind = "none" =>
    /\ registered = complete
    /\ published = complete \cap enabled
    /\ \A t \in tasks \ dying : t.gen = gen /\ t.plugin \in complete
    /\ ~draining => {t \in tasks \ dying : t.kind = "job"} =
                      {[plugin |-> p, gen |-> gen, kind |-> "job"] :
                         p \in IF jobsStarted THEN complete \cap Working ELSE {}}
    /\ brought \subseteq Now(loaded) \cup unclosed \cup closed \cup lost

\* What a teardown hook finds: the plugins it depends on are not torn down, and no
\* job or background task of its own is left that was not cut off by a rollback,
\* an uninstallation or a cancelled teardown.
HookInOrder(x) ==
  /\ \A d \in Deps[x.plugin] : [plugin |-> d, gen |-> x.gen] \notin closed
  /\ \A t \in tasks \ stray : t.plugin = x.plugin /\ t.gen = x.gen => t.kind = "event"

\* What a setup finds: its dependencies are set up, and everything of an earlier
\* generation has been torn down or dropped.
SetupInOrder(p) ==
  /\ Deps[p] \subseteq complete'
  /\ \A x \in brought : x.gen < gen' => x \in closed \cup lost

InOrder ==
  [][/\ \A x \in closed' \ closed : HookInOrder(x)
     /\ \A p \in registered' \ registered : SetupInOrder(p)]_vars

\* The teardown hook of a plugin is called once for each time it was loaded, over
\* failed setups, reloads, cancelled operations and what they leave behind.
ClosedOnce ==
  [][op'.cur # None /\ op'.cur # op.cur /\ op'.at # "setup" =>
       op'.cur \in brought \ (closed \cup lost)]_vars
===============================================================================
