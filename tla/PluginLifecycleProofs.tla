------------------------ MODULE PluginLifecycleProofs ------------------------
(* Theorems about PluginLifecycle, for any plugins and dependencies.       *)
EXTENDS PluginLifecycle, TLAPS

USE PluginsAssumption

-------------------------------------------------------------------------------
(* The invariant. *)

Bound == \A x \in brought \cup unclosed \cup closed \cup lost : x.gen <= gen
Setting == op.at = "setup" /\ op.cur # None => op.cur.gen = gen /\ op.cur.plugin \in loaded \ pending
Open == Now(loaded) \subseteq brought \ (unclosed \cup lost)
Fresh == Now(pending \ loaded) \cap (brought \cup unclosed \cup closed \cup lost) = {}
Left == unclosed \subseteq brought \ (closed \cup lost)
Hooked == \A x \in Now(loaded) \cap closed : op.at = "closing" /\ (x.plugin \notin op.todo \/ x = op.cur)

History == Bound /\ Setting /\ Open /\ Fresh /\ Left /\ Hooked

Progress ==
  /\ op.at \in {"stopping", "joining", "flushing"} => loaded \subseteq op.todo
  /\ op.at = "closing" => Now(loaded \ op.todo) \subseteq closed
  /\ op.at = "closing" /\ op.cur # None => op.cur.gen = gen /\ op.cur \in closed
  /\ op.at = "loading" \/ boot = "new" => loaded = {}
  /\ brought \subseteq Now(loaded) \cup unclosed \cup closed \cup lost

Tables ==
  /\ pending \cap complete = {}
  /\ op.at # "closing" =>
       registered = complete \cup (IF op.at = "setup" /\ op.cur # None THEN {op.cur.plugin} ELSE {})
  /\ op.kind = "none" <=> op.at = "idle"
  /\ op.at = "idle" => published = complete \cap enabled
  /\ op.at = "idle" => op.cur = None
  /\ boot = "new" => op.at = "idle"
  /\ op.kind = "teardown" => op.at \in {"stopping", "joining", "flushing", "closing"} /\ op.failing
  /\ op.kind = "setup" => op.at \in {"clearing", "undoing", "unwinding", "setup"}
  /\ op.kind = "reload" => boot = "running"

Live == tasks \ dying

Work ==
  /\ \A t \in Live : t.gen = gen /\ t.plugin \in registered
  /\ \A t \in Live : t.kind = "job" => jobsStarted /\ t.plugin \in Working
  /\ op.at # "idle" \/ boot \in {"new", "loaded", "ready"} => ~jobsStarted
  /\ jobsStarted /\ ~draining =>
       \A p \in complete \cap Working : [plugin |-> p, gen |-> gen, kind |-> "job"] \in Live
  /\ \A t \in tasks : t.gen <= gen
  /\ op.at \in {"clearing", "undoing", "unwinding", "setup"} \/ boot \in {"new", "loaded", "ready"} =>
       \A t \in tasks : t.kind = "job" => t.gen < gen

IInv == TypeOK /\ History /\ Progress /\ Tables /\ Work

-------------------------------------------------------------------------------
(* What the parts of the actions do to tasks and to the operation. *)

LEMMA NothingMoves ==
  ASSUME IInv, UNCHANGED <<gen, loaded, pending, unclosed, brought, closed, lost, op, boot>>
  PROVE  History' /\ Progress'
  BY DEF IInv, History, Bound, Setting, Open, Fresh, Left, Hooked, Progress, Now

LEMMA OperationMoves ==
  ASSUME IInv, UNCHANGED <<gen, loaded, unclosed, brought, closed, lost>>, pending' \in SUBSET pending,
         op.at # "closing", op'.cur = None
  PROVE  History'
  BY DEF IInv, History, Bound, Setting, Open, Fresh, Left, Hooked, Now

LEMMA TeardownBegins ==
  ASSUME TypeOK, tasks' = tasks, stray' = stray,
         NEW kind \in {"reload", "teardown"}, NEW failing \in BOOLEAN, TeardownOf(kind, failing)
  PROVE  /\ op' \in Operation /\ op'.kind = kind /\ op'.at = "stopping" /\ op'.cur = None
         /\ op'.todo = loaded /\ op'.failing = failing
         /\ pending' = {} /\ active' = {} /\ jobsStarted' = FALSE
         /\ dying' \in SUBSET tasks' /\ stray' \in SUBSET dying'
         /\ \A t \in Live' : t \in Live /\ t.kind # "job"
<1> DEFINE jobs == Grouped(Plugins, {"job"})
<1>1. jobs \in SUBSET Task /\ jobs \in SUBSET tasks
  BY DEF TypeOK, Grouped
<1>2. op' = [kind |-> kind, at |-> "stopping", join |-> jobs, todo |-> loaded, cur |-> None, failing |-> failing]
  BY DEF TeardownOf
<1>3. op' \in Operation
  BY <1>1, <1>2 DEF TypeOK, Operation, Places
<1>4. \A t \in Live' : t \in Live /\ t.kind # "job"
  BY DEF TypeOK, TeardownOf, Grouped, Live, Task
<1>5. pending' = {} /\ active' = {} /\ jobsStarted' = FALSE /\ dying' = dying \cup jobs
  BY DEF TeardownOf
<1> QED BY <1>1, <1>2, <1>3, <1>4, <1>5 DEF TypeOK

\* The tasks and contexts of the plugins in S are gone, the others are untouched.
Cleared(S) ==
  /\ active' \in SUBSET active /\ active' \cap S = {}
  /\ dying' \in SUBSET tasks' /\ stray' \in SUBSET dying'
  /\ Live' = {t \in Live : t.plugin \notin S}

LEMMA RegistrationsCleared ==
  ASSUME TypeOK, NEW S \in SUBSET Plugins, Clear(S), tasks' = tasks
  PROVE  Cleared(S)
  BY DEF TypeOK, Clear, Cleared, Grouped, Live, Kinds, Task

LEMMA JobsBegin ==
  ASSUME TypeOK, Work, StartJobs, registered = complete, \A t \in tasks : t.kind = "job" => t.gen < gen,
         UNCHANGED <<gen, dying, registered, complete, draining>>
  PROVE  /\ jobsStarted' \in BOOLEAN /\ tasks' \in SUBSET Task /\ dying' \in SUBSET tasks'
         /\ \A t \in Live' : t.gen = gen' /\ t.plugin \in registered'
         /\ \A t \in Live' : t.kind = "job" => jobsStarted' /\ t.plugin \in Working
         /\ jobsStarted' /\ ~draining' =>
              \A p \in complete' \cap Working : [plugin |-> p, gen |-> gen', kind |-> "job"] \in Live'
         /\ \A t \in tasks' : t.gen <= gen'
<1>1. CASE UNCHANGED <<jobsStarted, tasks>>
  BY <1>1 DEF TypeOK, Work, Live
<1>2. CASE /\ jobsStarted' = TRUE /\ ~jobsStarted
           /\ tasks' = tasks \cup {[plugin |-> p, gen |-> gen, kind |-> "job"] : p \in registered \cap Working}
  <2> DEFINE jobs == {[plugin |-> p, gen |-> gen, kind |-> "job"] : p \in registered \cap Working}
  <2>1. jobs \in SUBSET Task
    BY DEF TypeOK, Task, Kinds
  <2>2. jobs \cap dying = {}
    BY DEF TypeOK, Work, Live
  <2> QED BY <1>2, <2>1, <2>2 DEF TypeOK, Work, Live
<1> QED BY <1>1, <1>2 DEF StartJobs

LEMMA ConstructKeeps ==
  ASSUME IInv, Construct
  PROVE  IInv'
<1>1. TypeOK'
  BY DEF IInv, TypeOK, Operation, Construct, Load, SyncTools, Possible, Fates, tables, pool,
         bounds, ghosts, Instances, Task, Places
<1>2. Bound'
  BY <1>1 DEF IInv, TypeOK, History, Bound, Construct, Load, SyncTools, Usable, Possible,
         Fates, tables, pool, bounds, ghosts, Now, Instances, Task, Kinds, Drains, Places
<1>3. Setting'
  BY <1>1 DEF IInv, TypeOK, History, Setting, Tables, Construct, Load, Possible, Fates, tables,
         ghosts, Now
<1>4. Open'
  BY <1>1 DEF IInv, TypeOK, History, Open, Fresh, Bound, Construct, Load, Possible, Fates,
         tables, ghosts, Now
<1>5. Fresh'
  BY <1>1 DEF IInv, TypeOK, History, Fresh, Bound, Construct, Load, Possible, Fates, tables,
         ghosts, Now
<1>6. Left'
  BY <1>1 DEF IInv, TypeOK, History, Left, Open, Hooked, Fresh, Setting, Bound, Construct,
         Load, Possible, Fates, tables, ghosts, Now
<1>7. Hooked'
  BY <1>1 DEF IInv, TypeOK, History, Hooked, Fresh, Bound, Left, Setting, Tables, Open,
         Construct, Load, Possible, Fates, tables, ghosts, Now
<1>8. Progress'
  BY <1>1 DEF IInv, TypeOK, Progress, History, Open, Setting, Tables, Construct, Load,
         Possible, Fates, tables, ghosts, Now
<1>9. Tables'
  BY <1>1 DEF IInv, TypeOK, Tables, Progress, Construct, Load, SyncTools, Usable, Possible,
         Fates, tables
<1>10. Work'
  BY <1>1 DEF IInv, TypeOK, Work, Tables, Live, Progress, Construct, Load, SyncTools, Usable,
         Possible, Fates, tables, pool, bounds, ghosts, Now, Instances, Task, Kinds, Drains,
         Places
<1> QED BY <1>1, <1>2, <1>3, <1>4, <1>5, <1>6, <1>7, <1>8, <1>9, <1>10 DEF IInv, History

LEMMA BeginSetupsKeeps ==
  ASSUME IInv, BeginSetups
  PROVE  IInv'
<1>1. TypeOK'
  BY DEF IInv, TypeOK, Operation, BeginSetups, Idle, tables, pool, bounds, ghosts, Now,
         Instances, Task, Kinds, Drains, Places
<1>2. History'
  <2>1. op.at # "closing" /\ op'.cur = None
    BY <1>1 DEF IInv, TypeOK, Operation, Tables, BeginSetups, Idle, Drains
  <2> QED BY <2>1, OperationMoves DEF BeginSetups, tables, ghosts
<1>3. Progress'
  BY <1>1 DEF IInv, TypeOK, Progress, History, Open, Setting, Tables, BeginSetups, Idle,
         tables, ghosts, Now
<1>4. Tables'
  BY <1>1 DEF IInv, TypeOK, Tables, Progress, BeginSetups, Idle, tables
<1>5. Work'
  BY <1>1 DEF IInv, Work, Tables, Live, Progress, BeginSetups, Idle, tables, pool, Task, Kinds
<1> QED BY <1>1, <1>2, <1>3, <1>4, <1>5 DEF IInv

LEMMA StartUpKeeps ==
  ASSUME IInv, StartUp
  PROVE  IInv'
<1>1. op' = op /\ op.at = "idle" /\ registered = complete /\ StartJobs /\ \A t \in tasks : t.kind = "job" => t.gen < gen
  BY DEF IInv, Tables, Work, StartUp
<1>2. TypeOK'
  BY <1>1, JobsBegin DEF IInv, TypeOK, StartUp, tables, bounds, ghosts
<1>3. Bound'
  BY <1>1, <1>2 DEF IInv, TypeOK, History, Bound, StartUp, tables, pool, bounds, ghosts, Now, Instances
<1>4. Setting'
  BY <1>1, <1>2 DEF IInv, TypeOK, History, Setting, Tables, StartUp, tables, pool, bounds, ghosts, Now, Instances
<1>5. Open'
  BY <1>1, <1>2 DEF IInv, TypeOK, History, Open, Fresh, Bound, StartUp, tables, pool, bounds, ghosts, Now, Instances
<1>6. Fresh'
  BY <1>1, <1>2 DEF IInv, TypeOK, History, Fresh, Bound, StartUp, tables, pool, bounds, ghosts, Now, Instances
<1>7. Left'
  BY <1>1, <1>2 DEF IInv, TypeOK, History, Left, Open, Hooked, Fresh, Setting, Bound, StartUp, tables, pool, bounds, ghosts, Now, Instances
<1>8. Hooked'
  BY <1>1, <1>2 DEF IInv, TypeOK, History, Hooked, Fresh, Bound, Left, Setting, Tables, Open, StartUp, tables, pool, bounds, ghosts, Now, Instances
<1>9. Progress'
  BY <1>1, <1>2 DEF IInv, TypeOK, Progress, History, Open, Setting, Tables, StartUp, tables, pool, bounds, ghosts, Now, Instances
<1>10. Tables'
  BY <1>1, <1>2 DEF IInv, TypeOK, Tables, Progress, StartUp, tables, pool, bounds, ghosts, Now, Instances
<1>11. Work'
  BY <1>1, JobsBegin DEF IInv, Work, StartUp, tables, bounds, ghosts
<1> QED BY <1>2, <1>3, <1>4, <1>5, <1>6, <1>7, <1>8, <1>9, <1>10, <1>11 DEF IInv, History

LEMMA DispatchKeeps ==
  ASSUME IInv, NEW p \in Plugins, Dispatch(p)
  PROVE  IInv'
<1>1. TypeOK'
  BY DEF IInv, TypeOK, Operation, Dispatch, Usable, tables, pool, bounds, ghosts, Now,
         Instances, Task, Kinds, Drains, Places
<1>2. History' /\ Progress'
  BY NothingMoves DEF Dispatch, tables, ghosts
<1>3. Tables'
  BY <1>1 DEF IInv, TypeOK, Tables, Progress, Dispatch, Usable, tables
<1>4. Work'
  BY <1>1 DEF IInv, TypeOK, Work, Tables, Live, Progress, Dispatch, Usable, tables, pool,
         bounds, ghosts, Now, Instances, Task, Kinds, Drains, Places
<1> QED BY <1>1, <1>2, <1>3, <1>4 DEF IInv

LEMMA SpawnKeeps ==
  ASSUME IInv, NEW p \in Plugins, Spawn(p)
  PROVE  IInv'
<1>1. TypeOK'
  BY DEF IInv, TypeOK, Operation, Spawn, tables, pool, bounds, ghosts, Now, Instances, Task,
         Kinds, Drains, Places
<1>2. History' /\ Progress'
  BY NothingMoves DEF Spawn, tables, ghosts
<1>3. Tables'
  BY <1>1 DEF IInv, TypeOK, Tables, Progress, Spawn, tables
<1>4. Work'
  BY <1>1 DEF IInv, TypeOK, Work, Tables, Live, Progress, Spawn, tables, pool, bounds, ghosts,
         Now, Instances, Task, Kinds, Drains, Places
<1> QED BY <1>1, <1>2, <1>3, <1>4 DEF IInv

LEMMA ToggleKeeps ==
  ASSUME IInv, NEW p \in Plugins, Toggle(p)
  PROVE  IInv'
<1>1. TypeOK'
  BY DEF IInv, TypeOK, Operation, Toggle, SyncTools, tables, pool, bounds, ghosts, Instances,
         Task, Places
<1>2. History' /\ Progress'
  BY NothingMoves DEF Toggle, tables, ghosts
<1>3. Tables'
  BY <1>1 DEF IInv, TypeOK, Tables, Progress, Toggle, SyncTools, Usable, tables
<1>4. Work'
  BY <1>1 DEF IInv, Work, Tables, Live, Progress, Toggle, tables, pool, Task, Kinds
<1> QED BY <1>1, <1>2, <1>3, <1>4 DEF IInv

LEMMA UninstallKeeps ==
  ASSUME IInv, NEW p \in Plugins, Uninstall(p)
  PROVE  IInv'
<1>1. TypeOK'
  BY DEF IInv, TypeOK, Operation, Uninstall, Clear, Grouped, SyncTools, Usable, tables, pool,
         bounds, ghosts, Now, Instances, Task, Kinds, Drains, Places
<1>2. Bound'
  BY <1>1 DEF IInv, TypeOK, History, Bound, Uninstall, Clear, tables, ghosts, Now
<1>3. Setting'
  BY <1>1 DEF IInv, TypeOK, History, Setting, Tables, Uninstall, Clear, tables, ghosts, Now
<1>4. Open'
  BY <1>1 DEF IInv, TypeOK, History, Open, Fresh, Bound, Uninstall, Clear, tables, ghosts, Now
<1>5. Fresh'
  BY <1>1 DEF IInv, TypeOK, History, Fresh, Bound, Uninstall, Clear, tables, ghosts, Now
<1>6. Left'
  BY <1>1 DEF IInv, TypeOK, History, Left, Open, Hooked, Fresh, Setting, Bound, Uninstall,
         Clear, tables, ghosts, Now
<1>7. Hooked'
  BY <1>1 DEF IInv, TypeOK, History, Hooked, Fresh, Bound, Left, Setting, Tables, Open,
         Uninstall, Clear, tables, ghosts, Now
<1>8. Progress'
  BY <1>1 DEF IInv, TypeOK, Progress, History, Open, Setting, Tables, Uninstall, Clear, tables,
         ghosts, Now
<1>9. Tables'
  BY <1>1 DEF IInv, TypeOK, Tables, Progress, Uninstall, Clear, SyncTools, Usable, tables
<1>10. Work'
  BY <1>1 DEF IInv, TypeOK, Work, Tables, Live, Progress, Uninstall, Clear, Grouped, SyncTools,
         Usable, tables, pool, bounds, ghosts, Now, Instances, Task, Kinds, Drains, Places
<1> QED BY <1>1, <1>2, <1>3, <1>4, <1>5, <1>6, <1>7, <1>8, <1>9, <1>10 DEF IInv, History

LEMMA TaskEndsKeeps ==
  ASSUME IInv, TaskEnds
  PROVE  IInv'
<1>1. TypeOK'
  BY DEF IInv, TypeOK, Operation, TaskEnds, tables, pool, bounds, ghosts, Instances, Task,
         Places
<1>2. History' /\ Progress'
  BY NothingMoves DEF TaskEnds, tables, ghosts
<1>3. Tables'
  BY <1>1 DEF IInv, TypeOK, Tables, Progress, TaskEnds, tables
<1>4. Work'
  BY <1>1 DEF IInv, Work, Tables, Live, Progress, TaskEnds, tables, pool, Task, Kinds
<1> QED BY <1>1, <1>2, <1>3, <1>4 DEF IInv

LEMMA DrainKeeps ==
  ASSUME IInv, Drain
  PROVE  IInv'
<1>1. TypeOK'
  BY DEF IInv, TypeOK, Operation, Drain, tables, pool, bounds, ghosts, Instances, Task, Places
<1>2. History' /\ Progress'
  BY NothingMoves DEF Drain, tables, ghosts
<1>3. Tables'
  BY <1>1 DEF IInv, TypeOK, Tables, Progress, Drain, tables
<1>4. Work'
  BY <1>1 DEF IInv, Work, Tables, Live, Progress, Drain, tables, pool, Task, Kinds
<1> QED BY <1>1, <1>2, <1>3, <1>4 DEF IInv

LEMMA BeginTeardownKeeps ==
  ASSUME IInv, BeginTeardown
  PROVE  IInv'
<1>1. op.at = "idle" /\ op.kind = "none" /\ boot # "new" /\ TeardownOf("teardown", TRUE)
  BY DEF IInv, Tables, BeginTeardown
<1>2. /\ op' \in Operation /\ op'.kind = "teardown" /\ op'.at = "stopping" /\ op'.cur = None
      /\ op'.todo = loaded /\ op'.failing = TRUE
      /\ pending' = {} /\ active' = {} /\ jobsStarted' = FALSE
      /\ dying' \in SUBSET tasks' /\ stray' \in SUBSET dying'
      /\ \A t \in Live' : t \in Live /\ t.kind # "job"
  BY <1>1, TeardownBegins DEF IInv, BeginTeardown, ghosts
<1>3. TypeOK'
  <2>1. boot' \in {"loaded", "ready", "running", "failed"} /\ ops' \in Nat /\ cancels' \in Nat
    BY <1>1 DEF IInv, TypeOK, BeginTeardown
  <2>2. /\ UNCHANGED <<gen, loaded, late, complete, registered, published, enabled, unclosed, tasks, draining>>
        /\ UNCHANGED <<brought, closed, lost, stray>>
    BY DEF BeginTeardown, ghosts
  <2> QED BY <1>2, <2>1, <2>2 DEF IInv, TypeOK
<1>4. History'
  BY <1>1, <1>2 DEF IInv, TypeOK, History, Bound, Setting, Open, Fresh, Left, Hooked, Now, Instances, BeginTeardown, tables, pool, bounds, ghosts
<1>5. Progress'
  BY <1>1, <1>2 DEF IInv, TypeOK, Progress, History, Open, Fresh, Now, BeginTeardown, tables, pool, bounds, ghosts
<1>6. Tables'
  BY <1>1, <1>2 DEF IInv, TypeOK, Tables, BeginTeardown, tables, pool, bounds, ghosts
<1>7. Work'
  BY <1>1, <1>2 DEF IInv, TypeOK, Work, Tables, Live, BeginTeardown, tables, pool, bounds, ghosts
<1> QED BY <1>3, <1>4, <1>5, <1>6, <1>7 DEF IInv

LEMMA BeginReloadKeeps ==
  ASSUME IInv, BeginReload
  PROVE  IInv'
<1>1. op.at = "idle" /\ op.kind = "none" /\ boot # "new" /\ TeardownOf("reload", FALSE)
  BY DEF IInv, Tables, BeginReload
<1>2. /\ op' \in Operation /\ op'.kind = "reload" /\ op'.at = "stopping" /\ op'.cur = None
      /\ op'.todo = loaded /\ op'.failing = FALSE
      /\ pending' = {} /\ active' = {} /\ jobsStarted' = FALSE
      /\ dying' \in SUBSET tasks' /\ stray' \in SUBSET dying'
      /\ \A t \in Live' : t \in Live /\ t.kind # "job"
  BY <1>1, TeardownBegins DEF IInv, BeginReload, ghosts
<1>3. TypeOK'
  <2>1. boot' \in {"loaded", "ready", "running", "failed"} /\ ops' \in Nat /\ cancels' \in Nat
    BY <1>1 DEF IInv, TypeOK, BeginReload
  <2>2. /\ UNCHANGED <<gen, loaded, late, complete, registered, published, enabled, unclosed, tasks, draining>>
        /\ UNCHANGED <<brought, closed, lost, stray>>
    BY DEF BeginReload, ghosts
  <2> QED BY <1>2, <2>1, <2>2 DEF IInv, TypeOK
<1>4. History'
  BY <1>1, <1>2 DEF IInv, TypeOK, History, Bound, Setting, Open, Fresh, Left, Hooked, Now, Instances, BeginReload, tables, pool, bounds, ghosts
<1>5. Progress'
  BY <1>1, <1>2 DEF IInv, TypeOK, Progress, History, Open, Fresh, Now, BeginReload, tables, pool, bounds, ghosts
<1>6. Tables'
  BY <1>1, <1>2 DEF IInv, TypeOK, Tables, BeginReload, tables, pool, bounds, ghosts
<1>7. Work'
  BY <1>1, <1>2 DEF IInv, TypeOK, Work, Tables, Live, BeginReload, tables, pool, bounds, ghosts
<1> QED BY <1>3, <1>4, <1>5, <1>6, <1>7 DEF IInv

LEMMA JobsStoppedKeeps ==
  ASSUME IInv, JobsStopped
  PROVE  IInv'
<1>1. TypeOK'
  BY DEF IInv, TypeOK, Operation, JobsStopped, Grouped, At, Goes, tables, pool, bounds, ghosts,
         Instances, Task, Places
<1>2. History'
  <2>1. op.at # "closing" /\ op'.cur = None
    BY <1>1 DEF IInv, TypeOK, Operation, Tables, JobsStopped, Grouped, At, Goes, Drains
  <2> QED BY <2>1, OperationMoves DEF JobsStopped, tables, ghosts
<1>3. Progress'
  BY <1>1 DEF IInv, TypeOK, Progress, History, Open, Setting, Tables, JobsStopped, At, Goes,
         tables, ghosts, Now
<1>4. Tables'
  BY <1>1 DEF IInv, TypeOK, Tables, Progress, JobsStopped, At, Goes, tables
<1>5. Work'
  BY <1>1 DEF IInv, Work, Tables, Live, Progress, JobsStopped, Grouped, At, Goes, tables, pool,
         Task, Kinds
<1> QED BY <1>1, <1>2, <1>3, <1>4, <1>5 DEF IInv

LEMMA TasksJoinedKeeps ==
  ASSUME IInv, TasksJoined
  PROVE  IInv'
<1>1. TypeOK'
  BY DEF IInv, TypeOK, Operation, TasksJoined, At, Goes, tables, pool, bounds, ghosts, Now,
         Instances, Task, Kinds, Drains, Places
<1>2. History'
  <2>1. op.at # "closing" /\ op'.cur = None
    BY <1>1 DEF IInv, TypeOK, Operation, Tables, TasksJoined, At, Goes, Drains
  <2> QED BY <2>1, OperationMoves DEF TasksJoined, tables, ghosts
<1>3. Progress'
  BY <1>1 DEF IInv, TypeOK, Progress, History, Open, Setting, Tables, TasksJoined, At, Goes,
         tables, ghosts, Now
<1>4. Tables'
  BY <1>1 DEF IInv, TypeOK, Tables, Progress, TasksJoined, At, Goes, tables
<1>5. Work'
  BY <1>1 DEF IInv, Work, Tables, Live, Progress, TasksJoined, At, Goes, tables, pool, Task,
         Kinds
<1> QED BY <1>1, <1>2, <1>3, <1>4, <1>5 DEF IInv

LEMMA DrainNextKeeps ==
  ASSUME IInv, DrainNext
  PROVE  IInv'
<1>1. TypeOK'
  BY DEF IInv, TypeOK, Operation, DrainNext, CallHook, tables, pool, bounds, ghosts, Instances,
         Task, Places
<1>2. Bound'
  BY <1>1 DEF IInv, TypeOK, History, Bound, DrainNext, CallHook, tables, ghosts, Now, Drains
<1>3. Setting'
  BY <1>1 DEF IInv, TypeOK, History, Setting, Tables, DrainNext, CallHook, tables, ghosts, Now,
         Drains
<1>4. Open'
  BY <1>1 DEF IInv, TypeOK, History, Open, Fresh, Bound, DrainNext, CallHook, tables, ghosts,
         Now, Drains
<1>5. Fresh'
  BY <1>1 DEF IInv, TypeOK, History, Fresh, Bound, DrainNext, CallHook, tables, ghosts, Now,
         Drains
<1>6. Left'
  BY <1>1 DEF IInv, TypeOK, History, Left, Open, Hooked, Fresh, Setting, Bound, DrainNext,
         CallHook, tables, ghosts, Now, Drains
<1>7. Hooked'
  BY <1>1 DEF IInv, TypeOK, History, Hooked, Fresh, Bound, Left, Setting, Tables, Open,
         DrainNext, CallHook, tables, ghosts, Now, Drains
<1>8. Progress'
  BY <1>1 DEF IInv, TypeOK, Progress, History, Open, Setting, Tables, DrainNext, CallHook,
         tables, ghosts, Now, Drains
<1>9. Tables'
  BY <1>1 DEF IInv, TypeOK, Tables, Progress, DrainNext, CallHook, tables, Drains
<1>10. Work'
  BY <1>1 DEF IInv, Work, Tables, Live, Progress, DrainNext, CallHook, tables, pool, Task,
         Kinds, Drains
<1> QED BY <1>1, <1>2, <1>3, <1>4, <1>5, <1>6, <1>7, <1>8, <1>9, <1>10 DEF IInv, History

LEMMA DrainedHookKeeps ==
  ASSUME IInv, DrainedHook
  PROVE  IInv'
<1>1. TypeOK'
  BY DEF IInv, TypeOK, Operation, DrainedHook, Goes, tables, pool, bounds, ghosts, Instances,
         Task, Places
<1>2. Bound'
  BY <1>1 DEF IInv, TypeOK, History, Bound, DrainedHook, Goes, tables, ghosts, Now, Drains
<1>3. Setting'
  BY <1>1 DEF IInv, TypeOK, History, Setting, Tables, DrainedHook, Goes, tables, ghosts, Now,
         Drains
<1>4. Open'
  BY <1>1 DEF IInv, TypeOK, History, Open, Fresh, Bound, DrainedHook, Goes, tables, ghosts,
         Now, Drains
<1>5. Fresh'
  BY <1>1 DEF IInv, TypeOK, History, Fresh, Bound, DrainedHook, Goes, tables, ghosts, Now,
         Drains
<1>6. Left'
  BY <1>1 DEF IInv, TypeOK, History, Left, Open, Hooked, Fresh, Setting, Bound, DrainedHook,
         Goes, tables, ghosts, Now, Drains
<1>7. Hooked'
  BY <1>1 DEF IInv, TypeOK, History, Hooked, Fresh, Bound, Left, Setting, Tables, Open,
         DrainedHook, Goes, tables, ghosts, Now, Drains
<1>8. Progress'
  BY <1>1 DEF IInv, TypeOK, Progress, History, Open, Setting, Tables, DrainedHook, Goes,
         tables, ghosts, Now, Drains
<1>9. Tables'
  BY <1>1 DEF IInv, TypeOK, Tables, Progress, DrainedHook, Goes, tables, Drains
<1>10. Work'
  BY <1>1 DEF IInv, Work, Tables, Live, Progress, DrainedHook, Goes, tables, pool, Task, Kinds,
         Drains
<1> QED BY <1>1, <1>2, <1>3, <1>4, <1>5, <1>6, <1>7, <1>8, <1>9, <1>10 DEF IInv, History

LEMMA FlushedKeeps ==
  ASSUME IInv, Flushed
  PROVE  IInv'
<1>1. TypeOK'
  BY DEF IInv, TypeOK, Operation, Flushed, At, Goes, tables, pool, bounds, ghosts, Instances,
         Task, Places
<1>2. History'
  <2>1. op.at # "closing" /\ op'.cur = None
    BY <1>1 DEF IInv, TypeOK, Operation, Tables, Flushed, At, Goes, Drains
  <2> QED BY <2>1, OperationMoves DEF Flushed, tables, ghosts
<1>3. Progress'
  BY <1>1 DEF IInv, TypeOK, Progress, History, Open, Setting, Tables, Flushed, At, Goes,
         tables, ghosts, Now
<1>4. Tables'
  BY <1>1 DEF IInv, TypeOK, Tables, Progress, Flushed, At, Goes, tables
<1>5. Work'
  BY <1>1 DEF IInv, Work, Tables, Live, Progress, Flushed, At, Goes, tables, pool, Task, Kinds
<1> QED BY <1>1, <1>2, <1>3, <1>4, <1>5 DEF IInv

LEMMA CloseNextKeeps ==
  ASSUME IInv, CloseNext
  PROVE  IInv'
<1>1. op \in Operation /\ op.at = "closing" /\ op.cur = None
  BY DEF IInv, TypeOK, CloseNext, At
<1>2. PICK p \in op.todo :
        IF p \in loaded
          THEN CallHook([plugin |-> p, gen |-> gen])
          ELSE op' = [op EXCEPT !.todo = @ \ {p}] /\ UNCHANGED closed
  BY DEF CloseNext
<1> DEFINE x == [plugin |-> p, gen |-> gen]
<1>3. p \in Plugins /\ x \in Instances /\ gen \in Nat
  BY <1>1 DEF IInv, TypeOK, Operation, Instances
<1>4. CASE p \in loaded
  <2>1. op' = [op EXCEPT !.cur = x] /\ closed' = closed \cup {x} /\ x \in Now(loaded)
    BY <1>2, <1>4 DEF CallHook, Now
  <2>2. op' \in Operation /\ op'.at = "closing" /\ op'.cur = x /\ op'.todo = op.todo /\ op'.kind = op.kind /\ op'.failing = op.failing
    BY <1>1, <1>3, <2>1 DEF Operation
  <2>3. TypeOK'
    BY <1>3, <2>1, <2>2 DEF IInv, TypeOK, CloseNext, tables, pool, bounds, ghosts
  <2>4. History'
    BY <1>1, <1>2, <1>3, <2>1, <2>2 DEF IInv, TypeOK, History, Bound, Setting, Open, Fresh, Left, Hooked, Now, CloseNext, tables, pool, bounds, ghosts
  <2>5. Progress' /\ Tables'
    BY <1>1, <1>3, <2>1, <2>2 DEF IInv, Progress, Tables, Now, CloseNext, tables, pool, bounds, ghosts
  <2>6. Work'
    BY <1>1, <2>1, <2>2 DEF IInv, Work, Live, CloseNext, tables, pool, bounds, ghosts
  <2> QED BY <2>3, <2>4, <2>5, <2>6 DEF IInv
<1>5. CASE p \notin loaded
  <2>1. op' = [op EXCEPT !.todo = @ \ {p}] /\ closed' = closed
    BY <1>2, <1>5
  <2>2. op' \in Operation /\ op'.at = "closing" /\ op'.cur = None /\ op'.todo = op.todo \ {p} /\ op'.kind = op.kind /\ op'.failing = op.failing
    BY <1>1, <1>3, <2>1 DEF Operation
  <2>3. TypeOK'
    BY <2>1, <2>2 DEF IInv, TypeOK, CloseNext, tables, pool, bounds, ghosts
  <2>4. History'
    BY <1>1, <1>5, <2>1, <2>2 DEF IInv, TypeOK, History, Bound, Setting, Open, Fresh, Left, Hooked, Now, CloseNext, tables, pool, bounds, ghosts
  <2>5. Progress' /\ Tables'
    BY <1>1, <1>5, <2>1, <2>2 DEF IInv, Progress, Tables, Now, CloseNext, tables, pool, bounds, ghosts
  <2>6. Work'
    BY <1>1, <2>1, <2>2 DEF IInv, Work, Live, CloseNext, tables, pool, bounds, ghosts
  <2> QED BY <2>3, <2>4, <2>5, <2>6 DEF IInv
<1> QED BY <1>4, <1>5

LEMMA ClosedHookKeeps ==
  ASSUME IInv, ClosedHook
  PROVE  IInv'
<1>1. TypeOK'
  BY DEF IInv, TypeOK, Operation, ClosedHook, Clear, Grouped, Goes, tables, pool, bounds,
         ghosts, Instances, Task, Places
<1>2. Bound'
  BY <1>1 DEF IInv, TypeOK, History, Bound, ClosedHook, Clear, Goes, tables, ghosts, Now
<1>3. Setting'
  BY <1>1 DEF IInv, TypeOK, History, Setting, Tables, ClosedHook, Clear, Goes, tables, ghosts,
         Now
<1>4. Open'
  BY <1>1 DEF IInv, TypeOK, History, Open, Fresh, Bound, ClosedHook, Clear, Goes, tables,
         ghosts, Now
<1>5. Fresh'
  BY <1>1 DEF IInv, TypeOK, History, Fresh, Bound, ClosedHook, Clear, Goes, tables, ghosts, Now
<1>6. Left'
  BY <1>1 DEF IInv, TypeOK, History, Left, Open, Hooked, Fresh, Setting, Bound, ClosedHook,
         Clear, Goes, tables, ghosts, Now
<1>7. Hooked'
  BY <1>1 DEF IInv, TypeOK, History, Hooked, Fresh, Bound, Left, Setting, Tables, Open,
         ClosedHook, Clear, Goes, tables, ghosts, Now
<1>8. Progress'
  BY <1>1 DEF IInv, TypeOK, Progress, History, Open, Setting, Tables, ClosedHook, Clear,
         Grouped, Goes, tables, pool, bounds, ghosts, Now, Instances, Task, Kinds, Drains,
         Places
<1>9. Tables'
  BY <1>1 DEF IInv, TypeOK, Tables, Progress, ClosedHook, Clear, Goes, tables
<1>10. Work'
  BY <1>1 DEF IInv, TypeOK, Work, Tables, Live, Progress, ClosedHook, Clear, Grouped, Goes,
         tables, pool, bounds, ghosts, Now, Instances, Task, Kinds, Drains, Places
<1> QED BY <1>1, <1>2, <1>3, <1>4, <1>5, <1>6, <1>7, <1>8, <1>9, <1>10 DEF IInv, History

LEMMA TornDownKeeps ==
  ASSUME IInv, TornDown
  PROVE  IInv'
<1>1. TypeOK'
  BY DEF IInv, TypeOK, Operation, TornDown, DropAll, Clear, Grouped, SyncTools, Idle, At, Goes,
         tables, pool, bounds, ghosts, Instances, Task, Places
<1>2. Bound'
  BY <1>1 DEF IInv, TypeOK, History, Bound, TornDown, DropAll, Clear, Idle, At, Goes, tables,
         ghosts, Now
<1>3. Setting'
  BY <1>1 DEF IInv, TypeOK, History, Setting, Tables, TornDown, DropAll, Clear, Idle, At, Goes,
         tables, ghosts, Now
<1>4. Open'
  BY <1>1 DEF IInv, TypeOK, History, Open, Fresh, Bound, TornDown, DropAll, Clear, Idle, At,
         Goes, tables, ghosts, Now
<1>5. Fresh'
  BY <1>1 DEF IInv, TypeOK, History, Fresh, Bound, TornDown, DropAll, Clear, Idle, At, Goes,
         tables, ghosts, Now
<1>6. Left'
  BY <1>1 DEF IInv, TypeOK, History, Left, Open, Hooked, Fresh, Setting, Bound, TornDown,
         DropAll, Clear, Idle, At, Goes, tables, ghosts, Now
<1>7. Hooked'
  BY <1>1 DEF IInv, TypeOK, History, Hooked, Fresh, Bound, Left, Setting, Tables, Open,
         TornDown, DropAll, Clear, Idle, At, Goes, tables, ghosts, Now
<1>8. Progress'
  BY <1>1 DEF IInv, TypeOK, Progress, History, Open, Setting, Tables, TornDown, DropAll, Clear,
         Idle, At, Goes, tables, ghosts, Now
<1>9. Tables'
  BY <1>1 DEF IInv, TypeOK, Tables, Progress, TornDown, DropAll, Clear, SyncTools, Usable,
         Idle, At, Goes, tables
<1>10. Work'
  BY <1>1 DEF IInv, TypeOK, Work, Tables, Live, Progress, TornDown, DropAll, Clear, Grouped,
         SyncTools, Usable, Idle, At, Goes, tables, pool, bounds, ghosts, Now, Instances, Task,
         Kinds, Drains, Places
<1> QED BY <1>1, <1>2, <1>3, <1>4, <1>5, <1>6, <1>7, <1>8, <1>9, <1>10 DEF IInv, History

LEMMA ReloadKeeps ==
  ASSUME IInv, Reload
  PROVE  IInv'
<1>1. op \in Operation /\ op.at = "loading" /\ op.cur = None /\ loaded = {} /\ op.kind = "reload" /\ boot = "running"
  BY DEF IInv, TypeOK, Progress, Tables, Reload, At, Operation
<1>2. registered = {} /\ Live = {}
  BY <1>1 DEF IInv, TypeOK, Work
<1>3. CASE Load /\ op' = Goes("clearing") /\ UNCHANGED <<dying, jobsStarted>>
  <2>1. op' \in Operation /\ op'.at = "clearing" /\ op'.cur = None /\ op'.kind = op.kind /\ op'.todo = op.todo /\ op'.failing = op.failing
    BY <1>1, <1>3 DEF Goes, Operation, Places, Drains
  <2>2. TypeOK'
    BY <1>1, <1>2, <1>3, <2>1 DEF IInv, TypeOK, Now, Instances, Load, SyncTools, Fates, Reload, Live, tables, pool, bounds, ghosts
  <2>3. History'
    BY <1>1, <1>2, <1>3, <2>1 DEF IInv, TypeOK, History, Bound, Setting, Open, Fresh, Left, Hooked, Now, Instances, Load, SyncTools, Fates, Reload, Live, tables, pool, bounds, ghosts
  <2>4. Progress'
    BY <1>1, <1>2, <1>3, <2>1 DEF IInv, TypeOK, Progress, History, Open, Fresh, Now, Load, SyncTools, Fates, Reload, Live, tables, pool, bounds, ghosts
  <2>5. Tables'
    <3>1. pending' \cap complete' = {} /\ registered' = complete'
      BY <1>3 DEF Load
    <3> QED BY <1>1, <2>1, <3>1 DEF IInv, Tables, Reload
  <2>6. Work'
    <3>1. gen' = gen + 1 /\ gen \in Nat /\ tasks' = tasks /\ Live' = {} /\ jobsStarted' = FALSE /\ boot' = "running"
      BY <1>1, <1>2, <1>3 DEF IInv, TypeOK, Work, Live, Load, Reload
    <3>2. \A t \in tasks' : t.gen \in Nat /\ t.gen < gen'
      BY <3>1 DEF IInv, TypeOK, Task, Work
    <3> QED BY <2>1, <3>1, <3>2 DEF Work
  <2> QED BY <2>2, <2>3, <2>4, <2>5, <2>6 DEF IInv
<1>4. CASE /\ TeardownOf("reload", TRUE)
           /\ UNCHANGED <<gen, loaded, late, complete, registered, published, enabled, unclosed, brought>>
  <2>1. /\ op' \in Operation /\ op'.kind = "reload" /\ op'.at = "stopping" /\ op'.cur = None
        /\ op'.todo = loaded /\ op'.failing = TRUE
        /\ pending' = {} /\ active' = {} /\ jobsStarted' = FALSE
        /\ dying' \in SUBSET tasks' /\ stray' \in SUBSET dying'
        /\ \A t \in Live' : t \in Live /\ t.kind # "job"
    BY <1>4, TeardownBegins DEF IInv, Reload
  <2>2. TypeOK'
    BY <1>1, <1>4, <2>1 DEF IInv, TypeOK, Now, Instances, Reload, tables, pool, bounds, ghosts
  <2>3. History'
    BY <1>1, <1>4, <2>1 DEF IInv, TypeOK, History, Bound, Setting, Open, Fresh, Left, Hooked, Now, Instances, Reload, tables, pool, bounds, ghosts
  <2>4. Progress'
    BY <1>1, <1>4, <2>1 DEF IInv, TypeOK, Progress, History, Open, Fresh, Now, Reload, tables, pool, bounds, ghosts
  <2>5. Tables'
    BY <1>1, <1>4, <2>1 DEF IInv, TypeOK, Tables, Reload, tables, pool, bounds, ghosts
  <2>6. Work'
    BY <1>1, <1>4, <2>1 DEF IInv, TypeOK, Work, Tables, Live, Reload, tables, pool, bounds, ghosts
  <2> QED BY <2>2, <2>3, <2>4, <2>5, <2>6 DEF IInv
<1> QED BY <1>3, <1>4 DEF Reload

LEMMA DrainedKeeps ==
  ASSUME IInv, Drained
  PROVE  IInv'
<1>1. TypeOK'
  BY DEF IInv, TypeOK, Operation, Drained, At, Goes, tables, pool, bounds, ghosts, Instances,
         Task, Places
<1>2. History'
  <2>1. op.at # "closing" /\ op'.cur = None
    BY <1>1 DEF IInv, TypeOK, Operation, Tables, Drained, At, Goes, Drains
  <2> QED BY <2>1, OperationMoves DEF Drained, tables, ghosts
<1>3. Progress'
  BY <1>1 DEF IInv, TypeOK, Progress, History, Open, Setting, Tables, Drained, At, Goes,
         tables, ghosts, Now
<1>4. Tables'
  BY <1>1 DEF IInv, TypeOK, Tables, Progress, Drained, At, Goes, tables
<1>5. Work'
  BY <1>1 DEF IInv, Work, Tables, Live, Progress, Drained, At, Goes, tables, pool, Task, Kinds
<1> QED BY <1>1, <1>2, <1>3, <1>4, <1>5 DEF IInv

LEMMA SetupBlockedKeeps ==
  ASSUME IInv, NEW p \in pending, At("setup"), SetupBlocked(p), UNCHANGED <<gen, published, enabled, tasks, jobsStarted, boot, draining, bounds, closed, lost>>
  PROVE  IInv'
<1>1. TypeOK'
  BY DEF IInv, TypeOK, Operation, SetupBlocked, Rollback, Clear, Grouped, At, tables, pool,
         bounds, ghosts, Now, Instances, Task, Kinds, Drains, Places
<1>2. Bound'
  BY <1>1 DEF IInv, TypeOK, History, Bound, SetupBlocked, Rollback, Clear, At, tables, ghosts,
         Now
<1>3. Setting'
  BY <1>1 DEF IInv, TypeOK, History, Setting, Tables, SetupBlocked, Rollback, Clear, At,
         tables, ghosts, Now
<1>4. Open'
  BY <1>1 DEF IInv, TypeOK, History, Open, Fresh, Bound, SetupBlocked, Rollback, Clear, At,
         tables, ghosts, Now
<1>5. Fresh'
  BY <1>1 DEF IInv, TypeOK, History, Fresh, Bound, SetupBlocked, Rollback, Clear, At, tables,
         ghosts, Now
<1>6. Left'
  BY <1>1 DEF IInv, TypeOK, History, Left, Open, Hooked, Fresh, Setting, Bound, SetupBlocked,
         Rollback, Clear, At, tables, ghosts, Now
<1>7. Hooked'
  BY <1>1 DEF IInv, TypeOK, History, Hooked, Fresh, Bound, Left, Setting, Tables, Open,
         SetupBlocked, Rollback, Clear, At, tables, ghosts, Now
<1>8. Progress'
  BY <1>1 DEF IInv, TypeOK, Progress, History, Open, Setting, Tables, SetupBlocked, Rollback,
         Clear, At, tables, ghosts, Now
<1>9. Tables'
  BY <1>1 DEF IInv, TypeOK, Tables, Progress, SetupBlocked, Rollback, Clear, At, tables
<1>10. Work'
  BY <1>1 DEF IInv, Work, Tables, Live, Progress, SetupBlocked, Rollback, Clear, Grouped, At,
         tables, pool, Task, Kinds
<1> QED BY <1>1, <1>2, <1>3, <1>4, <1>5, <1>6, <1>7, <1>8, <1>9, <1>10 DEF IInv, History

LEMMA SetupBeginsKeeps ==
  ASSUME IInv, NEW p \in pending, At("setup"), SetupBegins(p), UNCHANGED <<gen, published, enabled, tasks, jobsStarted, boot, draining, bounds, closed, lost>>
  PROVE  IInv'
<1>1. TypeOK'
  <2>1. op' \in Operation
    BY DEF IInv, TypeOK, Operation, SetupBegins, At, tables, pool, bounds, ghosts, Now, Instances, Task, Kinds, Drains, Places
  <2> QED BY <2>1 DEF IInv, TypeOK, Tables, SetupBegins, At, tables, pool, bounds, ghosts, Now, Instances, Task, Kinds, Drains, Places
<1>2. Bound'
  BY <1>1 DEF IInv, TypeOK, History, Bound, SetupBegins, At, tables, ghosts, Now
<1>3. Setting'
  BY <1>1 DEF IInv, TypeOK, History, Setting, Tables, SetupBegins, At, tables, ghosts, Now
<1>4. Open'
  BY <1>1 DEF IInv, TypeOK, History, Open, Fresh, Bound, SetupBegins, At, tables, ghosts, Now
<1>5. Fresh'
  BY <1>1 DEF IInv, TypeOK, History, Fresh, Bound, SetupBegins, At, tables, ghosts, Now
<1>6. Left'
  BY <1>1 DEF IInv, TypeOK, History, Left, Open, Hooked, Fresh, Setting, Bound, SetupBegins,
         At, tables, ghosts, Now
<1>7. Hooked'
  BY <1>1 DEF IInv, TypeOK, History, Hooked, Fresh, Bound, Left, Setting, Tables, Open,
         SetupBegins, At, tables, ghosts, Now
<1>8. Progress'
  BY <1>1 DEF IInv, TypeOK, Progress, History, Open, Setting, Tables, SetupBegins, At, tables,
         ghosts, Now
<1>9. Tables'
  BY <1>1 DEF IInv, TypeOK, Tables, Progress, SetupBegins, At, tables
<1>10. Work'
  BY <1>1 DEF IInv, Work, Tables, Live, Progress, SetupBegins, At, tables, pool, Task, Kinds
<1> QED BY <1>1, <1>2, <1>3, <1>4, <1>5, <1>6, <1>7, <1>8, <1>9, <1>10 DEF IInv, History

LEMMA SetupAtOnceKeeps ==
  ASSUME IInv, NEW p \in pending, At("setup"), SetupAtOnce(p), UNCHANGED <<gen, published, enabled, tasks, jobsStarted, boot, draining, bounds, closed, lost>>
  PROVE  IInv'
<1>1. /\ op \in Operation /\ op.at = "setup" /\ op.cur = None /\ p \in Plugins \ loaded /\ gen \in Nat
      /\ [plugin |-> p, gen |-> gen] \in Instances
  BY DEF IInv, TypeOK, SetupAtOnce, At, Instances
<1> DEFINE x == [plugin |-> p, gen |-> gen]
<1>2. pending' = pending \ {p} /\ dying' = dying /\ stray' = stray
  BY DEF SetupAtOnce
<1>3. CASE /\ loaded' = loaded \cup {p} /\ late' = late \cup {p} /\ complete' = complete \cup {p}
           /\ active' = active \cup {p} /\ registered' = registered \cup {p}
           /\ brought' = brought \cup {x}
           /\ UNCHANGED <<op, unclosed>>
  <2>1. TypeOK'
    BY <1>1, <1>2, <1>3 DEF IInv, TypeOK, Now, Instances, pool, tables, pool, bounds, ghosts
  <2>2. History'
    BY <1>1, <1>2, <1>3 DEF IInv, TypeOK, History, Bound, Setting, Open, Fresh, Left, Hooked, Now, Instances, pool, tables, pool, bounds, ghosts
  <2>3. Progress'
    <3>1. Now(loaded') = Now(loaded) \cup {x}
      BY <1>3 DEF Now
    <3>2. brought' \subseteq Now(loaded') \cup unclosed' \cup closed' \cup lost'
      BY <1>3, <3>1 DEF IInv, Progress
    <3>3. op' = op /\ op.at = "setup" /\ op.cur = None /\ boot' # "new" /\ gen' = gen
      BY <1>1, <1>3 DEF IInv, Tables
    <3> QED BY <3>2, <3>3 DEF Progress, Now
  <2>4. Tables'
    BY <1>1, <1>2, <1>3 DEF IInv, TypeOK, Tables, pool, tables, pool, bounds, ghosts
  <2>5. Work'
    BY <1>1, <1>2, <1>3 DEF IInv, TypeOK, Work, Tables, Live, pool, tables, pool, bounds, ghosts
  <2> QED BY <2>1, <2>2, <2>3, <2>4, <2>5 DEF IInv
<1>4. CASE unclosed' = unclosed \cup {x} /\ brought' = brought \cup {x} /\ op' = Goes("undoing") /\ UNCHANGED tables
  <2>1. op' \in Operation /\ op'.at = "undoing" /\ op'.cur = None /\ op'.kind = op.kind /\ op'.todo = op.todo /\ op'.failing = op.failing
    BY <1>1, <1>4 DEF Goes, Operation, Places, Drains
  <2>2. TypeOK'
    BY <1>1, <1>2, <1>4, <2>1 DEF IInv, TypeOK, Now, Instances, pool, tables, pool, bounds, ghosts
  <2>3. History'
    BY <1>1, <1>2, <1>4, <2>1 DEF IInv, TypeOK, History, Bound, Setting, Open, Fresh, Left, Hooked, Now, Instances, pool, tables, pool, bounds, ghosts
  <2>4. Progress'
    BY <1>1, <1>2, <1>4, <2>1 DEF IInv, TypeOK, Progress, History, Open, Fresh, Now, pool, tables, pool, bounds, ghosts
  <2>5. Tables'
    BY <1>1, <1>2, <1>4, <2>1 DEF IInv, TypeOK, Tables, pool, tables, pool, bounds, ghosts
  <2>6. Work'
    BY <1>1, <1>2, <1>4, <2>1 DEF IInv, TypeOK, Work, Tables, Live, pool, tables, pool, bounds, ghosts
  <2> QED BY <2>2, <2>3, <2>4, <2>5, <2>6 DEF IInv
<1>5. CASE UNCHANGED <<tables, unclosed, brought, op>>
  <2>1. TypeOK'
    BY <1>1, <1>2, <1>5 DEF IInv, TypeOK, Now, Instances, pool, tables, pool, bounds, ghosts
  <2>2. History'
    BY <1>1, <1>2, <1>5 DEF IInv, TypeOK, History, Bound, Setting, Open, Fresh, Left, Hooked, Now, Instances, pool, tables, pool, bounds, ghosts
  <2>3. Progress'
    BY <1>1, <1>2, <1>5 DEF IInv, TypeOK, Progress, History, Open, Fresh, Now, pool, tables, pool, bounds, ghosts
  <2>4. Tables'
    BY <1>1, <1>2, <1>5 DEF IInv, TypeOK, Tables, pool, tables, pool, bounds, ghosts
  <2>5. Work'
    BY <1>1, <1>2, <1>5 DEF IInv, TypeOK, Work, Tables, Live, pool, tables, pool, bounds, ghosts
  <2> QED BY <2>1, <2>2, <2>3, <2>4, <2>5 DEF IInv
<1> QED BY <1>3, <1>4, <1>5 DEF SetupAtOnce, Now

LEMMA SetupEndsKeeps ==
  ASSUME IInv, SetupEnds
  PROVE  IInv'
<1>1. op \in Operation /\ op.at = "setup" /\ op.cur # None /\ op.cur.plugin \in loaded \ pending
  BY DEF IInv, TypeOK, History, Setting, SetupEnds
<1> DEFINE p == op.cur.plugin
<1>2. CASE /\ complete' = complete \cup {p}
           /\ op' = Goes("setup")
           /\ UNCHANGED <<loaded, late, active, registered, pending, unclosed, dying, stray>>
  <2>1. op' \in Operation /\ op'.at = "setup" /\ op'.cur = None /\ op'.kind = op.kind /\ op'.todo = op.todo /\ op'.failing = op.failing
    BY <1>1, <1>2 DEF Goes, Operation, Places
  <2>2. TypeOK'
    BY <1>1, <1>2, <2>1 DEF IInv, TypeOK, Now, Instances, SetupEnds, tables, pool, bounds, ghosts
  <2>3. History'
    BY <1>1, <1>2, <2>1 DEF IInv, TypeOK, History, Bound, Setting, Open, Fresh, Left, Hooked, Now, Instances, SetupEnds, tables, pool, bounds, ghosts
  <2>4. Progress'
    BY <1>1, <1>2, <2>1 DEF IInv, TypeOK, Progress, History, Open, Fresh, Now, SetupEnds, tables, pool, bounds, ghosts
  <2>5. Tables'
    BY <1>1, <1>2, <2>1 DEF IInv, TypeOK, Tables, SetupEnds, tables, pool, bounds, ghosts
  <2>6. Work'
    BY <1>1, <1>2, <2>1 DEF IInv, TypeOK, Work, Tables, Live, SetupEnds, tables, pool, bounds, ghosts
  <2> QED BY <2>2, <2>3, <2>4, <2>5, <2>6 DEF IInv
<1>3. CASE Rollback({p}) /\ op' = Goes("undoing")
  <2>1. op' \in Operation /\ op'.at = "undoing" /\ op'.cur = None /\ op'.kind = op.kind /\ op'.todo = op.todo /\ op'.failing = op.failing
    BY <1>1, <1>3 DEF Goes, Operation, Places, Drains
  <2>2. /\ loaded' = loaded \ {p} /\ complete' = complete \ {p} /\ registered' = registered \ {p}
        /\ unclosed' = unclosed \cup Now({p}) /\ pending' = pending \ {p} /\ active' = active \ {p} /\ late' = late \ {p}
    <3>1. {p} \cap loaded = {p}
      BY <1>1
    <3> QED BY <1>3, <3>1 DEF Rollback, Clear
  <2>3. Cleared({p})
    <3>1. p \in Plugins /\ tasks' = tasks
      BY <1>1 DEF IInv, TypeOK, SetupEnds
    <3> QED BY <1>3, <3>1, RegistrationsCleared DEF IInv, Rollback
  <2>4. TypeOK'
    BY <1>1, <2>1, <2>2, <2>3 DEF IInv, TypeOK, Now, Instances, Cleared, SetupEnds, tables, pool, bounds, ghosts
  <2>5. History'
    BY <1>1, <2>1, <2>2, <2>3 DEF IInv, TypeOK, History, Bound, Setting, Open, Fresh, Left, Hooked, Now, Instances, Cleared, SetupEnds, tables, pool, bounds, ghosts
  <2>6. Progress'
    BY <1>1, <2>1, <2>2, <2>3 DEF IInv, TypeOK, Progress, History, Open, Fresh, Now, Cleared, SetupEnds, tables, pool, bounds, ghosts
  <2>7. Tables'
    BY <1>1, <2>1, <2>2, <2>3 DEF IInv, TypeOK, Tables, Cleared, SetupEnds, tables, pool, bounds, ghosts
  <2>8. Work'
    BY <1>1, <2>1, <2>2, <2>3 DEF IInv, TypeOK, Work, Tables, Live, Cleared, SetupEnds, tables, pool, bounds, ghosts
  <2> QED BY <2>4, <2>5, <2>6, <2>7, <2>8 DEF IInv
<1> QED BY <1>2, <1>3 DEF SetupEnds

LEMMA SetupsDoneKeeps ==
  ASSUME IInv, SetupsDone
  PROVE  IInv'
<1>1. op' = Idle /\ op.at = "setup" /\ op.cur = None /\ registered = complete /\ pending = {}
     /\ \A t \in tasks : t.kind = "job" => t.gen < gen
  BY DEF IInv, Tables, Work, SetupsDone, At
<1>2. op'.at = "idle" /\ op'.kind = "none" /\ op'.cur = None /\ op' \in Operation
  BY <1>1 DEF IInv, TypeOK, Operation, Places, Idle
<1>3. jobsStarted' \in BOOLEAN /\ tasks' \in SUBSET Task /\ dying' \in SUBSET tasks' /\ Work'
  <2>1. CASE op.kind = "reload"
    <3>1. StartJobs /\ boot = "running"
      BY <2>1 DEF IInv, Tables, SetupsDone
    <3> QED BY <1>1, <1>2, <3>1, JobsBegin DEF IInv, Work, SetupsDone, tables, bounds, ghosts
  <2>2. CASE op.kind # "reload"
    BY <1>1, <1>2, <2>2 DEF IInv, TypeOK, Work, Live, SetupsDone, tables, bounds, ghosts
  <2> QED BY <2>1, <2>2
<1>4. TypeOK'
  BY <1>2, <1>3 DEF IInv, TypeOK, SetupsDone, SyncTools, tables, bounds, ghosts
<1>5. History'
  BY <1>1, <1>2 DEF IInv, History, Bound, Setting, Open, Fresh, Left, Hooked, Now, SetupsDone, SyncTools, tables, bounds, ghosts
<1>6. Progress'
  BY <1>1, <1>2 DEF IInv, Progress, Tables, Now, SetupsDone, SyncTools, tables, bounds, ghosts
<1>7. Tables'
  <2>1. published' = complete' \cap enabled'
    BY <1>1 DEF IInv, TypeOK, SetupsDone, SyncTools, Usable, tables
  <2> QED BY <1>1, <1>2, <2>1 DEF IInv, Tables, SetupsDone, tables
<1> QED BY <1>3, <1>4, <1>5, <1>6, <1>7 DEF IInv

LEMMA CancelTeardownKeeps ==
  ASSUME IInv, CancelTeardown, cancels' = cancels + 1, UNCHANGED <<gen, tasks, draining, ops, brought, closed>>
  PROVE  IInv'
<1>1. op \in Operation /\ op.at \in {"stopping", "joining", "flushing", "closing"} /\ boot # "new" /\ gen \in Nat
  BY DEF IInv, TypeOK, Tables, CancelTeardown
<1>2. op' = Idle /\ op' \in Operation /\ op'.at = "idle" /\ op'.kind = "none" /\ op'.cur = None
  BY DEF CancelTeardown, Idle, Operation, Places
<1>3. Cleared(loaded) /\ pending' = pending \ loaded /\ registered' = registered \ loaded
  BY RegistrationsCleared DEF IInv, TypeOK, CancelTeardown, DropAll, Clear
<1>4. /\ loaded' = {} /\ late' = {} /\ complete' = {} /\ enabled' = enabled /\ lost' = lost \cup (Now(loaded) \ closed)
      /\ UNCHANGED <<unclosed, boot, jobsStarted>>
  BY DEF CancelTeardown, DropAll
<1>5. registered' = {} /\ published' = {}
  BY <1>3, <1>4 DEF IInv, TypeOK, CancelTeardown, DropAll, SyncTools
<1>6. TypeOK'
  BY <1>1, <1>2, <1>3, <1>4, <1>5 DEF IInv, TypeOK, Now, Instances, Cleared, bounds, tables, pool, bounds, ghosts
<1>7. History'
  BY <1>1, <1>2, <1>3, <1>4, <1>5 DEF IInv, TypeOK, History, Bound, Setting, Open, Fresh, Left, Hooked, Now, Instances, Cleared, bounds, tables, pool, bounds, ghosts
<1>8. Progress'
  BY <1>1, <1>2, <1>3, <1>4, <1>5 DEF IInv, TypeOK, Progress, History, Open, Fresh, Now, Cleared, bounds, tables, pool, bounds, ghosts
<1>9. Tables'
  BY <1>1, <1>2, <1>3, <1>4, <1>5 DEF IInv, TypeOK, Tables, Cleared, bounds, tables, pool, bounds, ghosts
<1>10. Work'
  BY <1>1, <1>2, <1>3, <1>4, <1>5 DEF IInv, TypeOK, Work, Tables, Live, Cleared, bounds, tables, pool, bounds, ghosts
<1> QED BY <1>6, <1>7, <1>8, <1>9, <1>10 DEF IInv

LEMMA CancelDrainKeeps ==
  ASSUME IInv, CancelDrain, cancels' = cancels + 1, UNCHANGED <<gen, tasks, draining, ops, brought, closed>>
  PROVE  IInv'
<1>1. op \in Operation /\ op.at \in {"clearing", "undoing", "unwinding"} /\ boot # "new" /\ op.kind \in {"setup", "reload"}
  BY DEF IInv, TypeOK, Tables, Operation, CancelDrain, At
<1>2. /\ UNCHANGED <<loaded, late, complete, registered, enabled, gen, unclosed, tasks, draining, brought, closed, lost, stray>>
      /\ ops' \in Nat /\ cancels' \in Nat
  BY DEF IInv, TypeOK, CancelDrain, Raised, ghosts, bounds
<1>3. published' \in SUBSET Plugins
  BY DEF IInv, TypeOK, CancelDrain, Raised, SyncTools
<1>4. CASE op.kind = "setup"
  <2>1. op' = Idle /\ boot' = "failed" /\ UNCHANGED <<pending, active, dying, jobsStarted>>
    BY <1>4 DEF CancelDrain, Raised
  <2>2. op' \in Operation /\ op'.at = "idle" /\ op'.kind = "none" /\ op'.cur = None
    BY <2>1 DEF Idle, Operation, Places
  <2>3. published' = complete' \cap enabled'
    BY <1>1, <1>2, <2>1 DEF IInv, TypeOK, Tables, CancelDrain, Raised, SyncTools, Usable
  <2>4. TypeOK'
    BY <1>1, <1>2, <1>3, <2>1, <2>2, <2>3 DEF IInv, TypeOK, Now, Instances, pool, tables, pool, bounds, ghosts
  <2>5. History'
    BY <1>1, <1>2, <1>3, <2>1, <2>2, <2>3 DEF IInv, TypeOK, History, Bound, Setting, Open, Fresh, Left, Hooked, Now, Instances, pool, tables, pool, bounds, ghosts
  <2>6. Progress'
    BY <1>1, <1>2, <1>3, <2>1, <2>2, <2>3 DEF IInv, TypeOK, Progress, History, Open, Fresh, Now, pool, tables, pool, bounds, ghosts
  <2>7. Tables'
    BY <1>1, <1>2, <1>3, <2>1, <2>2, <2>3 DEF IInv, TypeOK, Tables, pool, tables, pool, bounds, ghosts
  <2>8. Work'
    BY <1>1, <1>2, <1>3, <2>1, <2>2, <2>3 DEF IInv, TypeOK, Work, Tables, Live, pool, tables, pool, bounds, ghosts
  <2> QED BY <2>4, <2>5, <2>6, <2>7, <2>8 DEF IInv
<1>5. CASE op.kind = "reload"
  <2>1. TeardownOf("reload", TRUE) /\ boot' = boot
    BY <1>5 DEF CancelDrain, Raised
  <2>2. /\ op' \in Operation /\ op'.kind = "reload" /\ op'.at = "stopping" /\ op'.cur = None
        /\ op'.todo = loaded /\ op'.failing = TRUE
        /\ pending' = {} /\ active' = {} /\ jobsStarted' = FALSE
        /\ dying' \in SUBSET tasks' /\ stray' \in SUBSET dying'
        /\ \A t \in Live' : t \in Live /\ t.kind # "job"
    BY <1>2, <2>1, TeardownBegins DEF IInv
  <2>3. TypeOK'
    BY <1>1, <1>2, <1>3, <1>5, <2>1, <2>2 DEF IInv, TypeOK, Now, Instances, pool, tables, pool, bounds, ghosts
  <2>4. History'
    BY <1>1, <1>2, <1>3, <1>5, <2>1, <2>2 DEF IInv, TypeOK, History, Bound, Setting, Open, Fresh, Left, Hooked, Now, Instances, pool, tables, pool, bounds, ghosts
  <2>5. Progress'
    BY <1>1, <1>2, <1>3, <1>5, <2>1, <2>2 DEF IInv, TypeOK, Progress, History, Open, Fresh, Now, pool, tables, pool, bounds, ghosts
  <2>6. Tables'
    BY <1>1, <1>2, <1>3, <1>5, <2>1, <2>2 DEF IInv, TypeOK, Tables, pool, tables, pool, bounds, ghosts
  <2>7. Work'
    BY <1>1, <1>2, <1>3, <1>5, <2>1, <2>2 DEF IInv, TypeOK, Work, Tables, Live, pool, tables, pool, bounds, ghosts
  <2> QED BY <2>3, <2>4, <2>5, <2>6, <2>7 DEF IInv
<1> QED BY <1>1, <1>4, <1>5

LEMMA CancelSetupKeeps ==
  ASSUME IInv, CancelSetup, cancels' = cancels + 1, UNCHANGED <<gen, tasks, draining, ops, brought, closed>>
  PROVE  IInv'
<1>1. op \in Operation /\ op.at = "setup" /\ op.cur # None /\ op.cur.plugin \in loaded
  BY DEF IInv, TypeOK, History, Setting, CancelSetup
<1> DEFINE S == {op.cur.plugin} \cup pending
<1>2. S \in SUBSET Plugins /\ Rollback(S) /\ op' = Goes("unwinding")
  BY <1>1 DEF IInv, TypeOK, CancelSetup
<1>3. op' \in Operation /\ op'.at = "unwinding" /\ op'.cur = None /\ op'.kind = op.kind /\ op'.todo = op.todo /\ op'.failing = op.failing
  BY <1>1, <1>2 DEF Goes, Operation, Places, Drains
<1>4. Cleared(S)
  BY <1>2, RegistrationsCleared DEF IInv, Rollback
<1> HIDE DEF S
<1>5. /\ loaded' = loaded \ S /\ complete' = complete \ S /\ registered' = registered \ S
      /\ unclosed' = unclosed \cup Now(S \cap loaded) /\ pending' = pending \ S /\ active' = active \ S /\ late' = late \ S
  BY <1>2 DEF Rollback, Clear
<1>6. op.cur.plugin \in S /\ pending \subseteq S
  BY DEF S
<1>7. TypeOK'
  BY <1>1, <1>2, <1>3, <1>4, <1>5, <1>6 DEF IInv, TypeOK, Now, Instances, Cleared, CancelSetup, tables, pool, bounds, ghosts
<1>8. History'
  BY <1>1, <1>2, <1>3, <1>4, <1>5, <1>6 DEF IInv, TypeOK, History, Bound, Setting, Open, Fresh, Left, Hooked, Now, Instances, Cleared, CancelSetup, tables, pool, bounds, ghosts
<1>9. Progress'
  BY <1>1, <1>2, <1>3, <1>4, <1>5, <1>6 DEF IInv, TypeOK, Progress, History, Open, Fresh, Now, Cleared, CancelSetup, tables, pool, bounds, ghosts
<1>10. Tables'
  BY <1>1, <1>2, <1>3, <1>4, <1>5, <1>6 DEF IInv, TypeOK, Tables, Cleared, CancelSetup, tables, pool, bounds, ghosts
<1>11. Work'
  BY <1>1, <1>2, <1>3, <1>4, <1>5, <1>6 DEF IInv, TypeOK, Work, Tables, Live, Cleared, CancelSetup, tables, pool, bounds, ghosts
<1> QED BY <1>7, <1>8, <1>9, <1>10, <1>11 DEF IInv

LEMMA UnwoundKeeps ==
  ASSUME IInv, Unwound
  PROVE  IInv'
<1>1. op \in Operation /\ op.at \in {"clearing", "undoing", "unwinding"} /\ boot # "new" /\ op.kind \in {"setup", "reload"}
  BY DEF IInv, TypeOK, Tables, Operation, Unwound, At
<1>2. /\ UNCHANGED <<loaded, late, complete, registered, enabled, gen, unclosed, tasks, draining, brought, closed, lost, stray>>
      /\ ops' \in Nat /\ cancels' \in Nat
  BY DEF IInv, TypeOK, Unwound, Raised, ghosts, bounds
<1>3. published' \in SUBSET Plugins
  BY DEF IInv, TypeOK, Unwound, Raised, SyncTools
<1>4. CASE op.kind = "setup"
  <2>1. op' = Idle /\ boot' = "failed" /\ UNCHANGED <<pending, active, dying, jobsStarted>>
    BY <1>4 DEF Unwound, Raised
  <2>2. op' \in Operation /\ op'.at = "idle" /\ op'.kind = "none" /\ op'.cur = None
    BY <2>1 DEF Idle, Operation, Places
  <2>3. published' = complete' \cap enabled'
    BY <1>1, <1>2, <2>1 DEF IInv, TypeOK, Tables, Unwound, Raised, SyncTools, Usable
  <2>4. TypeOK'
    BY <1>1, <1>2, <1>3, <2>1, <2>2, <2>3 DEF IInv, TypeOK, Now, Instances, pool, tables, pool, bounds, ghosts
  <2>5. History'
    BY <1>1, <1>2, <1>3, <2>1, <2>2, <2>3 DEF IInv, TypeOK, History, Bound, Setting, Open, Fresh, Left, Hooked, Now, Instances, pool, tables, pool, bounds, ghosts
  <2>6. Progress'
    BY <1>1, <1>2, <1>3, <2>1, <2>2, <2>3 DEF IInv, TypeOK, Progress, History, Open, Fresh, Now, pool, tables, pool, bounds, ghosts
  <2>7. Tables'
    BY <1>1, <1>2, <1>3, <2>1, <2>2, <2>3 DEF IInv, TypeOK, Tables, pool, tables, pool, bounds, ghosts
  <2>8. Work'
    BY <1>1, <1>2, <1>3, <2>1, <2>2, <2>3 DEF IInv, TypeOK, Work, Tables, Live, pool, tables, pool, bounds, ghosts
  <2> QED BY <2>4, <2>5, <2>6, <2>7, <2>8 DEF IInv
<1>5. CASE op.kind = "reload"
  <2>1. TeardownOf("reload", TRUE) /\ boot' = boot
    BY <1>5 DEF Unwound, Raised
  <2>2. /\ op' \in Operation /\ op'.kind = "reload" /\ op'.at = "stopping" /\ op'.cur = None
        /\ op'.todo = loaded /\ op'.failing = TRUE
        /\ pending' = {} /\ active' = {} /\ jobsStarted' = FALSE
        /\ dying' \in SUBSET tasks' /\ stray' \in SUBSET dying'
        /\ \A t \in Live' : t \in Live /\ t.kind # "job"
    BY <1>2, <2>1, TeardownBegins DEF IInv
  <2>3. TypeOK'
    BY <1>1, <1>2, <1>3, <1>5, <2>1, <2>2 DEF IInv, TypeOK, Now, Instances, pool, tables, pool, bounds, ghosts
  <2>4. History'
    BY <1>1, <1>2, <1>3, <1>5, <2>1, <2>2 DEF IInv, TypeOK, History, Bound, Setting, Open, Fresh, Left, Hooked, Now, Instances, pool, tables, pool, bounds, ghosts
  <2>5. Progress'
    BY <1>1, <1>2, <1>3, <1>5, <2>1, <2>2 DEF IInv, TypeOK, Progress, History, Open, Fresh, Now, pool, tables, pool, bounds, ghosts
  <2>6. Tables'
    BY <1>1, <1>2, <1>3, <1>5, <2>1, <2>2 DEF IInv, TypeOK, Tables, pool, tables, pool, bounds, ghosts
  <2>7. Work'
    BY <1>1, <1>2, <1>3, <1>5, <2>1, <2>2 DEF IInv, TypeOK, Work, Tables, Live, pool, tables, pool, bounds, ghosts
  <2> QED BY <2>3, <2>4, <2>5, <2>6, <2>7 DEF IInv
<1> QED BY <1>1, <1>4, <1>5


-------------------------------------------------------------------------------
(* The theorems. *)

LEMMA InvariantKept ==
  ASSUME IInv, [Next]_vars
  PROVE  IInv'
<1>1. CASE UNCHANGED vars
  BY <1>1 DEF IInv, TypeOK, History, Bound, Setting, Open, Fresh, Left, Hooked, Progress, Tables, Work, Live, Now,
              vars, tables, pool, bounds, ghosts
<1>2. CASE Construct \/ BeginSetups \/ StartUp
  BY <1>2, ConstructKeeps, BeginSetupsKeeps, StartUpKeeps
<1>3. CASE \E p \in Plugins : Dispatch(p) \/ Spawn(p) \/ Toggle(p) \/ Uninstall(p)
  BY <1>3, DispatchKeeps, SpawnKeeps, ToggleKeeps, UninstallKeeps
<1>4. CASE TaskEnds \/ Drain \/ BeginTeardown \/ BeginReload
  BY <1>4, TaskEndsKeeps, DrainKeeps, BeginTeardownKeeps, BeginReloadKeeps
<1>5. CASE JobsStopped \/ TasksJoined \/ DrainNext \/ DrainedHook \/ Flushed \/ CloseNext \/ ClosedHook \/ TornDown
  BY <1>5, JobsStoppedKeeps, TasksJoinedKeeps, DrainNextKeeps, DrainedHookKeeps, FlushedKeeps, CloseNextKeeps,
     ClosedHookKeeps, TornDownKeeps
<1>6. CASE Reload \/ Drained \/ SetupEnds \/ SetupsDone
  BY <1>6, ReloadKeeps, DrainedKeeps, SetupEndsKeeps, SetupsDoneKeeps
<1>7. CASE NextSetup
  <2>1. PICK p \in pending : SetupBlocked(p) \/ SetupBegins(p) \/ SetupAtOnce(p)
    BY <1>7 DEF NextSetup
  <2> QED BY <1>7, <2>1, SetupBlockedKeeps, SetupBeginsKeeps, SetupAtOnceKeeps DEF NextSetup
<1>8. CASE Cancel
  BY <1>8, CancelTeardownKeeps, CancelDrainKeeps, CancelSetupKeeps DEF Cancel
<1>9. CASE Unwound
  BY <1>9, UnwoundKeeps
<1> QED BY <1>1, <1>2, <1>3, <1>4, <1>5, <1>6, <1>7, <1>8, <1>9 DEF Next

LEMMA InvariantHolds == Spec => []IInv
<1>1. ASSUME Init
      PROVE  IInv
  <2>1. op \in Operation /\ op.at = "idle" /\ op.kind = "none" /\ op.cur = None
    BY <1>1 DEF Init, Idle, Operation, Places
  <2>2. TypeOK
    BY <1>1, <2>1 DEF Init, TypeOK
  <2>3. History /\ Progress
    BY <1>1, <2>1 DEF Init, History, Bound, Setting, Open, Fresh, Left, Hooked, Progress, Now
  <2>4. Tables /\ Work
    BY <1>1, <2>1 DEF Init, Tables, Work, Live
  <2> QED BY <2>2, <2>3, <2>4 DEF IInv
<1> QED BY <1>1, InvariantKept, PTL DEF Spec

\* The state is well formed: what is set up, active or registered is loaded, and
\* cancelled tasks are tasks (PluginManager).
THEOREM TypeCorrect == Spec => []TypeOK
<1>1. IInv => TypeOK
  BY DEF IInv
<1> QED BY <1>1, InvariantHolds, PTL

\* Between operations dispatch reaches the plugins that are set up and no other
\* (_teardown_plugins, _complete_pending_setups, _rollback_plugin).
THEOREM NeverHalfLoaded == Spec => []NothingHalfLoaded
<1>1. IInv => NothingHalfLoaded
  <2> SUFFICES ASSUME IInv, op.kind = "none"
               PROVE  NothingHalfLoaded
    BY DEF NothingHalfLoaded
  <2>1. op.at = "idle" /\ registered = complete /\ published = complete \cap enabled
    BY DEF IInv, Tables
  <2>2. \A t \in tasks \ dying : t.gen = gen /\ t.plugin \in complete
    BY <2>1 DEF IInv, Work, Live
  <2>3. brought \subseteq Now(loaded) \cup unclosed \cup closed \cup lost
    BY DEF IInv, Progress
  <2>4. ASSUME ~draining
        PROVE  {t \in tasks \ dying : t.kind = "job"} =
                 {[plugin |-> p, gen |-> gen, kind |-> "job"] : p \in IF jobsStarted THEN complete \cap Working ELSE {}}
    <3>1. CASE jobsStarted
      <4>1. ASSUME NEW t \in tasks \ dying, t.kind = "job"
            PROVE  t.plugin \in complete \cap Working /\ t = [plugin |-> t.plugin, gen |-> gen, kind |-> "job"]
        BY <2>2, <4>1 DEF IInv, TypeOK, Work, Live, Task
      <4>2. ASSUME NEW p \in complete \cap Working
            PROVE  [plugin |-> p, gen |-> gen, kind |-> "job"] \in tasks \ dying
        BY <2>4, <3>1 DEF IInv, Work, Live
      <4> QED BY <3>1, <4>1, <4>2
    <3>2. CASE ~jobsStarted
      BY <3>2 DEF IInv, Work, Live
    <3> QED BY <3>1, <3>2 DEF IInv, TypeOK
  <2> QED BY <2>1, <2>2, <2>3, <2>4 DEF NothingHalfLoaded
<1> QED BY <1>1, InvariantHolds, PTL

LEMMA NobodyRuns ==
  ASSUME op \in Operation
  PROVE  /\ Idle.cur = None /\ [Idle EXCEPT !.kind = "setup", !.at = "clearing"].cur = None
         /\ \A place \in Places : Goes(place).cur = None
         /\ {"joining", "flushing", "closing", "loading", "setup", "undoing", "unwinding", "clearing"} \subseteq Places
         /\ op.at \in Places
         /\ \A S : [Goes("joining") EXCEPT !.join = S].cur = None
         /\ \A S : [Goes("flushing") EXCEPT !.join = S].cur = None
         /\ \A S : [Goes("closing") EXCEPT !.todo = @ \ S].cur = None
         /\ \A kind, failing : TeardownOf(kind, failing) => op'.cur = None
  BY DEF Idle, Operation, Places, Drains, Goes, TeardownOf

LEMMA HookOnce ==
  ASSUME IInv, [Next]_vars, op'.cur # None, op'.cur # op.cur, op'.at # "setup"
  PROVE  op'.cur \in brought \ (closed \cup lost)
<1> USE DEF IInv, TypeOK, Operation
<1>1. CASE DrainNext
  <2>1. op'.cur \in unclosed
    BY <1>1 DEF DrainNext, CallHook
  <2> QED BY <2>1 DEF History, Left
<1>2. CASE CloseNext
  <2>1. PICK p \in op.todo : p \in loaded /\ op'.cur = [plugin |-> p, gen |-> gen]
    BY <1>2 DEF CloseNext, CallHook, At
  <2>2. op'.cur \in Now(loaded) /\ op.cur = None /\ op.at = "closing"
    BY <1>2, <2>1 DEF Now, CloseNext, At
  <2>3. op'.cur \notin closed
    BY <2>1, <2>2 DEF History, Hooked
  <2> QED BY <2>2, <2>3 DEF History, Open
<1>3. CASE UNCHANGED op
  BY <1>3
<1>4. CASE op'.cur = None \/ op'.at = "setup"
  BY <1>4
<1>5. DrainNext \/ CloseNext \/ UNCHANGED op \/ op'.cur = None \/ op'.at = "setup" \/ op'.cur = op.cur
  <2>1. CASE \/ UNCHANGED vars \/ Construct \/ StartUp \/ TaskEnds \/ Drain
             \/ \E p \in Plugins : Dispatch(p) \/ Spawn(p) \/ Toggle(p) \/ Uninstall(p)
    BY <2>1 DEF vars, Construct, StartUp, TaskEnds, Drain, Dispatch, Spawn, Toggle, Uninstall
  <2>2. CASE BeginSetups \/ BeginTeardown \/ BeginReload \/ SetupsDone
    BY <2>2, NobodyRuns DEF BeginSetups, BeginTeardown, BeginReload, SetupsDone
  <2>3. CASE JobsStopped \/ TasksJoined \/ DrainedHook \/ Flushed \/ ClosedHook \/ TornDown \/ Drained
    BY <2>3, NobodyRuns DEF JobsStopped, TasksJoined, DrainedHook, Flushed, ClosedHook, TornDown, Drained
  <2>4. CASE Reload \/ SetupEnds \/ Unwound
    BY <2>4, NobodyRuns DEF Reload, SetupEnds, Unwound, Raised
  <2>5. CASE NextSetup
    BY <2>5 DEF NextSetup, SetupBlocked, SetupBegins, SetupAtOnce, Goes, At
  <2>6. CASE Cancel
    BY <2>6, NobodyRuns DEF Cancel, CancelTeardown, CancelDrain, CancelSetup, Raised
  <2>7. CASE DrainNext \/ CloseNext
    BY <2>7
  <2> QED BY <2>1, <2>2, <2>3, <2>4, <2>5, <2>6, <2>7 DEF Next
<1> QED BY <1>1, <1>2, <1>3, <1>4, <1>5

\* A teardown hook is called once for each load of a plugin (_invoke_teardown).
THEOREM TornDownOnce == Spec => ClosedOnce
<1>1. IInv /\ [Next]_vars => [op'.cur # None /\ op'.cur # op.cur /\ op'.at # "setup" =>
                                op'.cur \in brought \ (closed \cup lost)]_vars
  BY HookOnce
<1> QED BY <1>1, InvariantHolds, PTL DEF Spec, ClosedOnce

-------------------------------------------------------------------------------
(* The order of teardowns and setups. *)

\* The plugin whose setup is awaited.
Running == IF op.at = "setup" /\ op.cur # None THEN {op.cur.plugin} ELSE {}

\* Plugins are being set up, or are about to be.
Opening == boot = "loaded" \/ op.at \in {"clearing", "undoing", "unwinding", "setup"}
Closing == op.at \in {"stopping", "joining", "flushing", "closing"}

\* What a loaded plugin depends on is set up, and is closed after it only.
Needed ==
  \A p \in loaded : \A d \in Deps[p] :
    /\ d \notin pending /\ d \notin Running
    /\ [plugin |-> d, gen |-> gen] \notin unclosed
    /\ [plugin |-> d, gen |-> gen] \in closed => op.at = "closing" /\ p \notin op.todo

Layered == \A p \in loaded \ late : Deps[p] \cap late = {}

\* What a plugin that is still to be closed depended on is not closed with it.
Apart ==
  \A x \in unclosed : \A d \in Deps[x.plugin] :
    /\ [plugin |-> d, gen |-> x.gen] \notin closed \cup unclosed
    /\ x.gen = gen => d \notin pending /\ d \notin Running

Entered ==
  /\ Opening => loaded \subseteq complete \cup pending \cup Running
  /\ Opening => \A x \in brought : x.gen < gen => x \in closed \cup lost
  /\ boot = "new" => brought = {}
  /\ Closing => boot # "loaded"

Ordered == Needed /\ Layered /\ Apart /\ Entered

\* Only events are left of a plugin that is still to be closed.
Quiet ==
  \A x \in unclosed : \A t \in tasks \ stray :
    t.plugin = x.plugin /\ t.gen = x.gen => t.kind = "event"

\* Cancelled tasks of a loaded plugin are being awaited.
Joined ==
  \A t \in dying \ stray :
    t.gen = gen /\ t.plugin \in loaded => op.at \in {"stopping", "joining"} /\ t \in op.join

Stopped ==
  /\ Closing => active = {}
  /\ op.at = "stopping" => \A t \in Live : t.kind # "job"
  /\ op.at \in {"joining", "flushing", "closing"} => \A t \in Live : t.kind = "event"
  /\ op.at \in {"closing", "loading"} => unclosed = {}

Cut == Opening => \A t \in dying : t.gen = gen => t \in stray

Over == Quiet /\ Joined /\ Stopped /\ Cut

LEMMA OrderKept ==
  ASSUME IInv, Ordered, UNCHANGED <<gen, loaded, late, complete, unclosed, brought, closed, lost>>,
         pending' \in SUBSET pending, Running' \in SUBSET Running, op.at # "closing" \/ UNCHANGED op,
         Opening' => Opening /\ UNCHANGED <<pending, Running>>, boot' = "new" => boot = "new",
         Closing' /\ boot' = "loaded" => Closing /\ boot = "loaded"
  PROVE  Ordered'
<1>1. Needed'
  BY DEF Ordered, Needed, IInv, History, Hooked, Now
<1>2. Layered' /\ Apart'
  BY DEF Ordered, Layered, Apart
<1>3. Entered'
  BY DEF Ordered, Entered
<1> QED BY <1>1, <1>2, <1>3 DEF Ordered

LEMMA OverKept ==
  ASSUME TypeOK, TypeOK', Over, UNCHANGED <<gen, loaded, unclosed, op>>, active' = active \/ ~Closing,
         Opening' => Opening, dying' \in SUBSET dying, dying' \ stray' \in SUBSET (dying \ stray),
         \A t \in Live' : \/ t \in Live \/ t.kind = "event"
                          \/ ~Closing /\ (~\E x \in unclosed : t.plugin = x.plugin /\ t.gen = x.gen)
  PROVE  Over'
<1>1. Quiet'
  <2>1. \A t \in tasks' \ stray' : t \in Live' \/ t \in dying \ stray
    BY DEF Live, TypeOK
  <2> QED BY <2>1 DEF Over, Quiet, Live, TypeOK
<1>2. Joined'
  BY DEF Over, Joined
<1>3. Stopped'
  BY DEF Over, Stopped, Closing
<1>4. Cut'
  BY DEF Over, Cut
<1> QED BY <1>1, <1>2, <1>3, <1>4 DEF Over

\* Nothing but tasks, registrations and the progress of startup changes.
LEMMA AtWorkOrdered ==
  ASSUME IInv, IInv', Ordered, Over,
         \/ StartUp \/ TaskEnds \/ Drain
         \/ \E p \in Plugins : Dispatch(p) \/ Spawn(p) \/ Toggle(p)
  PROVE  Ordered' /\ Over'
<1>1. UNCHANGED <<gen, loaded, late, complete, pending, active, unclosed, brought, closed, lost, op>>
  BY DEF StartUp, TaskEnds, Drain, Dispatch, Spawn, Toggle, tables, ghosts
<1>2. boot' = boot \/ boot' = "running"
  BY DEF StartUp, TaskEnds, Drain, Dispatch, Spawn, Toggle
<1>3. Ordered'
  <2>1. Running' = Running /\ (Opening' => Opening) /\ Closing' = Closing
    BY <1>1, <1>2 DEF Running, Opening, Closing
  <2> QED BY <1>1, <1>2, <2>1, OrderKept
<1>4. Over'
  <2>1. dying' \in SUBSET dying /\ dying' \ stray' \in SUBSET (dying \ stray)
    BY DEF StartUp, TaskEnds, Drain, Dispatch, Spawn, Toggle, pool, ghosts
  <2>2. \A t \in Live' : \/ t \in Live \/ t.kind = "event"
                         \/ ~Closing /\ (~\E x \in unclosed : t.plugin = x.plugin /\ t.gen = x.gen)
    <3>1. SUFFICES ASSUME NEW t \in Live', t \notin Live, t.kind # "event"
                   PROVE  ~Closing /\ (~\E x \in unclosed : t.plugin = x.plugin /\ t.gen = x.gen)
      OBVIOUS
    <3>2. CASE StartUp
      <4>1. ~Closing
        BY <3>2 DEF IInv, Tables, StartUp, Closing
      <4>2. t.plugin \in loaded /\ t.gen = gen
        BY <3>1, <1>1 DEF IInv, Work, TypeOK
      <4> QED BY <4>1, <4>2 DEF IInv, TypeOK, Instances, History, Open, Now
    <3>3. CASE \E p \in Plugins : Spawn(p)
      <4>1. ~Closing
        BY <3>3 DEF Over, Stopped, Spawn
      <4>2. t.plugin \in loaded /\ t.gen = gen
        BY <3>1, <1>1 DEF IInv, Work, TypeOK
      <4> QED BY <4>1, <4>2 DEF IInv, TypeOK, Instances, History, Open, Now
    <3>4. CASE TaskEnds
      BY <3>1, <3>4 DEF TaskEnds, Live
    <3>5. CASE Drain \/ \E p \in Plugins : Toggle(p)
      BY <3>1, <3>5 DEF Drain, Toggle, Live, pool
    <3>6. CASE \E p \in Plugins : Dispatch(p)
      BY <3>1, <3>6 DEF Dispatch, Live
    <3> QED BY <3>2, <3>3, <3>4, <3>5, <3>6
  <2> QED BY <1>1, <1>2, <2>1, <2>2, OverKept DEF IInv, Opening
<1> QED BY <1>3, <1>4

LEMMA UninstallOrdered ==
  ASSUME IInv, IInv', Ordered, Over, NEW q \in Plugins, Uninstall(q)
  PROVE  Ordered' /\ Over'
<1>1. /\ UNCHANGED <<gen, unclosed, tasks, op, boot, brought, closed>> /\ lost \in SUBSET lost'
      /\ loaded' = loaded \ {q} /\ late' = late \ {q} /\ pending' = pending \ {q}
  BY DEF Uninstall, Clear
<1>2. ~Opening /\ ~Opening' /\ boot = "running" /\ Running' = Running
  BY <1>1 DEF Uninstall, Opening, IInv, Tables, Running
<1>3. Ordered'
  BY <1>1, <1>2 DEF Ordered, Needed, Layered, Apart, Entered
<1>4. Cleared({q})
  BY <1>1, RegistrationsCleared DEF IInv, Uninstall
<1>5. dying' \ stray' \in SUBSET (dying \ stray) /\ tasks' \ stray' \in SUBSET (tasks \ stray)
  BY DEF Uninstall, Clear
<1>6. Over'
  BY <1>1, <1>2, <1>4, <1>5 DEF Over, Quiet, Joined, Stopped, Cut, Cleared, Closing, IInv, TypeOK
<1> QED BY <1>3, <1>6

\* What a load leaves: the plugins that were loaded have what they need.
LEMMA LoadOrdered ==
  ASSUME IInv, IInv', Ordered, Over, Load, loaded = {}, op.at \notin {"closing", "setup"}, UNCHANGED <<tasks, closed, lost, stray>>,
         op'.at \in {"idle", "clearing"}, op'.cur = None, dying' = dying, boot' # "new",
         brought \subseteq closed \cup lost, unclosed = {} 
  PROVE  Ordered' /\ Over'
<1> DEFINE new(S) == {[plugin |-> p, gen |-> gen + 1] : p \in S}
           of(fate, fates) == {p \in Plugins : fate[p] \in fates}
<1>1. PICK fate \in [Plugins -> Fates] :
        /\ Possible(fate)
        /\ loaded' = of(fate, {"begun", "done"}) /\ complete' = of(fate, {"done"})
        /\ pending' = of(fate, {"begun", "waiting"})
        /\ unclosed' = unclosed \cup new(of(fate, {"failed"}))
        /\ brought' = brought \cup new(of(fate, {"failed", "begun", "done"}))
  BY DEF Load
<1>2. gen' = gen + 1 /\ late' = {} /\ active' = loaded' /\ gen \in Nat
  BY DEF Load, IInv, TypeOK
<1>3. ~Closing' /\ Running' = {}
  BY DEF Closing, Running
<1>4. ASSUME NEW p \in Plugins, fate[p] \in {"failed", "begun", "done"}, NEW d \in Deps[p]
      PROVE  d \in Plugins /\ fate[d] = "done"
  BY <1>1, <1>4 DEF Possible, Fates
<1>5. \A d \in Plugins, g \in Nat : g > gen => [plugin |-> d, gen |-> g] \notin closed \cup unclosed
  BY <1>2 DEF IInv, TypeOK, History, Bound
<1>6. \A x \in unclosed' : x.plugin \in Plugins /\ x.gen = gen' /\ fate[x.plugin] = "failed"
  BY <1>1, <1>2
<1>7. Needed'
  <2> SUFFICES ASSUME NEW p \in loaded', NEW d \in Deps[p]
               PROVE  /\ d \notin pending' /\ [plugin |-> d, gen |-> gen'] \notin unclosed'
                      /\ [plugin |-> d, gen |-> gen'] \notin closed'
    BY <1>3 DEF Needed
  <2>1. d \in Plugins /\ fate[d] = "done"
    BY <1>1, <1>4
  <2>2. d \notin pending'
    BY <1>1, <2>1
  <2>3. [plugin |-> d, gen |-> gen'] \notin unclosed'
    BY <1>6, <2>1
  <2>4. [plugin |-> d, gen |-> gen'] \notin closed'
    BY <1>2, <1>5, <2>1
  <2> QED BY <2>2, <2>3, <2>4
<1>8. Layered'
  BY <1>2 DEF Layered
<1>9. Apart'
  <2> SUFFICES ASSUME NEW x \in unclosed', NEW d \in Deps[x.plugin]
               PROVE  [plugin |-> d, gen |-> x.gen] \notin closed' \cup unclosed' /\ d \notin pending'
    BY <1>3 DEF Apart
  <2>1. d \in Plugins /\ fate[d] = "done" /\ x.gen = gen'
    BY <1>4, <1>6
  <2>2. d \notin pending'
    BY <1>1, <2>1
  <2>3. [plugin |-> d, gen |-> x.gen] \notin unclosed'
    BY <1>6, <2>1
  <2>4. [plugin |-> d, gen |-> x.gen] \notin closed'
    BY <1>2, <1>5, <2>1
  <2> QED BY <2>2, <2>3, <2>4
<1>10. Entered'
  <2>1. \A x \in brought' : x.gen < gen' => x \in closed' \cup lost'
    BY <1>1, <1>2
  <2>2. loaded' \subseteq complete' \cup pending'
    BY <1>1
  <2> QED BY <1>3, <2>1, <2>2 DEF Entered
<1>11. \A t \in tasks : t.gen # gen'
  BY <1>2 DEF IInv, TypeOK, Task, Work
<1>12. Over'
  BY <1>2, <1>3, <1>6, <1>11 DEF Over, Quiet, Joined, Stopped, Cut, Closing, IInv, TypeOK
<1> QED BY <1>7, <1>8, <1>9, <1>10, <1>12 DEF Ordered

LEMMA ConstructOrdered ==
  ASSUME IInv, IInv', Ordered, Over, Construct
  PROVE  Ordered' /\ Over'
<1>1. /\ brought = {} /\ loaded = {} /\ op.at = "idle" /\ op.cur = None
  BY DEF Ordered, Entered, IInv, TypeOK, Tables, Progress, Construct
<1>2. unclosed = {}
  BY <1>1 DEF IInv, History, Left
<1> QED BY <1>1, <1>2, LoadOrdered DEF Construct, pool

LEMMA BeginSetupsOrdered ==
  ASSUME IInv, IInv', Ordered, Over, BeginSetups
  PROVE  Ordered' /\ Over'
<1>1. op'.at = "clearing" /\ op'.cur = None /\ op.at = "idle" /\ op.cur = None /\ boot = "loaded"
  BY DEF BeginSetups, Idle, IInv, Tables
<1>2. Running' = Running /\ Opening /\ ~Closing'
  BY <1>1 DEF Running, Opening, Closing
<1>3. Ordered'
  BY <1>1, <1>2, OrderKept DEF BeginSetups, tables, ghosts
<1>4. Over'
  BY <1>1, <1>2 DEF Over, Quiet, Joined, Stopped, Cut, Closing, BeginSetups, tables, pool, ghosts
<1> QED BY <1>3, <1>4

\* What the beginning of a teardown does, from any operation.
LEMMA TeardownOrdered ==
  ASSUME IInv, IInv', Ordered, Over, NEW kind \in {"reload", "teardown"}, NEW failing \in BOOLEAN, TeardownOf(kind, failing),
         UNCHANGED <<gen, loaded, late, complete, unclosed, tasks, brought, closed, lost, stray>>,
         ~Closing, boot' \notin {"new", "loaded"}
  PROVE  Ordered' /\ Over'
<1>1. /\ op'.at = "stopping" /\ op'.cur = None /\ op'.join = Grouped(Plugins, {"job"}) /\ pending' = {} /\ active' = {}
      /\ dying' = dying \cup Grouped(Plugins, {"job"})
  BY DEF TeardownOf
<1>2. Running' = {} /\ ~Opening'
  BY <1>1 DEF Running, Opening
<1>3. Ordered'
  BY <1>1, <1>2, OrderKept DEF Closing
<1>4. \A t \in Live' : t.kind # "job"
  BY <1>1 DEF Grouped, Live, IInv, TypeOK, Task
<1>5. Joined'
  BY <1>1 DEF Over, Joined, Closing
<1>6. Quiet' /\ Stopped' /\ Cut'
  BY <1>1, <1>2, <1>4 DEF Over, Quiet, Stopped, Cut
<1> QED BY <1>3, <1>5, <1>6 DEF Over

LEMMA BeginsOrdered ==
  ASSUME IInv, IInv', Ordered, Over, BeginTeardown \/ BeginReload
  PROVE  Ordered' /\ Over'
<1>1. ~Closing /\ boot' \notin {"new", "loaded"}
  BY DEF BeginTeardown, BeginReload, IInv, TypeOK, Tables, Closing
<1> QED BY <1>1, TeardownOrdered DEF BeginTeardown, BeginReload, ghosts

LEMMA JobsStoppedOrdered ==
  ASSUME IInv, IInv', Ordered, Over, JobsStopped
  PROVE  Ordered' /\ Over'
<1> DEFINE others == Grouped(Plugins, {"background", "event"})
<1>1. /\ op'.at = "joining" /\ op'.cur = None /\ op'.join = others /\ op.at = "stopping" /\ op.cur = None
      /\ op.join \cap tasks = {} /\ dying' = dying \cup others
      /\ UNCHANGED <<gen, tables, pending, unclosed, tasks, boot, ghosts>>
  BY DEF JobsStopped, At, Goes, IInv, TypeOK, Operation
<1>2. Running' = Running /\ (Opening' => Opening) /\ Closing
  BY <1>1 DEF Running, Opening, Closing
<1>3. Ordered'
  BY <1>1, <1>2, OrderKept DEF tables, ghosts
<1>4. Live' = {}
  BY <1>1 DEF Over, Stopped, Grouped, Live, IInv, TypeOK, Task, Kinds
<1>5. Joined'
  BY <1>1 DEF Over, Joined, ghosts, tables, IInv, TypeOK
<1>6. ~Opening
  BY <1>1 DEF Opening, Closing, Ordered, Entered
<1>7. Quiet' /\ Stopped' /\ Cut'
  BY <1>1, <1>2, <1>4, <1>6 DEF Over, Quiet, Stopped, Cut, Closing, ghosts, tables
<1> QED BY <1>3, <1>5, <1>7 DEF Over

LEMMA TasksJoinedOrdered ==
  ASSUME IInv, IInv', Ordered, Over, TasksJoined
  PROVE  Ordered' /\ Over'
<1>1. /\ op'.at = "flushing" /\ op'.cur = None /\ op.at = "joining" /\ op.cur = None
      /\ op.join \cap tasks = {}
      /\ UNCHANGED <<gen, tables, pending, unclosed, pool, boot, ghosts>>
  BY DEF TasksJoined, At, Goes, IInv, TypeOK, Operation
<1>2. Running' = Running /\ (Opening' => Opening) /\ Closing
  BY <1>1 DEF Running, Opening, Closing
<1>3. Ordered'
  BY <1>1, <1>2, OrderKept DEF tables, ghosts
<1>4. Joined'
  BY <1>1 DEF Over, Joined, ghosts, tables, pool, IInv, TypeOK
<1>5. Quiet' /\ Stopped' /\ Cut'
  BY <1>1, <1>2 DEF Over, Quiet, Stopped, Cut, Closing, Live, ghosts, tables, pool
<1> QED BY <1>3, <1>4, <1>5 DEF Over

LEMMA FlushedOrdered ==
  ASSUME IInv, IInv', Ordered, Over, Flushed \/ Drained
  PROVE  Ordered' /\ Over'
<1>1. /\ \/ op.at = "flushing" /\ op'.at = "closing"
         \/ op.at \in {"clearing", "undoing"} /\ op'.at = "setup"
      /\ op'.cur = None /\ op.cur = None /\ unclosed = {}
      /\ UNCHANGED <<gen, tables, pending, unclosed, pool, boot, ghosts>>
  BY DEF Flushed, Drained, At, Goes, IInv, TypeOK, Operation
<1>2. Running' = {} /\ Running = {} /\ (Opening' => Opening) /\ (Closing' => Closing)
  BY <1>1 DEF Running, Opening, Closing
<1>3. Ordered'
  BY <1>1, <1>2, OrderKept DEF tables, ghosts
<1>4. Over'
  BY <1>1, <1>2 DEF Over, Quiet, Joined, Stopped, Cut, Closing, Live, ghosts, tables, pool
<1> QED BY <1>3, <1>4

LEMMA DrainedHookOrdered ==
  ASSUME IInv, IInv', Ordered, Over, DrainedHook
  PROVE  Ordered' /\ Over'
<1>1. /\ op.at \in Drains /\ op'.at = op.at /\ op'.cur = None /\ op'.join = op.join
      /\ UNCHANGED <<gen, tables, pending, unclosed, pool, boot, ghosts>>
  BY DEF DrainedHook, Goes, IInv, TypeOK, Operation
<1>2. Running' = {} /\ Running = {} /\ (Opening' => Opening) /\ (Closing' => Closing)
  BY <1>1 DEF Running, Opening, Closing, Drains
<1>3. Ordered'
  BY <1>1, <1>2, OrderKept DEF tables, ghosts, Drains
<1>4. Over'
  BY <1>1, <1>2 DEF Over, Quiet, Joined, Stopped, Cut, Closing, Live, ghosts, tables, pool, Drains
<1> QED BY <1>3, <1>4

LEMMA DrainNextOrdered ==
  ASSUME IInv, IInv', Ordered, Over, DrainNext
  PROVE  Ordered' /\ Over'
<1>1. PICK x \in unclosed : closed' = closed \cup {x} /\ op' = [op EXCEPT !.cur = x] /\ unclosed' = unclosed \ {x}
  BY DEF DrainNext, CallHook
<1>2. /\ op.at \in Drains /\ op'.at = op.at /\ op'.join = op.join /\ op'.todo = op.todo
      /\ UNCHANGED <<gen, tables, pending, pool, boot, brought, lost, stray>>
  BY <1>1 DEF DrainNext, IInv, TypeOK, Operation
<1>3. Running' = {} /\ Running = {} /\ (Opening' => Opening) /\ (Closing' => Closing)
  BY <1>2 DEF Running, Opening, Closing, Drains
<1>4. Needed'
  BY <1>1, <1>2, <1>3 DEF Ordered, Needed, tables
<1>5. Layered' /\ Entered'
  BY <1>1, <1>2, <1>3 DEF Ordered, Layered, Entered, tables
<1>6. Apart'
  <2> SUFFICES ASSUME NEW y \in unclosed \ {x}, NEW d \in Deps[y.plugin]
               PROVE  /\ [plugin |-> d, gen |-> y.gen] \notin closed \cup unclosed \cup {x}
                      /\ y.gen = gen => d \notin pending
    BY <1>1, <1>2, <1>3 DEF Apart, tables
  <2> QED BY DEF Ordered, Apart
<1>7. Over'
  BY <1>1, <1>2, <1>3 DEF Over, Quiet, Joined, Stopped, Cut, Closing, Live, tables, pool, Drains
<1> QED BY <1>4, <1>5, <1>6, <1>7 DEF Ordered

LEMMA CloseNextOrdered ==
  ASSUME IInv, IInv', Ordered, Over, CloseNext
  PROVE  Ordered' /\ Over'
<1>1. op.at = "closing" /\ op.cur = None /\ op \in Operation /\ unclosed = {}
  BY DEF CloseNext, At, IInv, TypeOK, Over, Stopped
<1>2. PICK q \in op.todo :
        /\ Last(q, op.todo)
        /\ IF q \in loaded
             THEN CallHook([plugin |-> q, gen |-> gen])
             ELSE op' = [op EXCEPT !.todo = @ \ {q}] /\ UNCHANGED closed
  BY DEF CloseNext
<1>3. UNCHANGED <<gen, tables, pending, unclosed, pool, boot, brought, lost, stray>> /\ q \in Plugins
  BY <1>1 DEF CloseNext, Operation
<1>4. /\ op'.at = "closing" /\ op'.todo \in SUBSET op.todo
      /\ \/ closed' = closed
         \/ q \in loaded /\ closed' = closed \cup {[plugin |-> q, gen |-> gen]} /\ op'.todo = op.todo
  <2>1. CASE q \in loaded
    BY <1>1, <1>2, <2>1 DEF CallHook, Operation
  <2>2. CASE q \notin loaded
    <3>1. op' = [op EXCEPT !.todo = @ \ {q}] /\ closed' = closed
      BY <1>2, <2>2
    <3>2. op'.at = "closing" /\ op'.todo = op.todo \ {q}
      BY <1>1, <3>1 DEF Operation
    <3> QED BY <3>1, <3>2
  <2> QED BY <2>1, <2>2
<1>5. Running' = {} /\ Running = {} /\ (Opening' => Opening) /\ Closing
  BY <1>1, <1>3, <1>4 DEF Running, Opening, Closing
<1>6. ASSUME NEW p \in loaded, q \in Deps[p], q \in loaded
      PROVE  p \notin op.todo
  <2> SUFFICES ASSUME p \in op.todo PROVE FALSE
    OBVIOUS
  <2>1. p \in Plugins /\ Rank[q] < Rank[p] /\ Rank[p] \in Nat /\ Rank[q] \in Nat
    BY <1>3, <1>6 DEF IInv, TypeOK
  <2>2. p # q
    BY <2>1
  <2>3. q \in late /\ p \notin late
    BY <1>2, <2>1, <2>2 DEF Last
  <2> QED BY <1>6, <2>3 DEF Ordered, Layered
<1>7. Needed'
  <2> SUFFICES ASSUME NEW p \in loaded, NEW d \in Deps[p], [plugin |-> d, gen |-> gen] \in closed'
               PROVE  p \notin op'.todo
    BY <1>1, <1>3, <1>4, <1>5 DEF Ordered, Needed, tables
  <2>1. CASE [plugin |-> d, gen |-> gen] \in closed
    BY <1>4, <2>1 DEF Ordered, Needed
  <2>2. CASE [plugin |-> d, gen |-> gen] \notin closed
    <3>1. q \in loaded /\ d = q /\ op'.todo = op.todo
      BY <1>4, <2>2
    <3> QED BY <1>6, <3>1
  <2> QED BY <2>1, <2>2
<1>8. Layered' /\ Apart' /\ Entered'
  BY <1>1, <1>3, <1>4, <1>5 DEF Ordered, Layered, Apart, Entered, tables
<1>9. Over'
  BY <1>1, <1>3, <1>4, <1>5 DEF Over, Quiet, Joined, Stopped, Cut, Closing, Live, tables, pool
<1> QED BY <1>7, <1>8, <1>9 DEF Ordered

LEMMA ClosedHookOrdered ==
  ASSUME IInv, IInv', Ordered, Over, ClosedHook
  PROVE  Ordered' /\ Over'
<1> DEFINE q == op.cur.plugin
<1>1. /\ op.at = "closing" /\ op'.at = "closing" /\ op'.todo = op.todo \ {q} /\ op'.cur = None /\ q \in Plugins
      /\ pending' = pending \ {q}
      /\ UNCHANGED <<gen, loaded, late, complete, unclosed, tasks, boot, brought, closed, lost>>
  BY DEF ClosedHook, Clear, Goes, IInv, TypeOK, Operation, Instances
<1>2. Running' = {} /\ Running = {} /\ (Opening' => Opening) /\ Closing
  BY <1>1 DEF Running, Opening, Closing
<1>3. Needed'
  BY <1>1, <1>2 DEF Ordered, Needed
<1>4. Layered' /\ Apart' /\ Entered'
  BY <1>1, <1>2 DEF Ordered, Layered, Apart, Entered, Opening, Closing
<1>5. Cleared({q})
  BY <1>1, RegistrationsCleared DEF IInv, ClosedHook
<1>6. dying' \ stray' \in SUBSET (dying \ stray) /\ tasks' \ stray' \in SUBSET (tasks \ stray)
  BY <1>1 DEF ClosedHook, Clear
<1>7. Over'
  BY <1>1, <1>2, <1>5, <1>6 DEF Over, Quiet, Joined, Stopped, Cut, Cleared, Closing, Opening, Ordered, Entered, IInv, TypeOK
<1> QED BY <1>3, <1>4, <1>7 DEF Ordered

\* What dropping all the plugins does, at the end of a teardown.
LEMMA DroppedOrdered ==
  ASSUME IInv, IInv', Ordered, Over, DropAll, Closing, op'.at \in {"idle", "loading"}, op'.cur = None,
         op'.at = "loading" => unclosed = {},
         UNCHANGED <<gen, unclosed, tasks, boot, brought, closed>>
  PROVE  Ordered' /\ Over'
<1>1. loaded' = {} /\ late' = {} /\ pending' \in SUBSET pending /\ Running' = {} /\ Running = {}
  BY DEF DropAll, Clear, Running, Closing
<1>2. ~Opening' /\ ~Closing' /\ boot' # "new"
  BY DEF Opening, Closing, Ordered, Entered, IInv, Tables
<1>3. Ordered'
  BY <1>1, <1>2 DEF Ordered, Needed, Layered, Apart, Entered
<1>4. tasks' \ stray' \in SUBSET (tasks \ stray)
  BY DEF DropAll, Clear
<1>5. Over'
  BY <1>1, <1>2, <1>4 DEF Over, Quiet, Joined, Stopped, Cut, Closing
<1> QED BY <1>3, <1>5

LEMMA TornDownOrdered ==
  ASSUME IInv, IInv', Ordered, Over, TornDown \/ (Cancel /\ CancelTeardown)
  PROVE  Ordered' /\ Over'
<1>1. CASE TornDown
  <2>1. Closing /\ op'.at \in {"idle", "loading"} /\ op'.cur = None /\ unclosed = {}
    BY <1>1 DEF TornDown, At, Goes, Idle, Closing, IInv, TypeOK, Operation, Over, Stopped
  <2> QED BY <1>1, <2>1, DroppedOrdered DEF TornDown
<1>2. CASE Cancel /\ CancelTeardown
  <2>1. Closing /\ op'.at = "idle" /\ op'.cur = None
    BY <1>2 DEF CancelTeardown, Idle, Closing
  <2> QED BY <1>2, <2>1, DroppedOrdered DEF Cancel, CancelTeardown
<1> QED BY <1>1, <1>2

LEMMA ReloadOrdered ==
  ASSUME IInv, IInv', Ordered, Over, Reload
  PROVE  Ordered' /\ Over'
<1>1. op.at = "loading" /\ op.cur = None /\ loaded = {} /\ unclosed = {} /\ boot = "running" /\ brought \subseteq closed \cup lost
  <2>1. op.at = "loading" /\ op.cur = None /\ loaded = {} /\ unclosed = {}
    BY DEF Reload, At, IInv, Progress, Over, Stopped
  <2>2. boot = "running"
    BY <2>1 DEF IInv, Tables, TypeOK, Operation
  <2> QED BY <2>1, <2>2 DEF IInv, Progress, Now
<1>2. CASE Load /\ op' = Goes("clearing") /\ UNCHANGED <<dying, jobsStarted>>
  <2>1. op'.at = "clearing" /\ op'.cur = None
    BY <1>2 DEF Goes, IInv, TypeOK, Operation
  <2> QED BY <1>1, <1>2, <2>1, LoadOrdered DEF Reload
<1>3. CASE /\ TeardownOf("reload", TRUE)
           /\ UNCHANGED <<gen, loaded, late, complete, registered, published, enabled, unclosed, brought>>
  BY <1>1, <1>3, TeardownOrdered DEF Reload, Closing
<1> QED BY <1>2, <1>3 DEF Reload

LEMMA CancelDrainOrdered ==
  ASSUME IInv, IInv', Ordered, Over, \/ Cancel /\ CancelDrain
                                   \/ Unwound
  PROVE  Ordered' /\ Over'
<1>1. /\ op.at \in {"clearing", "undoing", "unwinding"} /\ Raised /\ ~Closing /\ boot # "new"
      /\ UNCHANGED <<gen, unclosed, lost, stray, tasks, brought, closed>>
  BY DEF Cancel, CancelDrain, Unwound, At, Closing, IInv, Tables, ghosts
<1>2. CASE op.kind = "setup"
  <2>1. op'.at = "idle" /\ op'.cur = None /\ boot' = "failed"
    BY <1>1, <1>2 DEF Raised, Idle
  <2>2. Running' = {} /\ ~Opening' /\ ~Closing'
    BY <2>1 DEF Running, Opening, Closing
  <2>3. UNCHANGED <<loaded, late, complete, pending, active, dying>>
    BY <1>1, <1>2 DEF Raised
  <2>4. Ordered'
    BY <1>1, <2>1, <2>2, <2>3, OrderKept
  <2>5. Over'
    BY <1>1, <2>1, <2>2, <2>3 DEF Over, Quiet, Joined, Stopped, Cut
  <2> QED BY <2>4, <2>5
<1>3. CASE op.kind # "setup"
  <2>1. op.kind = "reload"
    BY <1>1, <1>3 DEF IInv, Tables, TypeOK, Operation
  <2> QED BY <1>1, <1>3, <2>1, TeardownOrdered DEF Raised, IInv, Tables
<1> QED BY <1>2, <1>3

LEMMA SetupsDoneOrdered ==
  ASSUME IInv, IInv', Ordered, Over, SetupsDone
  PROVE  Ordered' /\ Over'
<1>1. /\ op.at = "setup" /\ op.cur = None /\ op'.at = "idle" /\ op'.cur = None
      /\ UNCHANGED <<gen, tables, pending, unclosed, dying, ghosts>>
      /\ boot' = boot \/ boot' = "ready"
  BY DEF SetupsDone, At, Idle
<1>2. boot' # "loaded" /\ boot # "new"
  BY <1>1 DEF SetupsDone, IInv, Tables, TypeOK, Operation
<1>3. Running' = {} /\ Running = {} /\ ~Opening' /\ ~Closing' /\ ~Closing
  BY <1>1, <1>2 DEF Running, Opening, Closing
<1>4. Ordered'
  BY <1>1, <1>2, <1>3, OrderKept DEF tables, ghosts
<1>5. Quiet'
  <2> SUFFICES ASSUME NEW x \in unclosed, NEW t \in tasks' \ stray, t.plugin = x.plugin, t.gen = x.gen
               PROVE  t.kind = "event"
    BY <1>1 DEF Quiet, ghosts
  <2>1. CASE t \in tasks
    BY <2>1 DEF Over, Quiet
  <2>2. CASE t \notin tasks
    <3>1. t \in Live'
      BY <1>1, <2>2 DEF Live, IInv, TypeOK
    <3>2. t.plugin \in loaded /\ t.gen = gen
      BY <1>1, <3>1 DEF IInv, Work, TypeOK, tables
    <3> QED BY <3>2 DEF IInv, TypeOK, Instances, History, Open, Now
  <2> QED BY <2>1, <2>2
<1>6. Joined' /\ Stopped' /\ Cut'
  BY <1>1, <1>3 DEF Over, Joined, Stopped, Cut, Closing, tables, ghosts
<1> QED BY <1>4, <1>5, <1>6 DEF Over

\* What a rollback of the plugins in S leaves, when no loaded plugin depends on one
\* of them.
LEMMA RolledBackOrdered ==
  ASSUME IInv, IInv', Ordered, Over, NEW S \in SUBSET Plugins, Rollback(S), S \subseteq pending \cup Running, Opening,
         UNCHANGED <<gen, tasks, boot, brought, closed, lost>>,
         op.at = "setup", op'.at \in {"setup", "undoing", "unwinding"}, Running' \in SUBSET Running,
         Running' \cap S = {}, Running \in SUBSET (S \cup Running')
  PROVE  Ordered' /\ Over'
<1>1. /\ loaded' = loaded \ S /\ late' = late \ S /\ complete' = complete \ S /\ pending' = pending \ S
      /\ unclosed' = unclosed \cup Now(S \cap loaded)
      /\ dying' = dying \cup Grouped(S, Kinds) /\ stray' = stray \cup Grouped(S, Kinds)
  BY DEF Rollback, Clear
<1>2. gen \in Nat /\ loaded \in SUBSET Plugins /\ unclosed \in SUBSET Instances /\ ~Closing /\ ~Closing'
  BY DEF IInv, TypeOK, Closing
<1>3. ASSUME NEW p \in loaded, NEW d \in Deps[p]
      PROVE  d \notin S /\ [plugin |-> d, gen |-> gen] \notin closed \cup unclosed'
  <2>1. /\ d \notin pending /\ d \notin Running
        /\ [plugin |-> d, gen |-> gen] \notin closed \cup unclosed
    BY <1>3 DEF Ordered, Needed
  <2>2. d \notin S
    BY <2>1
  <2>3. [plugin |-> d, gen |-> gen] \notin Now(S \cap loaded)
    BY <2>2 DEF Now
  <2> QED BY <1>1, <2>1, <2>2, <2>3
<1>4. Needed'
  BY <1>1, <1>3 DEF Needed, Ordered
<1>5. Layered'
  BY <1>1 DEF Ordered, Layered
<1>6. Apart'
  <2> SUFFICES ASSUME NEW x \in unclosed', NEW d \in Deps[x.plugin]
               PROVE  /\ [plugin |-> d, gen |-> x.gen] \notin closed \cup unclosed'
                      /\ x.gen = gen => d \notin pending' /\ d \notin Running'
    BY DEF Apart
  <2>1. CASE x \in unclosed
    <3>1. [plugin |-> d, gen |-> x.gen] \notin closed \cup unclosed
      BY <2>1 DEF Ordered, Apart
    <3>2. x.gen = gen => d \notin pending /\ d \notin Running
      BY <2>1 DEF Ordered, Apart
    <3>3. [plugin |-> d, gen |-> x.gen] \notin Now(S \cap loaded)
      BY <3>2 DEF Now
    <3> QED BY <1>1, <3>1, <3>2, <3>3
  <2>2. CASE x \in Now(S \cap loaded)
    <3>1. x.plugin \in loaded /\ x.gen = gen
      BY <2>2 DEF Now
    <3>2. d \notin pending /\ d \notin Running
      BY <3>1 DEF Ordered, Needed
    <3> QED BY <1>1, <1>3, <3>1, <3>2
  <2> QED BY <1>1, <2>1, <2>2
<1>7. Entered'
  <2>1. loaded' \subseteq complete' \cup pending' \cup Running'
    BY <1>1 DEF Ordered, Entered
  <2> QED BY <2>1 DEF Ordered, Entered, Closing, Opening
<1>8. Cleared(S)
  BY RegistrationsCleared DEF IInv, Rollback
<1>9. dying' \ stray' \in SUBSET (dying \ stray) /\ tasks' \ stray' \in SUBSET (tasks \ stray)
  BY <1>1
<1>10. ASSUME NEW x \in Now(S \cap loaded), NEW t \in tasks' \ stray'
       PROVE  ~(t.plugin = x.plugin /\ t.gen = x.gen)
  <2> SUFFICES ASSUME t.plugin = x.plugin, t.gen = x.gen PROVE FALSE
    OBVIOUS
  <2>1. x.plugin \in S /\ x.gen = gen
    BY DEF Now
  <2>2. t \notin Live'
    BY <1>8, <2>1 DEF Cleared
  <2>3. t \in dying \ stray
    BY <1>9, <2>2 DEF Live
  <2> QED BY <2>1, <2>3 DEF Over, Cut
<1>11. Quiet'
  BY <1>1, <1>9, <1>10 DEF Over, Quiet
<1>12. Joined' /\ Stopped'
  BY <1>1, <1>2, <1>9 DEF Over, Joined, Stopped, Closing
<1>13. Cut'
  BY <1>9 DEF Over, Cut
<1> QED BY <1>4, <1>5, <1>6, <1>7, <1>11, <1>12, <1>13 DEF Ordered, Over

LEMMA SetupBlockedOrdered ==
  ASSUME IInv, IInv', Ordered, Over, NextSetup, NEW p \in pending, SetupBlocked(p)
  PROVE  Ordered' /\ Over'
<1>1. op.at = "setup" /\ op.cur = None /\ op' = op /\ Opening /\ Running = {} /\ Running' = {}
  BY DEF NextSetup, At, SetupBlocked, Opening, Running
<1> QED BY <1>1, RolledBackOrdered DEF NextSetup, SetupBlocked, IInv, TypeOK

LEMMA SetupFailsOrdered ==
  ASSUME IInv, IInv', Ordered, Over, SetupEnds, Rollback({op.cur.plugin}), op' = Goes("undoing")
  PROVE  Ordered' /\ Over'
<1>1. op.at = "setup" /\ op.cur # None /\ Opening /\ Running = {op.cur.plugin} /\ op.cur.plugin \in Plugins
  BY DEF SetupEnds, Opening, Running, IInv, TypeOK, History, Setting
<1>2. op'.at = "undoing" /\ Running' = {}
  BY DEF Goes, IInv, TypeOK, Operation, Running
<1> QED BY <1>1, <1>2, RolledBackOrdered DEF SetupEnds

LEMMA CancelSetupOrdered ==
  ASSUME IInv, IInv', Ordered, Over, Cancel, CancelSetup
  PROVE  Ordered' /\ Over'
<1>1. op.at = "setup" /\ op.cur # None /\ Opening /\ Running = {op.cur.plugin} /\ op.cur.plugin \in Plugins
  BY DEF CancelSetup, Opening, Running, IInv, TypeOK, History, Setting
<1>2. op'.at = "unwinding" /\ Running' = {}
  BY DEF CancelSetup, Goes, IInv, TypeOK, Operation, Running
<1> QED BY <1>1, <1>2, RolledBackOrdered DEF Cancel, CancelSetup, IInv, TypeOK

\* The first pending plugin depends on plugins that are set up.
LEMMA FirstIsMet ==
  ASSUME IInv, Ordered, op.at = "setup", op.cur = None, NEW p \in pending, First(p, pending), Met(p)
  PROVE  /\ p \in Plugins /\ Deps[p] \subseteq complete /\ Deps[p] \cap pending = {} /\ p \notin Deps[p]
         /\ \A d \in Deps[p] : [plugin |-> d, gen |-> gen] \notin closed \cup unclosed
<1>1. p \in Plugins /\ pending \in SUBSET Plugins
  BY DEF IInv, TypeOK
<1>2. ASSUME NEW d \in Deps[p], d \in pending
      PROVE  FALSE
  <2>1. d \in Plugins /\ Rank[d] \in Nat /\ Rank[p] \in Nat /\ Rank[d] < Rank[p]
    BY <1>1, <1>2
  <2>2. d # p
    BY <2>1
  <2>3. Rank[p] < Rank[d]
    BY <1>2, <2>2 DEF First
  <2> QED BY <2>1, <2>3
<1>3. loaded \subseteq complete \cup pending
  BY DEF Ordered, Entered, Opening, Running
<1>4. Deps[p] \subseteq loaded
  BY DEF Met
<1>5. p \notin Deps[p]
  BY <1>2
<1>6. \A d \in loaded : [plugin |-> d, gen |-> gen] \notin closed \cup unclosed
  BY DEF IInv, History, Open, Hooked, Now
<1> QED BY <1>1, <1>2, <1>3, <1>4, <1>5, <1>6

\* A plugin that has begun or made its setup in the order of the setups.
LEMMA EnteredOrdered ==
  ASSUME IInv, IInv', Ordered, Over, op.at = "setup", op.cur = None, NEW p \in pending, First(p, pending), Met(p),
         loaded' = loaded \cup {p}, late' = late \cup ({p} \ loaded), active' = active \cup {p},
         pending' = pending \ {p}, op'.at = "setup", Running' \in SUBSET {p},
         complete' \in SUBSET (complete \cup {p}), complete \in SUBSET complete', p \in complete' \cup Running',
         brought' = brought \cup Now({p}),
         UNCHANGED <<gen, unclosed, tasks, dying, stray, boot, closed, lost>>
  PROVE  Ordered' /\ Over'
<1>1. /\ p \in Plugins /\ Deps[p] \subseteq complete /\ Deps[p] \cap pending = {} /\ p \notin Deps[p]
      /\ \A d \in Deps[p] : [plugin |-> d, gen |-> gen] \notin closed \cup unclosed
  BY FirstIsMet
<1>2. Opening /\ Opening' /\ ~Closing /\ ~Closing' /\ Running = {}
  BY DEF Opening, Closing, Running
<1>3. ASSUME NEW q \in loaded, NEW d \in Deps[q]
      PROVE  d # p
  BY <1>3 DEF Ordered, Needed
<1>4. Needed'
  <2> SUFFICES ASSUME NEW q \in loaded', NEW d \in Deps[q]
               PROVE  /\ d \notin pending' /\ d \notin Running'
                      /\ [plugin |-> d, gen |-> gen] \notin closed \cup unclosed
    BY DEF Needed
  <2>1. CASE q = p
    BY <1>1, <2>1
  <2>2. CASE q \in loaded
    BY <1>3, <2>2 DEF Ordered, Needed
  <2> QED BY <2>1, <2>2
<1>5. Layered'
  BY <1>1, <1>3 DEF Ordered, Layered, IInv, TypeOK
<1>6. Apart'
  <2> SUFFICES ASSUME NEW x \in unclosed, NEW d \in Deps[x.plugin]
               PROVE  /\ [plugin |-> d, gen |-> x.gen] \notin closed \cup unclosed
                      /\ x.gen = gen => d \notin pending' /\ d \notin Running'
    BY DEF Apart
  <2>1. /\ [plugin |-> d, gen |-> x.gen] \notin closed \cup unclosed
        /\ x.gen = gen => d \notin pending
    BY DEF Ordered, Apart
  <2> QED BY <2>1
<1>7. Entered'
  <2>1. loaded' \subseteq complete' \cup pending' \cup Running'
    BY <1>2 DEF Ordered, Entered
  <2>2. \A x \in brought' : x.gen < gen => x \in closed \cup lost
    BY <1>2 DEF Ordered, Entered, Now, IInv, TypeOK
  <2>3. boot # "new"
    BY DEF IInv, Tables
  <2> QED BY <1>2, <2>1, <2>2, <2>3 DEF Entered
<1>8. Over'
  BY <1>2 DEF Over, Quiet, Joined, Stopped, Cut, IInv, TypeOK
<1> QED BY <1>4, <1>5, <1>6, <1>7, <1>8 DEF Ordered

LEMMA SetupBeginsOrdered ==
  ASSUME IInv, IInv', Ordered, Over, NextSetup, NEW p \in pending, First(p, pending), SetupBegins(p)
  PROVE  Ordered' /\ Over'
<1>1. op.at = "setup" /\ op.cur = None /\ op'.at = "setup" /\ op'.cur = [plugin |-> p, gen |-> gen]
  BY DEF NextSetup, At, SetupBegins, IInv, TypeOK, Operation
<1>2. op'.cur # None
  BY <1>1 DEF IInv, TypeOK
<1>3. Running' = {p}
  BY <1>1, <1>2 DEF Running
<1> QED BY <1>1, <1>3, EnteredOrdered DEF NextSetup, SetupBegins

LEMMA SetupAtOnceOrdered ==
  ASSUME IInv, IInv', Ordered, Over, NextSetup, NEW p \in pending, First(p, pending), SetupAtOnce(p)
  PROVE  Ordered' /\ Over'
<1>1. op.at = "setup" /\ op.cur = None /\ p \notin loaded /\ Met(p) /\ pending' = pending \ {p}
      /\ UNCHANGED <<gen, published, enabled, tasks, jobsStarted, boot, draining, bounds, closed, lost, dying, stray>>
  BY DEF NextSetup, At, SetupAtOnce
<1>2. Opening /\ ~Closing /\ Running = {} /\ boot # "new"
  BY <1>1 DEF Opening, Closing, Running, IInv, Tables
<1>3. /\ p \in Plugins /\ Deps[p] \subseteq complete /\ Deps[p] \cap pending = {} /\ p \notin Deps[p]
      /\ \A d \in Deps[p] : [plugin |-> d, gen |-> gen] \notin closed \cup unclosed
  BY <1>1, FirstIsMet
<1>4. CASE /\ loaded' = loaded \cup {p} /\ late' = late \cup {p} /\ complete' = complete \cup {p}
           /\ active' = active \cup {p} /\ brought' = brought \cup Now({p})
           /\ UNCHANGED <<op, unclosed>>
  <2>1. op'.at = "setup" /\ Running' = {}
    BY <1>1, <1>4 DEF Running
  <2>2. late' = late \cup ({p} \ loaded) /\ p \in complete'
    BY <1>1, <1>4
  <2> QED BY <1>1, <1>4, <2>1, <2>2, EnteredOrdered
<1>5. CASE /\ unclosed' = unclosed \cup Now({p}) /\ brought' = brought \cup Now({p})
           /\ op' = Goes("undoing") /\ UNCHANGED tables
  <2>1. op'.at = "undoing" /\ op'.cur = None
    BY <1>5 DEF Goes, IInv, TypeOK, Operation
  <2>2. Running' = {} /\ Opening' /\ ~Closing'
    BY <2>1 DEF Running, Opening, Closing
  <2>3. ASSUME NEW q \in loaded, NEW d \in Deps[q]
        PROVE  d # p
    BY <2>3 DEF Ordered, Needed
  <2>4. Needed'
    <3> SUFFICES ASSUME NEW q \in loaded, NEW d \in Deps[q]
                 PROVE  /\ d \notin pending'
                        /\ [plugin |-> d, gen |-> gen] \notin closed \cup unclosed'
      BY <1>1, <1>5, <2>2 DEF Needed, tables
    <3>1. d \notin pending /\ [plugin |-> d, gen |-> gen] \notin closed \cup unclosed
      BY <1>1 DEF Ordered, Needed
    <3> QED BY <1>1, <1>5, <2>3, <3>1 DEF Now
  <2>5. Layered'
    BY <1>5 DEF Ordered, Layered, tables
  <2>6. Apart'
    <3> SUFFICES ASSUME NEW x \in unclosed', NEW d \in Deps[x.plugin]
                 PROVE  /\ [plugin |-> d, gen |-> x.gen] \notin closed \cup unclosed'
                        /\ x.gen = gen => d \notin pending'
      BY <1>1, <2>2 DEF Apart
    <3>1. CASE x \in unclosed
      <4>1. /\ [plugin |-> d, gen |-> x.gen] \notin closed \cup unclosed
            /\ x.gen = gen => d \notin pending
        BY <3>1 DEF Ordered, Apart
      <4> QED BY <1>1, <1>5, <4>1 DEF Now
    <3>2. CASE x = [plugin |-> p, gen |-> gen]
      BY <1>1, <1>3, <1>5, <3>2 DEF Now
    <3> QED BY <1>5, <3>1, <3>2 DEF Now
  <2>7. Entered'
    BY <1>1, <1>2, <1>5, <2>2 DEF Ordered, Entered, tables, Now, IInv, TypeOK
  <2>8. ASSUME NEW t \in tasks \ stray
        PROVE  ~(t.plugin = p /\ t.gen = gen)
    <3> SUFFICES ASSUME t.plugin = p, t.gen = gen PROVE FALSE
      OBVIOUS
    <3>1. t \notin Live
      BY <1>1 DEF IInv, Work, TypeOK
    <3>2. t \in dying
      BY <3>1 DEF Live
    <3> QED BY <1>2, <3>2 DEF Over, Cut
  <2>9. Quiet'
    BY <1>1, <1>5, <2>8 DEF Over, Quiet, Now
  <2>10. Joined' /\ Stopped' /\ Cut'
    BY <1>1, <1>2, <1>5, <2>1, <2>2 DEF Over, Joined, Stopped, Cut, tables
  <2> QED BY <2>4, <2>5, <2>6, <2>7, <2>9, <2>10 DEF Ordered, Over
<1>6. CASE UNCHANGED <<tables, unclosed, brought, op>>
  <2>1. Running' = {} /\ Opening' /\ ~Closing'
    BY <1>1, <1>2, <1>6 DEF Running, Opening, Closing
  <2>2. Needed' /\ Layered' /\ Apart'
    BY <1>1, <1>2, <1>6, <2>1 DEF Ordered, Needed, Layered, Apart, tables
  <2>3. Entered'
    BY <1>1, <1>2, <1>6, <2>1 DEF Ordered, Entered, tables
  <2>4. Over'
    BY <1>1, <1>2, <1>6, <2>1 DEF Over, Quiet, Joined, Stopped, Cut, tables
  <2> QED BY <2>2, <2>3, <2>4 DEF Ordered
<1> QED BY <1>4, <1>5, <1>6 DEF SetupAtOnce

LEMMA SetupEndsOrdered ==
  ASSUME IInv, IInv', Ordered, Over, SetupEnds
  PROVE  Ordered' /\ Over'
<1>1. CASE Rollback({op.cur.plugin}) /\ op' = Goes("undoing")
  BY <1>1, SetupFailsOrdered
<1>2. CASE /\ complete' = complete \cup {op.cur.plugin} /\ op' = Goes("setup")
           /\ UNCHANGED <<loaded, late, active, registered, pending, unclosed, dying, stray>>
  <2>1. /\ op.at = "setup" /\ op'.at = "setup" /\ op'.cur = None /\ Running = {op.cur.plugin}
        /\ UNCHANGED <<gen, tasks, boot, brought, closed, lost>> /\ boot # "new"
    BY <1>2 DEF SetupEnds, Goes, IInv, TypeOK, Operation, Running, Tables
  <2>2. Running' = {} /\ Opening' /\ Opening /\ ~Closing' /\ ~Closing
    BY <2>1 DEF Running, Opening, Closing
  <2>3. Needed' /\ Layered' /\ Apart'
    BY <1>2, <2>1, <2>2 DEF Ordered, Needed, Layered, Apart
  <2>4. Entered'
    BY <1>2, <2>1, <2>2 DEF Ordered, Entered
  <2>5. Over'
    BY <1>2, <2>1, <2>2 DEF Over, Quiet, Joined, Stopped, Cut
  <2> QED BY <2>3, <2>4, <2>5 DEF Ordered
<1> QED BY <1>1, <1>2 DEF SetupEnds

LEMMA OrderedKept ==
  ASSUME IInv, IInv', Ordered, Over, [Next]_vars
  PROVE  Ordered' /\ Over'
<1>1. CASE UNCHANGED vars
  <2>1. UNCHANGED <<gen, loaded, late, complete, active, pending, unclosed, op, boot, tasks, dying, brought, closed, lost, stray>>
    BY <1>1 DEF vars, tables, pool, ghosts
  <2>2. Running' = Running /\ Opening' = Opening /\ Closing' = Closing /\ Live' = Live
    BY <2>1 DEF Running, Opening, Closing, Live
  <2>3. Ordered'
    BY <2>1, <2>2 DEF Ordered, Needed, Layered, Apart, Entered
  <2>4. Over'
    BY <2>1, <2>2 DEF Over, Quiet, Joined, Stopped, Cut
  <2> QED BY <2>3, <2>4
<1>2. CASE Construct \/ BeginSetups \/ StartUp \/ TaskEnds \/ Drain
  BY <1>2, ConstructOrdered, BeginSetupsOrdered, AtWorkOrdered
<1>3. CASE \E p \in Plugins : Dispatch(p) \/ Spawn(p) \/ Toggle(p) \/ Uninstall(p)
  BY <1>3, AtWorkOrdered, UninstallOrdered
<1>4. CASE BeginTeardown \/ BeginReload \/ JobsStopped \/ TasksJoined \/ Flushed \/ Drained
  BY <1>4, BeginsOrdered, JobsStoppedOrdered, TasksJoinedOrdered, FlushedOrdered
<1>5. CASE DrainNext \/ DrainedHook \/ CloseNext \/ ClosedHook \/ TornDown
  BY <1>5, DrainNextOrdered, DrainedHookOrdered, CloseNextOrdered, ClosedHookOrdered, TornDownOrdered
<1>6. CASE Reload \/ SetupEnds \/ SetupsDone \/ Unwound
  BY <1>6, ReloadOrdered, SetupEndsOrdered, SetupsDoneOrdered, CancelDrainOrdered
<1>7. CASE NextSetup
  <2>1. PICK p \in pending : First(p, pending) /\ (SetupBlocked(p) \/ SetupBegins(p) \/ SetupAtOnce(p))
    BY <1>7 DEF NextSetup
  <2> QED BY <1>7, <2>1, SetupBlockedOrdered, SetupBeginsOrdered, SetupAtOnceOrdered
<1>8. CASE Cancel
  BY <1>8, TornDownOrdered, CancelDrainOrdered, CancelSetupOrdered DEF Cancel
<1> QED BY <1>1, <1>2, <1>3, <1>4, <1>5, <1>6, <1>7, <1>8 DEF Next

LEMMA OrderedHolds == Spec => [](IInv /\ Ordered /\ Over)
<1>1. Init => Ordered /\ Over
  <2> SUFFICES ASSUME Init PROVE Ordered /\ Over
    OBVIOUS
  <2>1. op.at = "idle" /\ op.cur = None
    BY DEF Init, Idle
  <2>2. Ordered
    BY <2>1 DEF Init, Ordered, Needed, Layered, Apart, Entered, Opening, Closing
  <2>3. Over
    BY <2>1 DEF Init, Over, Quiet, Joined, Stopped, Cut, Opening, Closing, Live
  <2> QED BY <2>2, <2>3
<1>2. (IInv /\ IInv') /\ (Ordered /\ Over) /\ [Next]_vars => (Ordered /\ Over)'
  BY OrderedKept
<1>3. IInv /\ [Next]_vars => IInv'
  BY InvariantKept
<1> QED BY <1>1, <1>2, <1>3, InvariantHolds, PTL DEF Spec

\* Hooks are called by the drains and by the loop of a teardown.
LEMMA HookCalled ==
  ASSUME IInv, [Next]_vars, NEW x \in closed' \ closed
  PROVE  \/ DrainNext /\ x \in unclosed
         \/ CloseNext /\ op.at = "closing" /\ x.plugin \in loaded \cap op.todo /\ x.gen = gen
<1>1. CASE DrainNext
  BY <1>1 DEF DrainNext, CallHook
<1>2. CASE CloseNext
  BY <1>2 DEF CloseNext, CallHook, At
<1>3. CASE \/ UNCHANGED vars \/ Construct \/ StartUp \/ TaskEnds \/ Drain
           \/ \E p \in Plugins : Dispatch(p) \/ Spawn(p) \/ Toggle(p) \/ Uninstall(p)
           \/ BeginSetups \/ BeginTeardown \/ BeginReload \/ SetupsDone
  BY <1>3 DEF vars, Construct, StartUp, TaskEnds, Drain, Dispatch, Spawn, Toggle, Uninstall, BeginSetups, BeginTeardown,
              BeginReload, SetupsDone, ghosts
<1>4. CASE \/ JobsStopped \/ TasksJoined \/ DrainedHook \/ Flushed \/ ClosedHook \/ TornDown \/ Drained
           \/ Reload \/ NextSetup \/ SetupEnds \/ Unwound \/ Cancel
  BY <1>4 DEF JobsStopped, TasksJoined, DrainedHook, Flushed, ClosedHook, TornDown, Drained, Reload, NextSetup,
              SetupEnds, Unwound, Cancel, ghosts
<1> QED BY <1>1, <1>2, <1>3, <1>4 DEF Next

\* A hook that is called finds what it depends on, and its tasks are over.
LEMMA HookFindsOrder ==
  ASSUME IInv, Ordered, Over, [Next]_vars, NEW x \in closed' \ closed
  PROVE  HookInOrder(x)
<1>1. CASE x \in unclosed
  BY <1>1 DEF Ordered, Apart, Over, Quiet, HookInOrder
<1>2. CASE op.at = "closing" /\ x.plugin \in loaded \cap op.todo /\ x.gen = gen
  <2>1. \A d \in Deps[x.plugin] : [plugin |-> d, gen |-> gen] \notin closed
    BY <1>2 DEF Ordered, Needed
  <2>2. \A t \in tasks \ stray : t.plugin = x.plugin /\ t.gen = gen => t.kind = "event"
    <3> SUFFICES ASSUME NEW t \in tasks \ stray, t.plugin = x.plugin, t.gen = gen
                 PROVE  t.kind = "event"
      OBVIOUS
    <3>1. t \notin dying
      BY <1>2 DEF Over, Joined
    <3> QED BY <1>2, <3>1 DEF Over, Stopped, Live
  <2> QED BY <1>2, <2>1, <2>2 DEF HookInOrder
<1> QED BY <1>1, <1>2, HookCalled

\* A plugin is registered by a load, or when its setup begins.
LEMMA PluginRegistered ==
  ASSUME IInv, [Next]_vars, NEW p \in registered' \ registered
  PROVE  Construct \/ (Reload /\ Load) \/ NextSetup
<1>1. CASE \/ UNCHANGED vars \/ StartUp \/ TaskEnds \/ Drain
           \/ \E q \in Plugins : Dispatch(q) \/ Spawn(q) \/ Toggle(q) \/ Uninstall(q)
           \/ BeginSetups \/ BeginTeardown \/ BeginReload \/ SetupsDone
  BY <1>1 DEF vars, StartUp, TaskEnds, Drain, Dispatch, Spawn, Toggle, Uninstall, BeginSetups, BeginTeardown,
              BeginReload, SetupsDone, tables, Clear
<1>2. CASE \/ JobsStopped \/ TasksJoined \/ DrainNext \/ DrainedHook \/ Flushed \/ CloseNext \/ ClosedHook
           \/ TornDown \/ Drained \/ Unwound
  BY <1>2 DEF JobsStopped, TasksJoined, DrainNext, DrainedHook, Flushed, CloseNext, ClosedHook, TornDown, Drained,
              Unwound, Raised, DropAll, Clear, tables
<1>3. CASE SetupEnds \/ Cancel
  BY <1>3 DEF SetupEnds, Cancel, CancelTeardown, CancelDrain, CancelSetup, Raised, DropAll, Rollback, Clear
<1>4. CASE Reload
  BY <1>4 DEF Reload
<1>5. CASE Construct \/ NextSetup
  BY <1>5
<1> QED BY <1>1, <1>2, <1>3, <1>4, <1>5 DEF Next

\* A setup finds its dependencies set up, and nothing of an earlier load.
LEMMA SetupFindsOrder ==
  ASSUME IInv, Ordered, Over, [Next]_vars, NEW p \in registered' \ registered
  PROVE  SetupInOrder(p)
<1>1. CASE Load /\ brought \subseteq closed \cup lost
  <2>1. PICK fate \in [Plugins -> Fates] :
          Possible(fate) /\ complete' = {q \in Plugins : fate[q] \in {"done"}} /\ registered' = complete'
    BY <1>1 DEF Load
  <2>2. p \in Plugins /\ fate[p] = "done"
    BY <2>1
  <2>3. \A d \in Deps[p] : d \in Plugins /\ fate[d] = "done"
    BY <2>1, <2>2 DEF Possible, Fates
  <2> QED BY <1>1, <2>1, <2>3 DEF SetupInOrder
<1>2. CASE NextSetup
  <2>1. PICK q \in pending : First(q, pending) /\ (SetupBlocked(q) \/ SetupBegins(q) \/ SetupAtOnce(q))
    BY <1>2 DEF NextSetup
  <2>2. p = q /\ Met(q) /\ complete \subseteq complete'
    BY <2>1 DEF SetupBlocked, SetupBegins, SetupAtOnce, Rollback, Clear, tables
  <2>3. op.at = "setup" /\ op.cur = None /\ gen' = gen
    BY <1>2 DEF NextSetup, At
  <2>4. Deps[p] \subseteq complete
    BY <2>1, <2>2, <2>3, FirstIsMet
  <2> QED BY <2>2, <2>3, <2>4 DEF SetupInOrder, Ordered, Entered, Opening
<1>3. CASE Construct
  <2>1. brought = {}
    BY <1>3 DEF Construct, Ordered, Entered
  <2> QED BY <1>1, <1>3, <2>1 DEF Construct
<1>4. CASE Reload /\ Load
  <2>1. unclosed = {} /\ loaded = {}
    BY <1>4 DEF Reload, At, IInv, Progress, Over, Stopped
  <2>2. brought \subseteq closed \cup lost
    BY <2>1 DEF IInv, Progress, Now
  <2> QED BY <1>1, <1>4, <2>2
<1> QED BY <1>2, <1>3, <1>4, PluginRegistered

\* A teardown hook runs before the hooks of what its plugin depends on and when
\* the plugin's tasks are over; a setup runs after the setups of what its plugin
\* depends on and when nothing of an earlier load is left (_teardown_plugins,
\* _drain_teardowns, _complete_pending_setups, load_plugins).
THEOREM HooksInOrder == Spec => InOrder
<1>1. IInv /\ Ordered /\ Over /\ [Next]_vars =>
        [/\ \A x \in closed' \ closed : HookInOrder(x)
         /\ \A p \in registered' \ registered : SetupInOrder(p)]_vars
  BY HookFindsOrder, SetupFindsOrder
<1> QED BY <1>1, OrderedHolds, PTL DEF Spec, InOrder
===============================================================================
