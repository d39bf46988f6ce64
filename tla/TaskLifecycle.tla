---------------------------- MODULE TaskLifecycle -----------------------------
(***************************************************************************)
(* The tasks of one web process: requests that start, stop, requalify and  *)
(* delete them, the edit of an instance, the worker threads, and restarts  *)
(* of the process (web_ui runtime.rs, runtime_store.rs, auto_start.rs,     *)
(* tasks.rs requalify_task, store.rs open).  What a worker does between    *)
(* its start and its end is TaskWorker; here it is only where it stands    *)
(* with the SQLite row the requests look at.                               *)
(*                                                                         *)
(* A request that reads, talks to a database and then writes is two        *)
(* actions.  What runs under the registry mutex or in one SQLite           *)
(* transaction is one.                                                     *)
(***************************************************************************)
EXTENDS Integers, FiniteSets, Functions

CONSTANTS
    Tasks,
    SinkOf,       \* SinkOf[t]: the instance a task writes to
    ServerOf,     \* ServerOf[i]: the server (sink_uuid) behind an instance
    TableOf,      \* TableOf[t]: the sink database and table a task writes
    NoServer,
    AutoStart,    \* tasks with auto_start = 1
    MaxWorkers,   \* 16 in start_task
    MaxRevision,  \* bound: revisions of a task and of an instance
    MaxChanges,   \* bound: edits and requalifications together
    MaxFaults     \* bound: crashes, failed writes and worker errors

Instances == {SinkOf[t] : t \in Tasks}

ASSUME AutoStartAssumption == AutoStart \subseteq Tasks
ASSUME MaxWorkersAssumption == MaxWorkers \in Nat \ {0}
ASSUME MaxRevisionAssumption == MaxRevision \in Nat \ {0} /\ MaxChanges \in Nat
ASSUME LifecycleFaultsAssumption == MaxFaults \in Nat
ASSUME NoServerAssumption == \A i \in Instances : ServerOf[i] # NoServer

VARIABLES
    process,   \* "down", "boot", "up" or "draining" (shutdown_tasks)
    boot,      \* tasks start_auto_tasks has still to try
    exists,    \* exists[t]: t has a row in replication_tasks
    rev,       \* rev[t]: configuration_revision (and desired_...)
    eff,       \* eff[t]: effective_configuration_revision
    bound,     \* bound[t]: the instance revision the configuration is for
    plan,      \* plan[t]: plan_status
    inst,      \* inst[i]: revision of an instance
    state,     \* state[t]: task_runtime.state
    mirror,    \* mirror[t]: sink_uuid in checkpoint_json
    binding,   \* binding[t]: the revision in the binding of t's CDC.log_info row, or 0
    startReq,  \* startReq[t]: revision a start request has validated, or 0
    reqRev,    \* reqRev[t]: revision a requalify request has read, or 0
    reqInst,   \* reqInst[t]: instance revision it has read
    thread,    \* thread[t]: where t's worker thread is
    ran,       \* ran[t]: the revision run() has read, or 0
    cancel,    \* cancel[t]: the worker's cancel flag
    outcome,   \* outcome[t]: what run() returned
    faults

rows == <<exists, rev, eff, bound, plan>>
requests == <<startReq, reqRev, reqInst>>
threads == <<thread, ran, cancel, outcome>>
progress == <<mirror, binding>>
vars == <<process, boot, rows, inst, state, progress, requests, threads, faults>>

Active == {"starting", "running", "stopping"}
Outcomes == {"stopped", "failed", "blocked"}
Busy == {"spawned", "read", "stored", "saved", "writing"}
Alive == Busy \cup {"finishing", "exiting"}

TypeOK ==
    /\ process \in {"down", "boot", "up", "draining"}
    /\ boot \subseteq AutoStart
    /\ exists \in [Tasks -> BOOLEAN]
    /\ rev \in [Tasks -> 1..MaxRevision] /\ eff \in [Tasks -> 0..MaxRevision]
    /\ bound \in [Tasks -> 1..MaxRevision] /\ inst \in [Instances -> 1..MaxRevision]
    /\ plan \in [Tasks -> {"valid", "stale"}]
    /\ state \in [Tasks -> {"none"} \cup Active \cup Outcomes]
    /\ mirror \in [Tasks -> {NoServer} \cup {ServerOf[i] : i \in Instances}]
    /\ binding \in [Tasks -> 0..MaxRevision] /\ ran \in [Tasks -> 0..MaxRevision]
    /\ startReq \in [Tasks -> 0..MaxRevision]
    /\ reqRev \in [Tasks -> 0..MaxRevision] /\ reqInst \in [Tasks -> 0..MaxRevision]
    /\ thread \in [Tasks -> {"none", "unborn", "done", "lost"} \cup Alive]
    /\ cancel \in [Tasks -> BOOLEAN]
    /\ outcome \in [Tasks -> Outcomes]
    /\ faults \in 0..MaxFaults

Init ==
    /\ process = "down"
    /\ boot = {}
    /\ exists = [t \in Tasks |-> TRUE]
    /\ rev = [t \in Tasks |-> 1] /\ eff = [t \in Tasks |-> 0]
    /\ bound = [t \in Tasks |-> 1] /\ inst = [i \in Instances |-> 1]
    /\ plan = [t \in Tasks |-> "valid"]
    /\ state = [t \in Tasks |-> "none"]
    /\ mirror = [t \in Tasks |-> NoServer]
    /\ binding = [t \in Tasks |-> 0] /\ ran = [t \in Tasks |-> 0]
    /\ startReq = [t \in Tasks |-> 0]
    /\ reqRev = [t \in Tasks |-> 0] /\ reqInst = [t \in Tasks |-> 0]
    /\ thread = [t \in Tasks |-> "none"]
    /\ cancel = [t \in Tasks |-> FALSE]
    /\ outcome = [t \in Tasks |-> "stopped"]
    /\ faults = 0

Total(revisions) == FoldFunction(LAMBDA r, n : n + r - 1, 0, revisions)
MayChange == Total(inst) + Total(rev) < MaxChanges
Fault == faults < MaxFaults /\ faults' = faults + 1
Put(f, t, v) == [f EXCEPT ![t] = v]

-------------------------------------------------------------------------------
(* The process.                                                            *)
(* Faulty variant: tasks that were active when the process died stay so.   *)
BootWithoutReset ==
    /\ process = "down"
    /\ process' = "boot"
    /\ boot' = {t \in AutoStart : exists[t]}
    /\ UNCHANGED <<rows, inst, state, progress, requests, threads, faults>>

(* Store::open: no worker of an earlier process is left, so no task is     *)
(* active.                                                                 *)
Boot ==
    /\ process = "down"
    /\ process' = "boot"
    /\ boot' = {t \in AutoStart : exists[t]}
    /\ state' = [t \in Tasks |-> IF state[t] \in Active THEN "stopped" ELSE state[t]]
    /\ UNCHANGED <<rows, inst, progress, requests, threads, faults>>

Serve ==
    /\ process = "boot"
    /\ boot = {}
    /\ process' = "up"
    /\ UNCHANGED <<boot, rows, inst, state, progress, requests, threads, faults>>

(* shutdown_tasks, after the server stopped taking requests: cancel all,   *)
(* join all.                                                               *)
Shutdown ==
    /\ process = "up"
    /\ Fault
    /\ \A t \in Tasks : startReq[t] = 0 /\ reqRev[t] = 0
    /\ process' = "draining"
    /\ cancel' = [t \in Tasks |-> cancel[t] \/ thread[t] \in Alive]
    /\ UNCHANGED <<boot, rows, inst, state, progress, requests, thread, ran, outcome>>

Gone ==
    /\ process' = "down"
    /\ boot' = {}
    /\ startReq' = [t \in Tasks |-> 0]
    /\ reqRev' = [t \in Tasks |-> 0] /\ reqInst' = [t \in Tasks |-> 0]
    /\ thread' = [t \in Tasks |-> "none"]
    /\ ran' = [t \in Tasks |-> 0]
    /\ cancel' = [t \in Tasks |-> FALSE]
    /\ outcome' = [t \in Tasks |-> "stopped"]
    /\ UNCHANGED <<rows, inst, progress>>

Exit ==
    /\ process = "draining"
    /\ \A t \in Tasks : thread[t] \notin Alive
    /\ state' = [t \in Tasks |-> IF state[t] \in Active THEN "stopped" ELSE state[t]]
    /\ Gone
    /\ UNCHANGED faults

Crash ==
    /\ process # "down"
    /\ Fault
    /\ Gone
    /\ UNCHANGED state

-------------------------------------------------------------------------------
(* Instances and configuration.                                            *)

(* save_instance, or probe_instance that finds something new.              *)
EditInstance(i) ==
    /\ process = "up"
    /\ inst[i] < MaxRevision /\ MayChange
    /\ inst' = Put(inst, i, inst[i] + 1)
    /\ UNCHANGED <<process, boot, rows, state, progress, requests, threads, faults>>
(* requalify_task reads: an active task is refused.                        *)
RequalifyRead(t) ==
    /\ process = "up"
    /\ exists[t]
    /\ reqRev[t] = 0
    /\ state[t] \notin Active
    /\ rev[t] < MaxRevision /\ MayChange
    /\ reqRev' = Put(reqRev, t, rev[t])
    /\ reqInst' = Put(reqInst, t, inst[SinkOf[t]])
    /\ UNCHANGED <<process, boot, rows, inst, state, progress, startReq, threads, faults>>

EndRequalify(t) ==
    /\ reqRev' = Put(reqRev, t, 0)
    /\ reqInst' = Put(reqInst, t, 0)
    /\ UNCHANGED <<process, boot, inst, state, progress, startReq, threads>>

RequalifyCurrent(t) ==
    exists[t] /\ inst[SinkOf[t]] = reqInst[t] /\ rev[t] = reqRev[t]

(* ... and, when the preflight is done, replaces the configuration if it   *)
(* and the instances are the ones it read.                                 *)
RequalifyWrite(t) ==
    /\ reqRev[t] # 0
    /\ RequalifyCurrent(t)
    /\ rev' = Put(rev, t, rev[t] + 1)
    /\ bound' = Put(bound, t, reqInst[t])
    /\ plan' = Put(plan, t, "valid")
    /\ EndRequalify(t)
    /\ UNCHANGED <<exists, eff, faults>>

RequalifyRefused(t) ==
    /\ reqRev[t] # 0
    /\ ~RequalifyCurrent(t)
    /\ EndRequalify(t)
    /\ UNCHANGED <<rows, faults>>

(* The preflight fails: mark_plan_stale.                                   *)
RequalifyFails(t) ==
    /\ reqRev[t] # 0
    /\ Fault
    /\ plan' = IF exists[t] THEN Put(plan, t, "stale") ELSE plan
    /\ EndRequalify(t)
    /\ UNCHANGED <<exists, rev, eff, bound>>

-------------------------------------------------------------------------------
(* Start, stop, delete.                                                    *)

MayStart(t) == process = "up" \/ (process = "boot" /\ t \in boot)

(* start_task before the mutex: the saved plan must be current.            *)
StartRead(t) ==
    /\ MayStart(t)
    /\ exists[t]
    /\ startReq[t] = 0
    /\ bound[t] = inst[SinkOf[t]]
    /\ plan[t] = "valid"
    /\ startReq' = Put(startReq, t, rev[t])
    /\ UNCHANGED <<process, boot, rows, inst, state, progress, reqRev, reqInst, threads, faults>>

(* start_auto_tasks records the error of a task it could not start.        *)
AfterStart(t) == boot' = boot \ {t}
StartError(t) ==
    /\ AfterStart(t)
    /\ state' = IF process = "boot" /\ state[t] \notin Active THEN Put(state, t, "failed") ELSE state

(* ensure_saved_plan_current fails; an edited instance makes it stale.     *)
StartStale(t) ==
    /\ MayStart(t)
    /\ exists[t]
    /\ startReq[t] = 0
    /\ bound[t] # inst[SinkOf[t]] \/ plan[t] # "valid"
    /\ plan' = IF bound[t] # inst[SinkOf[t]] THEN Put(plan, t, "stale") ELSE plan
    /\ StartError(t)
    /\ UNCHANGED <<process, exists, rev, eff, bound, inst, progress, requests, threads, faults>>

(* The preflight finds that the source, the sink or its capabilities are   *)
(* not what the plan was made for, or cannot be made.  The plan becomes    *)
(* stale by the name of the task, also when the task was requalified since *)
(* the request read it.                                                    *)
StartOutdated(t) ==
    /\ startReq[t] # 0
    /\ Fault
    /\ plan' = IF exists[t] THEN Put(plan, t, "stale") ELSE plan
    /\ startReq' = Put(startReq, t, 0)
    /\ IF exists[t] THEN StartError(t) ELSE AfterStart(t) /\ UNCHANGED state
    /\ UNCHANGED <<process, exists, rev, eff, bound, inst, progress, reqRev, reqInst, threads>>

(* begin_task_at_revision: the tasks that write the same table of the same *)
(* registered instance.                                                    *)
TargetBusy(t) ==
    \E u \in Tasks : exists[u] /\ state[u] \in Active /\ SinkOf[u] = SinkOf[t] /\ TableOf[u] = TableOf[t]

CanActivate(t) ==
    /\ exists[t]
    /\ thread[t] \notin Alive
    /\ Cardinality({u \in Tasks : thread[u] \in Alive}) < MaxWorkers
    /\ rev[t] = startReq[t]
    /\ bound[t] = inst[SinkOf[t]]
    /\ plan[t] = "valid"
    /\ state[t] \notin Active
    /\ ~TargetBusy(t)

(* start_task under the mutex: activate, spawn, register.                  *)
StartActivate(t) ==
    /\ startReq[t] # 0
    /\ CanActivate(t)
    /\ eff' = Put(eff, t, startReq[t])
    /\ state' = Put(state, t, "starting")
    /\ thread' = Put(thread, t, "spawned")
    /\ cancel' = Put(cancel, t, FALSE)
    /\ startReq' = Put(startReq, t, 0)
    /\ AfterStart(t)
    /\ UNCHANGED <<process, exists, rev, bound, plan, inst, progress, reqRev, reqInst,
                   ran, outcome, faults>>

(* The thread cannot be created: finish_task.  When that write fails too,  *)
(* the task stays as it was activated, with no thread in the registry.     *)
SpawnFails(t) ==
    /\ startReq[t] # 0
    /\ CanActivate(t)
    /\ Fault
    /\ eff' = Put(eff, t, startReq[t])
    /\ \/ state' = Put(state, t, "failed") /\ thread' = Put(thread, t, "none")
       \/ state' = Put(state, t, "starting") /\ thread' = Put(thread, t, "unborn")
    /\ cancel' = Put(cancel, t, FALSE)
    /\ startReq' = Put(startReq, t, 0)
    /\ AfterStart(t)
    /\ UNCHANGED <<process, exists, rev, bound, plan, inst, progress, reqRev, reqInst, ran, outcome>>

StartRefused(t) ==
    /\ startReq[t] # 0
    /\ ~CanActivate(t)
    /\ startReq' = Put(startReq, t, 0)
    /\ IF exists[t] THEN StartError(t) ELSE AfterStart(t) /\ UNCHANGED state
    /\ UNCHANGED <<process, rows, inst, progress, reqRev, reqInst, threads, faults>>

(* stop_task: the request is recorded before the flag is set.  The flag of *)
(* a thread that has ended is of no use to anyone.                         *)
StopTask(t) ==
    /\ process = "up"
    /\ exists[t]
    /\ thread[t] \notin {"none", "unborn"}
    /\ state' = IF state[t] \in {"starting", "running"} THEN Put(state, t, "stopping") ELSE state
    /\ cancel' = Put(cancel, t, thread[t] \in Alive)
    /\ UNCHANGED <<process, boot, rows, inst, progress, requests, thread, ran, outcome, faults>>
(* Faulty variant: only the state in SQLite is looked at.                  *)
DeleteUnchecked(t) ==
    /\ process = "up"
    /\ exists[t]
    /\ state[t] \notin Active
    /\ exists' = Put(exists, t, FALSE)
    /\ state' = Put(state, t, "none")
    /\ mirror' = Put(mirror, t, NoServer)
    /\ UNCHANGED <<process, boot, rev, eff, bound, plan, inst, binding, requests, threads, faults>>

(* delete_task: no thread and no active state; the runtime row goes too.   *)
DeleteTask(t) ==
    /\ process = "up"
    /\ exists[t]
    /\ thread[t] \notin Alive
    /\ state[t] \notin Active
    /\ exists' = Put(exists, t, FALSE)
    /\ state' = Put(state, t, "none")
    /\ mirror' = Put(mirror, t, NoServer)
    /\ thread' = Put(thread, t, "none")
    /\ UNCHANGED <<process, boot, rev, eff, bound, plan, inst, binding, requests, ran, cancel,
                   outcome, faults>>

-------------------------------------------------------------------------------
(* The worker thread.                                                      *)

Move(t, label) == thread' = Put(thread, t, label)

(* run() reads the task and its endpoints at the revisions bound to it.    *)
WorkerRead(t) ==
    /\ thread[t] = "spawned"
    /\ bound[t] = inst[SinkOf[t]]
    /\ ran' = Put(ran, t, rev[t])
    /\ Move(t, "read")
    /\ UNCHANGED <<process, boot, rows, inst, state, progress, requests, cancel, outcome, faults>>

(* check_binding: the row in the sink, if there is one, was written by the *)
(* same configuration revision.                                            *)
SameBinding(t) == binding[t] \in {0, ran[t]}

(* open_sink finds the row of the task, or the transaction that creates it *)
(* (snapshot marker or boundary) binds it to the revision ...              *)
OpenSink(t) ==
    /\ thread[t] = "read"
    /\ SameBinding(t)
    /\ binding' = Put(binding, t, ran[t])
    /\ Move(t, "stored")
    /\ UNCHANGED <<process, boot, rows, inst, state, mirror, requests, ran, cancel, outcome, faults>>

(* ... and save_checkpoint copies it to SQLite.                            *)
SaveCheckpoint(t) ==
    /\ thread[t] = "stored"
    /\ mirror' = Put(mirror, t, ServerOf[SinkOf[t]])
    /\ Move(t, "saved")
    /\ UNCHANGED <<process, boot, rows, inst, state, binding, requests, ran, cancel, outcome,
                   faults>>
(* Faulty variant: a task that is stopping does not count as a writer.     *)
ServerRunning(t) ==
    \E u \in Tasks \ {t} : /\ exists[u] /\ state[u] = "running" /\ mirror[u] # NoServer
                           /\ mirror[u] = ServerOf[SinkOf[t]] /\ TableOf[u] = TableOf[t]

(* mark_running: other active tasks, under any instance, whose checkpoint  *)
(* names the same server and whose table is the same.                      *)
ServerBusy(t) ==
    \E u \in Tasks \ {t} : /\ exists[u] /\ state[u] \in Active /\ mirror[u] # NoServer
                           /\ mirror[u] = ServerOf[SinkOf[t]] /\ TableOf[u] = TableOf[t]
(* Faulty variant: mark_running overwrites a stop request.                 *)
AlwaysRunning(s) == "running"

(* The state mark_running gives a task: a stop request is not overwritten. *)
MarkedState(s) == IF s = "stopping" THEN s ELSE "running"

MarkRunning(t) ==
    /\ thread[t] = "saved"
    /\ ~ServerBusy(t)
    /\ state' = Put(state, t, MarkedState(state[t]))
    /\ mirror' = Put(mirror, t, ServerOf[SinkOf[t]])
    /\ Move(t, "writing")
    /\ UNCHANGED <<process, boot, rows, inst, binding, requests, ran, cancel, outcome, faults>>

(* run() returns: refused, cancelled at one of its checks, or an error.    *)
Returns(t, o) ==
    /\ Move(t, "finishing")
    /\ ran' = Put(ran, t, 0)
    /\ outcome' = Put(outcome, t, o)
    /\ UNCHANGED <<process, boot, rows, inst, state, progress, requests, cancel>>

WorkerRefused(t) ==
    /\ \/ thread[t] = "spawned" /\ bound[t] # inst[SinkOf[t]]
       \/ thread[t] = "read" /\ ~SameBinding(t)
       \/ thread[t] = "saved" /\ ServerBusy(t)
    /\ Returns(t, "failed")
    /\ UNCHANGED faults

WorkerStops(t) ==
    /\ thread[t] \in {"read", "writing"}
    /\ cancel[t]
    /\ Returns(t, "stopped")
    /\ UNCHANGED faults

WorkerErrors(t) ==
    /\ thread[t] \in Busy
    /\ Fault
    /\ \E o \in {"failed", "blocked"} : Returns(t, o)

(* finish_task_with_state and the end of the thread.  When the write fails *)
(* the thread ends all the same and the state stays as it was.             *)
Finish(t) ==
    /\ thread[t] = "finishing"
    /\ state' = Put(state, t, outcome[t])
    /\ Move(t, "exiting")
    /\ UNCHANGED <<process, boot, rows, inst, progress, requests, ran, cancel, outcome, faults>>

FinishFails(t) ==
    /\ thread[t] = "finishing"
    /\ Fault
    /\ Move(t, "lost")
    /\ cancel' = Put(cancel, t, FALSE)
    /\ outcome' = Put(outcome, t, "stopped")
    /\ UNCHANGED <<process, boot, rows, inst, state, progress, requests, ran>>

ThreadEnds(t) ==
    /\ thread[t] = "exiting"
    /\ Move(t, "done")
    /\ cancel' = Put(cancel, t, FALSE)
    /\ outcome' = Put(outcome, t, "stopped")
    /\ UNCHANGED <<process, boot, rows, inst, state, progress, requests, ran, faults>>

Worker(t) ==
    \/ WorkerRead(t) \/ OpenSink(t) \/ SaveCheckpoint(t) \/ MarkRunning(t) \/ WorkerRefused(t)
    \/ WorkerStops(t) \/ Finish(t) \/ ThreadEnds(t)

-------------------------------------------------------------------------------
Next ==
    \/ Boot \/ Serve \/ Shutdown \/ Exit \/ Crash
    \/ \E i \in Instances : EditInstance(i)
    \/ \E t \in Tasks :
         \/ RequalifyRead(t) \/ RequalifyWrite(t) \/ RequalifyRefused(t) \/ RequalifyFails(t)
         \/ StartRead(t) \/ StartStale(t) \/ StartOutdated(t) \/ StartActivate(t) \/ SpawnFails(t)
         \/ StartRefused(t)
         \/ StopTask(t) \/ DeleteTask(t)
         \/ Worker(t) \/ WorkerErrors(t) \/ FinishFails(t)

Spec == Init /\ [][Next]_vars

-------------------------------------------------------------------------------
(* Two tasks never write one table of one server at a time, even when the  *)
(* server is registered as two instances and one of them is stopping       *)
(* (begin_task_at_revision, mark_running).                                 *)
SingleWriter ==
    \A t, u \in Tasks :
        thread[t] = "writing" /\ thread[u] = "writing" /\ t # u =>
            ServerOf[SinkOf[t]] # ServerOf[SinkOf[u]] \/ TableOf[t] # TableOf[u]

(* A stop request is never overwritten while the worker has not ended      *)
(* (stop_task, mark_running).                                              *)
StopIsKept ==
    \A t \in Tasks : process = "up" /\ thread[t] \in Busy /\ cancel[t] => state[t] = "stopping"

(* A task shown as active has a thread that will end it; only a failed     *)
(* write of the final state leaves one behind, of a thread that ended or   *)
(* of one that could not be created, and only until the process is started *)
(* again (finish_task, open).                                              *)
ActiveHasThread ==
    \A t \in Tasks :
        process # "down" /\ state[t] \in Active => thread[t] \in Alive \cup {"lost", "unborn"}

(* A deleted task has no thread (delete_task, start_task).                 *)
DeletedIsQuiet == \A t \in Tasks : ~exists[t] => thread[t] = "none" /\ state[t] = "none"

(* task_worker.rs, run: "Active tasks cannot be requalified", so a worker  *)
(* runs the configuration that start_task validated and activated.         *)
(* The code does not keep this; the README says how (known disagreements). *)
ActiveNotRequalified == \A t \in Tasks : state[t] \in Active => rev[t] = eff[t]

(* retry_advice of task_worker.rs: "fix or requalify the saved plan before *)
(* resuming": a task that was requalified and started opens the checkpoint *)
(* it left in the sink.                                                    *)
(* The code does not keep this; the README says how (known disagreements). *)
RequalifiedResumes == \A t \in Tasks : thread[t] = "read" => SameBinding(t)
===============================================================================
