----------------------------- MODULE ResearchJobs -----------------------------
(***************************************************************************)
(* The research queue (lib_application/services/research_jobs.py), the     *)
(* host supervisor that runs its jobs in Docker sandboxes (dev_cli         *)
(* research/worker.py, process.py), and database maintenance, which must   *)
(* find research stopped (research/maintenance.py).                        *)
(*                                                                         *)
(* Every mutation of the queue takes the control advisory lock for its     *)
(* transaction and gives up when it is taken, so it is one atomic step     *)
(* that may be refused.  Maintenance holds that lock, and the launch lock, *)
(* as session locks from begin to close.  A supervisor process draws a     *)
(* fresh worker_id; its image and bundle hashes do not change.  A          *)
(* container that has exited is gone (docker compose run --rm).            *)
(***************************************************************************)
EXTENDS Integers, Sequences, FiniteSets, Functions

CONSTANTS MaxSupervisors,     \* bound: supervisor processes started
          Upkeep,             \* the maintenance process, as owner of a lock
          Nobody,             \* no worker, no lock owner
          MaxJobs,            \* bound: jobs enqueued
          MaxInterventions,   \* bound: jobs, retries and maintenance windows
          MaxResearchFaults   \* bound: crashes, lost locks, failed calls

ASSUME ResearchAssumption ==
  /\ Upkeep \notin Nat /\ Nobody \notin Nat /\ Nobody # Upkeep
  /\ {MaxSupervisors, MaxJobs, MaxInterventions, MaxResearchFaults} \subseteq Nat

VARIABLES control,   \* the research_control row; live: heartbeat_at is recent
          tries,     \* tries[j]: the attempts of job j; the last is current
          sup,       \* sup[w]: run_worker in process w
          spawned,   \* containers whose "docker compose run" is under way
          boxes,     \* sandbox containers
          launch,    \* owner of the launch advisory lock
          upkeep,    \* where the maintenance process is
          stray,     \* history: a launch escaped the launch lock
          researchFaults

researchVars == <<control, tries, sup, spawned, boxes, launch, upkeep, stray,
                  researchFaults>>

ResearchJob == 1..MaxJobs
Supervisor == 1..MaxSupervisors   \* processes, in the order they start
Ended == {"completed", "failed", "cancelled", "interrupted"}
Retryable == Ended \ {"completed"}

\* A job and its current attempt have one status; leased: lease_expires_at is
\* in the future.  An attempt is claimed once, so it stands for its token.
Try == [status : Ended \union {"queued", "running"},
        worker : Supervisor \union {Nobody}, generation : Nat, leased : BOOLEAN]
QueuedTry == [status |-> "queued", worker |-> Nobody, generation |-> 0,
              leased |-> FALSE]

\* A container is named after its job and labelled with job and generation.
Box == [job : ResearchJob, generation : Nat, by : Supervisor]

Place == {"new", "loop", "reconcile", "list", "sweep", "capacity", "claim",
          "guard", "barrier", "admit_launch", "create", "startup", "verify",
          "open", "compute", "tidy", "finish", "remove", "unlock", "report",
          "interrupt", "retire", "dead"}
\* The places at which the process has a job and its heartbeat thread runs.
Guarded == {"barrier", "admit_launch", "create", "startup", "verify", "open",
            "compute", "tidy", "finish", "remove", "unlock"}

SupervisorState == [at : Place, job : ResearchJob \union {0}, try : Nat,
                    generation : Nat, after : {"report", "interrupt", "retire"},
                    seen : SUBSET Box]

ResearchTypeOK ==
  /\ control \in [maintenance : BOOLEAN, generation : Nat,
                  worker : Supervisor \union {Nobody}, live : BOOLEAN]
  /\ tries \in [ResearchJob -> Seq(Try)]
  /\ sup \in [Supervisor -> SupervisorState]
  /\ spawned \subseteq Box
  /\ boxes \subseteq Box
  /\ \A b, c \in boxes : b.job = c.job => b = c
  /\ launch \in Supervisor \union {Upkeep, Nobody}
  /\ upkeep \in {"off", "locked", "scan", "prove", "interrupt", "quiet", "resume"}
  /\ stray \in BOOLEAN
  /\ researchFaults \in 0..MaxResearchFaults

Fresh == [at |-> "new", job |-> 0, try |-> 0, generation |-> 0,
          after |-> "report", seen |-> {}]

ResearchInit ==
  /\ control = [maintenance |-> FALSE, generation |-> 1, worker |-> Nobody,
                live |-> FALSE]
  /\ tries = [j \in ResearchJob |-> <<>>]
  /\ sup = [w \in Supervisor |-> Fresh]
  /\ spawned = {}
  /\ boxes = {}
  /\ launch = Nobody
  /\ upkeep = "off"
  /\ stray = FALSE
  /\ researchFaults = 0

-------------------------------------------------------------------------------
\* _attempt: the attempt the job row names as its current one.
CurrentTry(j) == tries[j][Len(tries[j])]
StatusOf(j) == IF tries[j] = <<>> THEN "absent" ELSE CurrentTry(j).status
RunningJobs == {j \in ResearchJob : StatusOf(j) = "running"}
WithoutLease(j) == [tries[j] EXCEPT ![Len(tries[j])].leased = FALSE]

\* _end for the current attempt of each job of J; nobody reads its lease again.
EndAll(J, s) ==
  tries' = [j \in ResearchJob |->
              IF j \in J THEN [WithoutLease(j) EXCEPT ![Len(tries[j])].status = s]
              ELSE tries[j]]

\* pg_try_advisory_xact_lock on the control lock, after the retries of
\* ResearchStore.transaction: lost to maintenance, or to other transactions.
ControlFree == upkeep = "off"
\* Supervisor w moves on; it forgets the job it leaves.
Moved(s, place) ==
  CASE place = "dead" -> [Fresh EXCEPT !.at = "dead"]
    [] place \in {"loop", "retire"} ->
         [Fresh EXCEPT !.at = place, !.generation = s.generation]
    [] OTHER -> [s EXCEPT !.at = place]
Goto(w, place) == sup' = [sup EXCEPT ![w] = Moved(@, place)]

\* A fault beyond the program's control, counted against its bound.
Faulty ==
  /\ researchFaults < MaxResearchFaults
  /\ researchFaults' = researchFaults + 1

\* A transaction that is refused changes nothing.
Refused(w, place) == Goto(w, place) /\ UNCHANGED <<control, tries>>

-------------------------------------------------------------------------------
\* A job and a retry (the code allows 100) add an attempt, maintenance a
\* generation.
MayIntervene ==
  control.generation + SumFunction([j \in ResearchJob |-> Len(tries[j])])
    <= MaxInterventions

\* Owner requests: enqueue_job, cancel_job and retry_job.
OwnerOnly == UNCHANGED <<control, sup, spawned, boxes, launch, upkeep, stray,
                         researchFaults>>

EnqueueJob(j) ==
  /\ ControlFree /\ ~control.maintenance
  /\ MayIntervene
  /\ tries[j] = <<>> /\ \A i \in 1..(j - 1) : tries[i] # <<>>
  /\ tries' = [tries EXCEPT ![j] = <<QueuedTry>>]
  /\ OwnerOnly

CancelJob(j) ==
  /\ ControlFree
  /\ StatusOf(j) \in {"queued", "running"}
  /\ EndAll({j}, "cancelled")
  /\ OwnerOnly

RetryJob(j) ==
  /\ ControlFree /\ ~control.maintenance
  /\ StatusOf(j) \in Retryable
  /\ MayIntervene
  /\ tries' = [tries EXCEPT ![j] = Append(@, QueuedTry)]
  /\ OwnerOnly

-------------------------------------------------------------------------------
\* supervisor_heartbeat for process w in a generation.
MayPulse(w, generation) ==
  /\ ControlFree /\ ~control.maintenance
  /\ generation = control.generation
  /\ control.worker \in {Nobody, w} \/ ~control.live
Pulsed(w) == [control EXCEPT !.worker = w, !.live = TRUE]

StartSupervisor(w) ==
  /\ sup[w].at = "new" /\ \A v \in 1..(w - 1) : sup[v].at # "new"
  /\ IF MayPulse(w, control.generation)
     THEN /\ control' = Pulsed(w)
          /\ sup' = [sup EXCEPT ![w].at = "loop",
                                ![w].generation = control.generation]
          /\ UNCHANGED tries
     ELSE Refused(w, "dead")
  /\ UNCHANGED <<spawned, boxes, launch, upkeep, stray, researchFaults>>

Pulse(w) ==
  /\ sup[w].at = "loop"
  /\ IF MayPulse(w, sup[w].generation)
     THEN control' = Pulsed(w) /\ Goto(w, "reconcile") /\ UNCHANGED tries
     ELSE Refused(w, "retire")
  /\ UNCHANGED <<spawned, boxes, launch, upkeep, stray, researchFaults>>

\* reconcile_expired_attempts; identity is the worker, whose hashes are fixed.
ExpiredTryMutant(t) == t.generation # control.generation
ExpiredTry(t) == ~t.leased \/ t.generation # control.generation
StaleTry(t) == ExpiredTry(t) \/ t.worker # control.worker

ReconcileExpired(w) ==
  /\ sup[w].at = "reconcile"
  /\ IF ControlFree
     THEN /\ EndAll({j \in RunningJobs : StaleTry(CurrentTry(j))}, "interrupted")
          /\ Goto(w, "list")
          /\ UNCHANGED control
     ELSE Refused(w, "retire")
  /\ UNCHANGED <<spawned, boxes, launch, upkeep, stray, researchFaults>>

\* ResearchStore.reconcile: list the sandboxes, look each one up, remove it
\* unless its attempt runs.
ListSandboxes(w) ==
  /\ sup[w].at = "list"
  /\ sup' = [sup EXCEPT ![w].at = "sweep", ![w].seen = boxes]
  /\ UNCHANGED <<control, tries, spawned, boxes, launch, upkeep, stray, researchFaults>>

LatestOf(b) ==
  LET ns == {n \in DOMAIN tries[b.job] : tries[b.job][n].generation = b.generation}
  IN tries[b.job][CHOOSE n \in ns : \A m \in ns : m <= n]

SweepSandbox(w) ==
  /\ sup[w].at = "sweep"
  /\ \/ sup[w].seen = {} /\ Goto(w, "capacity") /\ UNCHANGED boxes
     \/ \E b \in sup[w].seen :
          IF LatestOf(b).status = "running" THEN Goto(w, "retire") /\ UNCHANGED boxes
          ELSE /\ boxes' = boxes \ {b}
               /\ sup' = [sup EXCEPT ![w].seen = @ \ {b}]
  /\ UNCHANGED <<control, tries, spawned, launch, upkeep, stray, researchFaults>>

\* verify_capacity: no container but the two of the stack.
VerifyCapacity(w) ==
  /\ sup[w].at = "capacity"
  /\ Goto(w, IF boxes = {} THEN "claim" ELSE "retire")
  /\ UNCHANGED <<control, tries, spawned, boxes, launch, upkeep, stray, researchFaults>>

\* claim_job: an attempt that runs, and one that had to be interrupted, stop
\* the claim; else the oldest queued job.
ClaimJob(w) ==
  LET authority == /\ ~control.maintenance /\ control.live /\ control.worker = w
                   /\ control.generation = sup[w].generation
      queued == {j \in ResearchJob : StatusOf(j) = "queued"}
      j == CHOOSE i \in queued : \A k \in queued : i <= k
  IN /\ sup[w].at = "claim"
     /\ IF ~ControlFree THEN Refused(w, "retire")
        ELSE IF authority /\ RunningJobs # {}
        THEN /\ EndAll({i \in RunningJobs : ExpiredTry(CurrentTry(i))}, "interrupted")
             /\ Goto(w, "loop") /\ UNCHANGED control
        ELSE IF ~authority \/ queued = {} THEN Refused(w, "loop")
        ELSE /\ tries' = [tries EXCEPT ![j][Len(tries[j])] =
                  [status |-> "running", worker |-> w, leased |-> TRUE,
                   generation |-> sup[w].generation]]
             /\ sup' = [sup EXCEPT ![w].at = "guard", ![w].job = j,
                                   ![w].try = Len(tries[j]),
                                   ![w].after = "report"]
             /\ UNCHANGED control
     /\ UNCHANGED <<spawned, boxes, launch, upkeep, stray, researchFaults>>

-------------------------------------------------------------------------------
\* _fenced: the attempt is current, runs under its lease, and the caller's
\* identity and generation are the controlling ones (given as row c).
OwnsMutant(w, c) ==
  LET t == CurrentTry(sup[w].job)
  IN /\ sup[w].try = Len(tries[sup[w].job])
     /\ t.worker = c.worker
     /\ sup[w].generation = c.generation /\ t.generation = c.generation
Owns(w, c) ==
  LET t == CurrentTry(sup[w].job)
  IN /\ sup[w].try = Len(tries[sup[w].job])
     /\ t.status = "running" /\ t.worker = c.worker
     /\ sup[w].generation = c.generation /\ t.generation = c.generation
FencePasses(w, c) ==
  ControlFree /\ ~c.maintenance /\ Owns(w, c) /\ CurrentTry(sup[w].job).leased

\* ResearchStore.heartbeat: pulse, then heartbeat_job, in one transaction.
MayBeat(w) == MayPulse(w, sup[w].generation) /\ FencePasses(w, Pulsed(w))
Beat(w) ==
  /\ control' = Pulsed(w)
  /\ tries' = [tries EXCEPT ![sup[w].job][sup[w].try].leased = TRUE]

\* A heartbeat of the main thread.  The heartbeat thread of AttemptGuard keeps
\* a lease that ControlLapses would end, and what it is refused, guard.check
\* raises in the main thread: one of the failures Startup and Compute allow.
Checkpoint(w, from, to, else) ==
  /\ sup[w].at = from
  /\ IF MayBeat(w) THEN Beat(w) /\ Goto(w, to)
     ELSE Refused(w, else)
  /\ UNCHANGED <<spawned, boxes, launch, upkeep, stray, researchFaults>>

EnterGuard(w) == Checkpoint(w, "guard", "barrier", "report")

\* The inputs of the job are loaded, then launch_barrier polls the launch lock
\* until it is free.  Inputs that are refused, the deadline or a changed
\* authority end the attempt.
LaunchBarrier(w) ==
  /\ sup[w].at = "barrier"
  /\ \/ launch = Nobody /\ launch' = w /\ Goto(w, "admit_launch")
     \/ Goto(w, "report") /\ UNCHANGED launch
  /\ UNCHANGED <<control, tries, spawned, boxes, upkeep, stray, researchFaults>>

AdmitLaunch(w) == Checkpoint(w, "admit_launch", "create", "unlock")

BoxOf(w) == [job |-> sup[w].job, generation |-> sup[w].generation, by |-> w]
Named(w) == {b \in boxes : b.job = sup[w].job /\ b.generation = sup[w].generation}

\* SandboxProcess.__enter__: start the Docker client, wait for the container,
\* check capacity without it.
SpawnClient(w) ==
  /\ sup[w].at = "create"
  /\ \/ spawned' = spawned \union {BoxOf(w)} /\ Goto(w, "startup")
     \/ Goto(w, "unlock") /\ UNCHANGED spawned
  /\ UNCHANGED <<control, tries, boxes, launch, upkeep, stray, researchFaults>>

\* Docker (external) creates the container, unless the name is taken.
ContainerAppears(b) ==
  /\ spawned' = spawned \ {b}
  /\ boxes' = IF \E c \in boxes : c.job = b.job THEN boxes ELSE boxes \union {b}
  /\ UNCHANGED <<control, tries, sup, launch, upkeep, stray, researchFaults>>

\* A container whose client is gone reads the end of its input and exits.  (One
\* that stops under its client is a failure of Startup or Compute.)
Attached == {"startup", "verify", "open", "compute", "tidy", "remove"}
ContainerExits(b) ==
  /\ sup[b.by].at \notin Attached \/ BoxOf(b.by) # b
  /\ boxes' = boxes \ {b}
  /\ UNCHANGED <<control, tries, sup, spawned, launch, upkeep, stray, researchFaults>>

Startup(w) ==
  /\ sup[w].at = "startup"
  /\ \/ /\ Named(w) # {} /\ boxes = Named(w)
        /\ Goto(w, "verify")
        /\ stray' = (stray \/ BoxOf(w) \in spawned)
     \/ Goto(w, "remove") /\ UNCHANGED stray
  /\ UNCHANGED <<control, tries, spawned, boxes, launch, upkeep, researchFaults>>

\* The second heartbeat of verified_sandbox, still behind the barrier.
VerifyLaunchMutant(w) ==
  /\ sup[w].at = "verify"
  /\ Goto(w, "open")
  /\ UNCHANGED <<control, tries, spawned, boxes, launch, upkeep, stray, researchFaults>>
VerifyLaunch(w) == Checkpoint(w, "verify", "open", "remove")

\* The barrier opens; a lock that cannot be given back fails the launch.
OpenBarrier(w) ==
  /\ sup[w].at = "open"
  /\ launch' = IF launch = w THEN Nobody ELSE launch
  /\ Goto(w, IF launch = w THEN "compute" ELSE "remove")
  /\ UNCHANGED <<control, tries, spawned, boxes, upkeep, stray, researchFaults>>

\* execute_job: a result from the container, or any failure, timeout or fence.
Compute(w) ==
  /\ sup[w].at = "compute"
  /\ \/ BoxOf(w) \in boxes /\ Goto(w, "tidy")
     \/ Goto(w, "remove")
  /\ UNCHANGED <<control, tries, spawned, boxes, launch, upkeep, stray, researchFaults>>

\* SandboxProcess.close after a result.  Docker may fail it, and so may what
\* follows, save_diagnostics and the last check of the guard.
Tidy(w) ==
  /\ sup[w].at = "tidy"
  /\ \/ boxes' = boxes \ Named(w) /\ Goto(w, "finish") /\ UNCHANGED researchFaults
     \/ boxes' \in {boxes, boxes \ Named(w)} /\ Goto(w, "report") /\ Faulty
  /\ UNCHANGED <<control, tries, spawned, launch, upkeep, stray>>

\* finish_job with a result, or with the error that ended the attempt.
FinishJob(w, from, status, else) ==
  /\ sup[w].at = from
  /\ IF FencePasses(w, control)
     THEN EndAll({sup[w].job}, status) /\ Goto(w, "loop") /\ UNCHANGED control
     ELSE Refused(w, else)
  /\ UNCHANGED <<spawned, boxes, launch, upkeep, stray, researchFaults>>
FinishResult(w) == FinishJob(w, "finish", "completed", "report")
ReportError(w) == FinishJob(w, "report", "failed", "loop")

\* SandboxProcess.close on any other exit, then the end of launch_barrier.  The
\* client is killed last: Docker may fail before, or create the container
\* after it was looked for, and then the container stays.
RemoveSandbox(w) ==
  /\ sup[w].at = "remove"
  /\ \/ boxes' = boxes \ Named(w) /\ UNCHANGED researchFaults
     \/ Named(w) # {} /\ UNCHANGED boxes /\ Faulty
  /\ spawned' = spawned \ {BoxOf(w)}
  /\ Goto(w, "unlock")
  /\ UNCHANGED <<control, tries, launch, upkeep, stray>>

LeaveBarrier(w) ==
  /\ sup[w].at = "unlock"
  /\ launch' = IF launch = w THEN Nobody ELSE launch
  /\ Goto(w, sup[w].after)
  /\ UNCHANGED <<control, tries, spawned, boxes, upkeep, stray, researchFaults>>

\* interrupt_job after SIGTERM, which maintenance and a lapsed lease allow.
InterruptJob(w) ==
  /\ sup[w].at = "interrupt"
  /\ IF ControlFree /\ Owns(w, control)
     THEN EndAll({sup[w].job}, "interrupted") ELSE UNCHANGED tries
  /\ Goto(w, "retire")
  /\ UNCHANGED <<control, spawned, boxes, launch, upkeep, stray, researchFaults>>

\* retire_supervisor, the end of run_worker.
RetireSupervisor(w) ==
  /\ sup[w].at = "retire"
  /\ control' = IF /\ ControlFree /\ ~control.maintenance
                   /\ control.worker = w /\ control.generation = sup[w].generation
                THEN [control EXCEPT !.worker = Nobody, !.live = FALSE]
                ELSE control
  /\ Goto(w, "dead")
  /\ UNCHANGED <<tries, spawned, boxes, launch, upkeep, stray, researchFaults>>

-------------------------------------------------------------------------------
\* What an exception in the main thread runs on its way out: the handlers of
\* the contexts already entered.  One raised inside SandboxProcess.close cuts
\* it short, but still kills the Docker client.
Unwind(w, after) ==
  LET at == sup[w].at
      to == CASE at \in {"startup", "verify", "open", "compute"} -> "remove"
              [] at \in {"admit_launch", "create", "remove", "tidy", "unlock"} -> "unlock"
              [] at \in {"guard", "barrier", "finish"} -> after
              [] at \in {"new", "retire", "dead"} -> "dead"
              [] OTHER -> "retire"
  IN /\ sup' = [sup EXCEPT ![w] = Moved([@ EXCEPT !.after = after], to)]
     /\ spawned' = IF at \in {"remove", "tidy"} THEN spawned \ {BoxOf(w)} ELSE spawned
     /\ Faulty

\* SIGTERM raises KeyboardInterrupt.
Terminate(w) ==
  /\ sup[w].at \notin {"new", "dead"}
  /\ Unwind(w, "interrupt")
  /\ UNCHANGED <<control, tries, boxes, launch, upkeep, stray>>

\* The database fails a transaction of the main thread: the control lock stays
\* busy (a ResearchWorkflowError, reported like a refusal), or SQLAlchemyError,
\* which nothing handles.
DatabaseFails(w) ==
  /\ sup[w].at \in {"new", "loop", "reconcile", "sweep", "claim", "guard", "barrier",
                    "admit_launch", "verify", "finish", "report", "interrupt", "retire"}
  /\ \E after \in {"report", "retire"} : Unwind(w, after)
  /\ UNCHANGED <<control, tries, boxes, launch, upkeep, stray>>

\* The process is killed: its sessions end, its Docker client and its
\* container live on.
CrashSupervisor(w) ==
  /\ sup[w].at \notin {"new", "dead"}
  /\ Faulty
  /\ Goto(w, "dead")
  /\ launch' = IF launch = w THEN Nobody ELSE launch
  /\ stray' = (stray \/ BoxOf(w) \in spawned)
  /\ UNCHANGED <<control, tries, spawned, boxes, upkeep>>

\* The server drops the session that carries the launch lock.
LoseLaunchLock(w) ==
  /\ launch = w
  /\ Faulty
  /\ launch' = Nobody
  /\ stray' = TRUE
  /\ UNCHANGED <<control, tries, sup, spawned, boxes, upkeep>>

\* No heartbeat for SUPERVISOR_TTL, which is also the lease: a heartbeat of a
\* guarded attempt renews both at once.  An attempt whose guard is gone lapses
\* alone, while its supervisor goes on pulsing.
ControlLapses ==
  /\ control.live
  /\ control' = [control EXCEPT !.live = FALSE]
  /\ tries' = [j \in ResearchJob |->
                 IF j \in RunningJobs /\ CurrentTry(j).worker = control.worker
                 THEN WithoutLease(j) ELSE tries[j]]
  /\ UNCHANGED <<sup, spawned, boxes, launch, upkeep, stray, researchFaults>>
AttemptLapses(j) ==
  /\ StatusOf(j) = "running" /\ CurrentTry(j).leased
  /\ \A w \in Supervisor : sup[w].at \in Guarded => sup[w].job # j
  /\ tries' = [tries EXCEPT ![j] = WithoutLease(j)]
  /\ UNCHANGED <<control, sup, spawned, boxes, launch, upkeep, stray, researchFaults>>

-------------------------------------------------------------------------------
\* Maintenance: MaintenanceStore._open waits for both session locks; holders
\* of the control lock commit at once.
TakeLocksMutant ==
  /\ upkeep = "off" /\ MayIntervene
  /\ upkeep' = "locked"
  /\ UNCHANGED <<control, tries, sup, spawned, boxes, launch, stray, researchFaults>>
TakeLocks ==
  /\ upkeep = "off" /\ launch = Nobody /\ MayIntervene
  /\ launch' = Upkeep
  /\ upkeep' = "locked"
  /\ UNCHANGED <<control, tries, sup, spawned, boxes, stray, researchFaults>>

BeginMaintenance ==
  /\ upkeep = "locked"
  /\ control' = [control EXCEPT !.maintenance = TRUE]
  /\ upkeep' = "scan"
  /\ UNCHANGED <<tries, sup, spawned, boxes, launch, stray, researchFaults>>

\* The drain: what does not end in time is removed.
DrainSandboxes ==
  /\ upkeep = "scan"
  /\ boxes' = {}
  /\ upkeep' = "prove"
  /\ UNCHANGED <<control, tries, sup, spawned, launch, stray, researchFaults>>

\* A sandbox that shows up nevertheless aborts, and the flag stays set.
CloseStore == upkeep' = "off" /\ launch' = Nobody
ProveDrained ==
  /\ upkeep = "prove"
  /\ \/ boxes = {} /\ upkeep' = "interrupt" /\ UNCHANGED launch
     \/ boxes # {} /\ CloseStore
  /\ UNCHANGED <<control, tries, sup, spawned, boxes, stray, researchFaults>>

\* interrupt_running ends the stale attempts, then the controlling worker's.
InterruptRunning ==
  /\ upkeep = "interrupt"
  /\ EndAll(RunningJobs, "interrupted")
  /\ upkeep' = "quiet"
  /\ UNCHANGED <<control, sup, spawned, boxes, launch, stray, researchFaults>>

\* The database is backed up, migrated or restored; after_restore refuses a
\* sandbox that appeared meanwhile.  Then refence, and complete.
AfterRestore ==
  /\ upkeep = "quiet"
  /\ \/ upkeep' = "resume" /\ UNCHANGED launch
     \/ boxes # {} /\ CloseStore
  /\ UNCHANGED <<control, tries, sup, spawned, boxes, stray, researchFaults>>

CompleteMaintenance ==
  /\ upkeep = "resume" /\ RunningJobs = {}
  /\ control' = [maintenance |-> FALSE, generation |-> control.generation + 1,
                 worker |-> Nobody, live |-> FALSE]
  /\ CloseStore
  /\ UNCHANGED <<tries, sup, spawned, boxes, stray, researchFaults>>

\* abort, or the process is killed: the session locks go, the flag stays.
AbortMaintenance ==
  /\ upkeep # "off"
  /\ Faulty
  /\ CloseStore
  /\ UNCHANGED <<control, tries, sup, spawned, boxes, stray>>

-------------------------------------------------------------------------------
SupervisorStep(w) ==
  \/ StartSupervisor(w) \/ Pulse(w) \/ ReconcileExpired(w) \/ ListSandboxes(w)
  \/ SweepSandbox(w) \/ VerifyCapacity(w) \/ ClaimJob(w) \/ EnterGuard(w)
  \/ LaunchBarrier(w) \/ AdmitLaunch(w) \/ SpawnClient(w) \/ Startup(w)
  \/ VerifyLaunch(w) \/ OpenBarrier(w) \/ Compute(w) \/ Tidy(w)
  \/ FinishResult(w) \/ RemoveSandbox(w) \/ LeaveBarrier(w) \/ ReportError(w)
  \/ InterruptJob(w) \/ RetireSupervisor(w)
MaintenanceStep ==
  \/ BeginMaintenance \/ DrainSandboxes \/ ProveDrained
  \/ InterruptRunning \/ AfterRestore \/ CompleteMaintenance

ResearchNext ==
  \/ \E j \in ResearchJob : EnqueueJob(j) \/ CancelJob(j) \/ RetryJob(j) \/ AttemptLapses(j)
  \/ \E w \in Supervisor :
       \/ SupervisorStep(w) \/ Terminate(w) \/ DatabaseFails(w)
       \/ CrashSupervisor(w) \/ LoseLaunchLock(w)
  \/ \E b \in spawned : ContainerAppears(b)
  \/ \E b \in boxes : ContainerExits(b)
  \/ ControlLapses \/ TakeLocks \/ MaintenanceStep \/ AbortMaintenance

ResearchSpec == ResearchInit /\ [][ResearchNext]_researchVars

-------------------------------------------------------------------------------
\* Source has been delivered to a container that is up.
Computing(w) == sup[w].at = "compute" /\ BoxOf(w) \in boxes

(* Once the controlling supervisor has swept the sandboxes of its predecessor, *)
(* no other supervisor computes, until it is itself replaced: a predecessor    *)
(* that was paused, cancelled or replaced while it launched is stopped by the  *)
(* second heartbeat of verified_sandbox, or its container was there to sweep.  *)
(* The exception is a launch that escaped the launch lock (see                 *)
(* MaintenanceQuiet).                                                          *)
OneComputation ==
  \A v, w \in Supervisor :
    /\ v # w /\ control.worker = v
    /\ sup[v].at \in Guarded \union {"capacity", "claim", "guard"}
    /\ Computing(w)
    => stray

(* "Fence before effects, prove exact cleanup": while maintenance changes the *)
(* database no attempt is recorded as running and no container is up, unless  *)
(* a launch escaped the launch lock: its supervisor was killed, or lost the   *)
(* lock, in the middle of it, or took the container that a killed one had     *)
(* left under the same name for its own.                                      *)
MaintenanceQuiet ==
  upkeep \in {"quiet", "resume"} =>
    /\ RunningJobs = {}
    /\ boxes # {} => stray

(* An attempt that ended keeps its outcome: no late result, error or          *)
(* interruption of a fenced supervisor replaces it.  A job moves on only by   *)
(* an explicit retry, which keeps the ended attempts.                         *)
EndedIsFinal ==
  [][\A j \in ResearchJob : \A n \in DOMAIN tries[j] :
       tries[j][n].status \in Ended =>
         /\ n \in DOMAIN tries'[j]
         /\ tries'[j][n] = tries[j][n]]_researchVars

(* No attempt runs for ever: a supervisor that died or was fenced is noticed  *)
(* by the next one, or by maintenance, unless no supervisor is left.          *)
AttemptsEnd ==
  <>[](RunningJobs = {} \/ \A w \in Supervisor : sup[w].at = "dead")
===============================================================================
