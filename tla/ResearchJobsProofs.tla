-------------------------- MODULE ResearchJobsProofs --------------------------
(***************************************************************************)
(* The safety of the research queue, its supervisors and maintenance, for  *)
(* any number of supervisors, jobs, retries, maintenance windows, crashes, *)
(* signals, lost locks and busy transactions.                              *)
(*                                                                         *)
(* The fence of a heartbeat compares one attempt with the control row, the *)
(* launch lock excludes two processes, and the sweep looks at containers:  *)
(* no one of them gives OneComputation or MaintenanceQuiet.  ResearchInv   *)
(* joins them: at most one attempt runs and its worker holds it, a Docker  *)
(* client is at work only behind the launch lock, and a supervisor whose   *)
(* verified container is up has been overtaken by no one past the sweep.   *)
(***************************************************************************)
EXTENDS ResearchJobs, WellFoundedInduction, TLAPS

(* A leaf that names no prover is for Zenon, which does most of them at    *)
(* once, and for SMT where Zenon gives up.                                 *)
USE ZenonT(30), SMTT(60)

(* The places at which a supervisor has an attempt.                           *)
Holding == Guarded \union {"guard", "report", "interrupt"}

(* Only the current attempt of a job is open.                                 *)
PastEnded ==
  \A j \in ResearchJob : \A n \in DOMAIN tries[j] :
    n # Len(tries[j]) => tries[j][n].status \in Ended

Runs(j, n) == n \in DOMAIN tries[j] /\ tries[j][n].status = "running"

(* At most one attempt runs.                                                  *)
OneRunning ==
  \A i, j \in ResearchJob : \A m, n \in Nat :
    Runs(i, m) /\ Runs(j, n) => i = j /\ m = n

(* A supervisor's attempt was claimed by it.                                  *)
AttemptHeld ==
  \A w \in Supervisor : sup[w].at \in Holding =>
    /\ sup[w].job \in ResearchJob
    /\ sup[w].try \in DOMAIN tries[sup[w].job]
    /\ tries[sup[w].job][sup[w].try].worker = w
    /\ tries[sup[w].job][sup[w].try].status # "queued"

(* Who holds the launch lock.                                                 *)
LaunchHeld ==
  /\ upkeep # "off" => launch = Upkeep
  /\ \A w \in Supervisor :
       sup[w].at \in {"admit_launch", "create"} => launch = w \/ stray

(* A Docker client is at work only behind the launch lock.                    *)
SpawnedBehindLock ==
  \A b \in spawned : stray \/ /\ launch = b.by /\ b = BoxOf(b.by)
                              /\ sup[b.by].at \in {"startup", "remove"}

(* What maintenance has established by each of its steps.                     *)
UpkeepQuiet ==
  /\ upkeep \in {"quiet", "resume"} =>
       \A j \in ResearchJob : \A n \in Nat : ~Runs(j, n)
  /\ upkeep \in {"interrupt", "quiet", "resume"} => boxes = {} \/ stray

(* The container of w is up and w passed the second heartbeat.                *)
Verified(w) == sup[w].at \in {"open", "compute"} /\ BoxOf(w) \in boxes

(* While w computes, a controlling v has not got past its sweep, has w's      *)
(* container in its list during it, and nobody else has the running attempt.  *)
Overtaken ==
  \A v, w \in Supervisor : v # w /\ Verified(w) /\ ~stray =>
    /\ control.worker = v =>
         /\ sup[v].at \notin Guarded \union {"capacity", "claim", "guard"}
         /\ sup[v].at = "sweep" => BoxOf(w) \in sup[v].seen
    /\ sup[v].at \in Holding => ~Runs(sup[v].job, sup[v].try)

ResearchInv ==
  /\ ResearchTypeOK
  /\ PastEnded /\ OneRunning /\ AttemptHeld /\ LaunchHeld /\ SpawnedBehindLock
  /\ UpkeepQuiet /\ Overtaken

-----------------------------------------------------------------------------
(* What steps other than a claim do to the attempts.                          *)
AttemptsKept ==
  /\ tries' \in [ResearchJob -> Seq(Try)]
  /\ \A j \in ResearchJob : \A n \in DOMAIN tries[j] :
       /\ n \in DOMAIN tries'[j]
       /\ tries[j][n].status \in Ended => tries'[j][n] = tries[j][n]
       /\ tries[j][n].status # "queued" =>
            /\ tries'[j][n].worker = tries[j][n].worker
            /\ tries'[j][n].status # "queued"
  /\ PastEnded'

NoneStarted == \A j \in ResearchJob : \A n \in Nat : Runs(j, n)' => Runs(j, n)

LEMMA SameAttempts ==
  ASSUME ResearchTypeOK, PastEnded, tries' = tries
  PROVE  AttemptsKept /\ NoneStarted
  BY DEF AttemptsKept, NoneStarted, PastEnded, Runs, ResearchTypeOK

LEMMA TryParts ==
  ASSUME ResearchTypeOK, NEW j \in ResearchJob
  PROVE  /\ tries[j] \in Seq(Try) /\ Len(tries[j]) \in Nat
         /\ DOMAIN tries[j] = 1..Len(tries[j])
         /\ \A n \in DOMAIN tries[j] : tries[j][n] \in Try
         /\ tries[j] # <<>> => Len(tries[j]) \in DOMAIN tries[j]
<1>1. tries[j] \in Seq(Try)
  BY DEF ResearchTypeOK
<1>2. Len(tries[j]) \in Nat /\ DOMAIN tries[j] = 1..Len(tries[j])
  BY <1>1
<1>3. tries[j] # <<>> => Len(tries[j]) # 0
  BY <1>1
<1>4. \A n \in DOMAIN tries[j] : tries[j][n] \in Try
  BY <1>1
<1> QED
  BY <1>1, <1>2, <1>3, <1>4

(* The current attempts of the jobs in J are replaced by those in t.          *)
ReplacedBy(J, t) ==
  tries' = [j \in ResearchJob |->
              IF j \in J THEN [tries[j] EXCEPT ![Len(tries[j])] = t[j]]
              ELSE tries[j]]

Replaceable(J, t) ==
  \A j \in J : /\ tries[j] # <<>>
               /\ CurrentTry(j).status \in {"queued", "running"}
               /\ t[j] \in Try /\ t[j].status # "queued"
               /\ CurrentTry(j).status = "running" =>
                    t[j].worker = CurrentTry(j).worker

LEMMA Replaced ==
  ASSUME ResearchTypeOK, PastEnded, NEW J \in SUBSET ResearchJob, NEW t,
         ReplacedBy(J, t), Replaceable(J, t)
  PROVE  /\ AttemptsKept
         /\ \A j \in ResearchJob : \A n \in Nat : Runs(j, n)' =>
              \/ Runs(j, n) /\ j \notin J
              \/ j \in J /\ n = Len(tries[j]) /\ t[j].status = "running"
<1> USE DEF ReplacedBy, Replaceable
<1>1. ASSUME NEW j \in J
      PROVE  /\ tries'[j] \in Seq(Try) /\ DOMAIN tries'[j] = DOMAIN tries[j]
             /\ Len(tries'[j]) = Len(tries[j]) /\ Len(tries[j]) \in DOMAIN tries[j]
             /\ \A n \in DOMAIN tries[j] :
                  tries'[j][n] = IF n = Len(tries[j]) THEN t[j] ELSE tries[j][n]
  <2>1. j \in ResearchJob
    OBVIOUS
  <2>2. tries[j] \in Seq(Try) /\ Len(tries[j]) \in DOMAIN tries[j]
        /\ DOMAIN tries[j] = 1..Len(tries[j])
    BY <2>1, TryParts
  <2>3. tries'[j] = [tries[j] EXCEPT ![Len(tries[j])] = t[j]]
    BY <2>1
  <2>4. t[j] \in Try
    OBVIOUS
  <2>5. tries'[j] \in Seq(Try) /\ Len(tries'[j]) = Len(tries[j])
    BY <2>2, <2>3, <2>4, SMTT(60)
  <2> QED
    BY <2>2, <2>3, <2>5
<1>2. ASSUME NEW j \in ResearchJob, j \notin J
      PROVE  tries'[j] = tries[j]
  BY <1>2
<1>3. tries' \in [ResearchJob -> Seq(Try)]
  <2>1. \A j \in ResearchJob : tries'[j] \in Seq(Try)
    BY <1>1, <1>2, TryParts
  <2>2. tries' = [j \in ResearchJob |-> tries'[j]]
    OBVIOUS
  <2> QED
    BY <2>1, <2>2
<1>4. ASSUME NEW j \in ResearchJob, NEW n \in DOMAIN tries[j]
      PROVE  /\ n \in DOMAIN tries'[j]
             /\ tries[j][n].status \in Ended => tries'[j][n] = tries[j][n]
             /\ tries[j][n].status # "queued" =>
                  /\ tries'[j][n].worker = tries[j][n].worker
                  /\ tries'[j][n].status # "queued"
  <2>1. CASE j \notin J
    BY <1>2, <2>1
  <2>2. CASE j \in J /\ n # Len(tries[j])
    BY <1>1, <2>2
  <2>3. CASE j \in J /\ n = Len(tries[j])
    <3>1. tries'[j][n] = t[j] /\ n \in DOMAIN tries'[j]
      BY <1>1, <2>3
    <3>2. tries[j][n].status \in {"queued", "running"} /\ t[j].status # "queued"
      BY <2>3 DEF CurrentTry
    <3>3. tries[j][n].status = "running" => t[j].worker = tries[j][n].worker
      BY <2>3 DEF CurrentTry
    <3> QED
      BY <3>1, <3>2, <3>3 DEF Ended
  <2> QED
    BY <2>1, <2>2, <2>3
<1>5. PastEnded'
  <2> SUFFICES ASSUME NEW j \in ResearchJob, NEW n \in DOMAIN tries'[j], n # Len(tries'[j])
               PROVE  tries'[j][n].status \in Ended
    BY DEF PastEnded
  <2>1. CASE j \notin J
    BY <1>2, <2>1 DEF PastEnded
  <2>2. CASE j \in J
    <3>1. n \in DOMAIN tries[j] /\ n # Len(tries[j]) /\ tries'[j][n] = tries[j][n]
      BY <1>1, <2>2
    <3> QED
      BY <3>1 DEF PastEnded
  <2> QED
    BY <2>1, <2>2
<1>6. ASSUME NEW j \in ResearchJob, NEW n \in Nat, Runs(j, n)'
      PROVE  \/ Runs(j, n) /\ j \notin J
             \/ j \in J /\ n = Len(tries[j]) /\ t[j].status = "running"
  <2>0. n \in DOMAIN tries'[j] /\ tries'[j][n].status = "running"
    BY <1>6 DEF Runs
  <2>1. CASE j \notin J
    BY <1>2, <2>0, <2>1 DEF Runs
  <2>2. CASE j \in J
    <3>1. n \in DOMAIN tries[j]
          /\ tries'[j][n] = IF n = Len(tries[j]) THEN t[j] ELSE tries[j][n]
      BY <1>1, <2>0, <2>2
    <3>2. CASE n # Len(tries[j])
      BY <3>1, <3>2, <2>0 DEF PastEnded, Ended
    <3> QED
      BY <3>1, <3>2, <2>0, <2>2
  <2> QED
    BY <2>1, <2>2
<1> QED
  BY <1>3, <1>4, <1>5, <1>6 DEF AttemptsKept

-----------------------------------------------------------------------------
(* What a step other than a claim or a heartbeat does to a supervisor.        *)
Settled == Guarded \union {"capacity", "claim", "guard"}

Follows(w) ==
  /\ sup'[w].at \in Holding =>
       sup[w].at \in Holding /\ sup'[w].job = sup[w].job /\ sup'[w].try = sup[w].try
  /\ sup'[w].at \in {"open", "compute"} =>
       /\ sup[w].at \in {"open", "compute"}
       /\ sup'[w].job = sup[w].job /\ sup'[w].generation = sup[w].generation
  /\ sup'[w].at \in Settled =>
       sup[w].at \in Settled \/ (sup[w].at = "sweep" /\ sup[w].seen = {})
  /\ sup'[w].at = "sweep" =>
       \/ sup[w].at = "list" /\ sup'[w].seen = boxes
       \/ sup[w].at = "sweep" /\ sup[w].seen \intersect boxes' \subseteq sup'[w].seen

(* It stays clear of the launch lock.                                         *)
Calm(w) ==
  /\ sup'[w].at \in {"admit_launch", "create"} => sup[w].at \in {"admit_launch", "create"}
  /\ sup[w].at \in {"startup", "remove"} => sup'[w] = sup[w]

ControlKept ==
  \A v \in Supervisor : control'.worker = v =>
    control.worker = v \/ sup'[v].at \in {"loop", "reconcile"}

LEMMA StandsStill ==
  ASSUME NEW w \in Supervisor, sup'[w] = sup[w]
  PROVE  Follows(w) /\ Calm(w)
  BY DEF Follows, Calm

LEMMA MovedParts ==
  ASSUME NEW s \in SupervisorState, NEW place \in Place, NEW m, m = Moved(s, place)
  PROVE  /\ m \in SupervisorState /\ m.at = place
         /\ place \notin {"dead", "loop", "retire"} =>
              /\ m.job = s.job /\ m.try = s.try /\ m.generation = s.generation
              /\ m.after = s.after /\ m.seen = s.seen
<1>1. CASE place = "dead"
  BY <1>1 DEF Moved, Fresh, SupervisorState
<1>2. CASE place \in {"loop", "retire"}
  BY <1>2 DEF Moved, Fresh, SupervisorState
<1>3. CASE place \notin {"dead", "loop", "retire"}
  <2>1. m = [s EXCEPT !.at = place]
    BY <1>3 DEF Moved
  <2> QED
    BY <2>1 DEF SupervisorState
<1> QED
  BY <1>1, <1>2, <1>3

LEMMA SetSup ==
  ASSUME ResearchTypeOK, NEW w \in Supervisor, NEW m \in SupervisorState,
         sup' = [sup EXCEPT ![w] = m]
  PROVE  /\ sup' \in [Supervisor -> SupervisorState] /\ sup'[w] = m
         /\ \A v \in Supervisor : v # w => sup'[v] = sup[v]
  BY DEF ResearchTypeOK

LEMMA GotoParts ==
  ASSUME ResearchTypeOK, NEW w \in Supervisor, NEW place \in Place, Goto(w, place)
  PROVE  /\ sup' \in [Supervisor -> SupervisorState]
         /\ \A v \in Supervisor : v # w => sup'[v] = sup[v]
         /\ sup'[w].at = place
         /\ place \notin {"dead", "loop", "retire"} =>
              /\ sup'[w].job = sup[w].job /\ sup'[w].try = sup[w].try
              /\ sup'[w].generation = sup[w].generation
              /\ sup'[w].after = sup[w].after /\ sup'[w].seen = sup[w].seen
<1>1. PICK m : m = Moved(sup[w], place)
  OBVIOUS
<1>2. sup[w] \in SupervisorState
  BY DEF ResearchTypeOK
<1>3. sup' = [sup EXCEPT ![w] = m]
  BY <1>1 DEF Goto
<1>4. m \in SupervisorState /\ m.at = place
      /\ (place \notin {"dead", "loop", "retire"} =>
            /\ m.job = sup[w].job /\ m.try = sup[w].try /\ m.generation = sup[w].generation
            /\ m.after = sup[w].after /\ m.seen = sup[w].seen)
  BY <1>1, <1>2, MovedParts, SMTT(60)
<1>5. /\ sup' \in [Supervisor -> SupervisorState] /\ sup'[w] = m
      /\ \A v \in Supervisor : v # w => sup'[v] = sup[v]
  BY <1>3, <1>4, SetSup
<1> QED
  BY <1>4, <1>5

LEMMA GotoFollows ==
  ASSUME ResearchTypeOK, NEW w \in Supervisor, NEW place \in Place, Goto(w, place),
         place # "sweep",
         place \in Holding => sup[w].at \in Holding,
         place \in {"open", "compute"} => sup[w].at \in {"open", "compute"},
         place \in Settled =>
           sup[w].at \in Settled \/ (sup[w].at = "sweep" /\ sup[w].seen = {})
  PROVE  \A v \in Supervisor : Follows(v)
<1>1. Follows(w)
  <2>1. sup'[w].at = place
    BY GotoParts
  <2>2. place \in Holding \/ place \in {"open", "compute"} =>
          /\ sup'[w].job = sup[w].job /\ sup'[w].try = sup[w].try
          /\ sup'[w].generation = sup[w].generation
    BY GotoParts DEF Holding, Guarded
  <2> QED
    BY <2>1, <2>2 DEF Follows
<1> QED
  BY <1>1, GotoParts, StandsStill

-----------------------------------------------------------------------------
LEMMA HeldOne ==
  ASSUME ResearchInv, AttemptsKept, NEW w \in Supervisor, sup[w].at \in Holding,
         sup'[w].job = sup[w].job, sup'[w].try = sup[w].try
  PROVE  /\ sup'[w].job \in ResearchJob
         /\ sup'[w].try \in DOMAIN tries'[sup'[w].job]
         /\ tries'[sup'[w].job][sup'[w].try].worker = w
         /\ tries'[sup'[w].job][sup'[w].try].status # "queued"
<1>1. PICK j, n :
        /\ j = sup[w].job /\ n = sup[w].try
        /\ j \in ResearchJob /\ n \in DOMAIN tries[j]
        /\ tries[j][n].worker = w /\ tries[j][n].status # "queued"
  BY SMTT(60) DEF ResearchInv, AttemptHeld
<1>2. /\ n \in DOMAIN tries'[j] /\ tries'[j][n].worker = w
      /\ tries'[j][n].status # "queued"
  BY <1>1 DEF AttemptsKept
<1> QED
  BY <1>1, <1>2

LEMMA HeldKept ==
  ASSUME ResearchInv, AttemptsKept, NoneStarted,
         \A w \in Supervisor : sup'[w].at \in Holding =>
           sup[w].at \in Holding /\ sup'[w].job = sup[w].job /\ sup'[w].try = sup[w].try
  PROVE  PastEnded' /\ OneRunning' /\ AttemptHeld'
<1>1. PastEnded'
  BY DEF AttemptsKept
<1>2. OneRunning'
  BY DEF NoneStarted, OneRunning, ResearchInv
<1>3. AttemptHeld'
  <2> SUFFICES ASSUME NEW w \in Supervisor, sup'[w].at \in Holding
               PROVE  /\ sup'[w].job \in ResearchJob
                      /\ sup'[w].try \in DOMAIN tries'[sup'[w].job]
                      /\ tries'[sup'[w].job][sup'[w].try].worker = w
                      /\ tries'[sup'[w].job][sup'[w].try].status # "queued"
    BY DEF AttemptHeld
  <2> QED
    BY HeldOne
<1> QED
  BY <1>1, <1>2, <1>3

LEMMA HeldIndex ==
  ASSUME ResearchInv, NEW w \in Supervisor, sup[w].at \in Holding
  PROVE  /\ sup[w].job \in ResearchJob /\ sup[w].try \in Nat
         /\ sup[w].try \in DOMAIN tries[sup[w].job]
         /\ tries[sup[w].job][sup[w].try].worker = w
<1>1. sup[w].try \in Nat
  BY DEF ResearchInv, ResearchTypeOK, SupervisorState
<1> QED
  BY <1>1 DEF ResearchInv, AttemptHeld

LEMMA OvertakenKept ==
  ASSUME ResearchInv, NoneStarted, \A w \in Supervisor : Follows(w), ControlKept,
         stray => stray',
         \A w \in Supervisor : BoxOf(w) \in boxes' /\ BoxOf(w) \notin boxes =>
           sup[w].at \notin {"open", "compute"} \/ stray'
  PROVE  Overtaken'
<1> SUFFICES ASSUME NEW v \in Supervisor, NEW w \in Supervisor, v # w, Verified(w)',
                    ~stray'
             PROVE  /\ control'.worker = v =>
                         /\ sup'[v].at \notin Settled
                         /\ sup'[v].at = "sweep" => BoxOf(w)' \in sup'[v].seen
                    /\ sup'[v].at \in Holding => ~Runs(sup[v].job, sup[v].try)'
  BY DEF Overtaken, Settled
<1>1. /\ sup[w].at \in {"open", "compute"} /\ BoxOf(w)' = BoxOf(w)
      /\ BoxOf(w) \in boxes'
  <2>1. sup'[w].at \in {"open", "compute"} /\ BoxOf(w)' \in boxes'
    BY DEF Verified
  <2>2. sup[w].at \in {"open", "compute"} /\ sup'[w].job = sup[w].job
        /\ sup'[w].generation = sup[w].generation
    BY <2>1 DEF Follows
  <2> QED
    BY <2>1, <2>2 DEF BoxOf
<1>2. Verified(w) /\ ~stray
  BY <1>1 DEF Verified
<1>3. /\ control.worker = v =>
           /\ sup[v].at \notin Settled
           /\ sup[v].at = "sweep" => BoxOf(w) \in sup[v].seen
      /\ sup[v].at \in Holding => ~Runs(sup[v].job, sup[v].try)
  BY <1>2 DEF ResearchInv, Overtaken, Settled
<1>4. ASSUME control'.worker = v
      PROVE  /\ sup'[v].at \notin Settled
             /\ sup'[v].at = "sweep" => BoxOf(w)' \in sup'[v].seen
  <2>1. CASE sup'[v].at \in {"loop", "reconcile"}
    BY <2>1 DEF Settled, Guarded
  <2>2. CASE control.worker = v
    <3>1. sup'[v].at \notin Settled
      BY <2>2, <1>3 DEF Follows
    <3>2. ASSUME sup'[v].at = "sweep"
          PROVE  BoxOf(w) \in sup'[v].seen
      BY <3>2, <2>2, <1>1, <1>2, <1>3 DEF Follows, Verified
    <3> QED
      BY <3>1, <3>2, <1>1
  <2> QED
    BY <1>4, <2>1, <2>2 DEF ControlKept
<1>5. ASSUME sup'[v].at \in Holding
      PROVE  ~Runs(sup[v].job, sup[v].try)'
  <2>1. sup[v].at \in Holding /\ sup'[v].job = sup[v].job /\ sup'[v].try = sup[v].try
    BY <1>5 DEF Follows
  <2>2. sup[v].job \in ResearchJob /\ sup[v].try \in Nat
    BY <2>1, HeldIndex
  <2>3. ~Runs(sup[v].job, sup[v].try)
    BY <2>1, <1>3
  <2> QED
    BY <2>1, <2>2, <2>3 DEF NoneStarted, Runs
<1> QED
  BY <1>4, <1>5

(* A step that touches no container and no lock.                              *)
LEMMA LocksKept ==
  ASSUME ResearchInv, NoneStarted, UNCHANGED <<spawned, boxes, launch, upkeep, stray>>,
         \A w \in Supervisor : Calm(w)
  PROVE  LaunchHeld' /\ SpawnedBehindLock' /\ UpkeepQuiet'
<1>1. LaunchHeld'
  BY DEF ResearchInv, LaunchHeld, Calm
<1>2. SpawnedBehindLock'
  <2> SUFFICES ASSUME NEW b \in spawned, ~stray
               PROVE  /\ launch' = b.by /\ b = BoxOf(b.by)'
                      /\ sup'[b.by].at \in {"startup", "remove"}
    BY DEF SpawnedBehindLock
  <2>1. /\ launch = b.by /\ b = BoxOf(b.by) /\ sup[b.by].at \in {"startup", "remove"}
        /\ b.by \in Supervisor
    BY DEF ResearchInv, SpawnedBehindLock, ResearchTypeOK, Box
  <2>2. sup'[b.by] = sup[b.by]
    BY <2>1 DEF Calm
  <2> QED
    BY <2>1, <2>2 DEF BoxOf
<1>3. UpkeepQuiet'
  BY DEF ResearchInv, UpkeepQuiet, NoneStarted
<1> QED
  BY <1>1, <1>2, <1>3

LEMMA QuietStep ==
  ASSUME ResearchInv, AttemptsKept, NoneStarted,
         control' \in [maintenance : BOOLEAN, generation : Nat,
                       worker : Supervisor \union {Nobody}, live : BOOLEAN],
         sup' \in [Supervisor -> SupervisorState],
         researchFaults' \in 0..MaxResearchFaults,
         UNCHANGED <<spawned, boxes, launch, upkeep, stray>>,
         \A w \in Supervisor : Follows(w) /\ Calm(w), ControlKept
  PROVE  ResearchInv'
<1>1. ResearchTypeOK'
  BY DEF ResearchInv, ResearchTypeOK, AttemptsKept
<1>2. PastEnded' /\ OneRunning' /\ AttemptHeld'
  BY HeldKept DEF Follows
<1>3. LaunchHeld' /\ SpawnedBehindLock' /\ UpkeepQuiet'
  BY LocksKept
<1>4. Overtaken'
  <2>1. stray => stray'
    OBVIOUS
  <2>2. \A w \in Supervisor : Follows(w)
    OBVIOUS
  <2>3. \A w \in Supervisor : BoxOf(w) \in boxes' /\ BoxOf(w) \notin boxes =>
          sup[w].at \notin {"open", "compute"} \/ stray'
    OBVIOUS
  <2> QED
    BY <2>1, <2>2, <2>3, OvertakenKept
<1> QED
  BY <1>1, <1>2, <1>3, <1>4 DEF ResearchInv

-----------------------------------------------------------------------------
(* How the actions change the attempts.                                       *)
LEMMA OpenJob ==
  ASSUME NEW j \in ResearchJob, StatusOf(j) \in {"queued", "running"}
  PROVE  tries[j] # <<>> /\ CurrentTry(j).status = StatusOf(j)
  BY DEF StatusOf

LEMMA EndAllKept ==
  ASSUME ResearchTypeOK, PastEnded, NEW J \in SUBSET ResearchJob, NEW s \in Ended,
         \A j \in J : StatusOf(j) \in {"queued", "running"}, EndAll(J, s)
  PROVE  /\ AttemptsKept /\ NoneStarted
         /\ \A j \in J : \A n \in Nat : ~Runs(j, n)'
<1>1. PICK t : t = [j \in J |-> [CurrentTry(j) EXCEPT !.leased = FALSE, !.status = s]]
  OBVIOUS
<1>2. ASSUME NEW j \in J
      PROVE  /\ tries[j] # <<>> /\ CurrentTry(j).status \in {"queued", "running"}
             /\ t[j] \in Try /\ t[j].status = s /\ t[j].worker = CurrentTry(j).worker
             /\ [WithoutLease(j) EXCEPT ![Len(tries[j])].status = s] =
                  [tries[j] EXCEPT ![Len(tries[j])] = t[j]]
  <2>1. tries[j] # <<>> /\ CurrentTry(j).status \in {"queued", "running"}
    BY OpenJob
  <2>2. tries[j] \in Seq(Try) /\ Len(tries[j]) \in DOMAIN tries[j]
        /\ tries[j][Len(tries[j])] \in Try
    BY <2>1, TryParts
  <2>3. PICK u : u = tries[j][Len(tries[j])]
    OBVIOUS
  <2>4. t[j] = [u EXCEPT !.leased = FALSE, !.status = s] /\ u \in Try
    BY <1>1, <2>2, <2>3 DEF CurrentTry
  <2>5. t[j] \in Try /\ t[j].status = s /\ t[j].worker = u.worker
    BY <2>4 DEF Try, Ended
  <2>6. WithoutLease(j) = [tries[j] EXCEPT ![Len(tries[j])] = [u EXCEPT !.leased = FALSE]]
    BY <2>3 DEF WithoutLease
  <2>7. [WithoutLease(j) EXCEPT ![Len(tries[j])].status = s] =
          [tries[j] EXCEPT ![Len(tries[j])] = t[j]]
    BY <2>2, <2>4, <2>6
  <2> QED
    BY <2>1, <2>3, <2>5, <2>7 DEF CurrentTry
<1>3. ReplacedBy(J, t)
  BY <1>2 DEF EndAll, ReplacedBy
<1>4. s # "queued" /\ s # "running"
  BY DEF Ended
<1>5. Replaceable(J, t)
  BY <1>2, <1>4 DEF Replaceable
<1>6. AttemptsKept
      /\ \A j \in ResearchJob : \A n \in Nat : Runs(j, n)' =>
           \/ Runs(j, n) /\ j \notin J
           \/ j \in J /\ n = Len(tries[j]) /\ t[j].status = "running"
  BY <1>3, <1>5, Replaced
<1> QED
  BY <1>2, <1>4, <1>6 DEF NoneStarted

(* The leases of running attempts are set to l.                               *)
LEMMA LeaseKept ==
  ASSUME ResearchTypeOK, PastEnded, NEW J \in SUBSET ResearchJob, NEW l \in BOOLEAN,
         \A j \in J : StatusOf(j) = "running",
         tries' = [j \in ResearchJob |->
                     IF j \in J THEN [tries[j] EXCEPT ![Len(tries[j])].leased = l]
                     ELSE tries[j]]
  PROVE  AttemptsKept /\ NoneStarted
<1>1. PICK t : t = [j \in J |-> [CurrentTry(j) EXCEPT !.leased = l]]
  OBVIOUS
<1>2. ASSUME NEW j \in J
      PROVE  /\ tries[j] # <<>> /\ CurrentTry(j).status = "running"
             /\ t[j] \in Try /\ t[j].status = "running"
             /\ t[j].worker = CurrentTry(j).worker
             /\ [tries[j] EXCEPT ![Len(tries[j])].leased = l] =
                  [tries[j] EXCEPT ![Len(tries[j])] = t[j]]
             /\ Len(tries[j]) \in DOMAIN tries[j]
  <2>1. tries[j] # <<>> /\ CurrentTry(j).status = "running"
    BY OpenJob
  <2>2. tries[j] \in Seq(Try) /\ Len(tries[j]) \in DOMAIN tries[j]
        /\ tries[j][Len(tries[j])] \in Try
    BY <2>1, TryParts
  <2>3. PICK u : u = tries[j][Len(tries[j])]
    OBVIOUS
  <2>4. t[j] = [u EXCEPT !.leased = l] /\ u \in Try
    BY <1>1, <2>2, <2>3 DEF CurrentTry
  <2>5. t[j].status = u.status /\ t[j].worker = u.worker
    BY <2>4 DEF Try
  <2>6. t[j] \in Try
    BY <2>4 DEF Try
  <2>7. [tries[j] EXCEPT ![Len(tries[j])].leased = l] =
          [tries[j] EXCEPT ![Len(tries[j])] = t[j]]
    BY <2>3, <2>4
  <2> QED
    BY <2>1, <2>2, <2>3, <2>5, <2>6, <2>7 DEF CurrentTry
<1>3. ReplacedBy(J, t)
  BY <1>2 DEF ReplacedBy
<1>4. Replaceable(J, t)
  BY <1>2 DEF Replaceable
<1>5. AttemptsKept
      /\ \A j \in ResearchJob : \A n \in Nat : Runs(j, n)' =>
           \/ Runs(j, n) /\ j \notin J
           \/ j \in J /\ n = Len(tries[j]) /\ t[j].status = "running"
  BY <1>3, <1>4, Replaced
<1>6. \A j \in J : Runs(j, Len(tries[j]))
  BY <1>2 DEF Runs, CurrentTry
<1> QED
  BY <1>5, <1>6 DEF NoneStarted

(* A job gets a new attempt, which is queued.                                 *)
LEMMA QueuedKept ==
  ASSUME ResearchTypeOK, PastEnded, NEW j \in ResearchJob,
         tries[j] = <<>> \/ StatusOf(j) \in Ended,
         tries' = [tries EXCEPT ![j] = Append(@, QueuedTry)]
  PROVE  AttemptsKept /\ NoneStarted
<1>1. QueuedTry \in Try /\ QueuedTry.status = "queued"
  BY DEF QueuedTry, Try
<1>2. /\ tries[j] \in Seq(Try) /\ Len(tries[j]) \in Nat
      /\ DOMAIN tries[j] = 1..Len(tries[j])
      /\ tries[j] # <<>> => Len(tries[j]) \in DOMAIN tries[j]
  BY TryParts
<1>3. /\ tries'[j] \in Seq(Try) /\ Len(tries'[j]) = Len(tries[j]) + 1
      /\ DOMAIN tries'[j] = 1..(Len(tries[j]) + 1)
      /\ \A n \in 1..Len(tries[j]) : tries'[j][n] = tries[j][n]
      /\ tries'[j][Len(tries[j]) + 1] = QueuedTry
  <2>1. tries'[j] = Append(tries[j], QueuedTry)
    BY DEF ResearchTypeOK
  <2> QED
    BY <1>1, <1>2, <2>1
<1>4. \A i \in ResearchJob : i # j => tries'[i] = tries[i]
  BY DEF ResearchTypeOK
<1>5. tries' \in [ResearchJob -> Seq(Try)]
  BY <1>1, <1>2, SMTT(60) DEF ResearchTypeOK
<1>6. \A n \in DOMAIN tries[j] : tries[j][n].status \in Ended
  <2> SUFFICES ASSUME NEW n \in DOMAIN tries[j]
               PROVE  tries[j][n].status \in Ended
    OBVIOUS
  <2>1. tries[j] # <<>>
    BY <1>2
  <2>2. CASE n = Len(tries[j])
    BY <2>1, <2>2 DEF StatusOf, CurrentTry
  <2>3. CASE n # Len(tries[j])
    BY <2>3 DEF PastEnded
  <2> QED
    BY <2>2, <2>3
<1>7. PastEnded'
  <2> SUFFICES ASSUME NEW i \in ResearchJob, NEW n \in DOMAIN tries'[i], n # Len(tries'[i])
               PROVE  tries'[i][n].status \in Ended
    BY DEF PastEnded
  <2>1. CASE i # j
    BY <2>1, <1>4 DEF PastEnded
  <2>2. CASE i = j
    BY <2>2, <1>2, <1>3, <1>6, SMTT(60)
  <2> QED
    BY <2>1, <2>2
<1>8. ASSUME NEW i \in ResearchJob, NEW n \in DOMAIN tries[i]
      PROVE  n \in DOMAIN tries'[i] /\ tries'[i][n] = tries[i][n]
  <2>1. CASE i # j
    BY <2>1, <1>4
  <2>2. CASE i = j
    BY <2>2, <1>2, <1>3, SMTT(60)
  <2> QED
    BY <2>1, <2>2
<1>9. NoneStarted
  <2> SUFFICES ASSUME NEW i \in ResearchJob, NEW n \in Nat, Runs(i, n)'
               PROVE  Runs(i, n)
    BY DEF NoneStarted
  <2>1. n \in DOMAIN tries'[i] /\ tries'[i][n].status = "running"
    BY DEF Runs
  <2>2. CASE i # j
    BY <2>1, <2>2, <1>4 DEF Runs
  <2>3. CASE i = j
    <3>1. n # Len(tries[j]) + 1
      BY <2>1, <2>3, <1>1, <1>3
    <3> QED
      BY <3>1, <2>1, <2>3, <1>2, <1>3, SMTT(60) DEF Runs
  <2> QED
    BY <2>2, <2>3
<1> QED
  BY <1>5, <1>7, <1>8, <1>9 DEF AttemptsKept

-----------------------------------------------------------------------------
(* The steps of the owner, and the leases that lapse.                         *)
ControlRow == [maintenance : BOOLEAN, generation : Nat,
               worker : Supervisor \union {Nobody}, live : BOOLEAN]

LEMMA OwnerStep ==
  ASSUME ResearchInv, AttemptsKept, NoneStarted, control' \in ControlRow,
         control'.worker = control.worker,
         UNCHANGED <<sup, spawned, boxes, launch, upkeep, stray, researchFaults>>
  PROVE  ResearchInv'
<1>1. control' \in [maintenance : BOOLEAN, generation : Nat,
                    worker : Supervisor \union {Nobody}, live : BOOLEAN]
  BY DEF ControlRow
<1>2. sup' \in [Supervisor -> SupervisorState] /\ researchFaults' \in 0..MaxResearchFaults
  BY DEF ResearchInv, ResearchTypeOK
<1>3. \A w \in Supervisor : Follows(w) /\ Calm(w)
  BY StandsStill
<1>4. ControlKept
  BY DEF ControlKept
<1> QED
  BY <1>1, <1>2, <1>3, <1>4, QuietStep

LEMMA ControlTyped ==
  ASSUME ResearchInv
  PROVE  control \in ControlRow
  BY DEF ResearchInv, ResearchTypeOK, ControlRow

LEMMA InvParts ==
  ASSUME ResearchInv
  PROVE  ResearchTypeOK /\ PastEnded
  BY DEF ResearchInv

LEMMA OwnerHolds ==
  ASSUME ResearchInv, NEW j \in ResearchJob,
         EnqueueJob(j) \/ CancelJob(j) \/ RetryJob(j) \/ AttemptLapses(j)
  PROVE  AttemptsKept /\ ResearchInv'
<1>1. CASE EnqueueJob(j)
  <2>1. tries[j] = <<>>
    BY <1>1 DEF EnqueueJob
  <2>2. tries' = [tries EXCEPT ![j] = Append(@, QueuedTry)]
    BY <1>1, <2>1 DEF EnqueueJob
  <2>3. AttemptsKept /\ NoneStarted
    BY <2>1, <2>2, InvParts, QueuedKept
  <2> QED
    BY <1>1, <2>3, ControlTyped, OwnerStep DEF EnqueueJob, OwnerOnly
<1>2. CASE CancelJob(j)
  <2>1. StatusOf(j) \in {"queued", "running"} /\ EndAll({j}, "cancelled")
    BY <1>2 DEF CancelJob
  <2>2. {j} \in SUBSET ResearchJob /\ "cancelled" \in Ended
    BY DEF Ended
  <2>3. AttemptsKept /\ NoneStarted
    BY <2>1, <2>2, InvParts, EndAllKept
  <2> QED
    BY <1>2, <2>3, ControlTyped, OwnerStep DEF CancelJob, OwnerOnly
<1>3. CASE RetryJob(j)
  <2>1. StatusOf(j) \in Ended /\ tries' = [tries EXCEPT ![j] = Append(@, QueuedTry)]
    BY <1>3 DEF RetryJob, Retryable
  <2>2. AttemptsKept /\ NoneStarted
    BY <2>1, InvParts, QueuedKept
  <2> QED
    BY <1>3, <2>2, ControlTyped, OwnerStep DEF RetryJob, OwnerOnly
<1>4. CASE AttemptLapses(j)
  <2>1. StatusOf(j) = "running" /\ tries' = [tries EXCEPT ![j] = WithoutLease(j)]
    BY <1>4 DEF AttemptLapses
  <2>2. tries' = [i \in ResearchJob |->
                    IF i \in {j} THEN [tries[i] EXCEPT ![Len(tries[i])].leased = FALSE]
                    ELSE tries[i]]
    BY <2>1, InvParts DEF WithoutLease, ResearchTypeOK
  <2>3. {j} \in SUBSET ResearchJob
    OBVIOUS
  <2>4. AttemptsKept /\ NoneStarted
    BY <2>1, <2>2, <2>3, InvParts, LeaseKept
  <2> QED
    BY <1>4, <2>4, ControlTyped, OwnerStep DEF AttemptLapses
<1> QED
  BY <1>1, <1>2, <1>3, <1>4

LEMMA LapseHolds ==
  ASSUME ResearchInv, ControlLapses
  PROVE  AttemptsKept /\ ResearchInv'
<1>1. PICK J : J = {j \in RunningJobs : CurrentTry(j).worker = control.worker}
  OBVIOUS
<1>2. J \in SUBSET ResearchJob /\ \A j \in J : StatusOf(j) = "running"
  BY <1>1 DEF RunningJobs
<1>3. tries' = [j \in ResearchJob |->
                  IF j \in J THEN [tries[j] EXCEPT ![Len(tries[j])].leased = FALSE]
                  ELSE tries[j]]
  BY <1>1 DEF ControlLapses, WithoutLease
<1>4. AttemptsKept /\ NoneStarted
  BY <1>2, <1>3, InvParts, LeaseKept
<1>5. control' \in ControlRow /\ control'.worker = control.worker
  <2>1. control' = [control EXCEPT !.live = FALSE]
    BY DEF ControlLapses
  <2> QED
    BY <2>1, ControlTyped DEF ControlRow
<1> QED
  BY <1>4, <1>5, OwnerStep DEF ControlLapses

-----------------------------------------------------------------------------
(* The steps of a supervisor that touch no container and no lock.             *)
LEMMA QuietGoto ==
  ASSUME ResearchInv, AttemptsKept, NoneStarted, NEW w \in Supervisor,
         NEW place \in Place \ {"sweep", "admit_launch", "create"}, Goto(w, place),
         control' \in ControlRow,
         control'.worker = control.worker \/ control'.worker = Nobody
           \/ (control'.worker = w /\ place \in {"loop", "reconcile"}),
         sup[w].at \notin {"startup", "remove"},
         place \in Holding => sup[w].at \in Holding,
         place \in {"open", "compute"} => sup[w].at \in {"open", "compute"},
         place \in Settled =>
           sup[w].at \in Settled \/ (sup[w].at = "sweep" /\ sup[w].seen = {}),
         UNCHANGED <<spawned, boxes, launch, upkeep, stray, researchFaults>>
  PROVE  ResearchInv'
<1>1. control' \in [maintenance : BOOLEAN, generation : Nat,
                    worker : Supervisor \union {Nobody}, live : BOOLEAN]
  BY DEF ControlRow
<1>2. researchFaults' \in 0..MaxResearchFaults
  BY DEF ResearchInv, ResearchTypeOK
<1>3. /\ sup' \in [Supervisor -> SupervisorState] /\ sup'[w].at = place
      /\ \A v \in Supervisor : v # w => sup'[v] = sup[v]
  BY InvParts, GotoParts
<1>4. \A v \in Supervisor : Follows(v)
  BY InvParts, GotoFollows
<1>5. \A v \in Supervisor : Calm(v)
  BY <1>3, StandsStill DEF Calm
<1>6. ControlKept
  <2>1. \A v \in Supervisor : v # Nobody
    BY ResearchAssumption, SMTT(60) DEF Supervisor
  <2> QED
    BY <1>3, <2>1 DEF ControlKept
<1> QED
  BY <1>1, <1>2, <1>3, <1>4, <1>5, <1>6, QuietStep

LEMMA PulsedTyped ==
  ASSUME ResearchInv, NEW w \in Supervisor, control' = Pulsed(w)
  PROVE  control' \in ControlRow /\ control'.worker = w
<1>1. control' = [control EXCEPT !.worker = w, !.live = TRUE]
  BY DEF Pulsed
<1> QED
  BY <1>1, ControlTyped DEF ControlRow

(* A refused transaction sends the supervisor on.                             *)
LEMMA RefusedHolds ==
  ASSUME ResearchInv, NEW w \in Supervisor,
         NEW place \in {"dead", "retire", "loop", "report", "unlock", "remove"},
         Refused(w, place), sup[w].at \notin {"startup", "remove"},
         place \in {"report", "unlock", "remove"} => sup[w].at \in Holding,
         place \in {"unlock", "remove"} => sup[w].at \in Settled,
         UNCHANGED <<spawned, boxes, launch, upkeep, stray, researchFaults>>
  PROVE  AttemptsKept /\ ResearchInv'
<1>1. Goto(w, place) /\ control' = control /\ tries' = tries
  BY DEF Refused
<1>2. AttemptsKept /\ NoneStarted
  BY <1>1, InvParts, SameAttempts
<1>3. place \in Place \ {"sweep", "admit_launch", "create"}
      /\ place \notin {"open", "compute"}
  BY DEF Place
<1>4. place \in Holding => sup[w].at \in Holding
  BY DEF Holding, Guarded
<1>5. place \in Settled => sup[w].at \in Settled
  BY DEF Settled, Guarded
<1> QED
  BY <1>1, <1>2, <1>3, <1>4, <1>5, ControlTyped, QuietGoto

LEMMA OwnsRuns ==
  ASSUME ResearchInv, NEW w \in Supervisor, sup[w].at \in Holding, NEW c, Owns(w, c)
  PROVE  /\ sup[w].job \in ResearchJob /\ sup[w].try \in Nat
         /\ sup[w].try = Len(tries[sup[w].job])
         /\ StatusOf(sup[w].job) = "running" /\ Runs(sup[w].job, sup[w].try)
         /\ tries[sup[w].job][sup[w].try].worker = w
<1>1. PICK j, n : j = sup[w].job /\ n = sup[w].try
  OBVIOUS
<1>2. /\ j \in ResearchJob /\ n \in Nat /\ n \in DOMAIN tries[j]
      /\ tries[j][n].worker = w
  BY <1>1, HeldIndex
<1>3. n = Len(tries[j]) /\ CurrentTry(j).status = "running"
  BY <1>1 DEF Owns
<1>4. tries[j] # <<>>
  BY <1>2
<1>5. StatusOf(j) = "running" /\ Runs(j, n)
  BY <1>2, <1>3, <1>4 DEF StatusOf, Runs, CurrentTry
<1> QED
  BY <1>1, <1>2, <1>3, <1>5

LEMMA StartHolds ==
  ASSUME ResearchInv, NEW w \in Supervisor, StartSupervisor(w)
  PROVE  AttemptsKept /\ ResearchInv'
<1>0. sup[w].at = "new" /\ UNCHANGED <<spawned, boxes, launch, upkeep, stray, researchFaults>>
  BY DEF StartSupervisor
<1>1. CASE Refused(w, "dead")
  BY <1>0, <1>1, RefusedHolds
<1>2. CASE ~Refused(w, "dead")
  <2>1. /\ control' = Pulsed(w) /\ tries' = tries
        /\ sup' = [sup EXCEPT ![w].at = "loop", ![w].generation = control.generation]
    BY <1>2 DEF StartSupervisor
  <2>2. AttemptsKept /\ NoneStarted
    BY <2>1, InvParts, SameAttempts
  <2>3. control' \in ControlRow /\ control'.worker = w
    BY <2>1, PulsedTyped
  <2>4. sup[w] \in SupervisorState /\ control.generation \in Nat
    BY DEF ResearchInv, ResearchTypeOK
  <2>5. PICK m : m = [sup[w] EXCEPT !.at = "loop", !.generation = control.generation]
    OBVIOUS
  <2>6. m \in SupervisorState /\ m.at = "loop"
    BY <2>4, <2>5 DEF SupervisorState, Place
  <2>7. sup' = [sup EXCEPT ![w] = m]
    BY <2>1, <2>5, InvParts DEF ResearchTypeOK
  <2>8. /\ sup' \in [Supervisor -> SupervisorState] /\ sup'[w].at = "loop"
        /\ \A v \in Supervisor : v # w => sup'[v] = sup[v]
    BY <2>6, <2>7, InvParts, SetSup
  <2>9. Follows(w) /\ Calm(w)
    BY <1>0, <2>8 DEF Follows, Calm, Holding, Guarded, Settled
  <2>10. \A v \in Supervisor : Follows(v) /\ Calm(v)
    BY <2>8, <2>9, StandsStill
  <2>11. ControlKept
    BY <2>3, <2>8 DEF ControlKept
  <2>12. researchFaults' \in 0..MaxResearchFaults
    BY <1>0 DEF ResearchInv, ResearchTypeOK
  <2> QED
    BY <1>0, <2>2, <2>3, <2>8, <2>10, <2>11, <2>12, QuietStep DEF ControlRow
<1> QED
  BY <1>1, <1>2

LEMMA PulseHolds ==
  ASSUME ResearchInv, NEW w \in Supervisor, Pulse(w)
  PROVE  AttemptsKept /\ ResearchInv'
<1>0. sup[w].at = "loop" /\ UNCHANGED <<spawned, boxes, launch, upkeep, stray, researchFaults>>
  BY DEF Pulse
<1>1. CASE Refused(w, "retire")
  BY <1>0, <1>1, RefusedHolds
<1>2. CASE ~Refused(w, "retire")
  <2>1. control' = Pulsed(w) /\ tries' = tries /\ Goto(w, "reconcile")
    BY <1>2 DEF Pulse
  <2>2. AttemptsKept /\ NoneStarted
    BY <2>1, InvParts, SameAttempts
  <2>3. control' \in ControlRow /\ control'.worker = w
    BY <2>1, PulsedTyped
  <2>4. "reconcile" \in Place \ {"sweep", "admit_launch", "create"}
        /\ "reconcile" \notin Holding /\ "reconcile" \notin Settled
    BY DEF Place, Holding, Settled, Guarded
  <2> QED
    BY <1>0, <2>1, <2>2, <2>3, <2>4, QuietGoto
<1> QED
  BY <1>1, <1>2

LEMMA ReconcileHolds ==
  ASSUME ResearchInv, NEW w \in Supervisor, ReconcileExpired(w)
  PROVE  AttemptsKept /\ ResearchInv'
<1>0. sup[w].at = "reconcile"
      /\ UNCHANGED <<spawned, boxes, launch, upkeep, stray, researchFaults>>
  BY DEF ReconcileExpired
<1>1. CASE Refused(w, "retire")
  BY <1>0, <1>1, RefusedHolds
<1>2. CASE ~Refused(w, "retire")
  <2>1. PICK J : J = {j \in RunningJobs : StaleTry(CurrentTry(j))}
    OBVIOUS
  <2>2. EndAll(J, "interrupted") /\ control' = control /\ Goto(w, "list")
    BY <1>2, <2>1 DEF ReconcileExpired
  <2>3. J \in SUBSET ResearchJob /\ "interrupted" \in Ended
        /\ \A j \in J : StatusOf(j) \in {"queued", "running"}
    BY <2>1 DEF RunningJobs, Ended
  <2>4. AttemptsKept /\ NoneStarted
    BY <2>2, <2>3, InvParts, EndAllKept
  <2>5. "list" \in Place \ {"sweep", "admit_launch", "create"}
        /\ "list" \notin Holding /\ "list" \notin Settled
    BY DEF Place, Holding, Settled, Guarded
  <2> QED
    BY <1>0, <2>2, <2>4, <2>5, ControlTyped, QuietGoto
<1> QED
  BY <1>1, <1>2

LEMMA ListHolds ==
  ASSUME ResearchInv, NEW w \in Supervisor, ListSandboxes(w)
  PROVE  AttemptsKept /\ ResearchInv'
<1>0. sup[w].at = "list" /\ sup' = [sup EXCEPT ![w].at = "sweep", ![w].seen = boxes]
      /\ UNCHANGED <<control, tries, spawned, boxes, launch, upkeep, stray, researchFaults>>
  BY DEF ListSandboxes
<1>1. AttemptsKept /\ NoneStarted
  BY <1>0, InvParts, SameAttempts
<1>2. sup[w] \in SupervisorState /\ boxes \in SUBSET Box
  BY DEF ResearchInv, ResearchTypeOK
<1>3. PICK m : m = [sup[w] EXCEPT !.at = "sweep", !.seen = boxes]
  OBVIOUS
<1>4. m \in SupervisorState /\ m.at = "sweep" /\ m.seen = boxes
  BY <1>2, <1>3 DEF SupervisorState, Place
<1>5. sup' = [sup EXCEPT ![w] = m]
  BY <1>0, <1>3, InvParts DEF ResearchTypeOK
<1>6. /\ sup' \in [Supervisor -> SupervisorState] /\ sup'[w] = m
      /\ \A v \in Supervisor : v # w => sup'[v] = sup[v]
  BY <1>4, <1>5, InvParts, SetSup
<1>7. Follows(w) /\ Calm(w)
  BY <1>0, <1>4, <1>6 DEF Follows, Calm, Holding, Guarded, Settled
<1>8. \A v \in Supervisor : Follows(v) /\ Calm(v)
  BY <1>6, <1>7, StandsStill
<1>9. ControlKept
  BY <1>0 DEF ControlKept
<1>10. control' \in ControlRow /\ researchFaults' \in 0..MaxResearchFaults
  BY <1>0, ControlTyped DEF ResearchInv, ResearchTypeOK
<1> QED
  BY <1>0, <1>1, <1>6, <1>8, <1>9, <1>10, QuietStep DEF ControlRow

LEMMA CapacityHolds ==
  ASSUME ResearchInv, NEW w \in Supervisor, VerifyCapacity(w)
  PROVE  AttemptsKept /\ ResearchInv'
<1>0. sup[w].at = "capacity"
      /\ UNCHANGED <<control, tries, spawned, boxes, launch, upkeep, stray, researchFaults>>
  BY DEF VerifyCapacity
<1>1. AttemptsKept /\ NoneStarted
  BY <1>0, InvParts, SameAttempts
<1>2. PICK place : place \in {"claim", "retire"} /\ Goto(w, place)
  BY DEF VerifyCapacity
<1>3. place \in Place \ {"sweep", "admit_launch", "create"} /\ place \notin Holding
  BY <1>2 DEF Place, Holding, Guarded
<1>4. sup[w].at \in Settled
  BY <1>0 DEF Settled
<1> QED
  BY <1>0, <1>1, <1>2, <1>3, <1>4, ControlTyped, QuietGoto

LEMMA ComputeHolds ==
  ASSUME ResearchInv, NEW w \in Supervisor, Compute(w)
  PROVE  AttemptsKept /\ ResearchInv'
<1>0. sup[w].at = "compute"
      /\ UNCHANGED <<control, tries, spawned, boxes, launch, upkeep, stray, researchFaults>>
  BY DEF Compute
<1>1. AttemptsKept /\ NoneStarted
  BY <1>0, InvParts, SameAttempts
<1>2. PICK place : place \in {"tidy", "remove"} /\ Goto(w, place)
  BY DEF Compute
<1>3. place \in Place \ {"sweep", "admit_launch", "create"} /\ place \notin {"open", "compute"}
  BY <1>2 DEF Place
<1>4. sup[w].at \in Settled /\ sup[w].at \in Holding
  BY <1>0 DEF Settled, Holding, Guarded
<1> QED
  BY <1>0, <1>1, <1>2, <1>3, <1>4, ControlTyped, QuietGoto

LEMMA FinishHolds ==
  ASSUME ResearchInv, NEW w \in Supervisor, FinishResult(w) \/ ReportError(w)
  PROVE  AttemptsKept /\ ResearchInv'
<1>1. PICK from, status, place :
        /\ from \in {"finish", "report"} /\ status \in Ended
        /\ place \in {"report", "loop"} /\ FinishJob(w, from, status, place)
  BY DEF FinishResult, ReportError, Ended
<1>2. sup[w].at \in {"finish", "report"} /\ sup[w].at \in Holding
      /\ UNCHANGED <<spawned, boxes, launch, upkeep, stray, researchFaults>>
  BY <1>1 DEF FinishJob, Holding, Guarded
<1>3. CASE FencePasses(w, control)
  <2>1. EndAll({sup[w].job}, status) /\ Goto(w, "loop") /\ control' = control
    BY <1>1, <1>3 DEF FinishJob
  <2>2. sup[w].job \in ResearchJob /\ StatusOf(sup[w].job) = "running"
    BY <1>2, <1>3, OwnsRuns DEF FencePasses
  <2>3. {sup[w].job} \in SUBSET ResearchJob
        /\ \A j \in {sup[w].job} : StatusOf(j) \in {"queued", "running"}
    BY <2>2
  <2>4. AttemptsKept /\ NoneStarted
    BY <1>1, <2>1, <2>3, InvParts, EndAllKept
  <2>5. "loop" \in Place \ {"sweep", "admit_launch", "create"}
        /\ "loop" \notin Holding /\ "loop" \notin Settled
    BY DEF Place, Holding, Settled, Guarded
  <2> QED
    BY <1>2, <2>1, <2>4, <2>5, ControlTyped, QuietGoto
<1>4. CASE ~FencePasses(w, control)
  <2>1. Refused(w, place)
    BY <1>1, <1>4 DEF FinishJob
  <2> QED
    BY <1>1, <1>2, <2>1, RefusedHolds
<1> QED
  BY <1>3, <1>4

LEMMA InterruptHolds ==
  ASSUME ResearchInv, NEW w \in Supervisor, InterruptJob(w)
  PROVE  AttemptsKept /\ ResearchInv'
<1>0. /\ sup[w].at = "interrupt" /\ Goto(w, "retire")
      /\ UNCHANGED <<control, spawned, boxes, launch, upkeep, stray, researchFaults>>
  BY DEF InterruptJob
<1>1. AttemptsKept /\ NoneStarted
  <2>1. CASE Owns(w, control) /\ ControlFree
    <3>1. sup[w].at \in Holding
      BY <1>0 DEF Holding
    <3>2. sup[w].job \in ResearchJob /\ StatusOf(sup[w].job) = "running"
      BY <2>1, <3>1, OwnsRuns
    <3>3. {sup[w].job} \in SUBSET ResearchJob /\ "interrupted" \in Ended
          /\ \A j \in {sup[w].job} : StatusOf(j) \in {"queued", "running"}
      BY <3>2 DEF Ended
    <3>4. EndAll({sup[w].job}, "interrupted")
      BY <2>1 DEF InterruptJob
    <3> QED
      BY <3>3, <3>4, InvParts, EndAllKept
  <2>2. CASE ~(Owns(w, control) /\ ControlFree)
    BY <2>2, InvParts, SameAttempts DEF InterruptJob
  <2> QED
    BY <2>1, <2>2
<1>2. "retire" \in Place \ {"sweep", "admit_launch", "create"}
      /\ "retire" \notin Holding /\ "retire" \notin Settled
  BY DEF Place, Holding, Settled, Guarded
<1> QED
  BY <1>0, <1>1, <1>2, ControlTyped, QuietGoto

LEMMA RetireHolds ==
  ASSUME ResearchInv, NEW w \in Supervisor, RetireSupervisor(w)
  PROVE  AttemptsKept /\ ResearchInv'
<1>0. /\ sup[w].at = "retire" /\ Goto(w, "dead")
      /\ UNCHANGED <<tries, spawned, boxes, launch, upkeep, stray, researchFaults>>
  BY DEF RetireSupervisor
<1>1. AttemptsKept /\ NoneStarted
  BY <1>0, InvParts, SameAttempts
<1>2. control' \in ControlRow /\ (control'.worker = control.worker \/ control'.worker = Nobody)
  <2>1. control' = control \/ control' = [control EXCEPT !.worker = Nobody, !.live = FALSE]
    BY DEF RetireSupervisor
  <2> QED
    BY <2>1, ControlTyped DEF ControlRow
<1>3. "dead" \in Place \ {"sweep", "admit_launch", "create"}
      /\ "dead" \notin Holding /\ "dead" \notin Settled
  BY DEF Place, Holding, Settled, Guarded
<1> QED
  BY <1>0, <1>1, <1>2, <1>3, QuietGoto

-----------------------------------------------------------------------------
(* The steps around the launch lock and the containers.                       *)
LEMMA LoudStep ==
  ASSUME ResearchInv, tries' = tries, \A v \in Supervisor : Follows(v), ControlKept,
         stray => stray',
         \A w \in Supervisor : BoxOf(w) \in boxes' /\ BoxOf(w) \notin boxes =>
           sup[w].at \notin {"open", "compute"} \/ stray',
         ResearchTypeOK', LaunchHeld', SpawnedBehindLock', UpkeepQuiet'
  PROVE  AttemptsKept /\ ResearchInv'
<1>1. AttemptsKept /\ NoneStarted
  BY InvParts, SameAttempts
<1>2. PastEnded' /\ OneRunning' /\ AttemptHeld'
  BY <1>1, HeldKept DEF Follows
<1>3. Overtaken'
  BY <1>1, OvertakenKept
<1> QED
  BY <1>1, <1>2, <1>3 DEF ResearchInv

LEMMA LoudGoto ==
  ASSUME ResearchInv, NEW w \in Supervisor, NEW place \in Place \ {"sweep"}, Goto(w, place),
         place \in Holding => sup[w].at \in Holding,
         place \in {"open", "compute"} => sup[w].at \in {"open", "compute"},
         place \in Settled =>
           sup[w].at \in Settled \/ (sup[w].at = "sweep" /\ sup[w].seen = {}),
         UNCHANGED <<control, tries, upkeep>>,
         stray' \in BOOLEAN, stray => stray', spawned' \subseteq Box, boxes' \subseteq boxes,
         launch' \in Supervisor \union {Upkeep, Nobody},
         researchFaults' \in 0..MaxResearchFaults,
         upkeep # "off" => launch' = Upkeep,
         \A v \in Supervisor : sup'[v].at \in {"admit_launch", "create"} =>
           launch' = v \/ stray',
         SpawnedBehindLock'
  PROVE  AttemptsKept /\ ResearchInv'
<1>1. sup' \in [Supervisor -> SupervisorState]
  BY InvParts, GotoParts
<1>2. \A v \in Supervisor : Follows(v)
  BY InvParts, GotoFollows
<1>3. ResearchTypeOK'
  BY <1>1 DEF ResearchInv, ResearchTypeOK
<1>4. ControlKept
  BY DEF ControlKept
<1>5. LaunchHeld'
  BY DEF LaunchHeld
<1>6. UpkeepQuiet'
  BY DEF ResearchInv, UpkeepQuiet, Runs
<1>7. \A v \in Supervisor : BoxOf(v) \in boxes' /\ BoxOf(v) \notin boxes =>
        sup[v].at \notin {"open", "compute"} \/ stray'
  OBVIOUS
<1> QED
  BY <1>2, <1>3, <1>4, <1>5, <1>6, <1>7, LoudStep

LEMMA LockParts ==
  ASSUME ResearchInv
  PROVE  /\ spawned \subseteq Box /\ boxes \subseteq Box /\ stray \in BOOLEAN
         /\ launch \in Supervisor \union {Upkeep, Nobody}
         /\ researchFaults \in 0..MaxResearchFaults
         /\ upkeep # "off" => launch = Upkeep
         /\ \A w \in Supervisor : /\ w # Upkeep /\ w # Nobody
                                  /\ BoxOf(w).by = w
         /\ \A b \in Box : b.by \in Supervisor
         /\ Upkeep # Nobody
<1>1. \A w \in Supervisor : w # Upkeep /\ w # Nobody
  BY ResearchAssumption DEF Supervisor
<1>2. \A w \in Supervisor : BoxOf(w).by = w
  BY DEF BoxOf
<1>3. \A b \in Box : b.by \in Supervisor
  BY DEF Box
<1> QED
  BY <1>1, <1>2, <1>3, ResearchAssumption DEF ResearchInv, ResearchTypeOK, LaunchHeld

(* A client at work, and no escape: who is launching what.                    *)
LEMMA SpawnedParts ==
  ASSUME ResearchInv, NEW b \in spawned, ~stray
  PROVE  /\ b.by \in Supervisor /\ launch = b.by /\ b = BoxOf(b.by)
         /\ sup[b.by].at \in {"startup", "remove"}
  BY LockParts DEF ResearchInv, SpawnedBehindLock

LEMMA BoxUnmoved ==
  ASSUME NEW w, sup'[w].job = sup[w].job, sup'[w].generation = sup[w].generation
  PROVE  BoxOf(w)' = BoxOf(w)
  BY DEF BoxOf

LEMMA BarrierHolds ==
  ASSUME ResearchInv, NEW w \in Supervisor, LaunchBarrier(w)
  PROVE  AttemptsKept /\ ResearchInv'
<1>0. sup[w].at = "barrier"
      /\ UNCHANGED <<control, tries, spawned, boxes, upkeep, stray, researchFaults>>
  BY DEF LaunchBarrier
<1>1. sup[w].at \in Holding /\ sup[w].at \in Settled
  BY <1>0 DEF Holding, Guarded, Settled
<1>2. CASE launch = Nobody /\ launch' = w /\ Goto(w, "admit_launch")
  <2>1. /\ \A v \in Supervisor : v # w => sup'[v] = sup[v]
        /\ sup'[w].at = "admit_launch"
    BY <1>2, InvParts, GotoParts DEF Place
  <2>2. spawned = {} \/ stray
    BY <1>2, LockParts, SpawnedParts
  <2>3. SpawnedBehindLock'
    BY <1>0, <2>2 DEF SpawnedBehindLock
  <2>4. \A v \in Supervisor : sup'[v].at \in {"admit_launch", "create"} =>
          launch' = v \/ stray'
    BY <1>0, <1>2, <2>1, LockParts DEF ResearchInv, LaunchHeld
  <2>5. "admit_launch" \in Place \ {"sweep"} /\ "admit_launch" \notin {"open", "compute"}
    BY DEF Place
  <2>6. upkeep = "off"
    BY <1>2, LockParts
  <2> QED
    BY <1>0, <1>1, <1>2, <2>3, <2>4, <2>5, <2>6, LockParts, LoudGoto
<1>3. CASE Goto(w, "report") /\ UNCHANGED launch
  <2>1. AttemptsKept /\ NoneStarted
    BY <1>0, InvParts, SameAttempts
  <2>2. "report" \in Place \ {"sweep", "admit_launch", "create"}
    BY DEF Place
  <2> QED
    BY <1>0, <1>1, <1>3, <2>1, <2>2, ControlTyped, QuietGoto
<1> QED
  BY <1>2, <1>3 DEF LaunchBarrier

LEMMA SpawnHolds ==
  ASSUME ResearchInv, NEW w \in Supervisor, SpawnClient(w)
  PROVE  AttemptsKept /\ ResearchInv'
<1>0. sup[w].at = "create"
      /\ UNCHANGED <<control, tries, boxes, launch, upkeep, stray, researchFaults>>
  BY DEF SpawnClient
<1>1. sup[w].at \in Holding /\ sup[w].at \in Settled
  BY <1>0 DEF Holding, Guarded, Settled
<1>2. CASE spawned' = spawned \union {BoxOf(w)} /\ Goto(w, "startup")
  <2>1. /\ \A v \in Supervisor : v # w => sup'[v] = sup[v]
        /\ sup'[w].at = "startup" /\ sup'[w].job = sup[w].job
        /\ sup'[w].generation = sup[w].generation
    BY <1>2, InvParts, GotoParts DEF Place
  <2>2. BoxOf(w)' = BoxOf(w)
    BY <2>1, BoxUnmoved
  <2>3. BoxOf(w) \in Box
    <3>1. sup[w].job \in ResearchJob
      BY <1>1, HeldIndex
    <3>2. sup[w].generation \in Nat
      BY DEF ResearchInv, ResearchTypeOK, SupervisorState
    <3> QED
      BY <3>1, <3>2 DEF BoxOf, Box
  <2>4. launch = w \/ stray
    BY <1>0 DEF ResearchInv, LaunchHeld
  <2>5. spawned = {} \/ stray
    BY <1>0, <2>4, SpawnedParts
  <2>6. SpawnedBehindLock'
    <3> SUFFICES ASSUME NEW b \in spawned', ~stray'
                 PROVE  /\ launch' = b.by /\ b = BoxOf(b.by)'
                        /\ sup'[b.by].at \in {"startup", "remove"}
      BY DEF SpawnedBehindLock
    <3>1. b = BoxOf(w) /\ b.by = w
      BY <1>0, <1>2, <2>5, LockParts
    <3> QED
      BY <1>0, <2>1, <2>2, <2>4, <3>1
  <2>7. \A v \in Supervisor : sup'[v].at \in {"admit_launch", "create"} =>
          launch' = v \/ stray'
    BY <1>0, <2>1 DEF ResearchInv, LaunchHeld
  <2>8. "startup" \in Place \ {"sweep"} /\ "startup" \notin {"open", "compute"}
    BY DEF Place
  <2>9. spawned' \subseteq Box
    BY <1>2, <2>3, LockParts
  <2> QED
    BY <1>0, <1>1, <1>2, <2>6, <2>7, <2>8, <2>9, LockParts, LoudGoto
<1>3. CASE Goto(w, "unlock") /\ UNCHANGED spawned
  <2>1. AttemptsKept /\ NoneStarted
    BY <1>0, InvParts, SameAttempts
  <2>2. "unlock" \in Place \ {"sweep", "admit_launch", "create"}
    BY DEF Place
  <2> QED
    BY <1>0, <1>1, <1>3, <2>1, <2>2, ControlTyped, QuietGoto
<1> QED
  BY <1>2, <1>3 DEF SpawnClient

(* A step of w that starts no launch; it may end one and give back the lock.  *)
LEMMA ReleaseStep ==
  ASSUME ResearchInv, NEW w \in Supervisor,
         sup' \in [Supervisor -> SupervisorState],
         \A v \in Supervisor : v # w => sup'[v] = sup[v],
         \A v \in Supervisor : Follows(v),
         sup'[w].at \notin {"admit_launch", "create"},
         UNCHANGED <<control, tries, upkeep>>,
         stray' \in BOOLEAN, stray => stray', spawned' \subseteq spawned,
         boxes' \subseteq boxes, researchFaults' \in 0..MaxResearchFaults,
         launch' = launch \/ (launch = w /\ launch' = Nobody),
         BoxOf(w) \in spawned' =>
           \/ stray'
           \/ /\ launch' = launch /\ BoxOf(w)' = BoxOf(w)
              /\ sup'[w].at \in {"startup", "remove"}
  PROVE  AttemptsKept /\ ResearchInv'
<1>1. /\ launch' \in Supervisor \union {Upkeep, Nobody} /\ spawned' \subseteq Box
      /\ upkeep # "off" => launch' = Upkeep
  BY LockParts
<1>2. ResearchTypeOK'
  BY <1>1 DEF ResearchInv, ResearchTypeOK
<1>3. ControlKept
  BY DEF ControlKept
<1>4. LaunchHeld'
  <2>1. \A v \in Supervisor : sup'[v].at \in {"admit_launch", "create"} =>
          launch' = v \/ stray'
    BY DEF ResearchInv, LaunchHeld
  <2> QED
    BY <1>1, <2>1 DEF LaunchHeld
<1>5. SpawnedBehindLock'
  <2> SUFFICES ASSUME NEW b \in spawned', ~stray'
               PROVE  /\ launch' = b.by /\ b = BoxOf(b.by)'
                      /\ sup'[b.by].at \in {"startup", "remove"}
    BY DEF SpawnedBehindLock
  <2>1. /\ b.by \in Supervisor /\ launch = b.by /\ b = BoxOf(b.by)
        /\ sup[b.by].at \in {"startup", "remove"}
    BY SpawnedParts
  <2>2. CASE b.by = w
    BY <2>1, <2>2
  <2>3. CASE b.by # w
    <3>1. sup'[b.by] = sup[b.by] /\ launch' = launch
      BY <2>1, <2>3
    <3> QED
      BY <2>1, <3>1, BoxUnmoved
  <2> QED
    BY <2>2, <2>3
<1>6. UpkeepQuiet'
  BY DEF ResearchInv, UpkeepQuiet, Runs
<1>7. \A v \in Supervisor : BoxOf(v) \in boxes' /\ BoxOf(v) \notin boxes =>
        sup[v].at \notin {"open", "compute"} \/ stray'
  OBVIOUS
<1> QED
  BY <1>2, <1>3, <1>4, <1>5, <1>6, <1>7, LoudStep

LEMMA ReleaseGoto ==
  ASSUME ResearchInv, NEW w \in Supervisor,
         NEW place \in Place \ {"sweep", "admit_launch", "create"}, Goto(w, place),
         place \in Holding => sup[w].at \in Holding,
         place \in {"open", "compute"} => sup[w].at \in {"open", "compute"},
         place \in Settled =>
           sup[w].at \in Settled \/ (sup[w].at = "sweep" /\ sup[w].seen = {}),
         UNCHANGED <<control, tries, upkeep>>,
         stray' \in BOOLEAN, stray => stray', spawned' \subseteq spawned,
         boxes' \subseteq boxes, researchFaults' \in 0..MaxResearchFaults,
         launch' = launch \/ (launch = w /\ launch' = Nobody),
         BoxOf(w) \in spawned' => stray' \/ sup[w].at \notin {"startup", "remove"}
  PROVE  AttemptsKept /\ ResearchInv'
<1>1. /\ sup' \in [Supervisor -> SupervisorState] /\ sup'[w].at = place
      /\ \A v \in Supervisor : v # w => sup'[v] = sup[v]
  BY InvParts, GotoParts
<1>2. \A v \in Supervisor : Follows(v)
  BY InvParts, GotoFollows
<1>3. sup'[w].at \notin {"admit_launch", "create"}
  BY <1>1
<1>4. BoxOf(w) \in spawned' => stray'
  BY SpawnedParts, LockParts
<1> QED
  BY <1>1, <1>2, <1>3, <1>4, ReleaseStep

LEMMA StartupHolds ==
  ASSUME ResearchInv, NEW w \in Supervisor, Startup(w)
  PROVE  AttemptsKept /\ ResearchInv'
<1>0. sup[w].at = "startup"
      /\ UNCHANGED <<control, tries, spawned, boxes, launch, upkeep, researchFaults>>
  BY DEF Startup
<1>1. sup[w].at \in Holding /\ sup[w].at \in Settled
  BY <1>0 DEF Holding, Guarded, Settled
<1>2. CASE Goto(w, "verify") /\ stray' = (stray \/ BoxOf(w) \in spawned)
  <2>1. "verify" \in Place \ {"sweep", "admit_launch", "create"}
        /\ "verify" \notin {"open", "compute"}
    BY DEF Place
  <2>2. stray' \in BOOLEAN /\ (stray => stray')
    BY <1>2
  <2>3. BoxOf(w) \in spawned' => stray'
    BY <1>0, <1>2
  <2> QED
    BY <1>0, <1>1, <1>2, <2>1, <2>2, <2>3, LockParts, ReleaseGoto
<1>3. CASE Goto(w, "remove") /\ UNCHANGED stray
  <2>1. "remove" \in Place /\ "remove" \notin {"open", "compute", "sweep"}
    BY DEF Place
  <2>2. /\ sup' \in [Supervisor -> SupervisorState] /\ sup'[w].at = "remove"
        /\ \A v \in Supervisor : v # w => sup'[v] = sup[v]
        /\ sup'[w].job = sup[w].job /\ sup'[w].generation = sup[w].generation
    BY <1>3, <2>1, InvParts, GotoParts
  <2>3. \A v \in Supervisor : Follows(v)
    BY <1>1, <1>3, <2>1, InvParts, GotoFollows
  <2>4. BoxOf(w)' = BoxOf(w)
    BY <2>2, BoxUnmoved
  <2> QED
    BY <1>0, <1>3, <2>2, <2>3, <2>4, LockParts, ReleaseStep
<1> QED
  BY <1>2, <1>3 DEF Startup

LEMMA OpenHolds ==
  ASSUME ResearchInv, NEW w \in Supervisor, OpenBarrier(w)
  PROVE  AttemptsKept /\ ResearchInv'
<1>0. sup[w].at = "open"
      /\ UNCHANGED <<control, tries, spawned, boxes, upkeep, stray, researchFaults>>
  BY DEF OpenBarrier
<1>1. sup[w].at \in Holding /\ sup[w].at \in Settled
  BY <1>0 DEF Holding, Guarded, Settled
<1>2. PICK place : place \in {"compute", "remove"} /\ Goto(w, place)
  BY DEF OpenBarrier
<1>3. place \in Place \ {"sweep", "admit_launch", "create"}
  BY <1>2 DEF Place
<1>4. launch' = launch \/ (launch = w /\ launch' = Nobody)
  BY DEF OpenBarrier
<1> QED
  BY <1>0, <1>1, <1>2, <1>3, <1>4, LockParts, ReleaseGoto

LEMMA FaultCounted ==
  ASSUME ResearchInv, Faulty \/ UNCHANGED researchFaults
  PROVE  researchFaults' \in 0..MaxResearchFaults
<1>1. MaxResearchFaults \in Nat
  BY ResearchAssumption
<1> QED
  BY <1>1, SMTT(60) DEF ResearchInv, ResearchTypeOK, Faulty

LEMMA TidyHolds ==
  ASSUME ResearchInv, NEW w \in Supervisor, Tidy(w)
  PROVE  AttemptsKept /\ ResearchInv'
<1>0. sup[w].at = "tidy" /\ boxes' \subseteq boxes
      /\ UNCHANGED <<control, tries, spawned, launch, upkeep, stray>>
  BY DEF Tidy
<1>1. sup[w].at \in Holding /\ sup[w].at \in Settled
  BY <1>0 DEF Holding, Guarded, Settled
<1>2. PICK place : place \in {"finish", "report"} /\ Goto(w, place)
  BY DEF Tidy
<1>3. place \in Place \ {"sweep", "admit_launch", "create"}
      /\ place \notin {"open", "compute"}
  BY <1>2 DEF Place
<1>4. researchFaults' \in 0..MaxResearchFaults
  BY FaultCounted DEF Tidy
<1> QED
  BY <1>0, <1>1, <1>2, <1>3, <1>4, LockParts, ReleaseGoto

LEMMA RemoveHolds ==
  ASSUME ResearchInv, NEW w \in Supervisor, RemoveSandbox(w)
  PROVE  AttemptsKept /\ ResearchInv'
<1>0. /\ sup[w].at = "remove" /\ Goto(w, "unlock") /\ boxes' \subseteq boxes
      /\ spawned' \subseteq spawned /\ BoxOf(w) \notin spawned'
      /\ UNCHANGED <<control, tries, launch, upkeep, stray>>
  BY DEF RemoveSandbox
<1>1. sup[w].at \in Holding /\ sup[w].at \in Settled
  BY <1>0 DEF Holding, Guarded, Settled
<1>2. "unlock" \in Place \ {"sweep", "admit_launch", "create"}
      /\ "unlock" \notin {"open", "compute"}
  BY DEF Place
<1>3. researchFaults' \in 0..MaxResearchFaults
  BY FaultCounted DEF RemoveSandbox
<1> QED
  BY <1>0, <1>1, <1>2, <1>3, LockParts, ReleaseGoto

LEMMA LeaveHolds ==
  ASSUME ResearchInv, NEW w \in Supervisor, LeaveBarrier(w)
  PROVE  AttemptsKept /\ ResearchInv'
<1>0. sup[w].at = "unlock" /\ Goto(w, sup[w].after)
      /\ UNCHANGED <<control, tries, spawned, boxes, upkeep, stray, researchFaults>>
  BY DEF LeaveBarrier
<1>1. sup[w].at \in Holding /\ sup[w].at \in Settled
  BY <1>0 DEF Holding, Guarded, Settled
<1>2. PICK place : place = sup[w].after
  OBVIOUS
<1>3. place \in {"report", "interrupt", "retire"}
  BY <1>2 DEF ResearchInv, ResearchTypeOK, SupervisorState
<1>4. place \in Place \ {"sweep", "admit_launch", "create"}
      /\ place \notin {"open", "compute"}
  BY <1>3 DEF Place
<1>5. launch' = launch \/ (launch = w /\ launch' = Nobody)
  BY DEF LeaveBarrier
<1> QED
  BY <1>0, <1>1, <1>2, <1>4, <1>5, LockParts, ReleaseGoto

LEMMA CrashHolds ==
  ASSUME ResearchInv, NEW w \in Supervisor, CrashSupervisor(w)
  PROVE  AttemptsKept /\ ResearchInv'
<1>0. /\ Goto(w, "dead") /\ stray' = (stray \/ BoxOf(w) \in spawned)
      /\ UNCHANGED <<control, tries, spawned, boxes, upkeep>>
  BY DEF CrashSupervisor
<1>1. researchFaults' \in 0..MaxResearchFaults
  BY FaultCounted DEF CrashSupervisor
<1>2. "dead" \in Place \ {"sweep", "admit_launch", "create"} /\ "dead" \notin Holding
      /\ "dead" \notin Settled /\ "dead" \notin {"open", "compute"}
  BY DEF Place, Holding, Settled, Guarded
<1>3. launch' = launch \/ (launch = w /\ launch' = Nobody)
  BY DEF CrashSupervisor
<1>4. stray' \in BOOLEAN /\ (stray => stray') /\ (BoxOf(w) \in spawned' => stray')
  BY <1>0
<1> QED
  BY <1>0, <1>1, <1>2, <1>3, <1>4, ReleaseGoto

LEMMA SweepHolds ==
  ASSUME ResearchInv, NEW w \in Supervisor, SweepSandbox(w)
  PROVE  AttemptsKept /\ ResearchInv'
<1>0. sup[w].at = "sweep"
      /\ UNCHANGED <<control, tries, spawned, launch, upkeep, stray, researchFaults>>
  BY DEF SweepSandbox
<1>1. CASE sup[w].seen = {} /\ Goto(w, "capacity") /\ UNCHANGED boxes
  <2>1. "capacity" \in Place \ {"sweep", "admit_launch", "create"}
        /\ "capacity" \notin {"open", "compute"} /\ "capacity" \notin Holding
    BY DEF Place, Holding, Guarded
  <2> QED
    BY <1>0, <1>1, <2>1, LockParts, ReleaseGoto
<1>2. CASE Goto(w, "retire") /\ UNCHANGED boxes
  <2>1. "retire" \in Place \ {"sweep", "admit_launch", "create"}
        /\ "retire" \notin Holding /\ "retire" \notin Settled
    BY DEF Place, Holding, Guarded, Settled
  <2> QED
    BY <1>0, <1>2, <2>1, LockParts, ReleaseGoto
<1>3. ASSUME NEW b \in sup[w].seen, boxes' = boxes \ {b},
             sup' = [sup EXCEPT ![w].seen = @ \ {b}]
      PROVE  AttemptsKept /\ ResearchInv'
  <2>1. PICK m : m = [sup[w] EXCEPT !.seen = @ \ {b}]
    OBVIOUS
  <2>2. sup[w] \in SupervisorState
    BY DEF ResearchInv, ResearchTypeOK
  <2>3. m \in SupervisorState /\ m.at = "sweep" /\ m.seen = sup[w].seen \ {b}
    BY <1>0, <2>1, <2>2 DEF SupervisorState
  <2>4. sup' = [sup EXCEPT ![w] = m]
    BY <1>3, <2>1
  <2>5. /\ sup' \in [Supervisor -> SupervisorState] /\ sup'[w] = m
        /\ \A v \in Supervisor : v # w => sup'[v] = sup[v]
    BY <2>3, <2>4, InvParts, SetSup
  <2>6. Follows(w)
    BY <1>0, <1>3, <2>3, <2>5 DEF Follows, Holding, Guarded, Settled
  <2>7. \A v \in Supervisor : Follows(v)
    BY <2>5, <2>6, StandsStill
  <2>8. sup'[w].at \notin {"admit_launch", "create"} /\ boxes' \subseteq boxes
    BY <1>3, <2>3, <2>5
  <2>9. BoxOf(w) \in spawned' => stray'
    BY <1>0, SpawnedParts, LockParts
  <2> QED
    BY <1>0, <2>5, <2>7, <2>8, <2>9, LockParts, ReleaseStep
<1>4. \/ sup[w].seen = {} /\ Goto(w, "capacity") /\ UNCHANGED boxes
      \/ Goto(w, "retire") /\ UNCHANGED boxes
      \/ \E b \in sup[w].seen :
           boxes' = boxes \ {b} /\ sup' = [sup EXCEPT ![w].seen = @ \ {b}]
  BY DEF SweepSandbox
<1> QED
  BY <1>1, <1>2, <1>3, <1>4

LEMMA UnwindHolds ==
  ASSUME ResearchInv, NEW w \in Supervisor, Terminate(w) \/ DatabaseFails(w)
  PROVE  AttemptsKept /\ ResearchInv'
<1>1. PICK after \in {"report", "interrupt", "retire"} : Unwind(w, after)
  BY DEF Terminate, DatabaseFails
<1>2. UNCHANGED <<control, tries, boxes, launch, upkeep, stray>>
  BY DEF Terminate, DatabaseFails
<1>3. PICK to :
        /\ sup' = [sup EXCEPT ![w] = Moved([sup[w] EXCEPT !.after = after], to)]
        /\ \/ to = "remove" /\ sup[w].at \in {"startup", "verify", "open", "compute"}
           \/ to = "unlock" /\ sup[w].at \in {"admit_launch", "create", "remove", "tidy",
                                              "unlock"}
           \/ to = after /\ sup[w].at \in {"guard", "barrier", "finish"}
           \/ /\ to \in {"dead", "retire"}
              /\ sup[w].at \notin {"startup", "remove"}
  <2>1. PICK p : p = CASE sup[w].at \in {"startup", "verify", "open", "compute"} -> "remove"
              [] sup[w].at \in {"admit_launch", "create", "remove", "tidy", "unlock"} -> "unlock"
              [] sup[w].at \in {"guard", "barrier", "finish"} -> after
              [] sup[w].at \in {"new", "retire", "dead"} -> "dead"
              [] OTHER -> "retire"
    OBVIOUS
  <2>2. sup' = [sup EXCEPT ![w] = Moved([sup[w] EXCEPT !.after = after], p)]
    BY <1>1, <2>1 DEF Unwind
  <2>3. \/ p = "remove" /\ sup[w].at \in {"startup", "verify", "open", "compute"}
        \/ p = "unlock" /\ sup[w].at \in {"admit_launch", "create", "remove", "tidy",
                                          "unlock"}
        \/ p = after /\ sup[w].at \in {"guard", "barrier", "finish"}
        \/ p \in {"dead", "retire"} /\ sup[w].at \notin {"startup", "remove"}
    BY <2>1
  <2> QED
    BY <2>2, <2>3
<1>4. PICK s : s = [sup[w] EXCEPT !.after = after]
  OBVIOUS
<1>5. sup[w] \in SupervisorState
  BY DEF ResearchInv, ResearchTypeOK
<1>6. s \in SupervisorState /\ s.job = sup[w].job /\ s.try = sup[w].try
      /\ s.generation = sup[w].generation
  BY <1>4, <1>5 DEF SupervisorState
<1>7. PICK m : m = Moved(s, to)
  OBVIOUS
<1>8. to \in Place /\ to \notin {"sweep", "admit_launch", "create", "open", "compute"}
  BY <1>3 DEF Place
<1>9. m \in SupervisorState /\ m.at = to
      /\ (to \notin {"dead", "loop", "retire"} =>
            /\ m.job = s.job /\ m.try = s.try /\ m.generation = s.generation)
  BY <1>6, <1>7, <1>8, MovedParts, SMTT(60)
<1>10. sup' = [sup EXCEPT ![w] = m]
  BY <1>3, <1>4, <1>7
<1>11. /\ sup' \in [Supervisor -> SupervisorState] /\ sup'[w] = m
       /\ \A v \in Supervisor : v # w => sup'[v] = sup[v]
  BY <1>9, <1>10, InvParts, SetSup
<1>12. to \in Holding => sup[w].at \in Holding /\ to \notin {"dead", "loop", "retire"}
  BY <1>3 DEF Holding, Guarded
<1>13. to \in Settled => sup[w].at \in Settled
  BY <1>3 DEF Settled, Guarded
<1>14. Follows(w)
  BY <1>6, <1>8, <1>9, <1>11, <1>12, <1>13 DEF Follows
<1>15. \A v \in Supervisor : Follows(v)
  BY <1>11, <1>14, StandsStill
<1>16. spawned' = IF sup[w].at \in {"remove", "tidy"} THEN spawned \ {BoxOf(w)} ELSE spawned
  BY <1>1 DEF Unwind
<1>17. ASSUME BoxOf(w) \in spawned', ~stray'
       PROVE  BoxOf(w)' = BoxOf(w) /\ sup'[w].at = "remove"
  <2>1. BoxOf(w) \in spawned /\ sup[w].at # "remove"
    BY <1>16, <1>17
  <2>2. sup[w].at = "startup"
    BY <1>2, <1>17, <2>1, SpawnedParts, LockParts
  <2>3. to = "remove"
    BY <1>3, <2>2
  <2> QED
    BY <1>6, <1>9, <1>11, <2>3, BoxUnmoved
<1>18. researchFaults' \in 0..MaxResearchFaults
  BY <1>1, FaultCounted DEF Unwind
<1>19. sup'[w].at \notin {"admit_launch", "create"} /\ spawned' \subseteq spawned
  BY <1>8, <1>9, <1>11, <1>16
<1> QED
  BY <1>2, <1>11, <1>15, <1>17, <1>18, <1>19, LockParts, ReleaseStep

-----------------------------------------------------------------------------
(* A heartbeat that passes the fence: whoever beats has the one running       *)
(* attempt, so no other supervisor has been verified and not yet swept.       *)
LEMMA BeatHolds ==
  ASSUME ResearchInv, NEW w \in Supervisor, MayBeat(w), Beat(w), NEW to, Goto(w, to),
         \/ sup[w].at = "guard" /\ to = "barrier"
         \/ sup[w].at = "admit_launch" /\ to = "create"
         \/ sup[w].at = "verify" /\ to = "open",
         UNCHANGED <<spawned, boxes, launch, upkeep, stray, researchFaults>>
  PROVE  AttemptsKept /\ ResearchInv'
<1>1. sup[w].at \in Holding
  BY DEF Holding, Guarded
<1>2. PICK j, n : j = sup[w].job /\ n = sup[w].try
  OBVIOUS
<1>3. /\ j \in ResearchJob /\ n \in Nat /\ n = Len(tries[j])
      /\ StatusOf(j) = "running" /\ Runs(j, n) /\ tries[j][n].worker = w
  BY <1>1, <1>2, OwnsRuns DEF MayBeat, FencePasses
<1>4. AttemptsKept /\ NoneStarted
  <2>1. tries' = [tries EXCEPT ![j][n].leased = TRUE]
    BY <1>2 DEF Beat
  <2>2. tries' = [i \in ResearchJob |->
                    IF i \in {j} THEN [tries[i] EXCEPT ![Len(tries[i])].leased = TRUE]
                    ELSE tries[i]]
    BY <1>3, <2>1, InvParts DEF ResearchTypeOK
  <2>3. {j} \in SUBSET ResearchJob /\ \A i \in {j} : StatusOf(i) = "running"
    BY <1>3
  <2> QED
    BY <2>2, <2>3, InvParts, LeaseKept
<1>5. control' \in ControlRow /\ control'.worker = w
  BY PulsedTyped DEF Beat
<1>6. to \in Place
  BY DEF Place
<1>7. /\ sup' \in [Supervisor -> SupervisorState] /\ sup'[w].at = to
      /\ \A v \in Supervisor : v # w => sup'[v] = sup[v]
      /\ sup'[w].job = sup[w].job /\ sup'[w].try = sup[w].try
  BY <1>6, InvParts, GotoParts
<1>8. ResearchTypeOK'
  BY <1>4, <1>5, <1>7 DEF ResearchInv, ResearchTypeOK, AttemptsKept, ControlRow
<1>9. PastEnded' /\ OneRunning' /\ AttemptHeld'
  <2>1. \A v \in Supervisor : sup'[v].at \in Holding =>
          sup[v].at \in Holding /\ sup'[v].job = sup[v].job /\ sup'[v].try = sup[v].try
    BY <1>1, <1>7
  <2> QED
    BY <1>4, <2>1, HeldKept
<1>10. LaunchHeld' /\ SpawnedBehindLock' /\ UpkeepQuiet'
  <2>1. Calm(w)
    BY <1>7 DEF Calm
  <2>2. \A v \in Supervisor : Calm(v)
    BY <1>7, <2>1, StandsStill
  <2> QED
    BY <1>4, <2>2, LocksKept
<1>11. Overtaken'
  <2> SUFFICES ASSUME NEW v \in Supervisor, NEW x \in Supervisor, v # x, Verified(x)',
                      ~stray'
               PROVE  /\ control'.worker # v
                      /\ sup'[v].at \in Holding => ~Runs(sup[v].job, sup[v].try)'
    BY DEF Overtaken
  <2>1. x = w
    <3> SUFFICES ASSUME x # w
                 PROVE  FALSE
      OBVIOUS
    <3>1. sup'[x] = sup[x]
      BY <1>7
    <3>2. Verified(x) /\ ~stray
      BY <3>1, BoxUnmoved DEF Verified
    <3>3. ~Runs(j, n)
      BY <3>2, <1>1, <1>2 DEF ResearchInv, Overtaken
    <3> QED
      BY <3>3, <1>3
  <2>2. control'.worker # v
    BY <1>5, <2>1
  <2>3. ASSUME sup'[v].at \in Holding
        PROVE  ~Runs(sup[v].job, sup[v].try)'
    <3>1. sup'[v] = sup[v] /\ sup[v].at \in Holding
      BY <1>7, <2>1, <2>3
    <3>2. PICK i, m : i = sup[v].job /\ m = sup[v].try
      OBVIOUS
    <3>3. /\ i \in ResearchJob /\ m \in Nat /\ tries[i][m].worker = v
      BY <3>1, <3>2, HeldIndex
    <3>4. ~Runs(i, m)
      BY <3>3, <1>3, <2>1 DEF ResearchInv, OneRunning
    <3>5. ~Runs(i, m)'
      BY <3>3, <3>4, <1>4 DEF NoneStarted
    <3> QED
      BY <3>1, <3>2, <3>5 DEF Runs
  <2> QED
    BY <2>2, <2>3
<1> QED
  BY <1>4, <1>8, <1>9, <1>10, <1>11 DEF ResearchInv

LEMMA CheckpointHolds ==
  ASSUME ResearchInv, NEW w \in Supervisor,
         EnterGuard(w) \/ AdmitLaunch(w) \/ VerifyLaunch(w)
  PROVE  AttemptsKept /\ ResearchInv'
<1>1. PICK from, to, place :
        /\ \/ from = "guard" /\ to = "barrier" /\ place = "report"
           \/ from = "admit_launch" /\ to = "create" /\ place = "unlock"
           \/ from = "verify" /\ to = "open" /\ place = "remove"
        /\ Checkpoint(w, from, to, place)
  BY DEF EnterGuard, AdmitLaunch, VerifyLaunch
<1>2. /\ sup[w].at = from
      /\ UNCHANGED <<spawned, boxes, launch, upkeep, stray, researchFaults>>
  BY <1>1 DEF Checkpoint
<1>3. CASE MayBeat(w)
  <2>1. Beat(w) /\ Goto(w, to)
    BY <1>1, <1>3 DEF Checkpoint
  <2> QED
    BY <1>1, <1>2, <1>3, <2>1, BeatHolds
<1>4. CASE ~MayBeat(w)
  <2>1. Refused(w, place)
    BY <1>1, <1>4 DEF Checkpoint
  <2>2. sup[w].at \in Holding /\ sup[w].at \in Settled
    BY <1>1, <1>2 DEF Holding, Guarded, Settled
  <2> QED
    BY <1>1, <1>2, <2>1, <2>2, RefusedHolds
<1> QED
  BY <1>3, <1>4

(* A claim: no attempt runs, and no verified sandbox is left.                 *)
LEMMA LeastExists ==
  ASSUME NEW T, T \subseteq Nat, T # {}
  PROVE  \E x \in T : \A y \in T : x <= y
<1>1. \E x \in T : \A y \in T : ~(<<y, x>> \in OpToRel(<, Nat))
  BY NatLessThanWellFounded, WFMin, ZenonT(60)
<1>2. PICK x \in T : \A y \in T : ~(<<y, x>> \in OpToRel(<, Nat))
  BY <1>1
<1>3. \A y \in T : ~(y < x)
  BY <1>2 DEF OpToRel
<1> QED
  BY <1>3, SMTT(60)

LEMMA NoneRunning ==
  ASSUME ResearchInv, RunningJobs = {}, NEW j \in ResearchJob, NEW n \in Nat
  PROVE  ~Runs(j, n)
<1> SUFFICES ASSUME n \in DOMAIN tries[j], tries[j][n].status = "running"
             PROVE  FALSE
  BY DEF Runs
<1>1. n = Len(tries[j])
  BY DEF ResearchInv, PastEnded, Ended
<1>2. tries[j] # <<>>
  BY InvParts, TryParts
<1>3. StatusOf(j) = "running"
  BY <1>1, <1>2 DEF StatusOf, CurrentTry
<1> QED
  BY <1>3 DEF RunningJobs

LEMMA ClaimedHolds ==
  ASSUME ResearchInv, NEW w \in Supervisor, sup[w].at = "claim", ControlFree,
         RunningJobs = {}, control.worker = w,
         NEW j \in ResearchJob, StatusOf(j) = "queued",
         tries' = [tries EXCEPT ![j][Len(tries[j])] =
                     [status |-> "running", worker |-> w, leased |-> TRUE,
                      generation |-> sup[w].generation]],
         sup' = [sup EXCEPT ![w].at = "guard", ![w].job = j,
                            ![w].try = Len(tries[j]), ![w].after = "report"],
         UNCHANGED <<control, spawned, boxes, launch, upkeep, stray, researchFaults>>
  PROVE  AttemptsKept /\ ResearchInv'
<1>1. /\ tries[j] # <<>> /\ CurrentTry(j).status = "queued"
      /\ Len(tries[j]) \in Nat /\ Len(tries[j]) \in DOMAIN tries[j]
  BY OpenJob, InvParts, TryParts
<1>2. PICK u : u = [status |-> "running", worker |-> w, leased |-> TRUE,
                    generation |-> sup[w].generation]
  OBVIOUS
<1>3. sup[w] \in SupervisorState /\ sup[w].generation \in Nat
  BY DEF ResearchInv, ResearchTypeOK, SupervisorState
<1>4. u \in Try /\ u.status = "running" /\ u.worker = w
  BY <1>2, <1>3 DEF Try
<1>5. PICK t : t = [i \in {j} |-> u]
  OBVIOUS
<1>6. ReplacedBy({j}, t)
  <2>1. tries' = [tries EXCEPT ![j] = [tries[j] EXCEPT ![Len(tries[j])] = u]]
    BY <1>2
  <2> QED
    BY <1>5, <2>1, InvParts DEF ReplacedBy, ResearchTypeOK
<1>7. Replaceable({j}, t)
  BY <1>1, <1>4, <1>5 DEF Replaceable
<1>8. {j} \in SUBSET ResearchJob
  OBVIOUS
<1>9. AttemptsKept
      /\ \A i \in ResearchJob : \A n \in Nat : Runs(i, n)' =>
           Runs(i, n) \/ (i = j /\ n = Len(tries[j]))
  BY <1>6, <1>7, <1>8, InvParts, Replaced
<1>10. \A i \in ResearchJob : \A n \in Nat : Runs(i, n)' => i = j /\ n = Len(tries[j])
  BY <1>9, NoneRunning
<1>11. PICK m : m = [sup[w] EXCEPT !.at = "guard", !.job = j, !.try = Len(tries[j]),
                                   !.after = "report"]
  OBVIOUS
<1>12. m \in SupervisorState
  BY <1>1, <1>3, <1>11 DEF SupervisorState, Place
<1>13. m.at = "guard" /\ m.job = j /\ m.try = Len(tries[j])
  BY <1>3, <1>11 DEF SupervisorState
<1>14. sup' = [sup EXCEPT ![w] = m]
  BY <1>11, InvParts DEF ResearchTypeOK
<1>15. /\ sup' \in [Supervisor -> SupervisorState] /\ sup'[w] = m
       /\ \A v \in Supervisor : v # w => sup'[v] = sup[v]
  BY <1>12, <1>14, InvParts, SetSup
<1>16. ResearchTypeOK'
  BY <1>9, <1>15 DEF ResearchInv, ResearchTypeOK, AttemptsKept
<1>17. PastEnded' /\ OneRunning'
  BY <1>9, <1>10, SMTT(60) DEF AttemptsKept, OneRunning
<1>18. AttemptHeld'
  <2> SUFFICES ASSUME NEW v \in Supervisor, sup'[v].at \in Holding
               PROVE  /\ sup'[v].job \in ResearchJob
                      /\ sup'[v].try \in DOMAIN tries'[sup'[v].job]
                      /\ tries'[sup'[v].job][sup'[v].try].worker = v
                      /\ tries'[sup'[v].job][sup'[v].try].status # "queued"
    BY DEF AttemptHeld
  <2>1. CASE v = w
    <3>1. tries'[j] = [tries[j] EXCEPT ![Len(tries[j])] = u]
      BY <1>5, <1>6 DEF ReplacedBy
    <3>2. Len(tries[j]) \in DOMAIN tries'[j] /\ tries'[j][Len(tries[j])] = u
      BY <1>1, <3>1
    <3> QED
      BY <1>4, <1>13, <1>15, <2>1, <3>2, SMTT(60)
  <2>2. CASE v # w
    <3>1. sup'[v] = sup[v]
      BY <1>15, <2>2
    <3> QED
      BY <1>9, <3>1, HeldOne
  <2> QED
    BY <2>1, <2>2
<1>19. LaunchHeld'
  BY <1>13, <1>15 DEF ResearchInv, LaunchHeld
<1>20. SpawnedBehindLock'
  <2> SUFFICES ASSUME NEW b \in spawned, ~stray
               PROVE  /\ launch' = b.by /\ b = BoxOf(b.by)'
                      /\ sup'[b.by].at \in {"startup", "remove"}
    BY DEF SpawnedBehindLock
  <2>1. /\ b.by \in Supervisor /\ launch = b.by /\ b = BoxOf(b.by)
        /\ sup[b.by].at \in {"startup", "remove"}
    BY SpawnedParts
  <2>2. sup'[b.by] = sup[b.by]
    BY <1>15, <2>1
  <2> QED
    BY <2>1, <2>2, BoxUnmoved
<1>21. UpkeepQuiet'
  BY DEF UpkeepQuiet, ControlFree
<1>22. Overtaken'
  <2> SUFFICES ASSUME NEW x \in Supervisor, Verified(x)', ~stray'
               PROVE  FALSE
    BY DEF Overtaken
  <2>1. x # w
    BY <1>13, <1>15 DEF Verified
  <2>2. sup'[x] = sup[x]
    BY <1>15, <2>1
  <2>3. Verified(x) /\ ~stray
    BY <2>2, BoxUnmoved DEF Verified
  <2> QED
    BY <2>1, <2>3 DEF ResearchInv, Overtaken
<1> QED
  BY <1>9, <1>16, <1>17, <1>18, <1>19, <1>20, <1>21, <1>22 DEF ResearchInv

LEMMA ClaimHolds ==
  ASSUME ResearchInv, NEW w \in Supervisor, ClaimJob(w)
  PROVE  AttemptsKept /\ ResearchInv'
<1> DEFINE authority == /\ ~control.maintenance /\ control.live /\ control.worker = w
                        /\ control.generation = sup[w].generation
           queued == {j \in ResearchJob : StatusOf(j) = "queued"}
           oldest == CHOOSE i \in queued : \A k \in queued : i <= k
<1>0. /\ sup[w].at = "claim"
      /\ UNCHANGED <<spawned, boxes, launch, upkeep, stray, researchFaults>>
  BY DEF ClaimJob
<1>1. CASE Refused(w, "retire") \/ Refused(w, "loop")
  BY <1>0, <1>1, RefusedHolds
<1>2. CASE /\ EndAll({i \in RunningJobs : ExpiredTry(CurrentTry(i))}, "interrupted")
           /\ Goto(w, "loop") /\ UNCHANGED control
  <2>1. PICK J : J = {i \in RunningJobs : ExpiredTry(CurrentTry(i))}
    OBVIOUS
  <2>2. EndAll(J, "interrupted") /\ control' = control /\ Goto(w, "loop")
    BY <1>2, <2>1
  <2>3. J \in SUBSET ResearchJob /\ "interrupted" \in Ended
        /\ \A j \in J : StatusOf(j) \in {"queued", "running"}
    BY <2>1 DEF RunningJobs, Ended
  <2>4. AttemptsKept /\ NoneStarted
    BY <2>2, <2>3, InvParts, EndAllKept
  <2>5. "loop" \in Place \ {"sweep", "admit_launch", "create"}
        /\ "loop" \notin Holding /\ "loop" \notin Settled
    BY DEF Place, Holding, Settled, Guarded
  <2> QED
    BY <1>0, <2>2, <2>4, <2>5, ControlTyped, QuietGoto
<1>3. CASE /\ ControlFree /\ RunningJobs = {} /\ authority /\ queued # {}
           /\ tries' = [tries EXCEPT ![oldest][Len(tries[oldest])] =
                 [status |-> "running", worker |-> w, leased |-> TRUE,
                  generation |-> sup[w].generation]]
           /\ sup' = [sup EXCEPT ![w].at = "guard", ![w].job = oldest,
                                 ![w].try = Len(tries[oldest]),
                                 ![w].after = "report"]
           /\ UNCHANGED control
  <2>1. queued \subseteq Nat
    BY DEF ResearchJob
  <2>2. \E x \in queued : \A y \in queued : x <= y
    <3> HIDE DEF queued
    <3> QED
      BY <1>3, <2>1, LeastExists
  <2>3. oldest \in queued
    BY <2>2
  <2>4. PICK j : j = oldest
    OBVIOUS
  <2>5. j \in ResearchJob /\ StatusOf(j) = "queued"
    BY <2>3, <2>4
  <2>6. /\ tries' = [tries EXCEPT ![j][Len(tries[j])] =
               [status |-> "running", worker |-> w, leased |-> TRUE,
                generation |-> sup[w].generation]]
        /\ sup' = [sup EXCEPT ![w].at = "guard", ![w].job = j,
                              ![w].try = Len(tries[j]), ![w].after = "report"]
    BY <1>3, <2>4
  <2>7. control.worker = w
    BY <1>3
  <2> HIDE DEF authority, queued, oldest
  <2> QED
    BY <1>0, <1>3, <2>5, <2>6, <2>7, ClaimedHolds, ZenonT(60)
<1>4. \/ Refused(w, "retire") \/ Refused(w, "loop")
      \/ /\ EndAll({i \in RunningJobs : ExpiredTry(CurrentTry(i))}, "interrupted")
         /\ Goto(w, "loop") /\ UNCHANGED control
      \/ /\ ControlFree /\ RunningJobs = {} /\ authority /\ queued # {}
         /\ tries' = [tries EXCEPT ![oldest][Len(tries[oldest])] =
               [status |-> "running", worker |-> w, leased |-> TRUE,
                generation |-> sup[w].generation]]
         /\ sup' = [sup EXCEPT ![w].at = "guard", ![w].job = oldest,
                               ![w].try = Len(tries[oldest]),
                               ![w].after = "report"]
         /\ UNCHANGED control
  BY ZenonT(60) DEF ClaimJob
<1> QED
  BY <1>1, <1>2, <1>3, <1>4

-----------------------------------------------------------------------------
(* The server, Docker and maintenance.                                        *)
LEMMA StaysPut ==
  ASSUME sup' = sup
  PROVE  \A v \in Supervisor : Follows(v)
  BY StandsStill

LEMMA LoseLockHolds ==
  ASSUME ResearchInv, NEW w \in Supervisor, LoseLaunchLock(w)
  PROVE  AttemptsKept /\ ResearchInv'
<1>0. /\ launch = w /\ launch' = Nobody /\ stray' = TRUE
      /\ UNCHANGED <<control, tries, sup, spawned, boxes, upkeep>>
  BY DEF LoseLaunchLock
<1>1. researchFaults' \in 0..MaxResearchFaults
  BY FaultCounted DEF LoseLaunchLock
<1>2. ResearchTypeOK'
  BY <1>0, <1>1 DEF ResearchInv, ResearchTypeOK
<1>3. upkeep = "off"
  BY <1>0, LockParts
<1>4. LaunchHeld' /\ SpawnedBehindLock' /\ UpkeepQuiet'
  BY <1>0, <1>3 DEF LaunchHeld, SpawnedBehindLock, UpkeepQuiet
<1>5. ControlKept
  BY <1>0 DEF ControlKept
<1> QED
  BY <1>0, <1>2, <1>4, <1>5, StaysPut, LoudStep

LEMMA AppearsHolds ==
  ASSUME ResearchInv, NEW b \in spawned, ContainerAppears(b)
  PROVE  AttemptsKept /\ ResearchInv'
<1>0. /\ spawned' = spawned \ {b}
      /\ boxes' = IF \E c \in boxes : c.job = b.job THEN boxes ELSE boxes \union {b}
      /\ UNCHANGED <<control, tries, sup, launch, upkeep, stray, researchFaults>>
  BY DEF ContainerAppears
<1>1. ResearchTypeOK'
  <2>1. b \in Box
    BY LockParts
  <2>2. spawned' \subseteq Box /\ boxes' \subseteq Box
    BY <1>0, <2>1, LockParts
  <2>3. \A c, d \in boxes' : c.job = d.job => c = d
    BY <1>0 DEF ResearchInv, ResearchTypeOK
  <2> QED
    BY <1>0, <2>2, <2>3 DEF ResearchInv, ResearchTypeOK
<1>2. LaunchHeld'
  BY <1>0 DEF ResearchInv, LaunchHeld
<1>3. SpawnedBehindLock'
  BY <1>0, BoxUnmoved DEF ResearchInv, SpawnedBehindLock, BoxOf
<1>4. UpkeepQuiet'
  <2>1. upkeep = "off" \/ stray
    BY SpawnedParts, LockParts
  <2>2. \A j \in ResearchJob : \A n \in Nat : Runs(j, n)' = Runs(j, n)
    BY <1>0 DEF Runs
  <2> QED
    BY <1>0, <2>1, <2>2 DEF ResearchInv, UpkeepQuiet
<1>5. ControlKept
  BY <1>0 DEF ControlKept
<1>6. \A v \in Supervisor : BoxOf(v) \in boxes' /\ BoxOf(v) \notin boxes =>
        sup[v].at \notin {"open", "compute"} \/ stray'
  <2> SUFFICES ASSUME NEW v \in Supervisor, BoxOf(v) \in boxes', BoxOf(v) \notin boxes, ~stray'
               PROVE  sup[v].at \notin {"open", "compute"}
    OBVIOUS
  <2>1. BoxOf(v) = b /\ b.by = v
    BY <1>0, LockParts
  <2> QED
    BY <1>0, <2>1, SpawnedParts
<1> QED
  BY <1>0, <1>1, <1>2, <1>3, <1>4, <1>5, <1>6, StaysPut, LoudStep

LEMMA ExitsHolds ==
  ASSUME ResearchInv, NEW b \in boxes, ContainerExits(b)
  PROVE  AttemptsKept /\ ResearchInv'
<1>0. /\ boxes' \subseteq boxes
      /\ UNCHANGED <<control, tries, sup, spawned, launch, upkeep, stray, researchFaults>>
  BY DEF ContainerExits
<1>1. ResearchTypeOK'
  BY <1>0 DEF ResearchInv, ResearchTypeOK
<1>2. LaunchHeld' /\ SpawnedBehindLock'
  BY <1>0 DEF ResearchInv, LaunchHeld, SpawnedBehindLock, BoxOf
<1>3. UpkeepQuiet'
  BY <1>0 DEF ResearchInv, UpkeepQuiet, Runs
<1>4. ControlKept
  BY <1>0 DEF ControlKept
<1> QED
  BY <1>0, <1>1, <1>2, <1>3, <1>4, StaysPut, LoudStep

(* A maintenance step that leaves the attempts alone.                         *)
LEMMA UpkeepStep ==
  ASSUME ResearchInv, UNCHANGED <<tries, sup, spawned, stray>>,
         control' \in ControlRow, control'.worker \in {control.worker, Nobody},
         boxes' \subseteq boxes, researchFaults' \in 0..MaxResearchFaults,
         upkeep' \in {"off", "locked", "scan", "prove", "interrupt", "quiet", "resume"},
         \/ launch = Nobody /\ launch' = Upkeep
         \/ launch' = launch /\ launch = Upkeep
         \/ launch = Upkeep /\ launch' = Nobody /\ upkeep' = "off",
         UpkeepQuiet'
  PROVE  AttemptsKept /\ ResearchInv'
<1>1. ResearchTypeOK'
  BY DEF ResearchInv, ResearchTypeOK, ControlRow
<1>3. LaunchHeld'
  <2>1. upkeep' # "off" => launch' = Upkeep
    OBVIOUS
  <2>2. \A w \in Supervisor : sup[w].at \in {"admit_launch", "create"} => stray
    BY LockParts DEF ResearchInv, LaunchHeld
  <2> QED
    BY <2>1, <2>2 DEF LaunchHeld
<1>4. SpawnedBehindLock'
  BY LockParts, SpawnedParts DEF SpawnedBehindLock
<1>5. ControlKept
  BY LockParts DEF ControlKept
<1> QED
  BY <1>1, <1>3, <1>4, <1>5, StaysPut, LoudStep

LEMMA RunsSame ==
  ASSUME tries' = tries
  PROVE  \A j \in ResearchJob : \A n \in Nat : Runs(j, n)' = Runs(j, n)
  BY DEF Runs

LEMMA MaintenanceHolds ==
  ASSUME ResearchInv, TakeLocks \/ MaintenanceStep \/ AbortMaintenance
  PROVE  AttemptsKept /\ ResearchInv'
<1>1. CASE TakeLocks
  <2>1. UpkeepQuiet'
    BY <1>1 DEF TakeLocks, UpkeepQuiet
  <2> QED
    BY <1>1, <2>1, ControlTyped, LockParts, UpkeepStep DEF TakeLocks
<1>2. CASE BeginMaintenance
  <2>1. UpkeepQuiet'
    BY <1>2 DEF BeginMaintenance, UpkeepQuiet
  <2>2. control' \in ControlRow /\ control'.worker = control.worker
    <3>1. control' = [control EXCEPT !.maintenance = TRUE]
      BY <1>2 DEF BeginMaintenance
    <3> QED
      BY <3>1, ControlTyped DEF ControlRow
  <2> QED
    BY <1>2, <2>1, <2>2, LockParts, UpkeepStep DEF BeginMaintenance
<1>3. CASE DrainSandboxes
  <2>1. UpkeepQuiet'
    BY <1>3 DEF DrainSandboxes, UpkeepQuiet
  <2> QED
    BY <1>3, <2>1, ControlTyped, LockParts, UpkeepStep DEF DrainSandboxes
<1>4. CASE ProveDrained
  <2>1. UpkeepQuiet'
    BY <1>4 DEF ProveDrained, CloseStore, UpkeepQuiet
  <2> QED
    BY <1>4, <2>1, ControlTyped, LockParts, UpkeepStep DEF ProveDrained, CloseStore
<1>5. CASE InterruptRunning
  <2>0. /\ upkeep = "interrupt" /\ upkeep' = "quiet" /\ EndAll(RunningJobs, "interrupted")
        /\ UNCHANGED <<control, sup, spawned, boxes, launch, stray, researchFaults>>
    BY <1>5 DEF InterruptRunning
  <2>1. RunningJobs \in SUBSET ResearchJob /\ "interrupted" \in Ended
        /\ \A j \in RunningJobs : StatusOf(j) \in {"queued", "running"}
    BY DEF RunningJobs, Ended
  <2>3. /\ AttemptsKept /\ NoneStarted
        /\ \A j \in RunningJobs : \A n \in Nat : ~Runs(j, n)'
    BY <2>0, <2>1, InvParts, EndAllKept
  <2>4. \A j \in ResearchJob : \A n \in Nat : ~Runs(j, n)'
    <3> SUFFICES ASSUME NEW j \in ResearchJob, NEW n \in Nat, Runs(j, n)'
                 PROVE  FALSE
      OBVIOUS
    <3>1. Runs(j, n)
      BY <2>3 DEF NoneStarted
    <3>2. n \in DOMAIN tries[j] /\ tries[j][n].status = "running"
      BY <3>1 DEF Runs
    <3>3. n = Len(tries[j])
      BY <3>2 DEF ResearchInv, PastEnded, Ended
    <3>4. tries[j] # <<>>
      BY <3>2, InvParts, TryParts
    <3>5. j \in RunningJobs
      BY <3>2, <3>3, <3>4 DEF RunningJobs, StatusOf, CurrentTry
    <3> QED
      BY <2>3, <3>5
  <2>5. ResearchTypeOK'
    BY <2>0, <2>3 DEF ResearchInv, ResearchTypeOK, AttemptsKept
  <2>6. PastEnded' /\ OneRunning' /\ AttemptHeld'
    BY <2>0, <2>3, HeldKept
  <2>7. LaunchHeld' /\ SpawnedBehindLock'
    BY <2>0 DEF ResearchInv, LaunchHeld, SpawnedBehindLock, BoxOf
  <2>8. UpkeepQuiet'
    BY <2>0, <2>4 DEF ResearchInv, UpkeepQuiet
  <2>9. ControlKept
    BY <2>0 DEF ControlKept
  <2>10. Overtaken'
    BY <2>0, <2>3, <2>9, StaysPut, OvertakenKept
  <2> QED
    BY <2>3, <2>5, <2>6, <2>7, <2>8, <2>10 DEF ResearchInv
<1>6. CASE AfterRestore
  <2>1. UpkeepQuiet'
    BY <1>6, RunsSame DEF AfterRestore, CloseStore, UpkeepQuiet, ResearchInv
  <2> QED
    BY <1>6, <2>1, ControlTyped, LockParts, UpkeepStep DEF AfterRestore, CloseStore
<1>7. CASE CompleteMaintenance
  <2>1. UpkeepQuiet'
    BY <1>7 DEF CompleteMaintenance, CloseStore, UpkeepQuiet
  <2>2. control' \in ControlRow /\ control'.worker = Nobody
    <3>1. control.generation \in Nat
      BY ControlTyped DEF ControlRow
    <3>2. control.generation + 1 \in Nat
      BY <3>1
    <3> QED
      BY <1>7, <3>2 DEF CompleteMaintenance, ControlRow
  <2> QED
    BY <1>7, <2>1, <2>2, LockParts, UpkeepStep DEF CompleteMaintenance, CloseStore
<1>8. CASE AbortMaintenance
  <2>1. UpkeepQuiet'
    BY <1>8 DEF AbortMaintenance, CloseStore, UpkeepQuiet
  <2>2. researchFaults' \in 0..MaxResearchFaults
    BY <1>8, FaultCounted DEF AbortMaintenance
  <2> QED
    BY <1>8, <2>1, <2>2, ControlTyped, LockParts, UpkeepStep DEF AbortMaintenance, CloseStore
<1> QED
  BY <1>1, <1>2, <1>3, <1>4, <1>5, <1>6, <1>7, <1>8 DEF MaintenanceStep

-----------------------------------------------------------------------------
LEMMA ResearchNextHolds ==
  ASSUME ResearchInv, ResearchNext
  PROVE  AttemptsKept /\ ResearchInv'
<1>1. CASE \E j \in ResearchJob :
             EnqueueJob(j) \/ CancelJob(j) \/ RetryJob(j) \/ AttemptLapses(j)
  BY <1>1, OwnerHolds
<1>2. ASSUME NEW w \in Supervisor, SupervisorStep(w)
      PROVE  AttemptsKept /\ ResearchInv'
  BY <1>2, StartHolds, PulseHolds, ReconcileHolds, ListHolds, SweepHolds, CapacityHolds,
     ClaimHolds, CheckpointHolds, BarrierHolds, SpawnHolds, StartupHolds, OpenHolds,
     ComputeHolds, TidyHolds, FinishHolds, RemoveHolds, LeaveHolds, InterruptHolds,
     RetireHolds DEF SupervisorStep
<1>3. ASSUME NEW w \in Supervisor,
             Terminate(w) \/ DatabaseFails(w) \/ CrashSupervisor(w) \/ LoseLaunchLock(w)
      PROVE  AttemptsKept /\ ResearchInv'
  BY <1>3, UnwindHolds, CrashHolds, LoseLockHolds
<1>4. CASE \/ \E b \in spawned : ContainerAppears(b)
           \/ \E b \in boxes : ContainerExits(b)
  BY <1>4, AppearsHolds, ExitsHolds
<1>5. CASE ControlLapses
  BY <1>5, LapseHolds
<1>6. CASE TakeLocks \/ MaintenanceStep \/ AbortMaintenance
  BY <1>6, MaintenanceHolds
<1> QED
  BY <1>1, <1>2, <1>3, <1>4, <1>5, <1>6 DEF ResearchNext

LEMMA ResearchInvNext ==
  ASSUME ResearchInv, [ResearchNext]_researchVars
  PROVE  ResearchInv'
<1>1. CASE ResearchNext
  BY <1>1, ResearchNextHolds
<1>2. CASE UNCHANGED researchVars
  <2>1. AttemptsKept /\ NoneStarted
    BY <1>2, InvParts, SameAttempts DEF researchVars
  <2> QED
    BY <1>2, <2>1, ControlTyped, OwnerStep DEF researchVars
<1> QED
  BY <1>1, <1>2

LEMMA ResearchInvInit ==
  ASSUME ResearchInit
  PROVE  ResearchInv
<1>1. ResearchTypeOK
  <2>1. control \in ControlRow
    BY DEF ResearchInit, ControlRow
  <2>2. tries \in [ResearchJob -> Seq(Try)]
    BY DEF ResearchInit
  <2>3. sup \in [Supervisor -> SupervisorState]
    BY DEF ResearchInit, Fresh, SupervisorState, Place
  <2>4. researchFaults \in 0..MaxResearchFaults
    BY ResearchAssumption DEF ResearchInit
  <2> QED
    BY <2>1, <2>2, <2>3, <2>4 DEF ResearchInit, ResearchTypeOK, ControlRow
<1>2. \A j \in ResearchJob : DOMAIN tries[j] = {}
  BY DEF ResearchInit
<1>3. \A w \in Supervisor : sup[w].at = "new"
  BY DEF ResearchInit, Fresh
<1>4. PastEnded /\ OneRunning
  BY <1>2 DEF PastEnded, OneRunning, Runs
<1>5. AttemptHeld
  BY <1>3 DEF AttemptHeld, Holding, Guarded
<1>6. LaunchHeld /\ SpawnedBehindLock
  BY <1>3 DEF ResearchInit, LaunchHeld, SpawnedBehindLock
<1>7. UpkeepQuiet
  BY DEF ResearchInit, UpkeepQuiet
<1>8. Overtaken
  BY <1>3 DEF Overtaken, Verified
<1> QED
  BY <1>1, <1>4, <1>5, <1>6, <1>7, <1>8 DEF ResearchInv

(* Attempts, leases, the launch lock, containers and the control row agree    *)
(* after every step of claim_job, heartbeat, launch_barrier, reconcile,       *)
(* interrupt_running and the failures between them.                           *)
THEOREM ResearchInvariant == ResearchSpec => []ResearchInv
<1>1. ResearchInit => ResearchInv
  BY ResearchInvInit
<1>2. ResearchInv /\ [ResearchNext]_researchVars => ResearchInv'
  BY ResearchInvNext
<1> QED
  BY <1>1, <1>2, PTL DEF ResearchSpec

(* Once a controlling supervisor has swept, no other one computes, unless a   *)
(* launch escaped the launch lock: the second heartbeat of verified_sandbox   *)
(* and the sweep of ResearchStore.reconcile together suffice.                 *)
THEOREM OneSupervisorComputes == ResearchSpec => []OneComputation
<1>1. ResearchInv => OneComputation
  BY DEF ResearchInv, Overtaken, OneComputation, Computing, Verified
<1> QED
  BY <1>1, ResearchInvariant, PTL

(* While maintenance changes the database no attempt is recorded as running   *)
(* and no container is up, unless a launch escaped the launch lock.           *)
THEOREM MaintenanceIsQuiet == ResearchSpec => []MaintenanceQuiet
<1>1. ResearchInv => MaintenanceQuiet
  <2> SUFFICES ASSUME ResearchInv, upkeep \in {"quiet", "resume"}
               PROVE  RunningJobs = {} /\ (boxes # {} => stray)
    BY DEF MaintenanceQuiet
  <2>1. boxes # {} => stray
    BY DEF ResearchInv, UpkeepQuiet
  <2>2. ASSUME NEW j \in RunningJobs
        PROVE  FALSE
    <3>1. j \in ResearchJob /\ StatusOf(j) = "running"
      BY DEF RunningJobs
    <3>2. tries[j] # <<>> /\ CurrentTry(j).status = "running"
      BY <3>1, OpenJob
    <3>3. Len(tries[j]) \in DOMAIN tries[j] /\ Len(tries[j]) \in Nat
      BY <3>1, <3>2, InvParts, TryParts
    <3>4. Runs(j, Len(tries[j]))
      BY <3>2, <3>3 DEF Runs, CurrentTry
    <3> QED
      BY <3>1, <3>3, <3>4 DEF ResearchInv, UpkeepQuiet
  <2> QED
    BY <2>1, <2>2
<1> QED
  BY <1>1, ResearchInvariant, PTL

(* No late result, error, interruption or lapse changes an attempt that       *)
(* ended: finish_job and interrupt_job are fenced, and the queue ends only    *)
(* open attempts.                                                             *)
THEOREM OutcomesFinal == ResearchSpec => EndedIsFinal
<1>1. ASSUME ResearchInv, [ResearchNext]_researchVars
      PROVE  [\A j \in ResearchJob : \A n \in DOMAIN tries[j] :
                tries[j][n].status \in Ended =>
                  /\ n \in DOMAIN tries'[j]
                  /\ tries'[j][n] = tries[j][n]]_researchVars
  BY <1>1, ResearchNextHolds DEF AttemptsKept
<1> QED
  BY <1>1, ResearchInvariant, PTL DEF ResearchSpec, EndedIsFinal
=============================================================================
