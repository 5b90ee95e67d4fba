---------------------------- MODULE CircuitBreaker ----------------------------
(***************************************************************************)
(* Circuit breakers of the execution engine: CircuitBreaker (memory of one *)
(* process), CircuitBreakerManager and the breaker rows of                 *)
(* RiskBreachStore, which all processes share.                             *)
(*                                                                         *)
(* One broker, whose breaker every request passes, and several strategies, *)
(* each on an account of its own.  The account serializer admits one       *)
(* request per account at a time.  The breaker code is synchronous, so one *)
(* call of it is one step of its process.                                  *)
(***************************************************************************)
EXTENDS EngineReplicas, Integers, Sequences

CONSTANTS Strategy,         \* strategies, one breaker key each
          BrokerKey,        \* the key of the broker-global breaker
          Threshold, Window, Cooldown,
          MaxClock,         \* bound: the clock
          MaxOpenings,      \* bound: failures recorded and breakers opened
          MaxBreakerFaults  \* bound: restarts and failed database calls

ASSUME BreakerAssumption ==
  /\ BrokerKey \notin Strategy
  /\ {Threshold, Window, Cooldown} \subseteq Nat \ {0}
  /\ {MaxClock, MaxOpenings, MaxBreakerFaults} \subseteq Nat

VARIABLES clock,
          breakers,   \* breakers[r][k]: CircuitBreakerState in replica r
          breach,     \* breach[k]: the persisted row of key k
          serving,    \* serving[s][r]: the request of strategy s in replica r
          tripped,    \* history: tripped[r][k], the time r must refuse until
          forgets,    \* history: the <<r, k>> whose row is not r's to restore
          openedAt,   \* history: openedAt[k], the last time k was opened
          openings, breakerFaults

breakerVars == <<clock, breakers, breach, serving, tripped, forgets, openedAt,
                 openings, breakerFaults>>

BreakKey == Strategy \union {BrokerKey}

\* open_until = 0 stands for None, in memory and for a row that is not there.
BreakerState == [failures : Seq(Nat), open_until : Nat]
Closed == [failures |-> <<>>, open_until |-> 0]
NoBreach == [open_until |-> 0, failures |-> 0]

\* A request is idle, was admitted to open or to close exposure, or ran into an
\* error that handle_signal catches.
Stage == {"idle", "entry", "exit", "raised"}
NoRequest == [r \in Replica |-> "idle"]

\* The type of the state.  A restored or recorded failure is never later than
\* the clock, and memory keeps no more failures than were ever recorded.
BreakerTypeOK ==
  /\ clock \in 0..MaxClock
  /\ \A r \in Replica, k \in BreakKey :
       /\ breakers[r][k] \in BreakerState
       /\ \A i \in 1..Len(breakers[r][k].failures) :
            breakers[r][k].failures[i] <= clock
       /\ Len(breakers[r][k].failures) <= openings
  /\ breach \in [BreakKey -> [open_until : Nat, failures : Nat]]
  /\ serving \in [Strategy -> [Replica -> Stage]]
  /\ tripped \in [Replica -> [BreakKey -> Nat]]
  /\ forgets \subseteq Replica \X BreakKey
  /\ openedAt \in [BreakKey -> Nat]
  /\ openings \in 0..MaxOpenings
  /\ breakerFaults \in 0..MaxBreakerFaults

BreakerInit ==
  /\ clock = 0
  /\ breakers = [r \in Replica |-> [k \in BreakKey |-> Closed]]
  /\ breach = [k \in BreakKey |-> NoBreach]
  /\ serving = [s \in Strategy |-> NoRequest]
  /\ tripped = [r \in Replica |-> [k \in BreakKey |-> 0]]
  /\ forgets = {}
  /\ openedAt = [k \in BreakKey |-> 0]
  /\ openings = 0
  /\ breakerFaults = 0

-------------------------------------------------------------------------------
\* CircuitBreaker.is_open: an expired breaker closes when it is next asked.
IsOpen(b) == clock < b.open_until
Lapsed(b) == b.open_until # 0 /\ ~IsOpen(b)

OpenBreaker(b) == [b EXCEPT !.open_until = clock + Cooldown]

\* The failures still inside the window, with one more now.
CountFailure(b) ==
  [b EXCEPT !.failures =
     Append(SelectSeq(b.failures, LAMBDA t : t >= clock - Window), clock)]

\* A database call succeeds, or raises with or without its effect.
Writes(old, new) ==
  {<<new, FALSE>>} \union
  (IF breakerFaults < MaxBreakerFaults THEN {<<old, TRUE>>, <<new, TRUE>>} ELSE {})
Spent(raised) == breakerFaults' = breakerFaults + (IF raised THEN 1 ELSE 0)

\* The others still tripped whose rows r deletes.
Bereft(r, keys) ==
  {x \in (Replica \ {r}) \X keys : tripped[x[1]][x[2]] > clock}

-------------------------------------------------------------------------------
\* RiskBreachStore.clear_circuit_breaker_state deletes the rows of the key,
\* whoever wrote them.  clear_state swallows an error.
ClearState(r, keys) ==
  \E w \in Writes(breach, [k \in BreakKey |->
                             IF k \in keys THEN NoBreach ELSE breach[k]]) :
    /\ breach' = w[1]
    /\ Spent(w[2])
    /\ forgets' = (forgets \ ({r} \X keys)) \union Bereft(r, keys)

\* CircuitBreakerManager.check_execution.  Both breakers are asked in turn,
\* and one found expired has its row removed.  The broker's refuses everyone,
\* the strategy's only those who would add exposure.  A refusal is recorded,
\* and a record that cannot be written is an unexpected error of the request.
CheckExecution(r, s, reduce_only) ==
  LET halted == IsOpen(breakers[r][BrokerKey])
      asked == {BrokerKey} \union (IF halted THEN {} ELSE {s})
      lapsed == {k \in asked : Lapsed(breakers[r][k])}
      admitted == ~halted /\ (~IsOpen(breakers[r][s]) \/ reduce_only)
  IN /\ serving[s] = NoRequest
     /\ breakers' = [breakers EXCEPT ![r] = [k \in BreakKey |->
                       IF k \in lapsed THEN Closed ELSE @[k]]]
     /\ IF lapsed = {} THEN UNCHANGED <<breach, forgets, breakerFaults>>
        ELSE ClearState(r, lapsed)
     /\ \E answer \in IF ~admitted THEN {"idle", "raised"}
                     ELSE IF reduce_only THEN {"exit"} ELSE {"entry"} :
          serving' = [serving EXCEPT ![s][r] = answer]
     /\ UNCHANGED <<clock, tripped, openedAt, openings>>

-------------------------------------------------------------------------------
\* CircuitBreakerManager.open: memory first, then the row.
PersistOpen(r, k, opened) ==
  \E w \in Writes(breach[k], [open_until |-> opened.open_until,
                              failures |-> Len(opened.failures)]) :
    /\ breach' = [breach EXCEPT ![k] = w[1]]
    /\ breakers' = [breakers EXCEPT ![r][k] = opened]
    /\ tripped' = [tripped EXCEPT ![r][k] = clock + Cooldown]
    /\ forgets' = IF w[2] THEN forgets \union {<<r, k>>} ELSE forgets \ {<<r, k>>}
    /\ openedAt' = [openedAt EXCEPT ![k] = clock]
    /\ Spent(w[2])

\* CircuitBreakerManager.record_failure.
RecordFailure(r, k) ==
  LET b == CountFailure(breakers[r][k])
  IN IF Len(b.failures) >= Threshold
     THEN PersistOpen(r, k, OpenBreaker(b))
     ELSE /\ breakers' = [breakers EXCEPT ![r][k] = b]
          /\ UNCHANGED <<breach, tripped, forgets, openedAt, breakerFaults>>

\* _record_execution_health or _record_broker_failure records a failure.  A
\* write that raises is an unexpected error of the request.
Fails(r, s, k) ==
  /\ serving[s][r] \in {"entry", "exit"}
  /\ openings < MaxOpenings
  /\ RecordFailure(r, k)
  /\ serving' = [serving EXCEPT ![s][r] =
                   IF breakerFaults' > breakerFaults THEN "raised" ELSE "idle"]
  /\ openings' = openings + 1
  /\ UNCHANGED clock

\* record_unexpected_dispatch_failure for any error of the request; an error of
\* its own goes to the caller.
FailsUnexpectedly(r, s, k) ==
  /\ serving[s][r] # "idle"
  /\ openings < MaxOpenings
  /\ RecordFailure(r, k)
  /\ serving' = [serving EXCEPT ![s][r] = "idle"]
  /\ openings' = openings + 1
  /\ UNCHANGED clock

\* CircuitBreakerManager.record_success for the strategy and the broker.
RecordSuccess(r, s) ==
  LET keys == {s, BrokerKey}
  IN /\ serving[s][r] \in {"entry", "exit"}
     /\ breakers' = [breakers EXCEPT ![r] = [k \in BreakKey |->
                       IF k \in keys THEN Closed ELSE @[k]]]
     /\ ClearState(r, keys)
     /\ tripped' = [tripped EXCEPT ![r] = [k \in BreakKey |->
                      IF k \in keys THEN 0 ELSE @[k]]]
     /\ serving' = [serving EXCEPT ![s][r] = "idle"]
     /\ UNCHANGED <<clock, openedAt, openings>>

\* A later gate stops the request, or its orders are neither filled nor
\* rejected: no breaker hears of it.
EndsUnrecorded(r, s) ==
  /\ serving[s][r] \in {"entry", "exit"}
  /\ serving' = [serving EXCEPT ![s][r] = "idle"]
  /\ UNCHANGED <<clock, breakers, breach, tripped, forgets, openedAt, openings,
                 breakerFaults>>

\* The reconciliation worker opens a breaker for a finding or for an error.
ReconcileOpens(r, k) ==
  /\ openings < MaxOpenings
  /\ PersistOpen(r, k, OpenBreaker(breakers[r][k]))
  /\ openings' = openings + 1
  /\ UNCHANGED <<clock, serving>>

\* Mutants: a row without failures is not restored; the cooldown starts over.
RestoreBreakerMutant(k) ==
  IF breach[k].open_until > clock /\ breach[k].failures > 0
  THEN [failures |-> [i \in 1..breach[k].failures |-> clock],
        open_until |-> breach[k].open_until]
  ELSE Closed
RestoreBreakerMutant2(k) ==
  IF breach[k].open_until > clock
  THEN [failures |-> [i \in 1..breach[k].failures |-> clock],
        open_until |-> clock + Cooldown]
  ELSE Closed

\* load_active_circuit_breakers and CircuitBreaker.restore: the deadline of the
\* row, and its count of failures stamped with the time of the start.
RestoreBreaker(k) ==
  IF breach[k].open_until > clock
  THEN [failures |-> [i \in 1..breach[k].failures |-> clock],
        open_until |-> breach[k].open_until]
  ELSE Closed

\* A process stops and starts again: restore_all, which gives up on an error.
RestartEngine(r) ==
  /\ breakerFaults < MaxBreakerFaults
  /\ breakerFaults' = breakerFaults + 1
  /\ \E loaded \in BOOLEAN :
       /\ breakers' = [breakers EXCEPT ![r] =
            [k \in BreakKey |-> IF loaded THEN RestoreBreaker(k) ELSE Closed]]
       /\ tripped' = [tripped EXCEPT ![r] = [k \in BreakKey |->
            IF ~loaded \/ <<r, k>> \in forgets THEN 0 ELSE @[k]]]
  /\ forgets' = forgets \ ({r} \X BreakKey)
  /\ serving' = [s \in Strategy |-> [serving[s] EXCEPT ![r] = "idle"]]
  /\ UNCHANGED <<clock, breach, openedAt, openings>>

ClockAdvances ==
  /\ clock < MaxClock
  /\ clock' = clock + 1
  /\ UNCHANGED <<breakers, breach, serving, tripped, forgets, openedAt,
                 openings, breakerFaults>>

BreakerNext ==
  \/ \E r \in Replica, s \in Strategy :
       \/ \E reduce_only \in BOOLEAN : CheckExecution(r, s, reduce_only)
       \/ \E k \in {s, BrokerKey} : Fails(r, s, k) \/ FailsUnexpectedly(r, s, k)
       \/ RecordSuccess(r, s)
       \/ EndsUnrecorded(r, s)
  \/ \E r \in Replica :
       \/ \E k \in BreakKey : ReconcileOpens(r, k)
       \/ RestartEngine(r)
  \/ ClockAdvances

BreakerSpec == BreakerInit /\ [][BreakerNext]_breakerVars

-------------------------------------------------------------------------------
\* A breaker that opened refuses until its cooldown is over or a request of its
\* own process succeeds, across restarts of that process: no entry is admitted
\* past an open strategy breaker, and nothing past an open broker breaker.  The
\* exceptions are in forgets: the row was not written, could not be read, or
\* was deleted by another process (check_execution, restore_all).
NoAdmissionWhileTripped ==
  [][\A s \in Strategy, r \in Replica :
       serving[s][r] = "idle" /\ serving'[s][r] \in {"entry", "exit"} =>
         /\ tripped[r][BrokerKey] <= clock
         /\ serving'[s][r] = "entry" => tripped[r][s] <= clock]_breakerVars

\* No breaker, in memory or persisted, refuses for longer than one cooldown
\* after it was last opened anywhere, whatever rows a failed clear left behind
\* and however often the engine restarted (CircuitBreaker.restore, clear_state).
CooldownBounded ==
  \A k \in BreakKey :
    /\ breach[k].open_until <= openedAt[k] + Cooldown
    /\ \A r \in Replica : breakers[r][k].open_until <= openedAt[k] + Cooldown
================================================================================
