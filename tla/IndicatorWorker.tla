--------------------------- MODULE IndicatorWorker ---------------------------
(* A bar strategy's worker process (signal_worker.py, runtime_journal.py,     *)
(* bar_recovery.py), its source watermarks (watermark.py), the price upserts  *)
(* that run beside it (price_ingestion_service.py) and the supervisor that    *)
(* restarts it (process_manager.py).                                          *)
(*                                                                            *)
(* A bar is a position 1..MaxBar of its symbol's feed; its content is its     *)
(* content_revision, 0 while the row does not exist. A model state is what it *)
(* was computed from: the revision of each bar fed to the core, and the last  *)
(* bar of the cold start (the "flat boundary"). One transaction is one step.  *)
EXTENDS Integers, FiniteSets, FiniteSetsExt, Sequences

CONSTANTS
  Symbol,          \* the subscribed feeds of one strategy
  Length,          \* Length[s]: bars of feed s that are ever written
  MaxRevision,     \* revisions of one bar
  BootstrapBars,   \* the history a cold start reads
  MaxRestarts,     \* restarts the supervisor grants a crashing worker
  MaxWrites,       \* price transactions
  MaxFaults        \* crashes, failed commits and redeployments

(* Some feed is the longest: there are finitely many, and at least one. A     *)
(* cold start reads some history (bootstrap_bars is 500 unless configured).   *)
ASSUME IndicatorAssumption ==
  /\ Length \in [Symbol -> Nat]
  /\ \E s \in Symbol : \A t \in Symbol : Length[t] <= Length[s]
  /\ BootstrapBars \in Nat \ {0}
  /\ MaxRevision \in Nat /\ MaxRestarts \in Nat
  /\ MaxWrites \in Nat /\ MaxFaults \in Nat

MaxBar == Max({Length[s] : s \in Symbol})
Bar == 1..MaxBar
Epoch == 0         \* the watermark of an empty feed
NoMarker == 0      \* rebuild_from_ts is null

VARIABLES
  prices,      \* prices[s][b]: committed content revision
  watermark,   \* watermark[s]: row of the watermarks table
  runtime,     \* strategy_runtime_states: the durable model state
  journal,     \* strategy_decisions in commit order, each with its signal
  worker,      \* the process: point, captured rows, core, fetched bars
  restarts,    \* restart_count of the supervisor
  writes, faults,
  missed       \* history: bars absent or stale in the state when it was saved

indicatorVars == <<prices, watermark, runtime, journal, worker, restarts,
                   writes, faults, missed>>

ModelState == [saved : BOOLEAN,
               applied : [Symbol -> [Bar -> 0..MaxRevision]],
               boundary : [Symbol -> 0..MaxBar]]

Empty == [saved |-> FALSE,
          applied |-> [s \in Symbol |-> [b \in Bar |-> 0]],
          boundary |-> [s \in Symbol |-> 0]]

WatermarkRow == [row : BOOLEAN, last : 0..MaxBar, from : 0..MaxBar, gen : Nat]

NoRow == [row |-> FALSE, last |-> Epoch, from |-> NoMarker, gen |-> 0]

(* A bar as a catch-up fetched it.                                            *)
FetchedBar == [symbol : Symbol, bar : Bar, revision : 1..MaxRevision]

Point == {"starting", "cold", "replay", "acknowledge", "verify",
          "running", "exited", "rebuild", "disabled"}

WorkerState == [at : Point, seen : [Symbol -> WatermarkRow],
                core : ModelState, batch : SUBSET FetchedBar]

(* The indicator worker keeps well-typed rows and process state.              *)
IndicatorTypeOK ==
  /\ prices \in [Symbol -> [Bar -> 0..MaxRevision]]
  /\ watermark \in [Symbol -> WatermarkRow]
  /\ runtime \in ModelState
  /\ journal \in Seq(Symbol \X Bar)
  /\ worker \in WorkerState
  /\ restarts \in 0..MaxRestarts
  /\ writes \in 0..MaxWrites /\ faults \in 0..MaxFaults
  /\ missed \subseteq Symbol \X Bar

Idle(at) == [at |-> at, seen |-> [s \in Symbol |-> NoRow],
             core |-> Empty, batch |-> {}]

IndicatorInit ==
  /\ prices = [s \in Symbol |-> [b \in Bar |-> 0]]
  /\ watermark = [s \in Symbol |-> NoRow]
  /\ runtime = Empty
  /\ journal = <<>>
  /\ worker = Idle("starting")
  /\ restarts = 0 /\ writes = 0 /\ faults = 0
  /\ missed = {}

Fed(state, s) == {b \in Bar : state.applied[s][b] > 0}
Inception(state, s) == Min(Fed(state, s))
Acknowledged(state, s) == Max(Fed(state, s))
Stored(s) == {b \in Bar : prices[s][b] > 0}
Latest(s) == IF Stored(s) = {} THEN Epoch ELSE Max(Stored(s))

-----------------------------------------------------------------------------
(* One upsert_candles transaction that inserts or revises the bars in B, and  *)
(* requests a rebuild from every watermark that already passed one of them.   *)
PassedMutant(s, earliest) == watermark[s].row /\ watermark[s].last > earliest

Passed(s, earliest) ==
  watermark[s].row /\ (watermark[s].last >= earliest \/ watermark[s].last = Epoch)

UpsertCandles(s, B) ==
  /\ writes < MaxWrites
  /\ \A b \in B : b <= Length[s] /\ prices[s][b] < MaxRevision
  /\ prices' = [prices EXCEPT ![s] =
                  [b \in Bar |-> IF b \in B THEN @[b] + 1 ELSE @[b]]]
  /\ watermark' = IF Passed(s, Min(B))
                  THEN [watermark EXCEPT
                          ![s].from = IF @ = NoMarker THEN Min(B) ELSE Min({@, Min(B)}),
                          ![s].gen = @ + 1]
                  ELSE watermark
  /\ writes' = writes + 1
  /\ UNCHANGED <<runtime, journal, worker, restarts, faults, missed>>

-----------------------------------------------------------------------------
(* Start-up. _bootstrap reads every watermark; a pending rebuild is widened   *)
(* to all feeds, otherwise the durable state is restored or first created.    *)
Pending(rows) == {s \in Symbol : rows[s].from # NoMarker}

Recent(s, through) ==
  LET have == {b \in Stored(s) : b <= through}
  IN  {b \in have : Cardinality({c \in have : c > b}) < BootstrapBars}

Contents(s, B) == [b \in Bar |-> IF b \in B THEN prices[s][b] ELSE 0]

ReadWatermarks ==
  /\ worker.at = "starting" /\ worker.seen = [s \in Symbol |-> NoRow]
  /\ \E s \in Symbol : watermark[s].row
  /\ worker' = [worker EXCEPT !.seen = watermark]
  /\ UNCHANGED <<prices, watermark, runtime, journal, restarts, writes, faults, missed>>

(* request_rebuilds: one boundary for the shared core, on locked rows.        *)
RequestRebuilds ==
  /\ worker.at = "starting" /\ Pending(worker.seen) # {}
  /\ LET earliest == Min({worker.seen[s].from : s \in Pending(worker.seen)})
         boundary(s) == IF watermark[s].from = NoMarker THEN earliest
                        ELSE Min({watermark[s].from, earliest})
         requested == [s \in Symbol |->
                         IF watermark[s].from = boundary(s) THEN watermark[s]
                         ELSE [watermark[s] EXCEPT !.from = boundary(s), !.gen = @ + 1]]
     IN  /\ watermark' = requested
         /\ worker' = [worker EXCEPT !.at = "replay", !.seen = requested]
  /\ UNCHANGED <<prices, runtime, journal, restarts, writes, faults, missed>>

(* _verify_anchor on the first, boundary and last bar of each feed.           *)
Anchors(state, s) ==
  IF Fed(state, s) = {} THEN {}
  ELSE {Inception(state, s), Acknowledged(state, s)}
       \cup (IF state.boundary[s] = 0 THEN {} ELSE {state.boundary[s]})

AnchorsHold ==
  \A s \in Symbol : \A b \in Anchors(runtime, s) : prices[s][b] = runtime.applied[s][b]

Restore ==
  /\ worker.at = "starting" /\ \E s \in Symbol : worker.seen[s].row
  /\ Pending(worker.seen) = {}
  /\ worker' = IF AnchorsHold
               THEN [worker EXCEPT !.at = "running", !.core = runtime]
               ELSE Idle("exited")
  /\ UNCHANGED <<prices, watermark, runtime, journal, restarts, writes, faults, missed>>

ColdStart ==
  /\ worker.at = "starting" /\ \A s \in Symbol : ~watermark[s].row
  /\ worker' = [worker EXCEPT !.at = "cold",
                  !.core = [saved |-> TRUE,
                            applied |-> [s \in Symbol |-> Contents(s, Recent(s, MaxBar))],
                            boundary |-> [s \in Symbol |-> Latest(s)]]]
  /\ UNCHANGED <<prices, watermark, runtime, journal, restarts, writes, faults, missed>>

(* Bars of the interval a state claims to cover that it does not hold as they *)
(* are now.                                                                   *)
Differs(state, s, last) ==
  IF Fed(state, s) = {} THEN {}
  ELSE {b \in Inception(state, s)..last : state.applied[s][b] # prices[s][b]}

(* _restore_or_initialize_runtime: first snapshot and checkpoints together.   *)
InitializeRuntime ==
  /\ worker.at = "cold"
  /\ runtime' = worker.core
  /\ watermark' = [s \in Symbol |-> [NoRow EXCEPT !.row = TRUE,
                                                  !.last = worker.core.boundary[s]]]
  /\ missed' = {p \in Symbol \X Bar :
                  p[2] \in Differs(worker.core, p[1], worker.core.boundary[p[1]])}
  /\ worker' = [worker EXCEPT !.at = "running"]
  /\ UNCHANGED <<prices, journal, restarts, writes, faults>>

(* BarRecovery.rebuild: replay each feed from its original inception through  *)
(* its checkpoint with emissions suppressed; an empty feed takes its first    *)
(* history instead.                                                           *)
Target(s) == IF worker.seen[s].last = Epoch THEN Latest(s) ELSE worker.seen[s].last

FlatBoundaryMutant(s) == Target(s)

FlatBoundary(s) == IF Fed(runtime, s) = {} THEN Target(s) ELSE runtime.boundary[s]

Replayed(s) == IF Fed(runtime, s) = {} THEN Recent(s, Target(s))
               ELSE Stored(s) \cap (Inception(runtime, s)..Target(s))

Rebuild ==
  /\ worker.at = "replay"
  /\ worker' = [worker EXCEPT !.at = "acknowledge",
                  !.core = [saved |-> TRUE,
                            applied |-> [s \in Symbol |-> Contents(s, Replayed(s))],
                            boundary |-> [s \in Symbol |-> FlatBoundary(s)]]]
  /\ UNCHANGED <<prices, watermark, runtime, journal, restarts, writes, faults, missed>>

(* The rebuilt state and acknowledge_rebuilds_on_session in one transaction,  *)
(* refused when any captured row has changed.                                 *)
Fence == watermark = worker.seen

ReachedMutant(state, s) == worker.seen[s].from

Reached(state, s) == IF Fed(state, s) = {} THEN Epoch ELSE Acknowledged(state, s)

AcknowledgeRebuild ==
  /\ worker.at = "acknowledge"
  /\ IF Fence
     THEN /\ runtime' = worker.core
          /\ watermark' = [s \in Symbol |->
                            [watermark[s] EXCEPT !.last = Reached(worker.core, s),
                                                 !.from = NoMarker]]
          /\ missed' = {}
          /\ worker' = [worker EXCEPT !.at = "verify"]
     ELSE /\ worker' = Idle("rebuild")
          /\ UNCHANGED <<runtime, watermark, missed>>
  /\ UNCHANGED <<prices, journal, restarts, writes, faults>>

VerifyRebuild ==
  /\ worker.at = "verify"
  /\ worker' = IF Pending(watermark) = {} THEN [worker EXCEPT !.at = "running"]
               ELSE Idle("rebuild")
  /\ UNCHANGED <<prices, watermark, runtime, journal, restarts, writes, faults, missed>>

-----------------------------------------------------------------------------
(* Live bars. A catch-up reads the checkpoint, fetches every later bar, and   *)
(* processes them oldest first, one transaction each.                         *)
Later(s) == {b \in Stored(s) : b > watermark[s].last}

Oldest(batch) == CHOOSE item \in batch : \A other \in batch : item.bar <= other.bar

Catchup(s) ==
  /\ worker.at = "running" /\ worker.batch = {}
  /\ \/ /\ s \in Pending(watermark)
        /\ worker' = Idle("rebuild")
     \/ /\ s \notin Pending(watermark) /\ Later(s) # {}
        /\ worker' = [worker EXCEPT !.batch =
             {[symbol |-> s, bar |-> b, revision |-> prices[s][b]] : b \in Later(s)}]
  /\ UNCHANGED <<prices, watermark, runtime, journal, restarts, writes, faults, missed>>

(* _lock_current_source_bar and lock_for_processing.                          *)
Current(item) ==
  /\ prices[item.symbol][item.bar] = item.revision
  /\ watermark[item.symbol].from = NoMarker

(* _process_and_ack_source_bar: core, snapshot, decision with its signal, and *)
(* watermark commit together; a bar that changed after it was fetched retires *)
(* the process for a rebuild before the core is touched.                      *)
ProcessBar ==
  /\ worker.at = "running" /\ worker.batch # {}
  /\ LET item == Oldest(worker.batch)
         s == item.symbol
         b == item.bar
         core == [worker.core EXCEPT !.applied[s][b] = item.revision]
     IN  IF Current(item)
         THEN /\ runtime' = core
              /\ watermark' = [watermark EXCEPT ![s].last = b]
              /\ journal' = Append(journal, <<s, b>>)
              /\ missed' = missed \cup {<<s, c>> : c \in
                   {c \in Stored(s) : c > watermark[s].last /\ c < b}}
              /\ worker' = [worker EXCEPT !.core = core, !.batch = @ \ {item}]
         ELSE /\ worker' = Idle("rebuild")
              /\ UNCHANGED <<runtime, watermark, journal, missed>>
  /\ UNCHANGED <<prices, restarts, writes, faults>>

-----------------------------------------------------------------------------
(* A crash anywhere. A commit that failed after the core was fed, and one     *)
(* whose acknowledgement was lost, retire the process the same way.           *)
Crash ==
  /\ faults < MaxFaults
  /\ worker.at \notin {"exited", "rebuild", "disabled"}
  /\ faults' = faults + 1
  /\ worker' = Idle("exited")
  /\ UNCHANGED <<prices, watermark, runtime, journal, restarts, writes, missed>>

(* _monitor_processes: a rebuild exit is restarted for free, a crash from the *)
(* restart budget.                                                            *)
SuperviseMutant ==
  /\ worker.at = "exited"
  /\ worker' = Idle(IF restarts < MaxRestarts THEN "starting" ELSE "disabled")
  /\ restarts' = IF restarts < MaxRestarts THEN restarts + 1 ELSE restarts
  /\ UNCHANGED <<prices, watermark, runtime, journal, writes, faults, missed>>

Supervise ==
  /\ \/ /\ worker.at = "rebuild"
        /\ worker' = Idle("starting")
        /\ UNCHANGED restarts
     \/ /\ worker.at = "exited" /\ restarts < MaxRestarts
        /\ worker' = Idle("starting")
        /\ restarts' = restarts + 1
     \/ /\ worker.at = "exited" /\ restarts >= MaxRestarts
        /\ worker' = Idle("disabled")
        /\ UNCHANGED restarts
  /\ UNCHANGED <<prices, watermark, runtime, journal, writes, faults, missed>>

(* The container restarts: a new supervisor with a fresh budget.              *)
Redeploy ==
  /\ faults < MaxFaults
  /\ faults' = faults + 1
  /\ worker' = Idle("starting") /\ restarts' = 0
  /\ UNCHANGED <<prices, watermark, runtime, journal, writes, missed>>

WorkerStep ==
  \/ ReadWatermarks \/ RequestRebuilds \/ Restore \/ ColdStart
  \/ InitializeRuntime \/ Rebuild \/ AcknowledgeRebuild \/ VerifyRebuild
  \/ \E s \in Symbol : Catchup(s)
  \/ ProcessBar

IndicatorNext ==
  \/ WorkerStep \/ Supervise \/ Crash \/ Redeploy
  \/ \E s \in Symbol, B \in SUBSET Bar : B # {} /\ UpsertCandles(s, B)

IndicatorSpec == IndicatorInit /\ [][IndicatorNext]_indicatorVars

-----------------------------------------------------------------------------
(* The durable model state is the history it claims: a bar between the first  *)
(* bar of the feed's state and the watermark that is held in another revision *)
(* than the stored one, or not held at all, has a rebuild requested from it   *)
(* or an earlier bar. Excused are bars the state already missed when it was   *)
(* committed: written during a cold start, or inserted behind a fetched batch.*)
StateIsHistory ==
  \A s \in Symbol : \A b \in Differs(runtime, s, watermark[s].last) :
    watermark[s].from \in 1..b \/ <<s, b>> \in missed

(* What upsert_candles says of a gap repair: once a strategy has advanced     *)
(* past the bar while processing live bars, the insert requests a rebuild     *)
(* like a correction does.                                                    *)
GapRepairRequestsRebuild ==
  \A s \in Symbol : \A b \in Differs(runtime, s, watermark[s].last) :
    b > runtime.boundary[s] => watermark[s].from \in 1..b

(* Decisions on a feed are journaled once per bar and in the order of the     *)
(* bars, over crashes, redeployments, corrections and rebuilds, and only for  *)
(* bars the durable state holds behind the flat boundary of its cold start.   *)
DecidedInOrder ==
  /\ \A i, j \in DOMAIN journal :
       i < j /\ journal[i][1] = journal[j][1] => journal[i][2] < journal[j][2]
  /\ \A i \in DOMAIN journal :
       LET s == journal[i][1] IN LET b == journal[i][2] IN
         /\ b > runtime.boundary[s] /\ b <= watermark[s].last
         /\ runtime.applied[s][b] > 0

(* The durable checkpoint of a feed never moves backwards, and the flat       *)
(* boundary of a feed that has history is never moved by a rebuild.           *)
CheckpointMonotone ==
  [][\A s \in Symbol :
       /\ watermark'[s].last >= watermark[s].last
       /\ Fed(runtime, s) # {} => runtime'.boundary[s] = runtime.boundary[s]
     ]_indicatorVars

\* Disabled by the supervisor, or no rebuild pending and every stored bar
\* acknowledged.
CaughtUp ==
  \/ worker.at = "disabled"
  \/ \A s \in Symbol : watermark[s].row /\ watermark[s].from = NoMarker
                         /\ watermark[s].last = Latest(s)

(* When price writes end, the worker ends up either disabled by its           *)
(* supervisor, or with no rebuild pending and every stored bar acknowledged.  *)
WorkerCatchesUp == <>[]CaughtUp
=============================================================================
