------------------------ MODULE IndicatorWorkerProofs ------------------------
(***************************************************************************)
(* The durable state of the indicator worker, for any feeds, lengths,      *)
(* bootstrap sizes, and any number of late price writes, crashes and       *)
(* restarts.                                                               *)
(*                                                                         *)
(* StateIsHistory is not inductive: whether the state saved next to a      *)
(* watermark holds the stored bars depends on what the process had in      *)
(* memory when it saved.  IndicatorInv says what a process holds at each   *)
(* of its points: a cold core, the rows it read, the core it rebuilt, the  *)
(* core it runs, and the batch it fetched.                                 *)
(***************************************************************************)
EXTENDS IndicatorWorker, FiniteSetTheorems, WellFoundedInduction, TLAPS

(* A leaf that names no prover is for Zenon, which does most of them at    *)
(* once, and for SMT where Zenon gives up.                                 *)
USE ZenonT(30), SMTT(60)

NoRows == [s \in Symbol |-> NoRow]

(* The watermarks of all feeds are created in one transaction, with the first *)
(* snapshot.                                                                  *)
RowsTogether ==
  \/ watermark = NoRows /\ runtime = Empty
  \/ \A s \in Symbol : watermark[s].row

(* A state holds its flat boundary, and no bar that was never written.        *)
Grounded(state) ==
  \A s \in Symbol :
    /\ state.boundary[s] # 0 => state.applied[s][state.boundary[s]] > 0
    /\ \A b \in Bar : state.applied[s][b] > 0 => prices[s][b] > 0

(* The last bar of feed s that a state holds is the given one.                *)
Through(state, s, last) ==
  /\ \A b \in Bar : state.applied[s][b] > 0 => b <= last
  /\ last # 0 => state.applied[s][last] > 0

RuntimeReached ==
  /\ Grounded(runtime)
  /\ \A s \in Symbol : Through(runtime, s, watermark[s].last)

(* What a process holds at each of its points.                                *)
ColdCore ==
  worker.at = "cold" =>
    /\ watermark = NoRows
    /\ Grounded(worker.core)
    /\ \A s \in Symbol : Through(worker.core, s, worker.core.boundary[s])

SeenRows ==
  /\ worker.at = "starting" =>
       worker.seen = NoRows \/ \A s \in Symbol : watermark[s].row
  /\ worker.at \in {"replay", "acknowledge"} =>
       \A s \in Symbol : /\ watermark[s].row
                         /\ worker.seen[s].last = watermark[s].last
                         /\ worker.seen[s].gen <= watermark[s].gen

(* A rebuilt core holds every bar the durable state holds, and, while nothing *)
(* was written behind a watermark, each feed exactly as it is stored.         *)
RebuiltCore ==
  worker.at = "acknowledge" =>
    /\ Grounded(worker.core)
    /\ \A s \in Symbol :
         /\ \A b \in Bar : runtime.applied[s][b] > 0 =>
              /\ worker.core.applied[s][b] > 0
              /\ worker.core.boundary[s] = runtime.boundary[s]
         /\ watermark[s].last # 0 =>
              \A b \in Bar : worker.core.applied[s][b] > 0 => b <= watermark[s].last
         /\ Fence =>
              \A b, c, d \in Bar :
                /\ worker.core.applied[s][c] > 0 /\ c <= b
                /\ worker.core.applied[s][d] > 0 /\ b <= d
                => worker.core.applied[s][b] = prices[s][b]

LiveCore ==
  worker.at \in {"verify", "running"} =>
    worker.core = runtime /\ \A s \in Symbol : watermark[s].row

(* A fetched batch is of one feed and ahead of its watermark.                 *)
BatchAhead ==
  /\ worker.at # "running" => worker.batch = {}
  /\ \A i \in worker.batch : i.bar > watermark[i.symbol].last
  /\ \A i, j \in worker.batch : i.symbol = j.symbol /\ (i.bar = j.bar => i = j)

(* StateIsHistory without the minimum of the bars fed.                        *)
HistoryHeld ==
  \A s \in Symbol : \A b, c \in Bar :
    /\ runtime.applied[s][c] > 0 /\ c <= b /\ b <= watermark[s].last
    /\ runtime.applied[s][b] # prices[s][b]
    => watermark[s].from \in 1..b \/ <<s, b>> \in missed

IndicatorInv ==
  /\ IndicatorTypeOK
  /\ RowsTogether /\ RuntimeReached /\ ColdCore /\ SeenRows /\ RebuiltCore
  /\ LiveCore /\ BatchAhead /\ HistoryHeld /\ DecidedInOrder

-----------------------------------------------------------------------------
(* A nonempty set of naturals has a least element.                            *)
LEMMA LeastExists ==
  ASSUME NEW T, T \subseteq Nat, T # {}
  PROVE  \E x \in T : \A y \in T : x <= y
<1>1. \E x \in T : \A y \in T : ~(<<y, x>> \in OpToRel(<, Nat))
  BY NatLessThanWellFounded, WFMin, ZenonT(60)
<1>2. PICK x \in T : \A y \in T : ~(<<y, x>> \in OpToRel(<, Nat))
  BY <1>1
<1>3. \A y \in T : ~(y < x)
  BY <1>2 DEF OpToRel
<1> QED
  BY <1>3, SMTT(60)

(* Min and Max of a nonempty set of bars are its least and greatest bar.      *)
LEMMA MinOf ==
  ASSUME NEW T, T \subseteq Nat, T # {}
  PROVE  Min(T) \in T /\ \A y \in T : Min(T) <= y
  BY LeastExists DEF Min

LEMMA MaxOf ==
  ASSUME NEW n \in Nat, NEW T, T \subseteq 0..n, T # {}
  PROVE  Max(T) \in T /\ \A y \in T : y <= Max(T)
<1> DEFINE U == {n - x : x \in T}
<1>a. \A x \in T : x \in Nat /\ n - x \in Nat
  OBVIOUS
<1>1. U \subseteq Nat /\ U # {}
  BY <1>a
<1>2. PICK u \in U : \A y \in U : u <= y
  BY <1>1, LeastExists
<1>3. PICK x \in T : u = n - x
  BY <1>2
<1>b. \A y \in T : u <= n - y
  BY <1>2
<1>4. \A y \in T : y <= x
  BY <1>b, <1>3, <1>a
<1> QED
  BY <1>4, <1>a DEF Max

LEMMA BarsBounded ==
  /\ MaxBar \in Nat
  /\ \A s \in Symbol : Length[s] \in Nat /\ Length[s] <= MaxBar
<1> DEFINE T == {Length[s] : s \in Symbol}
<1>1. PICK s \in Symbol : \A t \in Symbol : Length[t] <= Length[s]
  BY IndicatorAssumption
<1>2. \A t \in Symbol : Length[t] \in Nat
  BY IndicatorAssumption
<1>3. T \subseteq 0..Length[s] /\ T # {}
  BY <1>1, <1>2
<1>4. Max(T) \in T /\ \A y \in T : y <= Max(T)
  <2> HIDE DEF T
  <2> QED BY <1>2, <1>3, MaxOf
<1> QED
  BY <1>2, <1>4 DEF MaxBar

LEMMA BarMax ==
  ASSUME NEW T, T \subseteq Bar, T # {}
  PROVE  Max(T) \in T /\ \A y \in T : y <= Max(T)
<1>1. T \subseteq 0..MaxBar
  BY BarsBounded DEF Bar
<1> QED
  BY <1>1, BarsBounded, MaxOf

LEMMA BarMin ==
  ASSUME NEW T, T \subseteq Bar, T # {}
  PROVE  Min(T) \in T /\ \A y \in T : Min(T) <= y
<1>1. T \subseteq Nat
  BY BarsBounded DEF Bar
<1> QED
  BY <1>1, MinOf

(* The first and last bar of a feed that a state holds.                       *)
LEMMA FedOf ==
  ASSUME NEW state \in ModelState, NEW s \in Symbol
  PROVE  /\ Fed(state, s) \subseteq Bar
         /\ Fed(state, s) # {} =>
              /\ Inception(state, s) \in Fed(state, s)
              /\ \A b \in Fed(state, s) : Inception(state, s) <= b
              /\ Acknowledged(state, s) \in Fed(state, s)
              /\ \A b \in Fed(state, s) : b <= Acknowledged(state, s)
<1>1. Fed(state, s) \subseteq Bar
  BY DEF Fed
<1> QED
  BY <1>1, BarMin, BarMax DEF Inception, Acknowledged

LEMMA ReachedOf ==
  ASSUME NEW state \in ModelState, NEW s \in Symbol
  PROVE  /\ Reached(state, s) \in 0..MaxBar
         /\ Through(state, s, Reached(state, s))
<1>1. CASE Fed(state, s) = {}
  <2>1. Reached(state, s) = 0
    BY <1>1 DEF Reached, Epoch
  <2> QED
    BY <1>1, <2>1, BarsBounded DEF Through, Fed
<1>2. CASE Fed(state, s) # {}
  <2>1. Reached(state, s) = Acknowledged(state, s)
    BY <1>2 DEF Reached
  <2>2. /\ Acknowledged(state, s) \in Fed(state, s)
        /\ \A b \in Fed(state, s) : b <= Acknowledged(state, s)
    BY <1>2, FedOf
  <2> QED
    BY <2>1, <2>2, BarsBounded DEF Through, Fed, Bar
<1> QED
  BY <1>1, <1>2

LEMMA LatestOf ==
  ASSUME IndicatorTypeOK, NEW s \in Symbol
  PROVE  /\ Latest(s) \in 0..MaxBar
         /\ \A b \in Bar : prices[s][b] > 0 => b <= Latest(s)
         /\ Latest(s) # 0 => prices[s][Latest(s)] > 0
<1>1. Stored(s) \subseteq Bar
  BY DEF Stored
<1>2. CASE Stored(s) = {}
  BY <1>2, BarsBounded DEF Latest, Stored, Epoch
<1>3. CASE Stored(s) # {}
  <2>1. Latest(s) = Max(Stored(s))
    BY <1>3 DEF Latest
  <2>2. Max(Stored(s)) \in Stored(s) /\ \A y \in Stored(s) : y <= Max(Stored(s))
    BY <1>1, <1>3, BarMax
  <2> QED
    BY <2>1, <2>2, BarsBounded DEF Stored, Bar
<1> QED
  BY <1>2, <1>3

LEMMA OldestOf ==
  ASSUME NEW B, B \subseteq FetchedBar, B # {}
  PROVE  Oldest(B) \in B /\ \A other \in B : Oldest(B).bar <= other.bar
<1> DEFINE T == {i.bar : i \in B}
<1>1. \A i \in B : i.bar \in Nat
  BY BarsBounded DEF FetchedBar, Bar
<1>2. T \subseteq Nat /\ T # {}
  BY <1>1
<1>3. PICK x \in T : \A y \in T : x <= y
  BY <1>2, LeastExists
<1>4. PICK i \in B : x = i.bar
  BY <1>3
<1>5. \A other \in B : i.bar <= other.bar
  BY <1>3, <1>4
<1> QED
  BY <1>5 DEF Oldest

-----------------------------------------------------------------------------
LEMMA RowTyped ==
  /\ NoRow \in WatermarkRow
  /\ NoRows \in [Symbol -> WatermarkRow]
  BY BarsBounded DEF NoRow, NoRows, WatermarkRow, Epoch, NoMarker

LEMMA IdleTyped ==
  /\ Empty \in ModelState
  /\ \A at \in Point : Idle(at) \in WorkerState
<1>1. Empty \in ModelState
  BY BarsBounded, IndicatorAssumption, SMTT(60) DEF Empty, ModelState
<1> QED
  BY <1>1, RowTyped DEF Idle, WorkerState, NoRows

(* The content read from the price rows is a revision of every bar.           *)
LEMMA ContentsTyped ==
  ASSUME IndicatorTypeOK, NEW s \in Symbol, NEW B
  PROVE  Contents(s, B) \in [Bar -> 0..MaxRevision]
<1>1. prices[s] \in [Bar -> 0..MaxRevision]
  BY DEF IndicatorTypeOK
<1> QED
  BY <1>1, IndicatorAssumption, SMTT(60) DEF Contents

LEMMA RowMade ==
  ASSUME NEW row \in BOOLEAN, NEW last \in 0..MaxBar, NEW from \in 0..MaxBar,
         NEW gen \in Nat
  PROVE  [row |-> row, last |-> last, from |-> from, gen |-> gen] \in WatermarkRow
  BY DEF WatermarkRow

LEMMA RowMarked ==
  ASSUME NEW r \in WatermarkRow, NEW x \in 0..MaxBar, NEW q,
         q = [r EXCEPT !.from = x, !.gen = @ + 1]
  PROVE  /\ q \in WatermarkRow
         /\ q.row = r.row /\ q.last = r.last /\ q.from = x /\ q.gen = r.gen + 1
<1>1. q = [row |-> r.row, last |-> r.last, from |-> x, gen |-> r.gen + 1]
  BY DEF WatermarkRow
<1>2. r.row \in BOOLEAN /\ r.last \in 0..MaxBar /\ r.gen \in Nat
  BY DEF WatermarkRow
<1>3. r.gen + 1 \in Nat
  BY <1>2
<1> QED
  BY <1>1, <1>2, <1>3 DEF WatermarkRow

LEMMA TypeUpsert ==
  ASSUME IndicatorTypeOK, NEW s \in Symbol, NEW B \in SUBSET Bar, B # {},
         UpsertCandles(s, B)
  PROVE  IndicatorTypeOK'
<1>1. Min(B) \in Bar
  BY BarMin
<1>2. prices' \in [Symbol -> [Bar -> 0..MaxRevision]]
  <2> DEFINE new == [b \in Bar |-> IF b \in B THEN prices[s][b] + 1 ELSE prices[s][b]]
  <2>1. prices' = [prices EXCEPT ![s] = new]
    BY DEF UpsertCandles
  <2>2. \A b \in Bar : prices[s][b] \in 0..MaxRevision
    BY DEF IndicatorTypeOK
  <2>3. \A b \in B : prices[s][b] < MaxRevision
    BY DEF UpsertCandles
  <2>4. new \in [Bar -> 0..MaxRevision]
    BY <2>2, <2>3, IndicatorAssumption, SMTT(60)
  <2> HIDE DEF new
  <2> QED
    BY <2>1, <2>4 DEF IndicatorTypeOK
<1>3. watermark' \in [Symbol -> WatermarkRow]
  <2> DEFINE new == IF watermark[s].from = NoMarker THEN Min(B)
                    ELSE Min({watermark[s].from, Min(B)})
  <2>1. watermark[s] \in WatermarkRow
    BY DEF IndicatorTypeOK
  <2>2. new \in 0..MaxBar
    <3>1. CASE watermark[s].from = NoMarker
      BY <3>1, <1>1, BarsBounded DEF Bar
    <3>2. CASE watermark[s].from # NoMarker
      <4>1. {watermark[s].from, Min(B)} \subseteq Bar
        BY <3>2, <2>1, <1>1, BarsBounded, SMTT(60) DEF Bar, WatermarkRow, NoMarker
      <4>2. Min({watermark[s].from, Min(B)}) \in Bar
        BY <4>1, BarMin, SMTT(60)
      <4> QED
        BY <4>2, <3>2, BarsBounded DEF Bar
    <3> QED
      BY <3>1, <3>2
  <2>3. CASE Passed(s, Min(B))
    <3>1. watermark' = [watermark EXCEPT ![s].from = new, ![s].gen = @ + 1]
      BY <2>3 DEF UpsertCandles
    <3> HIDE DEF new
    <3>2. watermark \in [Symbol -> WatermarkRow]
      BY DEF IndicatorTypeOK
    <3> DEFINE q == [watermark[s] EXCEPT !.from = new, !.gen = @ + 1]
    <3>3. q \in WatermarkRow
      BY <2>1, <2>2, RowMarked
    <3>4. watermark' = [watermark EXCEPT ![s] = q]
      BY <3>1, <3>2
    <3> HIDE DEF q
    <3> QED
      BY <3>2, <3>3, <3>4
  <2>4. CASE ~Passed(s, Min(B))
    BY <2>4 DEF UpsertCandles, IndicatorTypeOK
  <2> QED
    BY <2>3, <2>4
<1>4. writes' \in 0..MaxWrites
  BY IndicatorAssumption, SMTT(60) DEF UpsertCandles, IndicatorTypeOK
<1> QED
  BY <1>2, <1>3, <1>4 DEF UpsertCandles, IndicatorTypeOK

LEMMA RequestedTyped ==
  ASSUME IndicatorTypeOK, RequestRebuilds
  PROVE  /\ watermark' \in [Symbol -> WatermarkRow]
         /\ worker' = [worker EXCEPT !.at = "replay", !.seen = watermark']
         /\ \A s \in Symbol :
              /\ watermark'[s].row = watermark[s].row
              /\ watermark'[s].last = watermark[s].last
              /\ watermark'[s].gen >= watermark[s].gen
              /\ watermark'[s].from # 0
              /\ watermark[s].from # 0 => watermark'[s].from <= watermark[s].from
<1> DEFINE F == {worker.seen[s].from : s \in Pending(worker.seen)}
           earliest == Min(F)
           boundary(s) == IF watermark[s].from = NoMarker THEN earliest
                          ELSE Min({watermark[s].from, earliest})
           requested(s) == IF watermark[s].from = boundary(s) THEN watermark[s]
                           ELSE [watermark[s] EXCEPT !.from = boundary(s), !.gen = @ + 1]
<1>1. F \subseteq Bar /\ F # {}
  <2>1. \A s \in Symbol : worker.seen[s].from \in 0..MaxBar
    BY DEF IndicatorTypeOK, WorkerState, WatermarkRow
  <2>2. \A s \in Pending(worker.seen) : worker.seen[s].from \in Bar
    BY <2>1, BarsBounded DEF Pending, NoMarker, Bar
  <2>3. Pending(worker.seen) # {}
    BY DEF RequestRebuilds
  <2> QED
    BY <2>2, <2>3
<1>2. earliest \in Bar
  <2> HIDE DEF F
  <2> QED BY <1>1, BarMin
<1>3. /\ watermark' = [s \in Symbol |-> requested(s)]
      /\ worker' = [worker EXCEPT !.at = "replay", !.seen = watermark']
  BY DEF RequestRebuilds
<1> HIDE DEF earliest
<1>4. ASSUME NEW s \in Symbol
      PROVE  /\ boundary(s) \in 1..MaxBar
             /\ watermark[s].from # 0 => boundary(s) <= watermark[s].from
  <2>1. CASE watermark[s].from = NoMarker
    BY <2>1, <1>2 DEF Bar, NoMarker
  <2>2. CASE watermark[s].from # NoMarker
    <3> DEFINE T == {watermark[s].from, earliest}
    <3>1. T \subseteq Bar /\ T # {}
      BY <2>2, <1>2, BarsBounded, SMTT(60) DEF Bar, WatermarkRow, NoMarker, IndicatorTypeOK
    <3>2. Min(T) \in Bar /\ Min(T) <= watermark[s].from
      <4>1. watermark[s].from \in T
        OBVIOUS
      <4> HIDE DEF T
      <4> QED BY <3>1, <4>1, BarMin
    <3> QED
      BY <3>2, <2>2 DEF Bar
  <2> QED
    BY <2>1, <2>2
<1> HIDE DEF boundary
<1>5. ASSUME NEW s \in Symbol
      PROVE  /\ requested(s) \in WatermarkRow
             /\ requested(s).row = watermark[s].row
             /\ requested(s).last = watermark[s].last
             /\ requested(s).gen >= watermark[s].gen
             /\ requested(s).from = boundary(s)
  <2>1. watermark[s] \in WatermarkRow /\ watermark[s].gen \in Nat
    BY DEF IndicatorTypeOK, WatermarkRow
  <2>2. CASE watermark[s].from = boundary(s)
    BY <2>1, <2>2
  <2>3. CASE watermark[s].from # boundary(s)
    <3>1. boundary(s) \in 0..MaxBar
      BY <1>4, BarsBounded
    <3> DEFINE q == [watermark[s] EXCEPT !.from = boundary(s), !.gen = @ + 1]
    <3>2. requested(s) = q
      BY <2>3
    <3> HIDE DEF requested
    <3>3. q \in WatermarkRow
      BY <2>1, <3>1, RowMarked
    <3>4. q.row = watermark[s].row /\ q.last = watermark[s].last
      BY <2>1, <3>1 DEF WatermarkRow
    <3>5. q.from = boundary(s) /\ q.gen = watermark[s].gen + 1
      BY <2>1, <3>1 DEF WatermarkRow
    <3> HIDE DEF q
    <3> QED
      BY <2>1, <3>2, <3>3, <3>4, <3>5
  <2> QED
    BY <2>2, <2>3
<1> HIDE DEF requested
<1> QED
  BY <1>3, <1>4, <1>5, BarsBounded

LEMMA StateMade ==
  ASSUME NEW saved \in BOOLEAN, NEW applied \in [Symbol -> [Bar -> 0..MaxRevision]],
         NEW boundary \in [Symbol -> 0..MaxBar]
  PROVE  [saved |-> saved, applied |-> applied, boundary |-> boundary] \in ModelState
  BY DEF ModelState

(* One bar fed to a core.                                                     *)
LEMMA BarFed ==
  ASSUME NEW state \in ModelState, NEW s \in Symbol, NEW b \in Bar,
         NEW v \in 0..MaxRevision, NEW n,
         n = [state EXCEPT !.applied[s][b] = v]
  PROVE  /\ n \in ModelState
         /\ n.boundary = state.boundary
         /\ \A t \in Symbol, c \in Bar :
              n.applied[t][c] = IF t = s /\ c = b THEN v ELSE state.applied[t][c]
<1>1. /\ state.applied \in [Symbol -> [Bar -> 0..MaxRevision]]
      /\ state.boundary \in [Symbol -> 0..MaxBar] /\ state.saved \in BOOLEAN
  BY DEF ModelState
<1> DEFINE a == [state.applied EXCEPT ![s][b] = v]
<1>2. /\ a \in [Symbol -> [Bar -> 0..MaxRevision]]
      /\ \A t \in Symbol, c \in Bar :
           a[t][c] = IF t = s /\ c = b THEN v ELSE state.applied[t][c]
  BY <1>1
<1>3. n = [saved |-> state.saved, applied |-> a, boundary |-> state.boundary]
  BY DEF ModelState
<1> HIDE DEF a
<1>4. n \in ModelState
  <2>1. [saved |-> state.saved, applied |-> a, boundary |-> state.boundary] \in ModelState
    BY <1>1, <1>2, StateMade
  <2> QED
    BY <1>3, <2>1
<1>5. n.boundary = state.boundary /\ n.applied = a
  BY <1>3, SMTT(60)
<1> QED
  BY <1>2, <1>4, <1>5

LEMMA WorkerParts ==
  ASSUME IndicatorTypeOK
  PROVE  /\ worker.at \in Point /\ worker.seen \in [Symbol -> WatermarkRow]
         /\ worker.core \in ModelState /\ worker.batch \subseteq FetchedBar
         /\ runtime \in ModelState /\ watermark \in [Symbol -> WatermarkRow]
         /\ prices \in [Symbol -> [Bar -> 0..MaxRevision]]
  BY DEF IndicatorTypeOK, WorkerState

LEMMA BarPositive ==
  Bar \subseteq Nat /\ \A b \in Bar : b # 0
  BY BarsBounded DEF Bar

LEMMA RowParts ==
  ASSUME NEW rows \in [Symbol -> WatermarkRow], NEW s \in Symbol
  PROVE  /\ rows[s].row \in BOOLEAN /\ rows[s].gen \in Nat
         /\ rows[s].last \in Nat /\ rows[s].last \in 0..MaxBar
         /\ rows[s].from \in Nat /\ rows[s].from \in 0..MaxBar
<1>1. rows[s] \in WatermarkRow
  OBVIOUS
<1> QED
  BY <1>1, BarsBounded, SMTT(60) DEF WatermarkRow

LEMMA TargetOf ==
  ASSUME IndicatorTypeOK, NEW s \in Symbol
  PROVE  Target(s) \in 0..MaxBar /\ FlatBoundary(s) \in 0..MaxBar
<1>1. worker.seen[s].last \in 0..MaxBar
  BY WorkerParts DEF WatermarkRow
<1>2. Target(s) \in 0..MaxBar
  BY <1>1, LatestOf DEF Target
<1>3. runtime.boundary[s] \in 0..MaxBar
  BY WorkerParts DEF ModelState
<1> QED
  BY <1>2, <1>3 DEF FlatBoundary

LEMMA TypeColdStart ==
  ASSUME IndicatorTypeOK, ColdStart PROVE IndicatorTypeOK'
<1> DEFINE core == [saved |-> TRUE,
                    applied |-> [s \in Symbol |-> Contents(s, Recent(s, MaxBar))],
                    boundary |-> [s \in Symbol |-> Latest(s)]]
<1>1. core \in ModelState
  <2>1. [s \in Symbol |-> Contents(s, Recent(s, MaxBar))] \in [Symbol -> [Bar -> 0..MaxRevision]]
    BY ContentsTyped
  <2>2. [s \in Symbol |-> Latest(s)] \in [Symbol -> 0..MaxBar]
    BY LatestOf
  <2> QED
    BY <2>1, <2>2 DEF ModelState
<1>2. worker' = [worker EXCEPT !.at = "cold", !.core = core]
  BY DEF ColdStart
<1> HIDE DEF core
<1>3. worker' \in WorkerState
  BY <1>1, <1>2 DEF IndicatorTypeOK, WorkerState, Point
<1> QED
  BY <1>3 DEF ColdStart, IndicatorTypeOK

LEMMA TypeRebuild ==
  ASSUME IndicatorTypeOK, Rebuild PROVE IndicatorTypeOK'
<1> DEFINE core == [saved |-> TRUE,
                    applied |-> [s \in Symbol |-> Contents(s, Replayed(s))],
                    boundary |-> [s \in Symbol |-> FlatBoundary(s)]]
<1>1. core \in ModelState
  <2>1. [s \in Symbol |-> Contents(s, Replayed(s))] \in [Symbol -> [Bar -> 0..MaxRevision]]
    BY ContentsTyped
  <2>2. [s \in Symbol |-> FlatBoundary(s)] \in [Symbol -> 0..MaxBar]
    BY TargetOf
  <2> QED
    BY <2>1, <2>2 DEF ModelState
<1>2. worker' = [worker EXCEPT !.at = "acknowledge", !.core = core]
  BY DEF Rebuild
<1> HIDE DEF core
<1>3. worker' \in WorkerState
  BY <1>1, <1>2 DEF IndicatorTypeOK, WorkerState, Point
<1> QED
  BY <1>3 DEF Rebuild, IndicatorTypeOK

LEMMA TypeInitialize ==
  ASSUME IndicatorTypeOK, InitializeRuntime
  PROVE  /\ IndicatorTypeOK'
         /\ \A s \in Symbol : /\ watermark'[s].row
                              /\ watermark'[s].last = worker.core.boundary[s]
                              /\ watermark'[s].from = 0
<1>1. \A s \in Symbol : worker.core.boundary[s] \in 0..MaxBar
  BY WorkerParts DEF ModelState
<1>2. ASSUME NEW s \in Symbol
      PROVE  watermark'[s] = [row |-> TRUE, last |-> worker.core.boundary[s],
                              from |-> 0, gen |-> 0]
  BY DEF InitializeRuntime, NoRow, NoMarker
<1>3. watermark' \in [Symbol -> WatermarkRow]
  <2>1. ASSUME NEW s \in Symbol PROVE watermark'[s] \in WatermarkRow
    <3>1. 0 \in 0..MaxBar /\ 0 \in Nat /\ TRUE \in BOOLEAN
      BY BarsBounded
    <3> QED
      BY <1>1, <1>2, <3>1, RowMade, ZenonT(60)
  <2>2. watermark' = [s \in Symbol |-> watermark'[s]]
    BY DEF InitializeRuntime
  <2> QED
    BY <2>1, <2>2
<1>4. worker' \in WorkerState
  BY DEF InitializeRuntime, IndicatorTypeOK, WorkerState, Point
<1>5. runtime' \in ModelState
  BY WorkerParts DEF InitializeRuntime
<1>6. missed' \subseteq Symbol \X Bar
  BY DEF InitializeRuntime
<1>7. IndicatorTypeOK'
  BY <1>3, <1>4, <1>5, <1>6 DEF InitializeRuntime, IndicatorTypeOK
<1>8. ASSUME NEW s \in Symbol
      PROVE  /\ watermark'[s].row
             /\ watermark'[s].last = worker.core.boundary[s]
             /\ watermark'[s].from = 0
  <2>0. watermark'[s] = [row |-> TRUE, last |-> worker.core.boundary[s],
                         from |-> 0, gen |-> 0]
    BY <1>2
  <2>1. watermark'[s].row
    BY <2>0
  <2>2. watermark'[s].last = worker.core.boundary[s] /\ watermark'[s].from = 0
    BY <2>0
  <2> QED
    BY <2>1, <2>2
<1> QED
  BY <1>7, <1>8

LEMMA TypeAcknowledge ==
  ASSUME IndicatorTypeOK, AcknowledgeRebuild
  PROVE  /\ IndicatorTypeOK'
         /\ Fence => \A s \in Symbol :
              /\ watermark'[s].row = watermark[s].row
              /\ watermark'[s].last = Reached(worker.core, s)
              /\ watermark'[s].from = 0
<1>1. CASE ~Fence
  <2>1. worker' = Idle("rebuild")
    BY <1>1 DEF AcknowledgeRebuild
  <2>2. worker' \in WorkerState
    BY <2>1, IdleTyped DEF Point
  <2> QED
    BY <1>1, <2>2 DEF AcknowledgeRebuild, IndicatorTypeOK
<1>2. CASE Fence
  <2>1. ASSUME NEW s \in Symbol
        PROVE  watermark'[s] = [row |-> watermark[s].row, last |-> Reached(worker.core, s),
                                from |-> 0, gen |-> watermark[s].gen]
    <3>1. watermark[s] \in WatermarkRow
      BY WorkerParts
    <3>2. watermark'[s] = [watermark[s] EXCEPT !.last = Reached(worker.core, s),
                                               !.from = NoMarker]
      BY <1>2 DEF AcknowledgeRebuild
    <3> QED
      BY <3>1, <3>2 DEF WatermarkRow, NoMarker
  <2>2. watermark' \in [Symbol -> WatermarkRow]
    <3>1. ASSUME NEW s \in Symbol PROVE watermark'[s] \in WatermarkRow
      <4>1. watermark[s].row \in BOOLEAN /\ watermark[s].gen \in Nat
        BY WorkerParts DEF WatermarkRow
      <4>2. Reached(worker.core, s) \in 0..MaxBar
        BY WorkerParts, ReachedOf
      <4>3. 0 \in 0..MaxBar
        BY BarsBounded
      <4> QED
        BY <2>1, <4>1, <4>2, <4>3, RowMade, ZenonT(60)
    <3>2. watermark' = [s \in Symbol |-> watermark'[s]]
      BY <1>2 DEF AcknowledgeRebuild
    <3> QED
      BY <3>1, <3>2
  <2>3. runtime' \in ModelState /\ missed' = {}
    BY <1>2, WorkerParts DEF AcknowledgeRebuild
  <2>4. worker' \in WorkerState
    BY <1>2 DEF AcknowledgeRebuild, IndicatorTypeOK, WorkerState, Point
  <2>5. IndicatorTypeOK'
    BY <2>2, <2>3, <2>4 DEF AcknowledgeRebuild, IndicatorTypeOK
  <2>6. ASSUME NEW s \in Symbol
        PROVE  /\ watermark'[s].row = watermark[s].row
               /\ watermark'[s].last = Reached(worker.core, s)
               /\ watermark'[s].from = 0
    <3>0. watermark'[s] = [row |-> watermark[s].row, last |-> Reached(worker.core, s),
                           from |-> 0, gen |-> watermark[s].gen]
      BY <2>1
    <3>1. watermark'[s].row = watermark[s].row
      BY <3>0
    <3>2. watermark'[s].last = Reached(worker.core, s) /\ watermark'[s].from = 0
      BY <3>0
    <3> QED
      BY <3>1, <3>2
  <2> QED
    BY <2>5, <2>6
<1> QED
  BY <1>1, <1>2

(* What a catch-up fetches.                                                   *)
LEMMA FetchOf ==
  ASSUME IndicatorTypeOK, NEW s \in Symbol, Catchup(s)
  PROVE  \/ worker' = Idle("rebuild")
         \/ /\ worker' \in WorkerState
            /\ worker'.at = "running" /\ worker'.core = worker.core
            /\ \A i \in worker'.batch :
                 i.symbol = s /\ i.bar > watermark[s].last /\ i.revision = prices[s][i.bar]
<1>1. CASE worker' = Idle("rebuild")
  BY <1>1
<1>2. CASE worker' # Idle("rebuild")
  <2> DEFINE B == {[symbol |-> s, bar |-> b, revision |-> prices[s][b]] : b \in Later(s)}
  <2>1. worker' = [worker EXCEPT !.batch = B] /\ worker.at = "running"
    BY <1>2 DEF Catchup
  <2>2. \A b \in Later(s) : b \in Bar /\ b > watermark[s].last /\ prices[s][b] \in 1..MaxRevision
    BY WorkerParts DEF Later, Stored
  <2>3. B \subseteq FetchedBar
    BY <2>2, SMTT(60) DEF FetchedBar
  <2>4. \A i \in B : i.symbol = s /\ i.bar > watermark[s].last /\ i.revision = prices[s][i.bar]
    BY <2>2
  <2> HIDE DEF B
  <2>5. worker' \in WorkerState /\ worker'.batch = B /\ worker'.at = "running"
        /\ worker'.core = worker.core
    BY <2>1, <2>3 DEF IndicatorTypeOK, WorkerState
  <2> QED
    BY <2>4, <2>5
<1> QED
  BY <1>1, <1>2

(* What processing a fetched bar does when it is still current.               *)
LEMMA ProcessedBar ==
  ASSUME IndicatorTypeOK, ProcessBar
  PROVE  \/ /\ worker' = Idle("rebuild")
            /\ UNCHANGED <<prices, watermark, runtime, journal, missed>>
         \/ \E i \in worker.batch :
              /\ \A j \in worker.batch : i.bar <= j.bar
              /\ Current(i)
              /\ runtime' = [worker.core EXCEPT !.applied[i.symbol][i.bar] = i.revision]
              /\ watermark' = [watermark EXCEPT ![i.symbol].last = i.bar]
              /\ journal' = Append(journal, <<i.symbol, i.bar>>)
              /\ missed' = missed \cup {<<i.symbol, c>> : c \in
                   {c \in Stored(i.symbol) : c > watermark[i.symbol].last /\ c < i.bar}}
              /\ worker' = [worker EXCEPT !.core = runtime', !.batch = @ \ {i}]
              /\ UNCHANGED prices
<1>1. PICK i : i = Oldest(worker.batch)
  OBVIOUS
<1>2. i \in worker.batch /\ \A j \in worker.batch : i.bar <= j.bar
  BY <1>1, OldestOf, WorkerParts DEF ProcessBar
<1>3. CASE Current(i)
  BY <1>1, <1>2, <1>3 DEF ProcessBar
<1>4. CASE ~Current(i)
  BY <1>1, <1>4 DEF ProcessBar
<1> QED
  BY <1>3, <1>4

LEMMA TypeProcess ==
  ASSUME IndicatorTypeOK, ProcessBar PROVE IndicatorTypeOK'
<1>a. UNCHANGED <<prices, restarts, writes, faults>>
  BY DEF ProcessBar
<1>1. CASE worker' = Idle("rebuild") /\ UNCHANGED <<watermark, runtime, journal, missed>>
  <2>1. worker' \in WorkerState
    BY <1>1, IdleTyped DEF Point
  <2> QED
    BY <1>1, <1>a, <2>1 DEF IndicatorTypeOK
<1>2. ASSUME NEW i \in worker.batch,
             runtime' = [worker.core EXCEPT !.applied[i.symbol][i.bar] = i.revision],
             watermark' = [watermark EXCEPT ![i.symbol].last = i.bar],
             journal' = Append(journal, <<i.symbol, i.bar>>),
             missed' = missed \cup {<<i.symbol, c>> : c \in
                   {c \in Stored(i.symbol) : c > watermark[i.symbol].last /\ c < i.bar}},
             worker' = [worker EXCEPT !.core = runtime', !.batch = @ \ {i}]
      PROVE  IndicatorTypeOK'
  <2>1. i.symbol \in Symbol /\ i.bar \in Bar /\ i.revision \in 0..MaxRevision
    <3>1. i.symbol \in Symbol /\ i.bar \in Bar /\ i.revision \in 1..MaxRevision
      BY WorkerParts DEF FetchedBar
    <3> QED
      BY <3>1, IndicatorAssumption
  <2>2. runtime' \in ModelState
    <3>1. worker.core \in ModelState
      BY WorkerParts
    <3>2. PICK n : n = [worker.core EXCEPT !.applied[i.symbol][i.bar] = i.revision]
      OBVIOUS
    <3>3. n \in ModelState
      BY <2>1, <3>1, <3>2, BarFed, SMTT(60)
    <3> QED
      BY <1>2, <3>2, <3>3
  <2>3. watermark' \in [Symbol -> WatermarkRow]
    <3>1. i.bar \in 0..MaxBar
      BY <2>1, BarsBounded DEF Bar
    <3>2. [watermark[i.symbol] EXCEPT !.last = i.bar] \in WatermarkRow
      BY <2>1, <3>1, WorkerParts DEF WatermarkRow
    <3>3. watermark' = [watermark EXCEPT ![i.symbol] = [watermark[i.symbol] EXCEPT !.last = i.bar]]
      BY <1>2, <2>1, WorkerParts
    <3> QED
      BY <2>1, <3>2, <3>3, WorkerParts
  <2>4. journal' \in Seq(Symbol \X Bar)
    <3>1. <<i.symbol, i.bar>> \in Symbol \X Bar /\ journal \in Seq(Symbol \X Bar)
      BY <2>1 DEF IndicatorTypeOK
    <3> QED
      BY <1>2, <3>1
  <2>5. missed' \subseteq Symbol \X Bar
    BY <1>2, <2>1, SMTT(60) DEF IndicatorTypeOK, Stored
  <2>6. worker' \in WorkerState
    <3>1. worker.batch \ {i} \subseteq FetchedBar
      BY WorkerParts
    <3> QED
      BY <1>2, <2>2, <3>1 DEF IndicatorTypeOK, WorkerState
  <2> QED
    BY <1>a, <2>2, <2>3, <2>4, <2>5, <2>6 DEF IndicatorTypeOK
<1> QED
  BY <1>1, <1>2, ProcessedBar

LEMMA IndicatorTypeNext ==
  ASSUME IndicatorTypeOK, [IndicatorNext]_indicatorVars
  PROVE  IndicatorTypeOK'
<1>1. ASSUME NEW s \in Symbol, NEW B \in SUBSET Bar, B # {}, UpsertCandles(s, B)
      PROVE  IndicatorTypeOK'
  BY <1>1, TypeUpsert
<1>2. CASE ReadWatermarks
  <2>1. worker' \in WorkerState
    BY <1>2 DEF ReadWatermarks, IndicatorTypeOK, WorkerState
  <2> QED
    BY <1>2, <2>1 DEF ReadWatermarks, IndicatorTypeOK
<1>3. CASE RequestRebuilds
  <2>1. worker' \in WorkerState
    BY <1>3, RequestedTyped DEF IndicatorTypeOK, WorkerState, Point
  <2> QED
    BY <1>3, <2>1, RequestedTyped DEF RequestRebuilds, IndicatorTypeOK
<1>4. CASE Restore
  <2>1. worker' \in WorkerState
    <3>1. [worker EXCEPT !.at = "running", !.core = runtime] \in WorkerState
      BY DEF IndicatorTypeOK, WorkerState, Point
    <3>2. Idle("exited") \in WorkerState
      BY IdleTyped DEF Point
    <3> QED
      BY <1>4, <3>1, <3>2 DEF Restore
  <2> QED
    BY <1>4, <2>1 DEF Restore, IndicatorTypeOK
<1>5. CASE ColdStart
  BY <1>5, TypeColdStart
<1>6. CASE InitializeRuntime
  BY <1>6, TypeInitialize
<1>7. CASE Rebuild
  BY <1>7, TypeRebuild
<1>8. CASE AcknowledgeRebuild
  BY <1>8, TypeAcknowledge
<1>9. CASE VerifyRebuild
  <2>1. worker' \in WorkerState
    <3>1. [worker EXCEPT !.at = "running"] \in WorkerState
      BY DEF IndicatorTypeOK, WorkerState, Point
    <3>2. Idle("rebuild") \in WorkerState
      BY IdleTyped DEF Point
    <3> QED
      BY <1>9, <3>1, <3>2 DEF VerifyRebuild
  <2> QED
    BY <1>9, <2>1 DEF VerifyRebuild, IndicatorTypeOK
<1>10. ASSUME NEW s \in Symbol, Catchup(s) PROVE IndicatorTypeOK'
  <2>1. worker' \in WorkerState
    BY <1>10, FetchOf, IdleTyped DEF Point
  <2> QED
    BY <1>10, <2>1 DEF Catchup, IndicatorTypeOK
<1>11. CASE ProcessBar
  BY <1>11, TypeProcess
<1>12. CASE Supervise
  <2>1. worker' \in WorkerState
    BY <1>12, IdleTyped DEF Supervise, Point
  <2>2. restarts' \in 0..MaxRestarts
    BY <1>12, IndicatorAssumption, SMTT(60) DEF Supervise, IndicatorTypeOK
  <2> QED
    BY <1>12, <2>1, <2>2 DEF Supervise, IndicatorTypeOK
<1>13. CASE Crash
  <2>1. worker' \in WorkerState
    BY <1>13, IdleTyped DEF Crash, Point
  <2>2. faults' \in 0..MaxFaults
    BY <1>13, IndicatorAssumption, SMTT(60) DEF Crash, IndicatorTypeOK
  <2> QED
    BY <1>13, <2>1, <2>2 DEF Crash, IndicatorTypeOK
<1>14. CASE Redeploy
  <2>1. worker' \in WorkerState
    BY <1>14, IdleTyped DEF Redeploy, Point
  <2>2. faults' \in 0..MaxFaults /\ restarts' \in 0..MaxRestarts
    BY <1>14, IndicatorAssumption, SMTT(60) DEF Redeploy, IndicatorTypeOK
  <2> QED
    BY <1>14, <2>1, <2>2 DEF Redeploy, IndicatorTypeOK
<1>15. CASE UNCHANGED indicatorVars
  BY <1>15 DEF indicatorVars, IndicatorTypeOK
<1> QED
  BY <1>1, <1>2, <1>3, <1>4, <1>5, <1>6, <1>7, <1>8, <1>9, <1>10, <1>11, <1>12,
     <1>13, <1>14, <1>15 DEF IndicatorNext, WorkerStep

-----------------------------------------------------------------------------
LEMMA DurableKept ==
  ASSUME IndicatorInv, UNCHANGED <<prices, watermark, runtime, journal, missed>>
  PROVE  RowsTogether' /\ RuntimeReached' /\ HistoryHeld' /\ DecidedInOrder'
  BY DEF IndicatorInv, RowsTogether, RuntimeReached, HistoryHeld, DecidedInOrder,
         Grounded, Through, NoRows

LEMMA IdleHolds ==
  ASSUME NEW at \in {"starting", "exited", "rebuild", "disabled"}, worker' = Idle(at)
  PROVE  ColdCore' /\ SeenRows' /\ RebuiltCore' /\ LiveCore' /\ BatchAhead'
<1>1. worker'.at = at /\ worker'.seen = NoRows /\ worker'.batch = {}
  BY DEF Idle, NoRows
<1> QED
  BY <1>1 DEF ColdCore, SeenRows, RebuiltCore, LiveCore, BatchAhead, NoRows

(* What a price transaction does to the rows and the watermarks.              *)
LEMMA UpsertEffect ==
  ASSUME IndicatorTypeOK, NEW s \in Symbol, NEW B \in SUBSET Bar, B # {},
         UpsertCandles(s, B)
  PROVE  /\ \A t \in Symbol, b \in Bar :
              prices'[t][b] = IF t = s /\ b \in B THEN prices[t][b] + 1 ELSE prices[t][b]
         /\ \A t \in Symbol :
              /\ watermark'[t].row = watermark[t].row
              /\ watermark'[t].last = watermark[t].last
              /\ watermark'[t].gen >= watermark[t].gen
              /\ watermark[t].from # 0 =>
                   watermark'[t].from # 0 /\ watermark'[t].from <= watermark[t].from
         /\ \/ /\ Passed(s, Min(B))
               /\ watermark'[s].gen > watermark[s].gen
               /\ watermark'[s].from # 0 /\ watermark'[s].from <= Min(B)
            \/ /\ ~Passed(s, Min(B)) /\ watermark' = watermark
<1>1. Min(B) \in Bar
  BY BarMin
<1>2. \A t \in Symbol, b \in Bar :
        prices'[t][b] = IF t = s /\ b \in B THEN prices[t][b] + 1 ELSE prices[t][b]
  <2> DEFINE new == [b \in Bar |-> IF b \in B THEN prices[s][b] + 1 ELSE prices[s][b]]
  <2>1. prices' = [prices EXCEPT ![s] = new]
    BY DEF UpsertCandles
  <2> QED
    BY <2>1, WorkerParts
<1>3. CASE ~Passed(s, Min(B))
  <2>1. watermark' = watermark
    BY <1>3 DEF UpsertCandles
  <2>2. \A t \in Symbol : watermark[t].gen \in Nat /\ watermark[t].from \in Int
    BY WorkerParts, BarsBounded, SMTT(60) DEF WatermarkRow
  <2> QED
    BY <1>2, <1>3, <2>1, <2>2, SMTT(60)
<1>4. CASE Passed(s, Min(B))
  <2> DEFINE new == IF watermark[s].from = NoMarker THEN Min(B)
                    ELSE Min({watermark[s].from, Min(B)})
             q == [watermark[s] EXCEPT !.from = new, !.gen = @ + 1]
  <2>1. watermark[s] \in WatermarkRow /\ watermark[s].gen \in Nat
    BY WorkerParts DEF WatermarkRow
  <2>2. /\ new \in Bar /\ new <= Min(B)
        /\ watermark[s].from # 0 => new <= watermark[s].from
    <3>1. CASE watermark[s].from = NoMarker
      BY <3>1, <1>1, BarsBounded DEF Bar, NoMarker
    <3>2. CASE watermark[s].from # NoMarker
      <4> DEFINE T == {watermark[s].from, Min(B)}
      <4>1. T \subseteq Bar /\ T # {} /\ watermark[s].from \in T /\ Min(B) \in T
        BY <3>2, <2>1, <1>1, BarsBounded, SMTT(60) DEF Bar, WatermarkRow, NoMarker
      <4>2. Min(T) \in Bar /\ Min(T) <= Min(B) /\ Min(T) <= watermark[s].from
        <5> HIDE DEF T
        <5> QED BY <4>1, BarMin
      <4> QED
        BY <4>2, <3>2
    <3> QED
      BY <3>1, <3>2
  <2>3. watermark' = [watermark EXCEPT ![s].from = new, ![s].gen = @ + 1]
    BY <1>4 DEF UpsertCandles
  <2> HIDE DEF new
  <2>4. watermark' = [watermark EXCEPT ![s] = q]
    BY <2>3, WorkerParts
  <2>5. new \in 0..MaxBar
    BY <2>2, BarsBounded DEF Bar
  <2>6. q.row = watermark[s].row /\ q.last = watermark[s].last
    BY <2>1, <2>5 DEF WatermarkRow
  <2>7. q.from = new /\ q.gen = watermark[s].gen + 1
    BY <2>1, <2>5 DEF WatermarkRow
  <2> HIDE DEF q
  <2>8. watermark'[s] = q /\ \A t \in Symbol : t # s => watermark'[t] = watermark[t]
    BY <2>4, WorkerParts
  <2>9. ASSUME NEW t \in Symbol
        PROVE  /\ watermark'[t].row = watermark[t].row
               /\ watermark'[t].last = watermark[t].last
               /\ watermark'[t].gen >= watermark[t].gen
               /\ watermark[t].from # 0 =>
                    watermark'[t].from # 0 /\ watermark'[t].from <= watermark[t].from
    <3>1. CASE t # s
      <4>1. watermark[t].gen \in Nat /\ watermark[t].from \in Int
        BY WorkerParts, BarsBounded, SMTT(60) DEF WatermarkRow
      <4> QED
        BY <3>1, <2>8, <4>1
    <3>2. CASE t = s
      <4>1. new # 0
        BY <2>2, BarsBounded DEF Bar
      <4> QED
        BY <3>2, <2>1, <2>2, <2>6, <2>7, <2>8, <4>1
    <3> QED
      BY <3>1, <3>2
  <2>10. /\ watermark'[s].gen > watermark[s].gen
         /\ watermark'[s].from # 0 /\ watermark'[s].from <= Min(B)
    BY <2>1, <2>2, <2>7, <2>8, BarsBounded DEF Bar
  <2> QED
    BY <1>2, <1>4, <2>9, <2>10
<1> QED
  BY <1>3, <1>4

LEMMA UpsertHolds ==
  ASSUME IndicatorInv, NEW s \in Symbol, NEW B \in SUBSET Bar, B # {},
         UpsertCandles(s, B), IndicatorTypeOK'
  PROVE  IndicatorInv'
<1>t. IndicatorTypeOK
  BY DEF IndicatorInv
<1>u. UNCHANGED <<runtime, journal, worker, restarts, faults, missed>>
  BY DEF UpsertCandles
<1>1. \A t \in Symbol, b \in Bar :
        prices'[t][b] = IF t = s /\ b \in B THEN prices[t][b] + 1 ELSE prices[t][b]
  BY <1>t, UpsertEffect
<1>2. \A t \in Symbol :
        /\ watermark'[t].row = watermark[t].row
        /\ watermark'[t].last = watermark[t].last
        /\ watermark'[t].gen >= watermark[t].gen
        /\ watermark[t].from # 0 =>
             watermark'[t].from # 0 /\ watermark'[t].from <= watermark[t].from
  BY <1>t, UpsertEffect
<1>3. \/ /\ Passed(s, Min(B))
         /\ watermark'[s].gen > watermark[s].gen
         /\ watermark'[s].from # 0 /\ watermark'[s].from <= Min(B)
      \/ /\ ~Passed(s, Min(B)) /\ watermark' = watermark
  BY <1>t, UpsertEffect
<1>4. \A t \in Symbol, b \in Bar : prices[t][b] > 0 => prices'[t][b] > 0
  <2>1. \A t \in Symbol, b \in Bar : prices[t][b] \in Int
    BY <1>t, WorkerParts
  <2> QED
    BY <1>1, <2>1, SMTT(60)
<1>5. Min(B) \in Bar /\ Min(B) \in Nat /\ Min(B) # 0 /\ \A b \in B : Min(B) <= b
  BY BarMin, BarPositive
<1>6. /\ watermark \in [Symbol -> WatermarkRow]
      /\ watermark' \in [Symbol -> WatermarkRow]
  BY <1>t DEF IndicatorTypeOK
<1>7. RowsTogether'
  <2>1. CASE \A t \in Symbol : watermark[t].row
    BY <2>1, <1>2 DEF RowsTogether
  <2>2. CASE watermark = NoRows /\ runtime = Empty
    <3>1. ~Passed(s, Min(B))
      BY <2>2 DEF Passed, NoRows, NoRow
    <3> QED
      BY <2>2, <3>1, <1>3, <1>u DEF RowsTogether, NoRows
  <2> QED
    BY <2>1, <2>2 DEF IndicatorInv, RowsTogether

<1>8. RuntimeReached'
  <2>1. Grounded(runtime)'
    BY <1>4, <1>u DEF IndicatorInv, RuntimeReached, Grounded
  <2>2. \A t \in Symbol : Through(runtime, t, watermark[t].last)'
    BY <1>2, <1>u DEF IndicatorInv, RuntimeReached, Through
  <2> QED
    BY <2>1, <2>2 DEF RuntimeReached
<1>9. ColdCore'
  <2> SUFFICES ASSUME worker'.at = "cold"
               PROVE  /\ watermark' = NoRows
                      /\ Grounded(worker.core)'
                      /\ \A t \in Symbol : Through(worker.core, t, worker.core.boundary[t])'
    BY DEF ColdCore, NoRows
  <2>1. /\ watermark = NoRows
        /\ Grounded(worker.core)
        /\ \A t \in Symbol : Through(worker.core, t, worker.core.boundary[t])
    BY <1>u DEF IndicatorInv, ColdCore
  <2>2. watermark' = NoRows
    BY <2>1, <1>3 DEF Passed, NoRows, NoRow
  <2>3. Grounded(worker.core)'
    BY <2>1, <1>4, <1>u DEF Grounded
  <2>4. \A t \in Symbol : Through(worker.core, t, worker.core.boundary[t])'
    BY <2>1, <1>u DEF Through
  <2> QED
    BY <2>2, <2>3, <2>4
<1>10. SeenRows'
  <2>1. ASSUME NEW t \in Symbol
        PROVE  watermark[t].gen \in Nat /\ watermark'[t].gen \in Nat /\ worker.seen[t].gen \in Nat
    BY <1>t DEF IndicatorTypeOK, WorkerState, WatermarkRow
  <2>2. worker'.at = "starting" =>
          worker'.seen = NoRows \/ \A t \in Symbol : watermark'[t].row
    BY <1>2, <1>u DEF IndicatorInv, SeenRows
  <2>3. worker'.at \in {"replay", "acknowledge"} =>
          \A t \in Symbol : /\ watermark'[t].row
                            /\ worker'.seen[t].last = watermark'[t].last
    BY <1>2, <1>u DEF IndicatorInv, SeenRows
  <2>4. worker'.at \in {"replay", "acknowledge"} =>
          \A t \in Symbol : worker'.seen[t].gen <= watermark'[t].gen
    BY <1>2, <1>u, <2>1 DEF IndicatorInv, SeenRows
  <2> QED
    BY <2>2, <2>3, <2>4 DEF SeenRows, NoRows
<1>11. LiveCore'
  BY <1>2, <1>u DEF IndicatorInv, LiveCore
<1>12. BatchAhead'
  <2>1. \A i \in worker.batch : i.symbol \in Symbol
    BY <1>t, WorkerParts DEF FetchedBar
  <2> QED
    BY <1>2, <1>u, <2>1 DEF IndicatorInv, BatchAhead
<1>13. DecidedInOrder'
  <2>1. \A i \in DOMAIN journal : journal[i][1] \in Symbol
    BY <1>t, SMTT(60) DEF IndicatorTypeOK
  <2> QED
    BY <1>2, <1>u, <2>1 DEF IndicatorInv, DecidedInOrder
<1>14. HistoryHeld'
  <2> SUFFICES ASSUME NEW t \in Symbol, NEW b \in Bar, NEW c \in Bar,
                      runtime.applied[t][c] > 0, c <= b, b <= watermark[t].last,
                      runtime.applied[t][b] # prices'[t][b]
               PROVE  watermark'[t].from \in 1..b \/ <<t, b>> \in missed
    BY <1>2, <1>u DEF HistoryHeld
  <2>n. /\ watermark[t].from \in Nat /\ watermark'[t].from \in Nat
        /\ watermark[s].last \in Nat /\ b \in Nat /\ Min(B) \in Nat /\ Min(B) # 0
    BY <1>5, <1>6, RowParts, BarPositive
  <2>1. CASE runtime.applied[t][b] # prices[t][b]
    <3>1. watermark[t].from \in 1..b \/ <<t, b>> \in missed
      BY <2>1 DEF IndicatorInv, HistoryHeld
    <3> QED
      BY <3>1, <1>2, <2>n
  <2>2. CASE runtime.applied[t][b] = prices[t][b]
    <3>1. t = s /\ b \in B
      BY <2>2, <1>1
    <3>2. Min(B) <= b
      BY <3>1, <1>5
    <3>3. watermark[s].row
      <4>1. CASE watermark = NoRows /\ runtime = Empty
        BY <4>1 DEF Empty
      <4> QED
        BY <4>1 DEF IndicatorInv, RowsTogether
    <3>4. Passed(s, Min(B))
      BY <3>1, <3>2, <3>3, <2>n DEF Passed
    <3> QED
      BY <1>3, <3>1, <3>2, <3>4, <2>n
  <2> QED
    BY <2>1, <2>2
<1>15. RebuiltCore'
  <2> SUFFICES ASSUME worker.at = "acknowledge"
               PROVE  RebuiltCore'
    BY <1>u DEF RebuiltCore
  <2>1. /\ Grounded(worker.core)
        /\ \A t \in Symbol :
             /\ \A b \in Bar : runtime.applied[t][b] > 0 =>
                  /\ worker.core.applied[t][b] > 0
                  /\ worker.core.boundary[t] = runtime.boundary[t]
             /\ watermark[t].last # 0 =>
                  \A b \in Bar : worker.core.applied[t][b] > 0 => b <= watermark[t].last
    BY DEF IndicatorInv, RebuiltCore
  <2>2. Grounded(worker.core)'
    BY <2>1, <1>4, <1>u DEF Grounded
  <2>3. ASSUME Fence', NEW t \in Symbol, NEW b \in Bar, NEW c \in Bar, NEW d \in Bar,
               worker.core.applied[t][c] > 0, c <= b,
               worker.core.applied[t][d] > 0, b <= d
        PROVE  worker.core.applied[t][b] = prices'[t][b]
    <3>1. watermark'[s] = worker.seen[s] /\ watermark[s].row
          /\ worker.seen[s].gen <= watermark[s].gen
      BY <2>3, <1>u DEF IndicatorInv, SeenRows, Fence
    <3>2. ~Passed(s, Min(B)) /\ watermark' = watermark
      <4>1. watermark[s].gen \in Nat /\ watermark'[s].gen \in Nat
        BY <1>t DEF IndicatorTypeOK, WatermarkRow
      <4> QED
        BY <1>3, <3>1, <4>1
    <3>3. Fence
      BY <2>3, <3>2, <1>u DEF Fence
    <3>4. worker.core.applied[t][b] = prices[t][b]
      BY <2>3, <3>3 DEF IndicatorInv, RebuiltCore
    <3>5. watermark[s].last # 0 /\ watermark[s].last < Min(B)
      <4>1. watermark[s].last \in Nat /\ Min(B) \in Nat
        BY <1>5, <1>6, RowParts, BarPositive
      <4> QED
        BY <3>1, <3>2, <4>1 DEF Passed, Epoch
    <3>6. CASE t = s /\ b \in B
      <4>1. d <= watermark[s].last
        BY <2>1, <2>3, <3>5, <3>6
      <4>2. Min(B) <= b
        BY <3>6, <1>5
      <4>3. watermark[s].last \in Nat /\ Min(B) \in Nat /\ b \in Nat /\ d \in Nat
        BY <1>5, <1>6, RowParts, BarPositive
      <4> QED
        BY <2>3, <3>5, <4>1, <4>2, <4>3
    <3>7. CASE ~(t = s /\ b \in B)
      BY <3>4, <3>7, <1>1
    <3> QED
      BY <3>6, <3>7
  <2>4. \A t \in Symbol : watermark'[t].last # 0 =>
          \A b \in Bar : worker.core.applied[t][b] > 0 => b <= watermark'[t].last
    BY <2>1, <1>2
  <2> QED
    BY <2>1, <2>2, <2>3, <2>4, <1>u DEF RebuiltCore
<1> QED
  BY <1>7, <1>8, <1>9, <1>10, <1>11, <1>12, <1>13, <1>14, <1>15 DEF IndicatorInv

-----------------------------------------------------------------------------
(* The history a feed without state takes: its newest bars, without a gap.    *)
LEMMA RecentTop ==
  ASSUME IndicatorTypeOK, NEW s \in Symbol, NEW m \in Nat, Latest(s) <= m, Latest(s) # 0
  PROVE  Latest(s) \in Recent(s, m)
<1> DEFINE have == {b \in Stored(s) : b <= m}
<1>1. Latest(s) \in Bar /\ prices[s][Latest(s)] > 0
  BY LatestOf, BarsBounded DEF Bar
<1>2. Latest(s) \in have
  BY <1>1 DEF Stored
<1>3. {c \in have : c > Latest(s)} = {}
  <2>1. \A c \in have : c \in Nat /\ c <= Latest(s)
    BY LatestOf, BarPositive DEF Stored
  <2>2. Latest(s) \in Nat
    BY <1>1, BarPositive
  <2>3. \A c \in have : ~(c > Latest(s))
    BY <2>1, <2>2
  <2> HIDE DEF have
  <2> QED BY <2>3
<1>4. Cardinality({c \in have : c > Latest(s)}) = 0
  <2> HIDE DEF have
  <2> QED BY <1>3, FS_EmptySet
<1>5. BootstrapBars > 0 /\ BootstrapBars \in Nat
  BY IndicatorAssumption
<1>6. Recent(s, m) = {b \in have : Cardinality({c \in have : c > b}) < BootstrapBars}
  BY DEF Recent
<1> HIDE DEF have
<1> QED
  BY <1>2, <1>4, <1>5, <1>6

LEMMA RecentInterval ==
  ASSUME NEW s \in Symbol, NEW m \in Nat, NEW c \in Recent(s, m),
         NEW b \in Stored(s), c <= b, b <= m
  PROVE  b \in Recent(s, m)
<1> DEFINE have == {x \in Stored(s) : x <= m}
           T == {x \in have : x > b}
           U == {x \in have : x > c}
<1>1. have \subseteq Bar /\ c \in have /\ b \in have
  BY DEF Recent, Stored
<1>2. Recent(s, m) = {x \in have : Cardinality({y \in have : y > x}) < BootstrapBars}
  BY DEF Recent
<1>3. T \subseteq U /\ U \subseteq Bar
  <2>1. c \in Nat /\ b \in Nat /\ \A x \in have : x \in Nat
    BY <1>1, BarPositive
  <2>2. \A x \in have : x > b => x > c
    BY <2>1
  <2> HIDE DEF have
  <2> QED BY <1>1, <2>2
<1>4. IsFiniteSet(Bar)
  BY BarsBounded, FS_Interval DEF Bar
<1>5. IsFiniteSet(U)
  <2> HIDE DEF U
  <2> QED BY <1>3, <1>4, FS_Subset
<1>6. IsFiniteSet(T) /\ Cardinality(T) <= Cardinality(U)
  <2> HIDE DEF T, U
  <2> QED BY <1>3, <1>5, FS_Subset
<1>7. Cardinality(T) \in Nat /\ Cardinality(U) \in Nat
  <2> HIDE DEF T, U
  <2> QED BY <1>5, <1>6, FS_CardinalityType
<1>8. Cardinality(U) < BootstrapBars
  <2> HIDE DEF have
  <2> QED BY <1>2
<1>9. Cardinality(T) < BootstrapBars
  <2> HIDE DEF T, U
  <2> QED BY <1>6, <1>7, <1>8, IndicatorAssumption
<1> HIDE DEF have
<1> QED
  BY <1>1, <1>2, <1>9

LEMMA ColdStartHolds ==
  ASSUME IndicatorInv, ColdStart, IndicatorTypeOK'
  PROVE  IndicatorInv'
<1>t. IndicatorTypeOK
  BY DEF IndicatorInv
<1>1. RowsTogether' /\ RuntimeReached' /\ HistoryHeld' /\ DecidedInOrder'
  BY DurableKept DEF ColdStart
<1>2. /\ worker'.at = "cold" /\ worker'.batch = worker.batch
      /\ worker'.core.applied = [s \in Symbol |-> Contents(s, Recent(s, MaxBar))]
      /\ worker'.core.boundary = [s \in Symbol |-> Latest(s)]
  BY <1>t DEF ColdStart, IndicatorTypeOK, WorkerState
<1>3. \A s \in Symbol, b \in Bar :
        worker'.core.applied[s][b] = IF b \in Recent(s, MaxBar) THEN prices[s][b] ELSE 0
  BY <1>2, SMTT(60) DEF Contents
<1>4. ASSUME NEW s \in Symbol
      PROVE  /\ \A b \in Bar : worker'.core.applied[s][b] > 0 =>
                  prices[s][b] > 0 /\ b <= Latest(s)
             /\ Latest(s) # 0 => worker'.core.applied[s][Latest(s)] > 0
  <2>1. \A b \in Recent(s, MaxBar) : b \in Bar /\ prices[s][b] > 0
    BY DEF Recent, Stored
  <2>2. \A b \in Bar : worker'.core.applied[s][b] > 0 => prices[s][b] > 0 /\ b <= Latest(s)
    BY <1>3, <1>t, <2>1, LatestOf, SMTT(60)
  <2>3. Latest(s) # 0 => Latest(s) \in Recent(s, MaxBar)
    BY <1>t, RecentTop, LatestOf, BarsBounded
  <2> QED
    BY <2>1, <2>2, <2>3, <1>3
<1>5. watermark = NoRows
  <2>1. \A s \in Symbol : ~watermark[s].row
    BY DEF ColdStart
  <2>2. CASE Symbol = {}
    BY <2>2, <1>t DEF IndicatorTypeOK, NoRows
  <2>3. CASE Symbol # {}
    BY <2>1, <2>3 DEF IndicatorInv, RowsTogether
  <2> QED
    BY <2>2, <2>3
<1>6. ColdCore'
  <2>1. watermark' = NoRows /\ prices' = prices
    BY <1>5 DEF ColdStart
  <2>2. Grounded(worker.core)'
    BY <1>2, <1>4, <2>1 DEF Grounded
  <2>3. \A s \in Symbol : Through(worker.core, s, worker.core.boundary[s])'
    BY <1>2, <1>4 DEF Through
  <2> QED
    BY <2>1, <2>2, <2>3 DEF ColdCore, NoRows
<1>7. worker'.batch = {}
  BY <1>2 DEF IndicatorInv, BatchAhead, ColdStart
<1>8. SeenRows' /\ RebuiltCore' /\ LiveCore' /\ BatchAhead'
  BY <1>2, <1>7 DEF SeenRows, RebuiltCore, LiveCore, BatchAhead
<1> QED
  BY <1>1, <1>6, <1>8 DEF IndicatorInv

LEMMA RequestHolds ==
  ASSUME IndicatorInv, RequestRebuilds, IndicatorTypeOK'
  PROVE  IndicatorInv'
<1>t. IndicatorTypeOK
  BY DEF IndicatorInv
<1>u. UNCHANGED <<prices, runtime, journal, missed>>
  BY DEF RequestRebuilds
<1>1. /\ watermark' \in [Symbol -> WatermarkRow]
      /\ worker' = [worker EXCEPT !.at = "replay", !.seen = watermark']
  BY <1>t, RequestedTyped
<1>2. \A s \in Symbol :
        /\ watermark'[s].row = watermark[s].row
        /\ watermark'[s].last = watermark[s].last
        /\ watermark'[s].from # 0
        /\ watermark[s].from # 0 => watermark'[s].from <= watermark[s].from
  BY <1>t, RequestedTyped
<1>3. \A s \in Symbol : watermark[s].row
  <2>1. worker.seen # NoRows
    <3>1. PICK s \in Symbol : worker.seen[s].from # 0
      BY DEF RequestRebuilds, Pending, NoMarker
    <3>2. NoRows[s].from = 0
      BY DEF NoRows, NoRow, NoMarker
    <3> QED
      BY <3>1, <3>2
  <2> QED
    BY <2>1 DEF RequestRebuilds, IndicatorInv, SeenRows
<1>4. /\ worker'.at = "replay" /\ worker'.seen = watermark' /\ worker'.batch = worker.batch
  BY <1>1, <1>t DEF IndicatorTypeOK, WorkerState
<1>5. RowsTogether'
  BY <1>2, <1>3 DEF RowsTogether
<1>6. RuntimeReached'
  BY <1>2, <1>u DEF IndicatorInv, RuntimeReached, Grounded, Through
<1>7. SeenRows'
  <2>1. \A s \in Symbol : watermark'[s].gen <= watermark'[s].gen
    BY <1>1, RowParts
  <2> QED
    BY <1>2, <1>3, <1>4, <2>1 DEF SeenRows
<1>8. worker'.batch = {}
  BY <1>4 DEF IndicatorInv, BatchAhead, RequestRebuilds
<1>9. ColdCore' /\ RebuiltCore' /\ LiveCore' /\ BatchAhead'
  BY <1>4, <1>8 DEF ColdCore, RebuiltCore, LiveCore, BatchAhead
<1>10. HistoryHeld'
  <2> SUFFICES ASSUME NEW s \in Symbol, NEW b \in Bar, NEW c \in Bar,
                      runtime.applied[s][c] > 0, c <= b, b <= watermark[s].last,
                      runtime.applied[s][b] # prices[s][b]
               PROVE  watermark'[s].from \in 1..b \/ <<s, b>> \in missed
    BY <1>2, <1>u DEF HistoryHeld
  <2>1. watermark[s].from \in 1..b \/ <<s, b>> \in missed
    BY DEF IndicatorInv, HistoryHeld
  <2>2. watermark[s].from \in Nat /\ watermark'[s].from \in Nat /\ b \in Nat
    BY <1>1, <1>t, WorkerParts, RowParts, BarPositive
  <2> QED
    BY <1>2, <2>1, <2>2
<1>11. DecidedInOrder'
  <2>1. \A i \in DOMAIN journal : journal[i][1] \in Symbol
    BY <1>t, SMTT(60) DEF IndicatorTypeOK
  <2> QED
    BY <1>2, <1>u, <2>1 DEF IndicatorInv, DecidedInOrder
<1> QED
  BY <1>5, <1>6, <1>7, <1>9, <1>10, <1>11 DEF IndicatorInv

(* A bar between the first bar a state holds and its watermark is in Differs  *)
(* when the state holds another content.                                      *)
LEMMA DiffersOf ==
  ASSUME NEW state \in ModelState, NEW s \in Symbol, NEW last \in 0..MaxBar
  PROVE  \A b \in Bar :
           b \in Differs(state, s, last) <=>
             /\ \E c \in Bar : state.applied[s][c] > 0 /\ c <= b
             /\ b <= last /\ state.applied[s][b] # prices[s][b]
<1>1. CASE Fed(state, s) = {}
  BY <1>1 DEF Differs, Fed
<1>2. CASE Fed(state, s) # {}
  <2>1. Inception(state, s) \in Fed(state, s) /\ \A b \in Fed(state, s) : Inception(state, s) <= b
    BY <1>2, FedOf
  <2>2. Inception(state, s) \in Bar /\ Inception(state, s) \in Nat /\ last \in Nat
        /\ state.applied[s][Inception(state, s)] > 0
    <3>1. Inception(state, s) \in Bar /\ state.applied[s][Inception(state, s)] > 0
      BY <2>1 DEF Fed
    <3>2. Inception(state, s) \in Nat
      BY <3>1, BarPositive
    <3>3. last \in Nat
      BY BarsBounded
    <3> QED
      BY <3>1, <3>2, <3>3
  <2>3. ASSUME NEW b \in Bar
        PROVE  (\E c \in Bar : state.applied[s][c] > 0 /\ c <= b) <=> Inception(state, s) <= b
    <3>1. ASSUME NEW c \in Bar, state.applied[s][c] > 0, c <= b
          PROVE  Inception(state, s) <= b
      <4>1. Inception(state, s) <= c
        BY <2>1, <3>1 DEF Fed
      <4> QED
        BY <3>1, <4>1, <2>2, BarPositive
    <3> QED
      BY <3>1, <2>2
  <2>4. Differs(state, s, last)
          = {b \in Inception(state, s)..last : state.applied[s][b] # prices[s][b]}
    BY <1>2 DEF Differs
  <2>5. ASSUME NEW b \in Bar
        PROVE  b \in Inception(state, s)..last <=> Inception(state, s) <= b /\ b <= last
    BY <2>2, BarPositive
  <2> QED
    BY <2>3, <2>4, <2>5
<1> QED
  BY <1>1, <1>2

LEMMA InitializeHolds ==
  ASSUME IndicatorInv, InitializeRuntime, IndicatorTypeOK'
  PROVE  IndicatorInv'
<1>t. IndicatorTypeOK
  BY DEF IndicatorInv
<1>u. UNCHANGED <<prices, journal>> /\ runtime' = worker.core
  BY DEF InitializeRuntime
<1>1. \A s \in Symbol : /\ watermark'[s].row
                        /\ watermark'[s].last = worker.core.boundary[s]
                        /\ watermark'[s].from = 0
  BY <1>t, TypeInitialize
<1>2. /\ watermark = NoRows
      /\ Grounded(worker.core)
      /\ \A s \in Symbol : Through(worker.core, s, worker.core.boundary[s])
  BY DEF IndicatorInv, ColdCore, InitializeRuntime
<1>3. /\ worker'.at = "running" /\ worker'.core = worker.core /\ worker'.batch = worker.batch
  BY <1>t DEF InitializeRuntime, IndicatorTypeOK, WorkerState
<1>4. worker.batch = {}
  BY DEF IndicatorInv, BatchAhead, InitializeRuntime
<1>5. journal = <<>>
  <2>1. CASE DOMAIN journal # {}
    <3>1. PICK i \in DOMAIN journal : TRUE
      BY <2>1
    <3>a. journal[i] \in Symbol \X Bar
      BY <3>1, <1>t, SMTT(60) DEF IndicatorTypeOK
    <3>2. journal[i][1] \in Symbol /\ journal[i][2] \in Bar
      BY <3>a
    <3>3. journal[i][2] <= watermark[journal[i][1]].last
      BY <3>1 DEF IndicatorInv, DecidedInOrder
    <3>4. watermark[journal[i][1]].last = 0
      BY <1>2, <3>2 DEF NoRows, NoRow, Epoch
    <3>5. journal[i][2] \in Nat /\ journal[i][2] # 0 /\ journal[i][2] <= 0
      BY <3>2, <3>3, <3>4, BarPositive
    <3> QED
      BY <3>5
  <2>2. CASE DOMAIN journal = {}
    BY <2>2, <1>t, SMTT(60) DEF IndicatorTypeOK
  <2> QED
    BY <2>1, <2>2
<1>6. RowsTogether'
  BY <1>1 DEF RowsTogether
<1>7. RuntimeReached'
  <2>1. Grounded(runtime)'
    BY <1>2, <1>u DEF Grounded
  <2>2. \A s \in Symbol : Through(runtime, s, watermark[s].last)'
    BY <1>1, <1>2, <1>u DEF Through
  <2> QED
    BY <2>1, <2>2 DEF RuntimeReached
<1>8. ColdCore' /\ SeenRows' /\ RebuiltCore' /\ LiveCore' /\ BatchAhead'
  BY <1>1, <1>3, <1>4, <1>u DEF ColdCore, SeenRows, RebuiltCore, LiveCore, BatchAhead
<1>9. DecidedInOrder'
  BY <1>5, <1>u DEF DecidedInOrder
<1>10. HistoryHeld'
  <2> SUFFICES ASSUME NEW s \in Symbol, NEW b \in Bar, NEW c \in Bar,
                      worker.core.applied[s][c] > 0, c <= b, b <= worker.core.boundary[s],
                      worker.core.applied[s][b] # prices[s][b]
               PROVE  <<s, b>> \in missed'
    BY <1>1, <1>u DEF HistoryHeld
  <2>1. worker.core \in ModelState /\ worker.core.boundary[s] \in 0..MaxBar
    BY <1>t, WorkerParts DEF ModelState
  <2>2. b \in Differs(worker.core, s, worker.core.boundary[s])
    BY <2>1, DiffersOf
  <2> QED
    BY <2>2 DEF InitializeRuntime
<1> QED
  BY <1>6, <1>7, <1>8, <1>9, <1>10 DEF IndicatorInv

LEMMA RebuildHolds ==
  ASSUME IndicatorInv, Rebuild, IndicatorTypeOK'
  PROVE  IndicatorInv'
<1>t. IndicatorTypeOK
  BY DEF IndicatorInv
<1>u. UNCHANGED <<prices, watermark, runtime, journal, missed>>
  BY DEF Rebuild
<1>1. RowsTogether' /\ RuntimeReached' /\ HistoryHeld' /\ DecidedInOrder'
  BY <1>u, DurableKept
<1>2. /\ worker'.at = "acknowledge" /\ worker'.batch = worker.batch
      /\ worker'.seen = worker.seen
      /\ worker'.core.applied = [s \in Symbol |-> Contents(s, Replayed(s))]
      /\ worker'.core.boundary = [s \in Symbol |-> FlatBoundary(s)]
  BY <1>t DEF Rebuild, IndicatorTypeOK, WorkerState
<1>3. \A s \in Symbol, b \in Bar :
        worker'.core.applied[s][b] = IF b \in Replayed(s) THEN prices[s][b] ELSE 0
  BY <1>2, SMTT(60) DEF Contents
<1>4. ASSUME NEW s \in Symbol
      PROVE  /\ worker.seen[s].last = watermark[s].last /\ watermark[s].last \in Nat
             /\ watermark[s].last \in 0..MaxBar
             /\ Through(runtime, s, watermark[s].last)
             /\ \A b \in Bar : prices[s][b] \in Nat
             /\ \A b \in Bar : runtime.applied[s][b] > 0 => prices[s][b] > 0
  <2>1. worker.seen[s].last = watermark[s].last
    BY DEF IndicatorInv, SeenRows, Rebuild
  <2>2. watermark[s].last \in Nat /\ watermark[s].last \in 0..MaxBar
    BY <1>t, WorkerParts, RowParts
  <2>3. \A b \in Bar : prices[s][b] \in Nat
    BY <1>t, WorkerParts
  <2>4. /\ Through(runtime, s, watermark[s].last)
        /\ \A b \in Bar : runtime.applied[s][b] > 0 => prices[s][b] > 0
    BY DEF IndicatorInv, RuntimeReached, Grounded
  <2> QED
    BY <2>1, <2>2, <2>3, <2>4
<1>5. \A s \in Symbol : Replayed(s) \subseteq Stored(s) /\ Stored(s) \subseteq Bar
  BY DEF Replayed, Recent, Stored
<1>6. \A s \in Symbol, b \in Bar :
        worker'.core.applied[s][b] > 0 <=> b \in Replayed(s)
  BY <1>3, <1>4, <1>5 DEF Stored
(* A feed that has state is replayed from its first bar to its watermark.     *)
<1>7. ASSUME NEW s \in Symbol, Fed(runtime, s) # {}
      PROVE  /\ Target(s) = watermark[s].last
             /\ FlatBoundary(s) = runtime.boundary[s]
             /\ Inception(runtime, s) \in Nat
             /\ \A b \in Bar : b \in Replayed(s) <=>
                  prices[s][b] > 0 /\ Inception(runtime, s) <= b /\ b <= watermark[s].last
             /\ \A b \in Bar : runtime.applied[s][b] > 0 => b \in Replayed(s)
  <2>1. /\ Inception(runtime, s) \in Fed(runtime, s)
        /\ \A b \in Fed(runtime, s) : Inception(runtime, s) <= b
    BY <1>7, <1>t, WorkerParts, FedOf
  <2>2. Inception(runtime, s) \in Bar /\ Inception(runtime, s) \in Nat
        /\ runtime.applied[s][Inception(runtime, s)] > 0
    BY <2>1, BarPositive DEF Fed
  <2>3. watermark[s].last # 0
    <3>1. Inception(runtime, s) <= watermark[s].last
      BY <2>2, <1>4 DEF Through
    <3> QED
      BY <2>2, <3>1, BarPositive, <1>4
  <2>4. Target(s) = watermark[s].last
    BY <2>3, <1>4 DEF Target, Epoch
  <2>5. FlatBoundary(s) = runtime.boundary[s]
    BY <1>7 DEF FlatBoundary
  <2>6. Replayed(s) = Stored(s) \cap (Inception(runtime, s)..watermark[s].last)
    BY <1>7, <2>4 DEF Replayed
  <2>7. ASSUME NEW b \in Bar
        PROVE  b \in Replayed(s) <=>
                 prices[s][b] > 0 /\ Inception(runtime, s) <= b /\ b <= watermark[s].last
    BY <2>2, <2>6, <1>4, BarPositive, SMTT(60) DEF Stored
  <2>8. ASSUME NEW b \in Bar, runtime.applied[s][b] > 0 PROVE b \in Replayed(s)
    BY <2>1, <2>7, <2>8, <1>4 DEF Fed, Through
  <2> QED
    BY <2>2, <2>4, <2>5, <2>7, <2>8
(* A feed without state takes its first history.                              *)
<1>8. ASSUME NEW s \in Symbol, Fed(runtime, s) = {}
      PROVE  /\ watermark[s].last = 0
             /\ Target(s) = Latest(s) /\ FlatBoundary(s) = Latest(s)
             /\ Replayed(s) = Recent(s, Latest(s))
  <2>1. watermark[s].last = 0
    <3>1. CASE watermark[s].last # 0
      <4>1. watermark[s].last \in Bar
        BY <3>1, <1>4, BarsBounded DEF Bar
      <4> QED
        BY <4>1, <3>1, <1>4, <1>8 DEF Fed, Through
    <3> QED
      BY <3>1
  <2>2. Target(s) = Latest(s)
    BY <2>1, <1>4 DEF Target, Epoch
  <2> QED
    BY <2>1, <2>2, <1>8 DEF FlatBoundary, Replayed
<1>9. ASSUME NEW s \in Symbol, FlatBoundary(s) # 0
      PROVE  FlatBoundary(s) \in Replayed(s) /\ FlatBoundary(s) \in Bar
  <2>1. CASE Fed(runtime, s) = {}
    <3>1. Latest(s) # 0 /\ Latest(s) \in Nat
      BY <1>8, <1>9, <2>1, <1>t, LatestOf, BarsBounded
    <3>2. Latest(s) \in Recent(s, Latest(s))
      BY <3>1, <1>t, RecentTop
    <3> QED
      BY <3>2, <1>5, <1>8, <2>1
  <2>2. CASE Fed(runtime, s) # {}
    <3>1. runtime.boundary[s] \in 0..MaxBar /\ runtime.boundary[s] # 0
      BY <1>7, <1>9, <2>2, <1>t, WorkerParts DEF ModelState
    <3>2. runtime.boundary[s] \in Bar
      BY <3>1, BarsBounded DEF Bar
    <3>3. runtime.applied[s][runtime.boundary[s]] > 0
      BY <3>1 DEF IndicatorInv, RuntimeReached, Grounded
    <3> QED
      BY <3>2, <3>3, <1>7, <2>2
  <2> QED
    BY <2>1, <2>2
<1>10. Grounded(worker.core)'
  <2>1. ASSUME NEW s \in Symbol, worker'.core.boundary[s] # 0
        PROVE  worker'.core.applied[s][worker'.core.boundary[s]] > 0
    BY <2>1, <1>2, <1>6, <1>9
  <2>2. ASSUME NEW s \in Symbol, NEW b \in Bar, worker'.core.applied[s][b] > 0
        PROVE  prices'[s][b] > 0
    BY <2>2, <1>5, <1>6, <1>u DEF Stored
  <2> QED
    BY <2>1, <2>2 DEF Grounded
<1>11. ASSUME NEW s \in Symbol, NEW b \in Bar, runtime.applied[s][b] > 0
       PROVE  /\ worker'.core.applied[s][b] > 0
              /\ worker'.core.boundary[s] = runtime.boundary[s]
  <2>1. Fed(runtime, s) # {}
    BY <1>11 DEF Fed
  <2> QED
    BY <2>1, <1>2, <1>6, <1>7, <1>11
<1>12. ASSUME NEW s \in Symbol, watermark[s].last # 0, NEW b \in Bar,
              worker'.core.applied[s][b] > 0
       PROVE  b <= watermark[s].last
  <2>1. Fed(runtime, s) # {}
    BY <1>8, <1>12
  <2> QED
    BY <2>1, <1>6, <1>7, <1>12
<1>13. ASSUME NEW s \in Symbol, NEW b \in Bar, NEW c \in Bar, NEW d \in Bar,
              worker'.core.applied[s][c] > 0, c <= b,
              worker'.core.applied[s][d] > 0, b <= d
       PROVE  worker'.core.applied[s][b] = prices[s][b]
  <2>0. c \in Replayed(s) /\ d \in Replayed(s)
    BY <1>6, <1>13
  <2>n. b \in Nat /\ c \in Nat /\ d \in Nat
    BY BarPositive
  <2>1. CASE prices[s][b] > 0
    <3>1. CASE Fed(runtime, s) = {}
      <4>1. Latest(s) \in Nat /\ d <= Latest(s)
        BY <1>t, LatestOf, BarsBounded, <2>0, <1>5 DEF Stored
      <4>2. b <= Latest(s)
        BY <4>1, <2>n, <1>13
      <4>3. b \in Recent(s, Latest(s))
        BY <4>1, <4>2, <2>0, <2>1, <3>1, <1>8, <1>13, RecentInterval DEF Stored
      <4> QED
        BY <4>3, <1>3, <1>8, <3>1
    <3>2. CASE Fed(runtime, s) # {}
      <4>1. /\ Inception(runtime, s) <= c /\ d <= watermark[s].last
            /\ Inception(runtime, s) \in Nat /\ watermark[s].last \in Nat
        BY <2>0, <1>4, <1>7, <3>2
      <4>2. Inception(runtime, s) <= b /\ b <= watermark[s].last
        BY <4>1, <2>n, <1>13
      <4> QED
        BY <4>2, <2>1, <1>3, <1>7, <3>2
    <3> QED
      BY <3>1, <3>2
  <2>2. CASE ~(prices[s][b] > 0)
    BY <2>2, <1>3, <1>4, SMTT(60)
  <2> QED
    BY <2>1, <2>2
<1>14. RebuiltCore'
  BY <1>10, <1>11, <1>12, <1>13, <1>u DEF RebuiltCore
<1>15. SeenRows'
  BY <1>2, <1>u DEF IndicatorInv, SeenRows, Rebuild
<1>16. ColdCore' /\ LiveCore' /\ BatchAhead'
  BY <1>2 DEF IndicatorInv, ColdCore, LiveCore, BatchAhead, Rebuild
<1> QED
  BY <1>1, <1>14, <1>15, <1>16 DEF IndicatorInv

LEMMA AcknowledgeHolds ==
  ASSUME IndicatorInv, AcknowledgeRebuild, IndicatorTypeOK'
  PROVE  /\ IndicatorInv'
         /\ \A s \in Symbol : watermark[s].last <= watermark'[s].last
<1>t. IndicatorTypeOK
  BY DEF IndicatorInv
<1>1. CASE ~Fence
  <2>1. worker' = Idle("rebuild") /\ UNCHANGED <<prices, watermark, runtime, journal, missed>>
    BY <1>1 DEF AcknowledgeRebuild
  <2>2. ColdCore' /\ SeenRows' /\ RebuiltCore' /\ LiveCore' /\ BatchAhead'
    BY <2>1, IdleHolds
  <2>3. RowsTogether' /\ RuntimeReached' /\ HistoryHeld' /\ DecidedInOrder'
    BY <2>1, DurableKept
  <2>4. \A s \in Symbol : watermark[s].last <= watermark'[s].last
    <3>1. \A s \in Symbol : watermark[s].last \in Nat
      BY <1>t, WorkerParts, RowParts
    <3> QED
      BY <2>1, <3>1
  <2> QED
    BY <2>2, <2>3, <2>4 DEF IndicatorInv
<1>2. CASE Fence
  <2>u. /\ UNCHANGED <<prices, journal>>
        /\ runtime' = worker.core /\ missed' = {}
    BY <1>2 DEF AcknowledgeRebuild
  <2>1. /\ worker'.at = "verify" /\ worker'.core = worker.core /\ worker'.batch = worker.batch
    BY <1>2, <1>t DEF AcknowledgeRebuild, IndicatorTypeOK, WorkerState
  <2>2. \A s \in Symbol : /\ watermark'[s].row = watermark[s].row
                          /\ watermark'[s].last = Reached(worker.core, s)
                          /\ watermark'[s].from = 0
    BY <1>2, <1>t, TypeAcknowledge
  <2>3. \A s \in Symbol : watermark[s].row
    BY DEF IndicatorInv, SeenRows, AcknowledgeRebuild
  <2>4. \A s \in Symbol : /\ Reached(worker.core, s) \in 0..MaxBar
                          /\ Reached(worker.core, s) \in Nat
                          /\ Through(worker.core, s, Reached(worker.core, s))
    <3>1. worker.core \in ModelState
      BY <1>t, WorkerParts
    <3>2. ASSUME NEW s \in Symbol
          PROVE  /\ Reached(worker.core, s) \in 0..MaxBar
                 /\ Through(worker.core, s, Reached(worker.core, s))
      BY <3>1, ReachedOf
    <3>3. ASSUME NEW s \in Symbol PROVE Reached(worker.core, s) \in Nat
      BY <3>2, BarsBounded
    <3> QED
      BY <3>2, <3>3
  <2>5. Grounded(worker.core)
    BY DEF IndicatorInv, RebuiltCore, AcknowledgeRebuild
  <2>6. \A s \in Symbol, b \in Bar : runtime.applied[s][b] > 0 =>
          /\ worker.core.applied[s][b] > 0
          /\ worker.core.boundary[s] = runtime.boundary[s]
    BY DEF IndicatorInv, RebuiltCore, AcknowledgeRebuild
  <2>7. \A s \in Symbol : \A b, c, d \in Bar :
          /\ worker.core.applied[s][c] > 0 /\ c <= b
          /\ worker.core.applied[s][d] > 0 /\ b <= d
          => worker.core.applied[s][b] = prices[s][b]
    BY <1>2 DEF IndicatorInv, RebuiltCore, AcknowledgeRebuild
  <2>8. RowsTogether'
    BY <2>2, <2>3 DEF RowsTogether
  <2>9. RuntimeReached'
    <3>1. Grounded(runtime)'
      BY <2>5, <2>u DEF Grounded
    <3>2. \A s \in Symbol : Through(runtime, s, watermark[s].last)'
      BY <2>2, <2>4, <2>u DEF Through
    <3> QED
      BY <3>1, <3>2 DEF RuntimeReached
  <2>10. worker.batch = {}
    BY DEF IndicatorInv, BatchAhead, AcknowledgeRebuild
  <2>11. ColdCore' /\ SeenRows' /\ RebuiltCore' /\ LiveCore' /\ BatchAhead'
    BY <2>1, <2>2, <2>3, <2>10, <2>u
    DEF ColdCore, SeenRows, RebuiltCore, LiveCore, BatchAhead
  <2>12. HistoryHeld'
    <3> SUFFICES ASSUME NEW s \in Symbol, NEW b \in Bar, NEW c \in Bar,
                        worker.core.applied[s][c] > 0, c <= b, b <= Reached(worker.core, s),
                        worker.core.applied[s][b] # prices[s][b]
                 PROVE  FALSE
      BY <2>2, <2>u DEF HistoryHeld
    <3>1. Reached(worker.core, s) # 0
      BY <2>4, BarPositive
    <3>2. Reached(worker.core, s) \in Bar
      BY <2>4, <3>1, BarsBounded DEF Bar
    <3>3. worker.core.applied[s][Reached(worker.core, s)] > 0
      BY <2>4, <3>1 DEF Through
    <3> QED
      BY <2>7, <3>2, <3>3
  <2>13. DecidedInOrder'
    <3>1. ASSUME NEW i \in DOMAIN journal
          PROVE  journal[i][1] \in Symbol /\ journal[i][2] \in Bar
      <4>1. journal[i] \in Symbol \X Bar
        BY <1>t, SMTT(60) DEF IndicatorTypeOK
      <4> QED
        BY <4>1
    <3>2. ASSUME NEW i \in DOMAIN journal
          PROVE  /\ journal[i][2] > worker.core.boundary[journal[i][1]]
                 /\ journal[i][2] <= Reached(worker.core, journal[i][1])
                 /\ worker.core.applied[journal[i][1]][journal[i][2]] > 0
      <4>1. /\ journal[i][2] > runtime.boundary[journal[i][1]]
            /\ runtime.applied[journal[i][1]][journal[i][2]] > 0
        BY DEF IndicatorInv, DecidedInOrder
      <4>2. /\ worker.core.applied[journal[i][1]][journal[i][2]] > 0
            /\ worker.core.boundary[journal[i][1]] = runtime.boundary[journal[i][1]]
        BY <4>1, <3>1, <2>6
      <4>3. journal[i][2] <= Reached(worker.core, journal[i][1])
        BY <4>2, <3>1, <2>4 DEF Through
      <4> QED
        BY <4>1, <4>2, <4>3
    <3>3. \A i, j \in DOMAIN journal :
            i < j /\ journal[i][1] = journal[j][1] => journal[i][2] < journal[j][2]
      BY DEF IndicatorInv, DecidedInOrder
    <3> QED
      BY <3>1, <3>2, <3>3, <2>2, <2>u DEF DecidedInOrder
  <2>14. ASSUME NEW s \in Symbol PROVE watermark[s].last <= watermark'[s].last
    <3>1. watermark[s].last \in Nat /\ watermark[s].last \in 0..MaxBar
      BY <1>t, WorkerParts, RowParts
    <3>2. CASE watermark[s].last = 0
      BY <3>2, <2>2, <2>4
    <3>3. CASE watermark[s].last # 0
      <4>1. watermark[s].last \in Bar
        BY <3>1, <3>3, BarsBounded DEF Bar
      <4>2. runtime.applied[s][watermark[s].last] > 0
        BY <3>3 DEF IndicatorInv, RuntimeReached, Through
      <4>3. worker.core.applied[s][watermark[s].last] > 0
        BY <4>1, <4>2, <2>6
      <4>4. watermark[s].last <= Reached(worker.core, s)
        BY <4>1, <4>3, <2>4 DEF Through
      <4> QED
        BY <4>4, <2>2
    <3> QED
      BY <3>2, <3>3
  <2> QED
    BY <2>8, <2>9, <2>11, <2>12, <2>13, <2>14 DEF IndicatorInv
<1> QED
  BY <1>1, <1>2

LEMMA BoundaryPassed ==
  ASSUME IndicatorInv, NEW s \in Symbol
  PROVE  /\ runtime.boundary[s] \in Nat /\ watermark[s].last \in Nat
         /\ runtime.boundary[s] <= watermark[s].last
<1>t. IndicatorTypeOK
  BY DEF IndicatorInv
<1>1. runtime.boundary[s] \in 0..MaxBar /\ watermark[s].last \in Nat
  BY <1>t, WorkerParts, RowParts DEF ModelState
<1>2. runtime.boundary[s] \in Nat
  BY <1>1, BarsBounded
<1>3. CASE runtime.boundary[s] # 0
  <2>1. runtime.boundary[s] \in Bar
    BY <1>1, <1>3, BarsBounded DEF Bar
  <2>2. runtime.applied[s][runtime.boundary[s]] > 0
    BY <1>3 DEF IndicatorInv, RuntimeReached, Grounded
  <2> QED
    BY <1>1, <1>2, <2>1, <2>2 DEF IndicatorInv, RuntimeReached, Through
<1> QED
  BY <1>1, <1>2, <1>3

LEMMA ProcessHolds ==
  ASSUME IndicatorInv, ProcessBar, IndicatorTypeOK'
  PROVE  /\ IndicatorInv'
         /\ \A s \in Symbol : watermark[s].last <= watermark'[s].last
         /\ runtime'.boundary = runtime.boundary
<1>t. IndicatorTypeOK
  BY DEF IndicatorInv
<1>w. \A s \in Symbol : watermark[s].last \in Nat /\ watermark[s].last \in 0..MaxBar
  BY <1>t, WorkerParts, RowParts
<1>1. CASE worker' = Idle("rebuild") /\ UNCHANGED <<prices, watermark, runtime, journal, missed>>
  <2>2. ColdCore' /\ SeenRows' /\ RebuiltCore' /\ LiveCore' /\ BatchAhead'
    BY <1>1, IdleHolds
  <2>3. RowsTogether' /\ RuntimeReached' /\ HistoryHeld' /\ DecidedInOrder'
    BY <1>1, DurableKept
  <2>4. \A s \in Symbol : watermark[s].last <= watermark'[s].last
    BY <1>1, <1>w
  <2> QED
    BY <1>1, <2>2, <2>3, <2>4 DEF IndicatorInv
<1>2. ASSUME NEW i \in worker.batch,
             \A j \in worker.batch : i.bar <= j.bar,
             Current(i),
             runtime' = [worker.core EXCEPT !.applied[i.symbol][i.bar] = i.revision],
             watermark' = [watermark EXCEPT ![i.symbol].last = i.bar],
             journal' = Append(journal, <<i.symbol, i.bar>>),
             missed' = missed \cup {<<i.symbol, c>> : c \in
                   {c \in Stored(i.symbol) : c > watermark[i.symbol].last /\ c < i.bar}},
             worker' = [worker EXCEPT !.core = runtime', !.batch = @ \ {i}],
             UNCHANGED prices
      PROVE  /\ IndicatorInv'
             /\ \A s \in Symbol : watermark[s].last <= watermark'[s].last
             /\ runtime'.boundary = runtime.boundary
  <2>1. i.symbol \in Symbol /\ i.bar \in Bar /\ i.revision \in 1..MaxRevision
    BY <1>t, WorkerParts DEF FetchedBar
  <2>2. PICK s \in Symbol : s = i.symbol
    BY <2>1
  <2>3. PICK b \in Bar : b = i.bar
    BY <2>1
  <2>n. b \in Nat /\ b # 0 /\ Bar \subseteq Nat
    BY <2>3, BarPositive
  <2>4. worker.core = runtime /\ \A t \in Symbol : watermark[t].row
    BY DEF IndicatorInv, LiveCore, ProcessBar
  <2>5. watermark[s].last < b
    BY <2>2, <2>3, <2>n, <1>w DEF IndicatorInv, BatchAhead
  <2>6. prices[s][b] = i.revision /\ watermark[s].from = 0 /\ prices[s][b] > 0
    BY <1>2, <2>1, <2>2, <2>3 DEF Current, NoMarker
  <2>7. /\ runtime'.boundary = runtime.boundary
        /\ \A t \in Symbol, c \in Bar :
             runtime'.applied[t][c] = IF t = s /\ c = b THEN prices[s][b] ELSE runtime.applied[t][c]
    <3>1. runtime \in ModelState /\ i.revision \in 0..MaxRevision
      BY <1>t, <2>1, WorkerParts, IndicatorAssumption, SMTT(60)
    <3>2. PICK v \in 0..MaxRevision : v = i.revision
      BY <3>1
    <3>3. PICK n : n = [runtime EXCEPT !.applied[s][b] = v]
      OBVIOUS
    <3>a. s \in Symbol /\ b \in Bar /\ v \in 0..MaxRevision
      BY <2>2, <2>3, <3>2
    <3>b. n.boundary = runtime.boundary
      BY <3>1, <3>a, <3>3, BarFed, SMTT(60)
    <3>c. ASSUME NEW t \in Symbol, NEW c \in Bar
          PROVE  n.applied[t][c] = IF t = s /\ c = b THEN v ELSE runtime.applied[t][c]
      BY <3>1, <3>a, <3>3 DEF ModelState
    <3>4. runtime' = n
      BY <1>2, <2>2, <2>3, <2>4, <3>2, <3>3
    <3> QED
      BY <3>b, <3>c, <3>2, <3>4, <2>6
  <2>8. \A t \in Symbol :
          /\ watermark'[t].row = watermark[t].row
          /\ watermark'[t].from = watermark[t].from
          /\ watermark'[t].last = IF t = s THEN b ELSE watermark[t].last
    <3>1. watermark \in [Symbol -> WatermarkRow] /\ watermark[s] \in WatermarkRow
      BY <1>t, <2>2, WorkerParts
    <3>2. watermark' = [watermark EXCEPT ![s] = [watermark[s] EXCEPT !.last = b]]
      BY <1>2, <2>2, <2>3, <3>1
    <3>3. LET q == [watermark[s] EXCEPT !.last = b]
          IN  q.row = watermark[s].row /\ q.from = watermark[s].from /\ q.last = b
      BY <3>1 DEF WatermarkRow
    <3> QED
      BY <3>1, <3>2, <3>3
  <2>9. \A t \in Symbol, c \in Bar : runtime.applied[t][c] > 0 =>
          runtime'.applied[t][c] > 0
    BY <2>6, <2>7
  <2>10. \A t \in Symbol : watermark[t].last <= watermark'[t].last
    BY <2>5, <2>8, <2>n, <1>w
  <2>11. RowsTogether'
    BY <2>4, <2>8 DEF RowsTogether
  <2>12. \A t \in Symbol : /\ Through(runtime, t, watermark[t].last)
                           /\ runtime.boundary[t] # 0 => runtime.applied[t][runtime.boundary[t]] > 0
                           /\ \A c \in Bar : runtime.applied[t][c] > 0 => prices[t][c] > 0
    BY DEF IndicatorInv, RuntimeReached, Grounded
  <2>13. RuntimeReached'
    <3>1. ASSUME NEW t \in Symbol, runtime'.boundary[t] # 0
          PROVE  runtime'.applied[t][runtime'.boundary[t]] > 0
      <4>1. runtime.boundary[t] \in 0..MaxBar
        BY <1>t, WorkerParts DEF ModelState
      <4>2. runtime.boundary[t] \in Bar
        BY <4>1, <3>1, <2>7, BarsBounded, SMTT(60) DEF Bar
      <4> QED
        BY <4>2, <3>1, <2>7, <2>9, <2>12
    <3>2. ASSUME NEW t \in Symbol, NEW c \in Bar, runtime'.applied[t][c] > 0
          PROVE  prices'[t][c] > 0
      BY <3>2, <1>2, <2>6, <2>7, <2>12, SMTT(60)
    <3>3. ASSUME NEW t \in Symbol, NEW c \in Bar, runtime'.applied[t][c] > 0
          PROVE  c <= watermark'[t].last
      <4>1. CASE t = s /\ c = b
        BY <4>1, <2>8, <2>n
      <4>2. CASE ~(t = s /\ c = b)
        <5>1. c <= watermark[t].last
          BY <4>2, <3>3, <2>7, <2>12 DEF Through
        <5> QED
          BY <5>1, <2>5, <2>8, <2>n, <1>w
      <4> QED
        BY <4>1, <4>2
    <3>4. ASSUME NEW t \in Symbol, watermark'[t].last # 0
          PROVE  runtime'.applied[t][watermark'[t].last] > 0
      <4>1. CASE t = s
        BY <4>1, <2>6, <2>7, <2>8
      <4>2. CASE t # s
        <5>1. watermark[t].last \in Bar
          BY <4>2, <3>4, <2>8, <1>w, BarsBounded, SMTT(60) DEF Bar
        <5>2. runtime.applied[t][watermark[t].last] > 0
          BY <4>2, <3>4, <2>8, <2>12 DEF Through
        <5> QED
          BY <5>1, <5>2, <4>2, <2>8, <2>9
      <4> QED
        BY <4>1, <4>2
    <3> QED
      BY <3>1, <3>2, <3>3, <3>4 DEF RuntimeReached, Grounded, Through
  <2>14. /\ worker'.at = "running" /\ worker'.core = runtime'
         /\ worker'.batch = worker.batch \ {i}
    BY <1>2, <1>t DEF ProcessBar, IndicatorTypeOK, WorkerState
  <2>15. ColdCore' /\ SeenRows' /\ RebuiltCore' /\ LiveCore'
    BY <2>4, <2>8, <2>14 DEF ColdCore, SeenRows, RebuiltCore, LiveCore
  <2>16. BatchAhead'
    <3>1. ASSUME NEW j \in worker.batch, j # i
          PROVE  j.bar > watermark'[j.symbol].last
      <4>1. j.symbol = i.symbol /\ j.bar # i.bar
        BY <3>1 DEF IndicatorInv, BatchAhead
      <4>2. i.bar <= j.bar /\ j.bar \in Nat
        BY <1>2, <1>t, <2>n, WorkerParts DEF FetchedBar
      <4> QED
        BY <4>1, <4>2, <2>2, <2>3, <2>8, <2>n, SMTT(60)
    <3>2. \A j, k \in worker.batch : j.symbol = k.symbol /\ (j.bar = k.bar => j = k)
      BY DEF IndicatorInv, BatchAhead
    <3> QED
      BY <2>14, <3>1, <3>2 DEF BatchAhead
  <2>17. HistoryHeld'
    <3> SUFFICES ASSUME NEW t \in Symbol, NEW x \in Bar, NEW c \in Bar,
                        runtime'.applied[t][c] > 0, c <= x, x <= watermark'[t].last,
                        runtime'.applied[t][x] # prices[t][x]
                 PROVE  watermark'[t].from \in 1..x \/ <<t, x>> \in missed'
      BY <1>2 DEF HistoryHeld
    <3>n. x \in Nat /\ c \in Nat
      BY <2>n
    <3>m. missed \subseteq missed'
      BY <1>2
    <3>1. CASE t # s
      <4>1. /\ runtime.applied[t][c] > 0 /\ x <= watermark[t].last
            /\ runtime.applied[t][x] # prices[t][x]
        BY <3>1, <2>7, <2>8
      <4>2. watermark[t].from \in 1..x \/ <<t, x>> \in missed
        BY <4>1 DEF IndicatorInv, HistoryHeld
      <4> QED
        BY <4>2, <3>m, <2>8
    <3>2. CASE t = s /\ x <= watermark[s].last
      <4>1. x # b /\ c # b
        BY <3>2, <2>5, <2>n, <3>n, <1>w
      <4>2. runtime.applied[s][c] > 0 /\ runtime.applied[s][x] # prices[s][x]
        BY <3>2, <4>1, <2>7
      <4>3. watermark[s].from \in 1..x \/ <<s, x>> \in missed
        BY <3>2, <4>2 DEF IndicatorInv, HistoryHeld
      <4> QED
        BY <3>2, <4>3, <3>m, <2>6, <3>n
    <3>3. CASE t = s /\ ~(x <= watermark[s].last)
      <4>1. x # b
        BY <3>3, <2>7
      <4>2. x < b /\ x > watermark[s].last
        BY <3>3, <4>1, <2>8, <2>n, <3>n, <1>w
      <4>3. ~(runtime.applied[s][x] > 0)
        BY <3>3, <2>12 DEF Through
      <4>4. runtime.applied[s][x] \in Nat /\ prices[s][x] \in Nat
        BY <1>t, WorkerParts, SMTT(60) DEF ModelState
      <4>5. prices[s][x] > 0
        BY <3>3, <4>1, <4>3, <4>4, <2>7, SMTT(60)
      <4>6. x \in Stored(s)
        BY <4>5 DEF Stored
      <4> QED
        BY <3>3, <4>2, <4>6, <1>2, <2>2, <2>3
    <3> QED
      BY <3>1, <3>2, <3>3
  <2>18. DecidedInOrder'
    <3>1. /\ journal \in Seq(Symbol \X Bar) /\ Len(journal) \in Nat
          /\ DOMAIN journal = 1..Len(journal)
      BY <1>t DEF IndicatorTypeOK
    <3>2. ASSUME NEW k \in DOMAIN journal
          PROVE  /\ journal[k][1] \in Symbol /\ journal[k][2] \in Bar
                 /\ journal[k][2] > runtime.boundary[journal[k][1]]
                 /\ journal[k][2] <= watermark[journal[k][1]].last
                 /\ runtime.applied[journal[k][1]][journal[k][2]] > 0
      <4>1. journal[k] \in Symbol \X Bar
        BY <3>1
      <4>2. journal[k][1] \in Symbol /\ journal[k][2] \in Bar
        BY <4>1
      <4> QED
        BY <4>2 DEF IndicatorInv, DecidedInOrder
    <3>3. /\ DOMAIN journal' = 1..(Len(journal) + 1)
          /\ \A k \in DOMAIN journal : journal'[k] = journal[k]
          /\ journal'[Len(journal) + 1] = <<s, b>>
      BY <1>2, <2>2, <2>3, <3>1
    <3>4. ASSUME NEW k \in DOMAIN journal'
          PROVE  k \in DOMAIN journal \/ k = Len(journal) + 1
      BY <3>1, <3>3
    <3>5. ASSUME NEW k \in DOMAIN journal'
          PROVE  /\ journal'[k][2] > runtime'.boundary[journal'[k][1]]
                 /\ journal'[k][2] <= watermark'[journal'[k][1]].last
                 /\ runtime'.applied[journal'[k][1]][journal'[k][2]] > 0
      <4>1. CASE k \in DOMAIN journal
        <5>1. journal[k][2] \in Nat
          BY <4>1, <3>2, <2>n
        <5>2. watermark[journal[k][1]].last <= watermark'[journal[k][1]].last
              /\ watermark[journal[k][1]].last \in Nat
              /\ watermark'[journal[k][1]].last \in Nat
          BY <4>1, <3>2, <2>10, <2>8, <2>n, <1>w
        <5>3. journal[k][2] <= watermark'[journal[k][1]].last
          BY <4>1, <3>2, <5>1, <5>2
        <5> QED
          BY <4>1, <3>2, <3>3, <5>3, <2>7, <2>9
      <4>2. CASE k = Len(journal) + 1
        <5>1. runtime.boundary[s] \in Nat /\ runtime.boundary[s] <= watermark[s].last
          BY BoundaryPassed
        <5>2. b > runtime.boundary[s]
          BY <5>1, <2>5, <2>n, <1>w
        <5>3. b <= watermark'[s].last
          BY <2>8, <2>n
        <5>4. runtime'.applied[s][b] > 0
          BY <2>6, <2>7
        <5>5. journal'[k][1] = s /\ journal'[k][2] = b
          BY <4>2, <3>3, SMTT(60)
        <5> QED
          BY <5>2, <5>3, <5>4, <5>5, <2>7
      <4> QED
        BY <3>4, <4>1, <4>2
    <3>6. ASSUME NEW k \in DOMAIN journal', NEW l \in DOMAIN journal',
                 k < l, journal'[k][1] = journal'[l][1]
          PROVE  journal'[k][2] < journal'[l][2]
      <4>1. k \in DOMAIN journal
        BY <3>1, <3>3, <3>6, SMTT(60)
      <4>2. CASE l \in DOMAIN journal
        BY <4>1, <4>2, <3>3, <3>6 DEF IndicatorInv, DecidedInOrder
      <4>3. CASE l = Len(journal) + 1
        <5>1. journal'[l][1] = s /\ journal'[l][2] = b
          BY <4>3, <3>3, SMTT(60)
        <5>2. journal[k][1] = s /\ journal[k][2] <= watermark[s].last /\ journal[k][2] \in Nat
          BY <4>1, <5>1, <3>2, <3>3, <3>6, <2>n
        <5>3. journal[k][2] < b
          BY <5>2, <2>5, <2>n, <1>w
        <5> QED
          BY <4>1, <5>1, <5>3, <3>3
      <4> QED
        BY <3>4, <4>2, <4>3
    <3> QED
      BY <3>5, <3>6 DEF DecidedInOrder
  <2> QED
    BY <2>7, <2>10, <2>11, <2>13, <2>15, <2>16, <2>17, <2>18 DEF IndicatorInv
<1> QED
  BY <1>1, <1>2, <1>t, ProcessedBar

-----------------------------------------------------------------------------
LEMMA IndicatorInvNext ==
  ASSUME IndicatorInv, [IndicatorNext]_indicatorVars
  PROVE  IndicatorInv'
<1>t. IndicatorTypeOK /\ IndicatorTypeOK'
  BY IndicatorTypeNext DEF IndicatorInv
<1>d. ASSUME UNCHANGED <<prices, watermark, runtime, journal, missed>>,
             ColdCore', SeenRows', RebuiltCore', LiveCore', BatchAhead'
      PROVE  IndicatorInv'
  BY <1>d, <1>t, DurableKept DEF IndicatorInv
<1>i. ASSUME UNCHANGED <<prices, watermark, runtime, journal, missed>>,
             NEW at \in {"starting", "exited", "rebuild", "disabled"}, worker' = Idle(at)
      PROVE  IndicatorInv'
  BY <1>i, <1>d, IdleHolds
<1>1. ASSUME NEW s \in Symbol, NEW B \in SUBSET Bar, B # {}, UpsertCandles(s, B)
      PROVE  IndicatorInv'
  BY <1>1, <1>t, UpsertHolds
<1>2. CASE ReadWatermarks
  <2>1. /\ worker'.at = "starting" /\ worker'.seen = watermark /\ worker'.batch = worker.batch
        /\ UNCHANGED <<prices, watermark, runtime, journal, missed>>
    BY <1>2, <1>t DEF ReadWatermarks, IndicatorTypeOK, WorkerState
  <2>2. watermark = NoRows \/ \A s \in Symbol : watermark[s].row
    BY DEF IndicatorInv, RowsTogether
  <2>3. worker.batch = {}
    BY <1>2 DEF IndicatorInv, BatchAhead, ReadWatermarks
  <2>4. ColdCore' /\ SeenRows' /\ RebuiltCore' /\ LiveCore' /\ BatchAhead'
    BY <2>1, <2>2, <2>3 DEF ColdCore, SeenRows, RebuiltCore, LiveCore, BatchAhead, NoRows
  <2> QED
    BY <2>1, <2>4, <1>d
<1>3. CASE RequestRebuilds
  BY <1>3, <1>t, RequestHolds
<1>4. CASE Restore
  <2>1. UNCHANGED <<prices, watermark, runtime, journal, missed>>
    BY <1>4 DEF Restore
  <2>2. CASE worker' = Idle("exited")
    BY <2>1, <2>2, <1>i
  <2>3. CASE worker' = [worker EXCEPT !.at = "running", !.core = runtime]
    <3>1. /\ worker'.at = "running" /\ worker'.core = runtime /\ worker'.batch = worker.batch
      BY <2>3, <1>t DEF IndicatorTypeOK, WorkerState
    <3>2. worker.batch = {}
      BY <1>4 DEF IndicatorInv, BatchAhead, Restore
    <3>3. \A s \in Symbol : watermark[s].row
      <4>1. PICK s \in Symbol : worker.seen[s].row
        BY <1>4 DEF Restore
      <4>2. worker.seen # NoRows
        BY <4>1, SMTT(60) DEF NoRows, NoRow
      <4> QED
        BY <4>2, <1>4 DEF Restore, IndicatorInv, SeenRows
    <3>4. ColdCore' /\ SeenRows' /\ RebuiltCore' /\ LiveCore' /\ BatchAhead'
      BY <2>1, <3>1, <3>2, <3>3 DEF ColdCore, SeenRows, RebuiltCore, LiveCore, BatchAhead
    <3> QED
      BY <2>1, <3>4, <1>d
  <2> QED
    BY <1>4, <2>2, <2>3 DEF Restore
<1>5. CASE ColdStart
  BY <1>5, <1>t, ColdStartHolds
<1>6. CASE InitializeRuntime
  BY <1>6, <1>t, InitializeHolds
<1>7. CASE Rebuild
  BY <1>7, <1>t, RebuildHolds
<1>8. CASE AcknowledgeRebuild
  BY <1>8, <1>t, AcknowledgeHolds
<1>9. CASE VerifyRebuild
  <2>1. UNCHANGED <<prices, watermark, runtime, journal, missed>>
    BY <1>9 DEF VerifyRebuild
  <2>2. CASE worker' = Idle("rebuild")
    BY <2>1, <2>2, <1>i
  <2>3. CASE worker' = [worker EXCEPT !.at = "running"]
    <3>1. /\ worker'.at = "running" /\ worker'.core = worker.core
          /\ worker'.batch = worker.batch
      BY <2>3, <1>t DEF IndicatorTypeOK, WorkerState
    <3>2. worker.batch = {} /\ worker.core = runtime /\ \A s \in Symbol : watermark[s].row
      BY <1>9 DEF IndicatorInv, BatchAhead, LiveCore, VerifyRebuild
    <3>4. ColdCore' /\ SeenRows' /\ RebuiltCore' /\ LiveCore' /\ BatchAhead'
      BY <2>1, <3>1, <3>2 DEF ColdCore, SeenRows, RebuiltCore, LiveCore, BatchAhead
    <3> QED
      BY <2>1, <3>4, <1>d
  <2> QED
    BY <1>9, <2>2, <2>3 DEF VerifyRebuild
<1>10. ASSUME NEW s \in Symbol, Catchup(s) PROVE IndicatorInv'
  <2>1. UNCHANGED <<prices, watermark, runtime, journal, missed>>
    BY <1>10 DEF Catchup
  <2>2. CASE worker' = Idle("rebuild")
    BY <2>1, <2>2, <1>i
  <2>3. CASE worker' # Idle("rebuild")
    <3>1. /\ worker' \in WorkerState
          /\ worker'.at = "running" /\ worker'.core = worker.core
          /\ \A i \in worker'.batch :
               i.symbol = s /\ i.bar > watermark[s].last /\ i.revision = prices[s][i.bar]
      BY <1>10, <1>t, <2>3, FetchOf
    <3>2. worker.core = runtime /\ \A t \in Symbol : watermark[t].row
      BY <1>10 DEF IndicatorInv, LiveCore, Catchup
    <3>3. ASSUME NEW i \in worker'.batch, NEW j \in worker'.batch
          PROVE  i.symbol = j.symbol /\ (i.bar = j.bar => i = j)
      <4>1. i \in FetchedBar /\ j \in FetchedBar
        BY <3>1 DEF WorkerState
      <4>2. i.symbol = j.symbol /\ (i.bar = j.bar => i.revision = j.revision)
        BY <3>1
      <4> QED
        BY <4>1, <4>2 DEF FetchedBar
    <3>4. ColdCore' /\ SeenRows' /\ RebuiltCore' /\ LiveCore'
      BY <2>1, <3>1, <3>2 DEF ColdCore, SeenRows, RebuiltCore, LiveCore
    <3>5. BatchAhead'
      BY <2>1, <3>1, <3>3 DEF BatchAhead
    <3> QED
      BY <2>1, <3>4, <3>5, <1>d
  <2> QED
    BY <2>2, <2>3
<1>11. CASE ProcessBar
  BY <1>11, <1>t, ProcessHolds
<1>12. CASE Supervise
  <2>1. /\ UNCHANGED <<prices, watermark, runtime, journal, missed>>
        /\ worker' = Idle("starting") \/ worker' = Idle("disabled")
    BY <1>12 DEF Supervise
  <2> QED
    BY <2>1, <1>i
<1>13. CASE Crash
  <2>1. /\ UNCHANGED <<prices, watermark, runtime, journal, missed>>
        /\ worker' = Idle("exited")
    BY <1>13 DEF Crash
  <2> QED
    BY <2>1, <1>i
<1>14. CASE Redeploy
  <2>1. /\ UNCHANGED <<prices, watermark, runtime, journal, missed>>
        /\ worker' = Idle("starting")
    BY <1>14 DEF Redeploy
  <2> QED
    BY <2>1, <1>i
<1>15. CASE UNCHANGED indicatorVars
  <2>1. UNCHANGED <<prices, watermark, runtime, journal, missed, worker>>
    BY <1>15 DEF indicatorVars
  <2>2. ColdCore' /\ SeenRows' /\ LiveCore' /\ BatchAhead'
    BY <2>1 DEF IndicatorInv, ColdCore, SeenRows, LiveCore, BatchAhead, NoRows,
                Grounded, Through
  <2>3. RebuiltCore'
    BY <2>1 DEF IndicatorInv, RebuiltCore, Fence, Grounded
  <2> QED
    BY <2>1, <2>2, <2>3, <1>d
<1> QED
  BY <1>1, <1>2, <1>3, <1>4, <1>5, <1>6, <1>7, <1>8, <1>9, <1>10, <1>11, <1>12,
     <1>13, <1>14, <1>15 DEF IndicatorNext, WorkerStep

LEMMA IndicatorInvInit ==
  ASSUME IndicatorInit
  PROVE  IndicatorInv
<1>u. /\ watermark = NoRows /\ runtime = Empty /\ journal = <<>> /\ missed = {}
      /\ worker = Idle("starting") /\ restarts = 0 /\ writes = 0 /\ faults = 0
      /\ prices = [s \in Symbol |-> [b \in Bar |-> 0]]
  BY DEF IndicatorInit, NoRows
<1>1. IndicatorTypeOK
  <2>1. worker \in WorkerState
    BY <1>u, IdleTyped DEF Point
  <2>2. watermark \in [Symbol -> WatermarkRow] /\ runtime \in ModelState
    BY <1>u, IdleTyped, RowTyped
  <2>3. prices \in [Symbol -> [Bar -> 0..MaxRevision]]
    BY <1>u, IndicatorAssumption, SMTT(60)
  <2>4. restarts \in 0..MaxRestarts /\ writes \in 0..MaxWrites /\ faults \in 0..MaxFaults
    BY <1>u, IndicatorAssumption
  <2>5. journal \in Seq(Symbol \X Bar) /\ missed \subseteq Symbol \X Bar
    BY <1>u
  <2> QED
    BY <2>1, <2>2, <2>3, <2>4, <2>5 DEF IndicatorTypeOK
<1>2. /\ \A s \in Symbol, b \in Bar : runtime.applied[s][b] = 0
      /\ \A s \in Symbol : runtime.boundary[s] = 0
  BY <1>u DEF Empty
<1>3. \A s \in Symbol : watermark[s].last = 0
  BY <1>u DEF NoRows, NoRow, Epoch
<1>4. RowsTogether
  BY <1>u DEF RowsTogether
<1>5. RuntimeReached /\ HistoryHeld
  BY <1>2, <1>3, SMTT(60) DEF RuntimeReached, HistoryHeld, Grounded, Through
<1>6. worker.at = "starting" /\ worker.seen = NoRows /\ worker.batch = {}
  BY <1>u DEF Idle, NoRows
<1>7. ColdCore /\ SeenRows /\ RebuiltCore /\ LiveCore /\ BatchAhead
  BY <1>6 DEF ColdCore, SeenRows, RebuiltCore, LiveCore, BatchAhead
<1>8. DecidedInOrder
  BY <1>u DEF DecidedInOrder
<1> QED
  BY <1>1, <1>4, <1>5, <1>7, <1>8 DEF IndicatorInv

LEMMA HistoryIsHeld ==
  ASSUME IndicatorInv PROVE StateIsHistory
<1> SUFFICES ASSUME NEW s \in Symbol, NEW b \in Differs(runtime, s, watermark[s].last)
             PROVE  watermark[s].from \in 1..b \/ <<s, b>> \in missed
  BY DEF StateIsHistory
<1>t. runtime \in ModelState /\ watermark[s].last \in 0..MaxBar
  BY WorkerParts, RowParts DEF IndicatorInv
<1>1. b \in Bar
  <2>1. Fed(runtime, s) # {} /\ b \in Inception(runtime, s)..watermark[s].last
    BY DEF Differs
  <2>2. Inception(runtime, s) \in Bar
    BY <1>t, <2>1, FedOf
  <2> QED
    BY <1>t, <2>1, <2>2, BarsBounded DEF Bar
<1>2. /\ \E c \in Bar : runtime.applied[s][c] > 0 /\ c <= b
      /\ b <= watermark[s].last /\ runtime.applied[s][b] # prices[s][b]
  BY <1>t, <1>1, DiffersOf
<1> QED
  BY <1>1, <1>2 DEF IndicatorInv, HistoryHeld

(* What a process holds at each of its points, from startup through rebuild   *)
(* and acknowledgement to the polling loop, and what the database holds.      *)
THEOREM IndicatorInvariant == IndicatorSpec => []IndicatorInv
  BY IndicatorInvInit, IndicatorInvNext, PTL DEF IndicatorSpec

(* After any writes, crashes and rebuilds, the durable model state is the     *)
(* stored history up to the watermark: a bar that was corrected or filled in  *)
(* behind it is under the rebuild request of bump_rebuild_generation, unless  *)
(* the state had missed it when it was committed.                             *)
THEOREM StateSound == IndicatorSpec => []StateIsHistory
  BY IndicatorInvariant, HistoryIsHeld, PTL

(* The decisions of a feed are journaled once per bar, in the order of the    *)
(* bars, across crashes between a decision and its checkpoint.                *)
THEOREM DecisionsInOrder == IndicatorSpec => []DecidedInOrder
<1>1. IndicatorInv => DecidedInOrder
  BY DEF IndicatorInv
<1> QED
  BY <1>1, IndicatorInvariant, PTL

LEMMA CheckpointStep ==
  ASSUME IndicatorInv, [IndicatorNext]_indicatorVars, NEW s \in Symbol
  PROVE  /\ watermark'[s].last >= watermark[s].last
         /\ Fed(runtime, s) # {} => runtime'.boundary[s] = runtime.boundary[s]
<1>t. IndicatorTypeOK /\ IndicatorTypeOK'
  BY IndicatorTypeNext DEF IndicatorInv
<1>n. watermark[s].last \in Nat /\ watermark'[s].last \in Nat
  <2>1. watermark \in [Symbol -> WatermarkRow] /\ watermark' \in [Symbol -> WatermarkRow]
    BY <1>t DEF IndicatorTypeOK
  <2> QED
    BY <2>1, RowParts
<1>d. ASSUME UNCHANGED <<watermark, runtime>>
      PROVE  /\ watermark'[s].last >= watermark[s].last
             /\ Fed(runtime, s) # {} => runtime'.boundary[s] = runtime.boundary[s]
  BY <1>d, <1>n
<1>1. ASSUME NEW t \in Symbol, NEW B \in SUBSET Bar, B # {}, UpsertCandles(t, B)
      PROVE  /\ watermark'[s].last >= watermark[s].last
             /\ Fed(runtime, s) # {} => runtime'.boundary[s] = runtime.boundary[s]
  <2>1. watermark'[s].last = watermark[s].last
    BY <1>1, <1>t, UpsertEffect
  <2>2. runtime' = runtime
    BY <1>1 DEF UpsertCandles
  <2> QED
    BY <2>1, <2>2, <1>n
<1>2. CASE RequestRebuilds
  <2>1. watermark'[s].last = watermark[s].last
    BY <1>2, <1>t, RequestedTyped
  <2>2. runtime' = runtime
    BY <1>2 DEF RequestRebuilds
  <2> QED
    BY <2>1, <2>2, <1>n
<1>3. CASE InitializeRuntime
  <2>1. watermark = NoRows
    BY <1>3 DEF InitializeRuntime, IndicatorInv, ColdCore
  <2>2. watermark[s].last = 0
    BY <2>1 DEF NoRows, NoRow, Epoch
  <2>3. ASSUME NEW b \in Fed(runtime, s) PROVE FALSE
    <3>1. b \in Nat /\ b # 0
      BY BarPositive DEF Fed
    <3>2. b <= 0
      BY <2>2 DEF IndicatorInv, RuntimeReached, Through, Fed
    <3> QED
      BY <3>1, <3>2
  <2> QED
    BY <2>2, <2>3, <1>n
<1>4. CASE AcknowledgeRebuild
  <2>1. watermark[s].last <= watermark'[s].last
    BY <1>4, <1>t, AcknowledgeHolds
  <2>2. ASSUME NEW b \in Fed(runtime, s) PROVE runtime'.boundary[s] = runtime.boundary[s]
    <3>1. worker.core.boundary[s] = runtime.boundary[s]
      BY <1>4 DEF AcknowledgeRebuild, IndicatorInv, RebuiltCore, Fed
    <3> QED
      BY <1>4, <3>1 DEF AcknowledgeRebuild
  <2> QED
    BY <2>1, <2>2, <1>n
<1>5. CASE ProcessBar
  BY <1>5, <1>n, <1>t, ProcessHolds
<1>6. CASE \/ ReadWatermarks \/ Restore \/ ColdStart \/ Rebuild \/ VerifyRebuild
           \/ \E t \in Symbol : Catchup(t)
           \/ Supervise \/ Crash \/ Redeploy \/ UNCHANGED indicatorVars
  <2>1. UNCHANGED <<watermark, runtime>>
    BY <1>6 DEF ReadWatermarks, Restore, ColdStart, Rebuild, VerifyRebuild, Catchup,
                Supervise, Crash, Redeploy, indicatorVars
  <2> QED
    BY <2>1, <1>d
<1> QED
  BY <1>1, <1>2, <1>3, <1>4, <1>5, <1>6 DEF IndicatorNext, WorkerStep

(* No checkpoint, rebuild or restart moves the watermark of a feed backwards  *)
(* or, once the feed has history, its flat boundary.                          *)
THEOREM CheckpointsKept == IndicatorSpec => CheckpointMonotone
<1>1. IndicatorInv /\ [IndicatorNext]_indicatorVars =>
        [\A s \in Symbol :
           /\ watermark'[s].last >= watermark[s].last
           /\ Fed(runtime, s) # {} => runtime'.boundary[s] = runtime.boundary[s]
        ]_indicatorVars
  BY CheckpointStep
<1> QED
  BY <1>1, IndicatorInvariant, PTL DEF IndicatorSpec, CheckpointMonotone
=============================================================================
