---------------------------- MODULE PanelJournal ----------------------------
(* The synchronized-panel path of an indicator worker: PanelRuntime           *)
(* (panel_runtime.py) and the panel journal of StrategyRuntimeStore           *)
(* (runtime_journal.py). Registered inputs carry an official session and a    *)
(* cutoff. The model state is the sequence of inputs evaluated into it, so    *)
(* its generation is the length. The poll of the main loop and a caller of    *)
(* submit_panel share the process; each transaction is one step.              *)
EXTENDS Integers, FiniteSets, Sequences

CONSTANTS
  Input,           \* registered input revisions
  SessionOf,       \* SessionOf[i]: official session
  CutoffOf,        \* CutoffOf[i]
  ActivationCutoff,
  NoInput,         \* no input
  Main, Caller,    \* the polling main loop; another thread calling submit
  MaxPanelFaults,  \* bound: crashes and failed commits
  MaxSubmissions   \* bound: calls of submit_panel

\* The cutoff of an input lies between the close of its session and the open of
\* the next persisted session (validate_strategy_panel_sessions), so inputs of
\* different sessions have different cutoffs.
ASSUME PanelAssumption ==
  /\ Main # Caller
  /\ CutoffOf \in [Input -> Int] /\ ActivationCutoff \in Int
  /\ \A i, j \in Input : CutoffOf[i] = CutoffOf[j] => SessionOf[i] = SessionOf[j]
  /\ MaxPanelFaults \in Nat /\ MaxSubmissions \in Nat

Thread == {Main, Caller}
Session == {SessionOf[i] : i \in Input}

VARIABLES
  registered,   \* strategy_panel_input_revisions
  closed,       \* sessions whose execution session has closed
  panel,        \* panel[i]: status of the decision row of input i
  preparedAt,   \* prepared_state_generation of the row
  state,        \* durable model state
  core,         \* the process's model state
  duty,         \* duty[t]: [at, input] of a thread inside submit
  mustExit,     \* the worker is failed, or the main loop has raised
  panelFaults, submissions,
  order         \* history: inputs in the order they were completed

panelVars == <<registered, closed, panel, preparedAt, state, core, duty,
               mustExit, panelFaults, submissions, order>>

Terminal == {"completed", "expired", "skipped", "rejected_correction"}
DutyPoint == {"free", "classify", "dispose", "prepare", "process"}
Free == [at |-> "free", input |-> NoInput]

PanelInit ==
  /\ registered = {}
  /\ closed = {}
  /\ panel = [i \in Input |-> "none"]
  /\ preparedAt = [i \in Input |-> 0]
  /\ state = <<>> /\ core = <<>>
  /\ duty = [t \in Thread |-> Free]
  /\ mustExit = FALSE
  /\ panelFaults = 0 /\ submissions = 0
  /\ order = <<>>

(* The panel journal keeps well-typed rows and thread state.                  *)
PanelTypeOK ==
  /\ registered \subseteq Input /\ closed \subseteq Session
  /\ panel \in [Input -> Terminal \cup {"none", "prepared"}]
  /\ preparedAt \in [Input -> Nat]
  /\ state \in Seq(Input) /\ core \in Seq(Input)
  /\ duty \in [Thread -> [at : DutyPoint, input : Input \cup {NoInput}]]
  /\ \A t \in Thread : duty[t].at # "free" => duty[t].input \in Input
  /\ mustExit \in BOOLEAN
  /\ panelFaults \in 0..MaxPanelFaults /\ submissions \in 0..MaxSubmissions

Register(i) ==
  /\ i \notin registered
  /\ registered' = registered \cup {i}
  /\ UNCHANGED <<closed, panel, preparedAt, state, core, duty, mustExit,
                 panelFaults, submissions, order>>

SessionCloses(d) ==
  /\ d \notin closed
  /\ closed' = closed \cup {d}
  /\ UNCHANGED <<registered, panel, preparedAt, state, core, duty, mustExit,
                 panelFaults, submissions, order>>

-----------------------------------------------------------------------------
Go(t, at, i) == duty' = [duty EXCEPT ![t] = [at |-> at, input |-> i]]
Done(t) == duty' = [duty EXCEPT ![t] = Free]

\* An exception leaves the main loop and ends the process; a caller survives.
Raise(t) == Done(t) /\ mustExit' = (mustExit \/ t = Main)

(* poll_input_revisions: unconsumed inputs by cutoff.                         *)
Poll ==
  /\ duty[Main] = Free /\ ~mustExit
  /\ \E i \in registered :
       /\ panel[i] = "none"
       /\ \A j \in registered : panel[j] = "none" => CutoffOf[i] <= CutoffOf[j]
       /\ Go(Main, "classify", i)
  /\ UNCHANGED <<registered, closed, panel, preparedAt, state, core, mustExit,
                 panelFaults, submissions, order>>

SubmitPanel(i) ==
  /\ duty[Caller] = Free /\ i \in registered /\ submissions < MaxSubmissions
  /\ submissions' = submissions + 1
  /\ Go(Caller, "classify", i)
  /\ UNCHANGED <<registered, closed, panel, preparedAt, state, core, mustExit,
                 panelFaults, order>>

(* _terminal_disposition, read from the clock before the transaction.         *)
Disposition(i) ==
  IF CutoffOf[i] < ActivationCutoff THEN "skipped"
  ELSE IF SessionOf[i] \in closed THEN "expired" ELSE "none"

Classify(t) ==
  /\ duty[t].at = "classify"
  /\ Go(t, IF Disposition(duty[t].input) = "none" THEN "prepare" ELSE "dispose", duty[t].input)
  /\ UNCHANGED <<registered, closed, panel, preparedAt, state, core, mustExit,
                 panelFaults, submissions, order>>

(* disposition_panel.                                                         *)
Dispose(t) ==
  /\ duty[t].at = "dispose"
  /\ LET i == duty[t].input IN
       IF \/ panel[i] \in {"none", "skipped", "expired"}
          \/ panel[i] = "prepared" /\ Disposition(i) = "expired"
       THEN /\ panel' = [panel EXCEPT ![i] = IF @ \in Terminal THEN @ ELSE Disposition(i)]
            /\ Done(t) /\ UNCHANGED mustExit
       ELSE Raise(t) /\ UNCHANGED panel
  /\ UNCHANGED <<registered, closed, preparedAt, state, core, panelFaults,
                 submissions, order>>

\* Mutant: only an outstanding decision pins its session.
PinnedMutant(i) ==
  \E j \in Input : SessionOf[j] = SessionOf[i] /\ panel[j] = "prepared"

(* prepare_panel, on the locked runtime row.                                  *)
Pinned(i) ==
  \E j \in Input : SessionOf[j] = SessionOf[i] /\ panel[j] \in {"prepared", "completed"}

\* Mutant: corrections of older sessions are accepted.
SupersededMutant(i) == FALSE

Superseded(i) == \E j \in Input : panel[j] = "completed" /\ CutoffOf[i] < CutoffOf[j]

Outstanding == \E j \in Input : panel[j] = "prepared"

Prepare(t) ==
  /\ duty[t].at = "prepare"
  /\ LET i == duty[t].input IN
       \/ /\ panel[i] = "prepared"
          /\ Go(t, "process", i) /\ UNCHANGED <<panel, preparedAt, mustExit>>
       \/ /\ panel[i] \in Terminal
          /\ Done(t) /\ UNCHANGED <<panel, preparedAt, mustExit>>
       \/ /\ panel[i] = "none" /\ (Superseded(i) \/ Pinned(i))
          /\ panel' = [panel EXCEPT ![i] = "rejected_correction"]
          /\ Done(t) /\ UNCHANGED <<preparedAt, mustExit>>
       \/ /\ panel[i] = "none" /\ ~Superseded(i) /\ ~Pinned(i) /\ Outstanding
          /\ Raise(t) /\ UNCHANGED <<panel, preparedAt>>
       \/ /\ panel[i] = "none" /\ ~Superseded(i) /\ ~Pinned(i) /\ ~Outstanding
          /\ panel' = [panel EXCEPT ![i] = "prepared"]
          /\ preparedAt' = [preparedAt EXCEPT ![i] = Len(state)]
          /\ Go(t, "process", i) /\ UNCHANGED mustExit
  /\ UNCHANGED <<registered, closed, state, core, panelFaults, submissions, order>>

\* lock_prepared_panel_on_session: the core is the durable state, and the
\* durable state is the one the panel was prepared on.
PreState(i) == core = state /\ preparedAt[i] = Len(state)

(* _process_prepared: evaluate and commit state, decision and rebalance event *)
(* in one transaction. The commit may fail after the core was mutated.        *)
Process(t) ==
  /\ duty[t].at = "process"
  /\ LET i == duty[t].input IN
       \/ /\ panel[i] \in Terminal
          /\ Done(t) /\ UNCHANGED <<panel, state, core, mustExit, panelFaults, order>>
       \/ /\ panel[i] = "prepared" /\ ~PreState(i)
          /\ Raise(t) /\ UNCHANGED <<panel, state, core, panelFaults, order>>
       \/ /\ panel[i] = "prepared" /\ PreState(i) /\ Disposition(i) = "expired"
          /\ panel' = [panel EXCEPT ![i] = "expired"]
          /\ Done(t) /\ UNCHANGED <<state, core, mustExit, panelFaults, order>>
       \/ /\ panel[i] = "prepared" /\ PreState(i) /\ Disposition(i) = "none"
          /\ core' = Append(core, i)
          /\ state' = core'
          /\ panel' = [panel EXCEPT ![i] = "completed"]
          /\ order' = Append(order, i)
          /\ Done(t) /\ UNCHANGED <<mustExit, panelFaults>>
       \/ /\ panel[i] = "prepared" /\ PreState(i) /\ Disposition(i) = "none"
          /\ panelFaults < MaxPanelFaults
          /\ panelFaults' = panelFaults + 1
          /\ core' = Append(core, i)
          /\ mustExit' = TRUE
          /\ Done(t) /\ UNCHANGED <<panel, state, order>>
  /\ UNCHANGED <<registered, closed, preparedAt, submissions>>

(* The process ends, by a crash or because it must, and a new one restores    *)
(* the durable state and resumes the panel left prepared.                     *)
RestartMutant ==
  /\ \/ mustExit /\ UNCHANGED panelFaults
     \/ ~mustExit /\ panelFaults < MaxPanelFaults /\ panelFaults' = panelFaults + 1
  /\ core' = state /\ mustExit' = FALSE
  /\ duty' = [t \in Thread |-> Free]
  /\ UNCHANGED <<registered, closed, panel, preparedAt, state, submissions, order>>

Restart ==
  /\ \/ mustExit /\ UNCHANGED panelFaults
     \/ ~mustExit /\ panelFaults < MaxPanelFaults /\ panelFaults' = panelFaults + 1
  /\ core' = state /\ mustExit' = FALSE
  /\ duty' = [t \in Thread |->
                IF t = Main /\ Outstanding
                THEN [at |-> "process", input |-> CHOOSE i \in Input : panel[i] = "prepared"]
                ELSE Free]
  /\ UNCHANGED <<registered, closed, panel, preparedAt, state, submissions, order>>

ThreadStep(t) == Classify(t) \/ Dispose(t) \/ Prepare(t) \/ Process(t)

PanelNext ==
  \/ \E i \in Input : Register(i) \/ SubmitPanel(i)
  \/ \E d \in Session : SessionCloses(d)
  \/ Poll \/ Restart
  \/ \E t \in Thread : ThreadStep(t)

PanelSpec == PanelInit /\ [][PanelNext]_panelVars

-----------------------------------------------------------------------------
(* Every official session is decided by one immutable input: at most one      *)
(* decision row of a session is prepared or completed, whatever order         *)
(* corrections, polls, direct submissions and restarts take. prepare_panel    *)
(* keeps this without a unique index over the session.                        *)
SessionPinnedOnce ==
  \A i, j \in Input :
    SessionOf[i] = SessionOf[j] /\ {panel[i], panel[j]} \subseteq {"prepared", "completed"}
      => i = j

(* The durable model is the completed panels, each evaluated once and in the  *)
(* order of their cutoffs; an evaluation whose commit failed leaves no trace. *)
ModelIsCompletedPanels ==
  /\ state = order
  /\ \A m, n \in DOMAIN state : m < n => CutoffOf[state[m]] < CutoffOf[state[n]]
  /\ \A i \in Input : panel[i] = "completed" <=> \E n \in DOMAIN state : state[n] = i

(* Every registered input is eventually decided: completed, expired, skipped  *)
(* or rejected. A panel prepared before a crash is not left behind.           *)
PanelsDecided == <>[](\A i \in registered : panel[i] \in Terminal)
=============================================================================
