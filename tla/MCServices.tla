----------------------------- MODULE MCServices -----------------------------
(***************************************************************************)
(* Components that share no state, checked side by side: the initial state *)
(* picks one, and only that one moves.                                     *)
(***************************************************************************)
EXTENDS AccountSerializer, CircuitBreaker, IndicatorWorker, SignalRelay,
        PanelJournal, ResearchJobs, TLC

CONSTANTS r1, r2, handler1, worker1, handler2,  \* AccountSerializer
          feedA, feedB,                         \* IndicatorWorker
          i1, i2, i3, i4                        \* PanelJournal

VARIABLE focus

MCHome == (handler1 :> r1) @@ (worker1 :> r1) @@ (handler2 :> r2)
MCLength == feedA :> 3 @@ feedB :> 1
MCSession == i1 :> 1 @@ i2 :> 1 @@ i3 :> 2 @@ i4 :> 1
MCCutoff == i1 :> 1 @@ i2 :> 2 @@ i3 :> 3 @@ i4 :> 0

ServicesInit ==
  /\ focus \in {"serializer", "breaker", "indicator", "signals", "panels",
                "research"}
  /\ SerializerInit
  /\ BreakerInit
  /\ IndicatorInit
  /\ SignalInit
  /\ PanelInit
  /\ ResearchInit

ServicesNext ==
  \/ /\ focus = "serializer" /\ SerializerNext
     /\ UNCHANGED <<focus, breakerVars, indicatorVars, signalVars, panelVars,
                 researchVars>>
  \/ /\ focus = "breaker" /\ BreakerNext
     /\ UNCHANGED <<focus, serializerVars, indicatorVars, signalVars,
                 panelVars, researchVars>>
  \/ /\ focus = "indicator" /\ IndicatorNext
     /\ UNCHANGED <<focus, serializerVars, breakerVars, signalVars, panelVars,
                 researchVars>>
  \/ /\ focus = "signals" /\ SignalNext
     /\ UNCHANGED <<focus, serializerVars, breakerVars, indicatorVars,
                 panelVars, researchVars>>
  \/ /\ focus = "panels" /\ PanelNext
     /\ UNCHANGED <<focus, serializerVars, breakerVars, indicatorVars,
                 signalVars, researchVars>>
  \/ /\ focus = "research" /\ ResearchNext
     /\ UNCHANGED <<focus, serializerVars, breakerVars, indicatorVars,
                 signalVars, panelVars>>

ServicesFairness ==
  /\ \A t \in Task : WF_serializerVars(focus = "serializer" /\ HoldStep(t))
  /\ WF_indicatorVars(focus = "indicator" /\ WorkerStep)
  /\ WF_indicatorVars(focus = "indicator" /\ Supervise)
  /\ WF_signalVars(focus = "signals" /\ LoopStep)
  /\ WF_signalVars(focus = "signals" /\ Wake)
  /\ \A e \in Event : /\ WF_signalVars(focus = "signals" /\ SignalBackoff(e))
                      /\ WF_signalVars(focus = "signals" /\ SignalLease(e))
  /\ WF_panelVars(focus = "panels" /\ Poll)
  /\ WF_panelVars(focus = "panels" /\ Restart /\ mustExit)
  /\ \A t \in Thread : WF_panelVars(focus = "panels" /\ ThreadStep(t))
  /\ \A w \in Supervisor : WF_researchVars(focus = "research" /\ SupervisorStep(w))
  /\ WF_researchVars(focus = "research" /\ \E c \in spawned : ContainerAppears(c))
  /\ WF_researchVars(focus = "research" /\ MaintenanceStep)
  /\ WF_researchVars(focus = "research" /\ ControlLapses)
  /\ \A j \in ResearchJob : WF_researchVars(focus = "research" /\ AttemptLapses(j))

ServicesSpec ==
  /\ ServicesInit
  /\ [][ServicesNext]_<<focus, serializerVars, breakerVars, indicatorVars,
                        signalVars, panelVars, researchVars>>
  /\ ServicesFairness

-----------------------------------------------------------------------------
(* Every component stays well typed: the statuses are those of the tables'    *)
(* check constraints, counters stay within their limits and a thread is at a   *)
(* step of its own.                                                            *)
ServicesTypeOK ==
  /\ SerializerTypeOK /\ BreakerTypeOK /\ IndicatorTypeOK
  /\ SignalTypeOK /\ PanelTypeOK /\ ResearchTypeOK

(* WorkerCatchesUp of IndicatorWorker, where the indicator worker runs: when   *)
(* price writes end it is disabled by its supervisor, or has no rebuild        *)
(* pending and every stored bar acknowledged.                                  *)
IndicatorCatchesUp == <>[](focus = "indicator" => CaughtUp)
=============================================================================
