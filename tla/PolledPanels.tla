---------------------------- MODULE PolledPanels ----------------------------
(***************************************************************************)
(* The panels of the web client that read the server again and again: the  *)
(* dashboard (app/page.tsx, every 60 s), the monitor of the                *)
(* synchronisation (app/sincronizacion/page.tsx, 4 s), the map of flights  *)
(* (components/FlightMap.tsx, 60 s) and the address of the QR              *)
(* (components/QRNetworkInfo.tsx, 10 s).                                   *)
(*                                                                         *)
(* A reading is sent by a timer that does not wait for the one before, and *)
(* its answer is shown whenever it comes.  What the server would answer is *)
(* a number that grows with every change of it (datos); an answer has any  *)
(* value since its reading was sent.  The dashboard makes one reading of   *)
(* four requests, and of one more per flight, whose failure leaves a gap   *)
(* (huecos) instead of failing the reading.                                *)
(***************************************************************************)
EXTENDS Naturals

CONSTANTS Panels,       \* the panels that exist
          NoPanel,
          WithError,    \* those that say when a reading failed
          WithDetails,  \* those that read details of what they show: the dashboard
          MaxReads,     \* bound on the readings on their way
          MaxDatos      \* bound on the changes of the server

ASSUME PanelsAssumption ==
    /\ NoPanel \notin Panels
    /\ WithError \subseteq Panels /\ WithDetails \subseteq Panels
    /\ MaxReads \in Nat \ {0} /\ MaxDatos \in Nat \ {0}

VARIABLES panel,       \* the panel that is open, or NoPanel
          datos,       \* what the server would answer
          reads,       \* what each reading on its way was sent at, 0 for none
          visto,       \* what is shown, 0 before anything was
          huecos,      \* whether it has gaps
          cargando, fallo

panelVars == <<panel, datos, reads, visto, huecos, cargando, fallo>>

\* The type invariant.
PanelTypeOK ==
    /\ panel \in Panels \cup {NoPanel}
    /\ datos \in 1..MaxDatos
    /\ reads \in [1..MaxReads -> 0..MaxDatos]
    /\ visto \in 0..MaxDatos
    /\ huecos \in BOOLEAN /\ (huecos => panel \in WithDetails)
    /\ cargando \in BOOLEAN /\ fallo \in BOOLEAN
----------------------------------------------------------------------------
NoReads == [r \in 1..MaxReads |-> 0]

PanelInit ==
    /\ panel = NoPanel
    /\ datos = 1
    /\ reads = NoReads
    /\ visto = 0 /\ huecos = FALSE /\ cargando = TRUE /\ fallo = FALSE

\* A panel is opened, when the one before is closed, and reads at once: the
\* timer of the old one stops, and answers on their way to it are not shown.
OpenPanel(p) ==
    /\ panel' = p
    /\ reads' = [NoReads EXCEPT ![1] = datos]
    /\ visto' = 0 /\ huecos' = FALSE /\ cargando' = TRUE /\ fallo' = FALSE
    /\ UNCHANGED datos

\* The timer runs for as long as a panel is open.
TimerRuns_untilShown == panel # NoPanel /\ visto = 0
TimerRuns == panel # NoPanel

ReadAgain(r) ==
    /\ TimerRuns /\ reads[r] = 0
    /\ reads' = [reads EXCEPT ![r] = datos]
    /\ UNCHANGED <<panel, datos, visto, huecos, cargando, fallo>>

\* Whether an answer may have gaps.
Gaps_any == BOOLEAN
Gaps == IF panel \in WithDetails THEN BOOLEAN ELSE {FALSE}

ReadAnswered(r) ==
    /\ reads[r] # 0
    /\ reads' = [reads EXCEPT ![r] = 0]
    /\ visto' \in reads[r]..datos
    /\ huecos' \in Gaps
    /\ cargando' = FALSE /\ fallo' = FALSE
    /\ UNCHANGED <<panel, datos>>

\* A reading that fails leaves what is shown: the dashboard and the monitor
\* say so, the map and the address do not.
FailureShown == panel \in WithError

ReadFails(r) ==
    /\ reads[r] # 0
    /\ reads' = [reads EXCEPT ![r] = 0]
    /\ cargando' = FALSE
    /\ fallo' = (fallo \/ FailureShown)
    /\ UNCHANGED <<panel, datos, visto, huecos>>

ServerChanges ==
    /\ datos < MaxDatos /\ datos' = datos + 1
    /\ UNCHANGED <<panel, reads, visto, huecos, cargando, fallo>>

PanelNext ==
    \/ \E p \in Panels : OpenPanel(p)
    \/ \E r \in 1..MaxReads : ReadAgain(r) \/ ReadAnswered(r) \/ ReadFails(r)
    \/ ServerChanges

PanelSpec == PanelInit /\ [][PanelNext]_panelVars

\* The timer fires, a reading ends, and of readings made for ever some are
\* answered.
TimerFires == \E r \in 1..MaxReads : ReadAgain(r)
SomeAnswered == \E r \in 1..MaxReads : ReadAnswered(r)
PanelFairness ==
    /\ WF_panelVars(TimerFires) /\ SF_panelVars(SomeAnswered)
    /\ \A r \in 1..MaxReads : WF_panelVars(ReadAnswered(r) \/ ReadFails(r))

PanelFairSpec == PanelSpec /\ PanelFairness
----------------------------------------------------------------------------
(***************************************************************************)
(* Properties.                                                             *)
(***************************************************************************)

\* A panel that stays open shows what the server has once that no longer
\* changes, although an older answer may come after a newer one.
StaysOpen == <>[][\A p \in Panels : ~OpenPanel(p)]_panelVars
PanelConverges == StaysOpen => <>[](panel # NoPanel => visto = datos)

\* "El panel se actualizará cuando vuelva" (sincronizacion/page.tsx:56): a
\* panel that says that the server does not answer takes it back when it does.
FailureIsTakenBack == fallo ~> ~fallo

\* Both: what a panel shows, and what it says of the server, become true.
PanelsRecover == PanelConverges /\ FailureIsTakenBack
=============================================================================
