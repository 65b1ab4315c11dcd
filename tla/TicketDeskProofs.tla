-------------------------- MODULE TicketDeskProofs --------------------------
(***************************************************************************)
(* Theorems about TicketDesk, for any number of tickets and of lists on    *)
(* their way, with their proofs.                                           *)
(*                                                                         *)
(* The pass that is displayed depends on the requests that are on their    *)
(* way, and the state that is displayed on the operation that goes on:     *)
(* PassInv and ConfirmedInv say what each of them may still bring.         *)
(***************************************************************************)
EXTENDS TicketDesk, TLAPS

USE DeskAssumption

\* What is selected, and a request for a pass, with their types.
Chosen == Rows \cup {Nothing}
Pedidos == [id : Boletos, vivo : BOOLEAN]

\* A cancelled request is a request.
LEMMA Cancelled ==
    ASSUME NEW p \in Pedidos
    PROVE  [p EXCEPT !.vivo = FALSE] \in Pedidos /\ [p EXCEPT !.vivo = FALSE].vivo = FALSE
BY DEF Pedidos

LEMMA SelectType ==
    ASSUME ViewTypeOK, NEW sel \in Chosen, Select(sel)
    PROVE  ViewTypeOK' /\ selectedBoleto' = sel
<1>1. selectedBoleto' = sel
  BY DEF Select
<1>2. CASE sel = selectedBoleto
  BY <1>1, <1>2 DEF Select, ViewTypeOK, Chosen
<1>3. CASE sel # selectedBoleto
  <2>1. {[p EXCEPT !.vivo = FALSE] : p \in pedido} \subseteq Pedidos
    <3>1. pedido \subseteq Pedidos
      BY DEF ViewTypeOK, Pedidos
    <3> QED BY <3>1, Cancelled
  <2>2. sel.estado = "SALED" => [id |-> sel.id, vivo |-> TRUE] \in Pedidos
    BY DEF Chosen, Rows, Nothing, Pedidos
  <2>3. pedido' \subseteq Pedidos
    BY <1>3, <2>1, <2>2 DEF Select
  <2>4. selectedPass' = NoBoleto
    BY <1>3 DEF Select
  <2> QED BY <1>1, <2>3, <2>4 DEF ViewTypeOK, Pedidos, Chosen
<1> QED BY <1>1, <1>2, <1>3

\* A row of a list has the types of a selection.
LEMMA SeenType ==
    ASSUME ServerTypeOK, NEW b \in Boletos, NEW sel \in Seen(b)
    PROVE  sel \in Rows /\ sel \in Chosen /\ sel.id = b /\ sel.estado \in history[b]
BY DEF ServerTypeOK, Seen, Rows, Chosen

\* A ticket that becomes e keeps the types, and its history has e.
LEMMA BecomesType ==
    ASSUME ServerTypeOK, NEW b \in Boletos, NEW e \in TicketStates, TicketBecomes(b, e)
    PROVE  /\ ServerTypeOK'
           /\ estado'[b] = e /\ e \in history'[b]
           /\ \A c \in Boletos : history[c] \subseteq history'[c]
           /\ \A c \in Boletos \ {b} : estado'[c] = estado[c]
BY DEF ServerTypeOK, TicketBecomes

\* The three parts of the type invariant when nothing of them changes.
LEMMA ServerSame == ServerTypeOK /\ UNCHANGED serverVars => ServerTypeOK'
BY DEF ServerTypeOK, serverVars

LEMMA ViewSame == ViewTypeOK /\ UNCHANGED viewVars => ViewTypeOK'
BY DEF ViewTypeOK, viewVars

LEMMA NoOpType == NoOp \in Ops /\ NoOp.st = "none"
BY DEF NoOp, Ops, TicketStates

\* The steps of an operation have its types.
LEMMA OpStep ==
    ASSUME OpTypeOK, NEW st \in {"patch", "ok", "refetch"}, op.st # "none",
           op' = [op EXCEPT !.st = st]
    PROVE  op' \in Ops /\ op'.sel \in Rows
BY DEF OpTypeOK, Ops

\* A list that ends.
LEMMA FetchEnds ==
    ASSUME OpTypeOK, fetches > 0, fetches' = fetches - 1, loading' = FALSE,
           UNCHANGED <<updating, requestedID, op>>
    PROVE  OpTypeOK'
<1>1. fetches' \in 0..MaxFetches
  BY DEF OpTypeOK
<1>2. loading' \in BOOLEAN
  OBVIOUS
<1> QED BY <1>1, <1>2 DEF OpTypeOK

LEMMA DeskInitType == DeskInit => DeskTypeOK
<1> SUFFICES ASSUME DeskInit PROVE DeskTypeOK
  OBVIOUS
<1>1. ServerTypeOK
  BY DEF DeskInit, ServerTypeOK, TicketStates
<1>2. ViewTypeOK
  BY DEF DeskInit, ViewTypeOK
<1>3. op \in Ops /\ op.st = "none"
  BY NoOpType DEF DeskInit
<1>4. loading \in BOOLEAN /\ updating \in BOOLEAN
  BY DEF DeskInit
<1>5. fetches \in 0..MaxFetches /\ requestedID \in Boletos \cup {NoBoleto}
  BY DEF DeskInit
<1>6. OpTypeOK
  BY <1>3, <1>4, <1>5 DEF OpTypeOK
<1> QED BY <1>1, <1>2, <1>6 DEF DeskTypeOK

LEMMA DeskNextType == DeskTypeOK /\ [DeskNext]_deskVars => DeskTypeOK'
<1> SUFFICES ASSUME ServerTypeOK, ViewTypeOK, OpTypeOK, [DeskNext]_deskVars
             PROVE  ServerTypeOK' /\ ViewTypeOK' /\ OpTypeOK'
  BY DEF DeskTypeOK
<1>1. CASE FetchArrives
  <2>1. ViewTypeOK'
    <3>1. CASE UNCHANGED viewVars
      BY <3>1, ViewSame
    <3>2. ASSUME NEW sel \in Seen(requestedID) \cup {Nothing}, Select(sel), requestedID # NoBoleto
          PROVE  ViewTypeOK'
      <4>1. requestedID \in Boletos
        BY <3>2 DEF OpTypeOK
      <4>2. sel \in Chosen
        BY <4>1, SeenType DEF Chosen
      <4> QED BY <4>2, <3>2, SelectType
    <3> QED BY <1>1, <3>1, <3>2 DEF FetchArrives
  <2>2. ServerTypeOK'
    BY <1>1, ServerSame DEF FetchArrives
  <2>3. OpTypeOK'
    BY <1>1, FetchEnds DEF FetchArrives
  <2> QED BY <2>1, <2>2, <2>3
<1>2. CASE FetchFails
  <2>1. ServerTypeOK' /\ ViewTypeOK'
    BY <1>2, ServerSame, ViewSame DEF FetchFails
  <2>2. OpTypeOK'
    BY <1>2, FetchEnds DEF FetchFails
  <2> QED BY <2>1, <2>2
<1>3. CASE Refrescar
  <2>1. ServerTypeOK' /\ ViewTypeOK'
    BY <1>3, ServerSame, ViewSame DEF Refrescar
  <2>2. OpTypeOK'
    BY <1>3 DEF Refrescar, OpTypeOK
  <2> QED BY <2>1, <2>2
<1>4. ASSUME NEW b \in Boletos, ClickBoleto(b)
      PROVE  ServerTypeOK' /\ ViewTypeOK' /\ OpTypeOK'
  <2>1. PICK sel \in Seen(b) : Select(sel)
    BY <1>4 DEF ClickBoleto
  <2>2. ViewTypeOK'
    BY <2>1, SeenType, SelectType
  <2>3. ServerTypeOK'
    BY <1>4, ServerSame DEF ClickBoleto
  <2>4. OpTypeOK'
    BY <1>4 DEF ClickBoleto, OpTypeOK
  <2> QED BY <2>2, <2>3, <2>4
<1>5. ASSUME NEW b \in Boletos, OthersChange(b)
      PROVE  ServerTypeOK' /\ ViewTypeOK' /\ OpTypeOK'
  <2>1. PICK e \in TicketStates : TicketBecomes(b, e)
    BY <1>5 DEF OthersChange, TicketStates, Result
  <2>2. ServerTypeOK'
    BY <2>1, BecomesType
  <2>3. ViewTypeOK'
    BY <1>5, ViewSame DEF OthersChange
  <2>4. OpTypeOK'
    BY <1>5 DEF OthersChange, OpTypeOK
  <2> QED BY <2>2, <2>3, <2>4
<1>6. ASSUME NEW p \in pedido, PassAnswered(p)
      PROVE  ServerTypeOK' /\ ViewTypeOK' /\ OpTypeOK'
  <2>1. ServerTypeOK'
    BY <1>6, ServerSame DEF PassAnswered
  <2>2. ViewTypeOK'
    BY <1>6 DEF PassAnswered, Arrives, ViewTypeOK
  <2>3. OpTypeOK'
    BY <1>6 DEF PassAnswered, OpTypeOK
  <2> QED BY <2>1, <2>2, <2>3
<1>7. ASSUME NEW nuevo \in {"RESERVED", "SALED", "ANNULLED"}, ChangeTicketState(nuevo)
      PROVE  ServerTypeOK' /\ ViewTypeOK' /\ OpTypeOK'
  <2>1. ServerTypeOK' /\ ViewTypeOK'
    BY <1>7, ServerSame, ViewSame DEF ChangeTicketState
  <2>2. op' \in Ops /\ op'.sel \in Rows
    BY <1>7 DEF ChangeTicketState, CanAct, ViewTypeOK, Ops, TicketStates
  <2>3. OpTypeOK'
    BY <1>7, <2>2 DEF ChangeTicketState, OpTypeOK
  <2> QED BY <2>1, <2>3
<1>8. CASE ExportarBoletoPDF
  <2>1. ServerTypeOK' /\ ViewTypeOK'
    BY <1>8, ServerSame, ViewSame DEF ExportarBoletoPDF
  <2>2. selectedBoleto \in Rows
    BY <1>8 DEF ExportarBoletoPDF, CanExport, CanAct, ViewTypeOK
  <2>3. op' = [st |-> "pdf", sel |-> selectedBoleto, nuevo |-> "ANNULLED"]
    BY <1>8 DEF ExportarBoletoPDF, NoOp
  <2>4. op' \in Ops /\ op'.sel \in Rows
    BY <2>2, <2>3 DEF Ops, TicketStates
  <2>5. OpTypeOK'
    BY <1>8, <2>4 DEF ExportarBoletoPDF, OpTypeOK
  <2> QED BY <2>1, <2>5
<1>9. CASE PatchDone
  <2>1. op.sel.id \in Boletos
    BY <1>9 DEF PatchDone, OpTypeOK, Rows
  <2>2. Result(op.nuevo) \in TicketStates
    BY <1>9 DEF PatchDone, Allows, Result, TicketStates
  <2>3. ServerTypeOK'
    BY <2>1, <2>2, <1>9, BecomesType DEF PatchDone
  <2>4. ViewTypeOK'
    BY <1>9, ViewSame DEF PatchDone
  <2>5. op' \in Ops /\ op'.sel \in Rows
    BY <1>9, OpStep DEF PatchDone
  <2>6. OpTypeOK'
    BY <1>9, <2>5 DEF PatchDone, OpTypeOK
  <2> QED BY <2>3, <2>4, <2>6
<1>10. CASE OpFails
  <2>1. ServerTypeOK' /\ ViewTypeOK'
    BY <1>10, ServerSame, ViewSame DEF OpFails
  <2>2. OpTypeOK'
    BY <1>10, NoOpType DEF OpFails, Release, OpTypeOK
  <2> QED BY <2>1, <2>2
<1>11. CASE PatchAnswered
  <2>1. ServerTypeOK' /\ ViewTypeOK'
    BY <1>11, ServerSame, ViewSame DEF PatchAnswered
  <2>2. op' \in Ops /\ op'.sel \in Rows
    BY <1>11, OpStep DEF PatchAnswered, AfterPatch
  <2>3. OpTypeOK'
    BY <1>11, <2>2 DEF PatchAnswered, OpTypeOK
  <2> QED BY <2>1, <2>3
<1>12. CASE RefetchEnds
  <2>1. [id |-> op.sel.id, estado |-> op.nuevo] \in Chosen
    BY <1>12 DEF RefetchEnds, OpTypeOK, Ops, Rows, Chosen
  <2>2. ViewTypeOK'
    BY <1>12, <2>1, SelectType DEF RefetchEnds
  <2>3. ServerTypeOK'
    BY <1>12, ServerSame DEF RefetchEnds
  <2>4. OpTypeOK'
    BY <1>12, NoOpType DEF RefetchEnds, Release, OpTypeOK
  <2> QED BY <2>2, <2>3, <2>4
<1>13. CASE UNCHANGED deskVars
  <2>1. ServerTypeOK' /\ ViewTypeOK'
    BY <1>13, ServerSame, ViewSame DEF deskVars
  <2>2. OpTypeOK'
    BY <1>13 DEF deskVars, OpTypeOK
  <2> QED BY <2>1, <2>2
<1> QED
  BY <1>1, <1>2, <1>3, <1>4, <1>5, <1>6, <1>7, <1>8, <1>9, <1>10, <1>11, <1>12, <1>13
     DEF DeskNext, OpGoesOn

\* The types hold for any number of tickets.
THEOREM DeskTypeCorrect == DeskSpec => []DeskTypeOK
BY DeskInitType, DeskNextType, PTL DEF DeskSpec
----------------------------------------------------------------------------
\* A pass on its way that is not cancelled is of the selected ticket, and so
\* is the one that is displayed.
PassInv ==
    /\ PassIsOfTheSelection
    /\ \A p \in pedido : p.vivo => selectedBoleto = [id |-> p.id, estado |-> "SALED"]

\* The states the operation may yet select its ticket in.
ConfirmedInv ==
    /\ ShownAsPaidWasPaid
    /\ op.st \in {"ok", "refetch"} /\ op.nuevo = "SALED" => "SALED" \in history[op.sel.id]

\* A selection, with its effect, leaves no live request for another ticket.
LEMMA SelectPass ==
    ASSUME ViewTypeOK, PassInv, NEW sel \in Chosen, Select(sel)
    PROVE  PassInv'
<1>1. CASE sel = selectedBoleto
  BY <1>1 DEF Select, PassInv, PassIsOfTheSelection
<1>2. CASE sel # selectedBoleto
  <2>1. selectedPass' = NoBoleto /\ selectedBoleto' = sel
    BY <1>2 DEF Select
  <2>2. \A p \in pedido' : p.vivo => p = [id |-> sel.id, vivo |-> TRUE] /\ sel.estado = "SALED"
    <3>1. \A p \in {[p EXCEPT !.vivo = FALSE] : p \in pedido} : ~p.vivo
      BY Cancelled DEF ViewTypeOK, Pedidos
    <3> QED BY <1>2, <3>1 DEF Select
  <2>3. sel.estado = "SALED" => sel = [id |-> sel.id, estado |-> "SALED"]
    BY DEF Chosen, Rows, Nothing
  <2> QED BY <2>1, <2>2, <2>3 DEF PassInv, PassIsOfTheSelection
<1> QED BY <1>1, <1>2

LEMMA ViewPass == PassInv /\ UNCHANGED viewVars => PassInv'
BY DEF PassInv, PassIsOfTheSelection, viewVars

LEMMA DeskNextPass ==
    DeskTypeOK /\ PassInv /\ [DeskNext]_deskVars => PassInv'
<1> SUFFICES ASSUME ServerTypeOK, ViewTypeOK, OpTypeOK, PassInv, [DeskNext]_deskVars
             PROVE  PassInv'
  BY DEF DeskTypeOK
<1>1. CASE FetchArrives
  <2>1. CASE UNCHANGED viewVars
    BY <2>1, ViewPass
  <2>2. ASSUME NEW sel \in Seen(requestedID) \cup {Nothing}, Select(sel), requestedID # NoBoleto
        PROVE  PassInv'
    <3>1. requestedID \in Boletos
      BY <2>2 DEF OpTypeOK
    <3>2. sel \in Chosen
      BY <3>1, SeenType DEF Chosen
    <3> QED BY <2>2, <3>2, SelectPass
  <2> QED BY <1>1, <2>1, <2>2 DEF FetchArrives
<1>2. ASSUME NEW b \in Boletos, ClickBoleto(b) PROVE PassInv'
  BY <1>2, SeenType, SelectPass DEF ClickBoleto
<1>3. ASSUME NEW p \in pedido, PassAnswered(p) PROVE PassInv'
  <2>1. /\ pedido' = pedido \ {p} /\ selectedBoleto' = selectedBoleto
        /\ selectedPass' = selectedPass \/ (p.vivo /\ selectedPass' = p.id)
    BY <1>3 DEF PassAnswered, Arrives
  <2> QED BY <2>1 DEF PassInv, PassIsOfTheSelection
<1>4. CASE RefetchEnds
  <2>1. [id |-> op.sel.id, estado |-> op.nuevo] \in Chosen
    BY <1>4 DEF RefetchEnds, OpTypeOK, Ops, Rows, Chosen
  <2> QED BY <1>4, <2>1, SelectPass DEF RefetchEnds
<1>5. ASSUME FetchFails \/ Refrescar \/ (\E b \in Boletos : OthersChange(b))
             \/ (\E nuevo \in {"RESERVED", "SALED", "ANNULLED"} : ChangeTicketState(nuevo))
             \/ ExportarBoletoPDF \/ PatchDone \/ OpFails \/ PatchAnswered
             \/ UNCHANGED deskVars
      PROVE  PassInv'
  BY <1>5, ViewPass DEF FetchFails, Refrescar, OthersChange, ChangeTicketState,
     ExportarBoletoPDF, PatchDone, OpFails, PatchAnswered, deskVars
<1> QED BY <1>1, <1>2, <1>3, <1>4, <1>5 DEF DeskNext, OpGoesOn

\* The displayed pass is of the selected ticket, shown as paid, in whatever
\* order the passes arrive (gestion-boletos/page.tsx:69 to 81).
THEOREM PassCorrect == DeskSpec => []PassIsOfTheSelection
<1>1. DeskInit => PassInv
  BY DEF DeskInit, PassInv, PassIsOfTheSelection
<1>2. PassInv => PassIsOfTheSelection
  BY DEF PassInv
<1> QED BY <1>1, <1>2, DeskInitType, DeskNextType, DeskNextPass, PTL DEF DeskSpec
----------------------------------------------------------------------------
\* What the owner allows makes a state of a ticket.
LEMMA AllowedStates ==
    ASSUME NEW e, NEW nuevo, Allows(e, nuevo)
    PROVE  Result(nuevo) \in TicketStates
BY DEF Allows, Result, TicketStates

\* No step takes a state from the history of a ticket.
LEMMA HistoryGrows ==
    ASSUME ServerTypeOK, OpTypeOK, [DeskNext]_deskVars
    PROVE  \A b \in Boletos : history[b] \subseteq history'[b]
<1>1. CASE UNCHANGED serverVars
  BY <1>1 DEF serverVars
<1>2. CASE PatchDone
  <2>1. op.sel.id \in Boletos
    BY <1>2 DEF PatchDone, OpTypeOK, Rows
  <2> QED BY <1>2, <2>1, AllowedStates, BecomesType DEF PatchDone
<1>3. ASSUME NEW b \in Boletos, OthersChange(b)
      PROVE  \E e \in TicketStates : TicketBecomes(b, e)
  <2>1. CASE TicketBecomes(b, "ANNULLED")
    BY <2>1 DEF TicketStates
  <2> QED BY <1>3, <2>1, AllowedStates DEF OthersChange
<1>4. ASSUME DeskNext, ~PatchDone, \A b \in Boletos : ~OthersChange(b)
      PROVE  UNCHANGED serverVars
  BY <1>4 DEF DeskNext, OpGoesOn, FetchArrives, FetchFails, Refrescar, ClickBoleto, PassAnswered,
              ChangeTicketState, ExportarBoletoPDF, OpFails, PatchAnswered, RefetchEnds
<1>5. CASE UNCHANGED deskVars
  BY <1>1, <1>5 DEF deskVars
<1> QED BY <1>1, <1>2, <1>3, <1>4, <1>5, BecomesType
----------------------------------------------------------------------------
\* A selection of a state its ticket has had.
LEMMA SelectPaid ==
    ASSUME NEW sel \in Chosen, Select(sel),
           sel.estado = "SALED" => "SALED" \in history'[sel.id]
    PROVE  ShownAsPaidWasPaid'
BY DEF Select, ShownAsPaidWasPaid

LEMMA DeskNextConfirmed ==
    DeskTypeOK /\ ConfirmedInv /\ [DeskNext]_deskVars => ConfirmedInv'
<1> SUFFICES ASSUME ServerTypeOK, ViewTypeOK, OpTypeOK, ConfirmedInv, [DeskNext]_deskVars
             PROVE  ConfirmedInv'
  BY DEF DeskTypeOK
<1>1. \A b \in Boletos : history[b] \subseteq history'[b]
  BY HistoryGrows
<1>2. ASSUME NEW sel \in Chosen, Select(sel),
             sel # Nothing => sel.id \in Boletos /\ (sel.estado = "SALED" => "SALED" \in history[sel.id])
      PROVE  ShownAsPaidWasPaid'
  <2>1. sel.estado = "SALED" => "SALED" \in history'[sel.id]
    BY <1>1, <1>2 DEF Nothing
  <2> QED BY <1>2, <2>1, SelectPaid
<1>3. ASSUME NEW b \in Boletos, NEW sel \in Seen(b), Select(sel)
      PROVE  ShownAsPaidWasPaid'
  <2>1. sel \in Chosen /\ sel.id = b /\ sel.estado \in history[b]
    BY SeenType
  <2> QED BY <1>2, <1>3, <2>1
<1>4. ShownAsPaidWasPaid'
  <2>1. CASE UNCHANGED selectedBoleto
    <3>1. selectedBoleto.estado = "SALED" => selectedBoleto.id \in Boletos
      BY DEF ViewTypeOK, Rows, Nothing
    <3> QED BY <1>1, <2>1, <3>1 DEF ConfirmedInv, ShownAsPaidWasPaid
  <2>2. CASE FetchArrives
    <3>1. ASSUME Select(Nothing) PROVE ShownAsPaidWasPaid'
      BY <1>2, <3>1 DEF Chosen
    <3>2. requestedID # NoBoleto => requestedID \in Boletos
      BY DEF OpTypeOK
    <3>3. CASE UNCHANGED viewVars
      BY <2>1, <3>3 DEF viewVars
    <3> QED BY <2>2, <3>1, <3>2, <3>3, <1>3 DEF FetchArrives
  <2>3. CASE \E b \in Boletos : ClickBoleto(b)
    BY <2>3, <1>3 DEF ClickBoleto
  <2>4. CASE RefetchEnds
    <3>1. op.sel.id \in Boletos /\ [id |-> op.sel.id, estado |-> op.nuevo] \in Chosen
      BY <2>4 DEF RefetchEnds, OpTypeOK, Ops, Rows, Chosen
    <3>2. op.nuevo = "SALED" => "SALED" \in history[op.sel.id]
      BY <2>4 DEF RefetchEnds, ConfirmedInv
    <3>3. Select([id |-> op.sel.id, estado |-> op.nuevo])
      BY <2>4 DEF RefetchEnds
    <3> QED BY <1>2, <3>1, <3>2, <3>3
  <2>5. ASSUME DeskNext, ~FetchArrives, ~(\E b \in Boletos : ClickBoleto(b)), ~RefetchEnds
        PROVE  UNCHANGED selectedBoleto
    BY <2>5 DEF DeskNext, OpGoesOn, FetchFails, Refrescar, OthersChange, PassAnswered,
       ChangeTicketState, ExportarBoletoPDF, PatchDone, OpFails, PatchAnswered, viewVars
  <2>6. CASE UNCHANGED deskVars
    BY <2>1, <2>6 DEF deskVars, viewVars
  <2> QED BY <2>1, <2>2, <2>3, <2>4, <2>5, <2>6
<1>5. op'.st \in {"ok", "refetch"} /\ op'.nuevo = "SALED" => "SALED" \in history'[op'.sel.id]
  <2>1. op.st # "none" => op.sel.id \in Boletos
    BY DEF OpTypeOK, Rows
  <2>2. CASE UNCHANGED op
    BY <1>1, <2>1, <2>2 DEF ConfirmedInv
  <2>3. CASE op'.st \in {"none", "patch", "pdf"}
    BY <2>3
  <2>4. CASE PatchDone
    <3>1. /\ op'.nuevo = op.nuevo /\ op'.sel = op.sel /\ op.sel.id \in Boletos
      BY <2>1, <2>4 DEF PatchDone, OpTypeOK, Ops
    <3>2. TicketBecomes(op.sel.id, Result(op.nuevo)) /\ Result(op.nuevo) \in TicketStates
      BY <2>4, AllowedStates DEF PatchDone
    <3>3. Result(op.nuevo) \in history'[op.sel.id]
      BY <3>1, <3>2, BecomesType
    <3> QED BY <3>1, <3>3 DEF Result
  <2>5. CASE PatchAnswered
    <3>1. /\ op'.nuevo = op.nuevo /\ op'.sel = op.sel /\ op.st = "ok"
      BY <2>5 DEF PatchAnswered, AfterPatch, OpTypeOK, Ops
    <3> QED BY <1>1, <2>1, <3>1 DEF ConfirmedInv
  <2>6. ASSUME \/ OpFails \/ RefetchEnds \/ ExportarBoletoPDF
               \/ \E nuevo \in {"RESERVED", "SALED", "ANNULLED"} : ChangeTicketState(nuevo)
        PROVE  op'.st \in {"none", "patch", "pdf"}
    <3>1. ASSUME OpFails \/ RefetchEnds PROVE op'.st = "none"
      BY <3>1, NoOpType DEF OpFails, RefetchEnds, Release
    <3>2. ASSUME ExportarBoletoPDF PROVE op'.st = "pdf"
      BY <3>2 DEF ExportarBoletoPDF, NoOp
    <3>3. ASSUME NEW nuevo, ChangeTicketState(nuevo) PROVE op'.st = "patch"
      BY <3>3 DEF ChangeTicketState
    <3> QED BY <2>6, <3>1, <3>2, <3>3
  <2>7. ASSUME \/ FetchArrives \/ FetchFails \/ Refrescar
               \/ \E b \in Boletos : ClickBoleto(b) \/ OthersChange(b)
               \/ \E p \in pedido : PassAnswered(p)
               \/ UNCHANGED deskVars
        PROVE  UNCHANGED op
    BY <2>7 DEF FetchArrives, FetchFails, Refrescar, ClickBoleto, OthersChange, PassAnswered,
                deskVars
  <2> QED BY <2>2, <2>3, <2>4, <2>5, <2>6, <2>7 DEF DeskNext, OpGoesOn
<1> QED BY <1>4, <1>5 DEF ConfirmedInv

\* A ticket that the desk shows as paid has been paid: the state it assumes
\* after a change is one its owner confirmed (gestion-boletos/page.tsx:83 to 115).
THEOREM ShownCorrect == DeskSpec => []ShownAsPaidWasPaid
<1>1. DeskInit => ConfirmedInv
  BY DEF DeskInit, ConfirmedInv, ShownAsPaidWasPaid, Nothing, NoOp
<1>2. ConfirmedInv => ShownAsPaidWasPaid
  BY DEF ConfirmedInv
<1> QED BY <1>1, <1>2, DeskInitType, DeskNextType, DeskNextConfirmed, PTL DEF DeskSpec

\* So what the desk shows of the selected ticket belongs together and is true.
THEOREM DeskShowsCorrect == DeskSpec => []DeskShowsTheTruth
BY PassCorrect, ShownCorrect, PTL DEF DeskShowsTheTruth
=============================================================================
