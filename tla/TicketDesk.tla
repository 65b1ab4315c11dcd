----------------------------- MODULE TicketDesk -----------------------------
(***************************************************************************)
(* The management of tickets in the web client (app/gestion-boletos/       *)
(* page.tsx): the list merged from three servers, the selected ticket with *)
(* its pass, and the changes of its state.                                 *)
(*                                                                         *)
(* The list is read from copies: each ticket is shown in a state it has    *)
(* had (history), or not at all, and only the server that owns it knows    *)
(* its state (estado).  A change captures the selected ticket, waits for   *)
(* the server and for a new list, and selects its ticket again in the      *)
(* state it asked for; meanwhile other tickets may be selected.  An action *)
(* is a handler up to its next await, with the effects React flushes.      *)
(***************************************************************************)
EXTENDS Naturals, FiniteSets

CONSTANTS Boletos,      \* the tickets
          NoBoleto,
          MaxFetches    \* bound on the lists on their way

ASSUME DeskAssumption == NoBoleto \notin Boletos /\ MaxFetches \in Nat \ {0}

VARIABLES estado, history,          \* the server's tickets, and their copies
          loading, updating,
          selectedBoleto, selectedPass,
          pedido,                   \* the passes asked for: ticket, not cancelled
          fetches,                  \* the lists asked for
          requestedID,              \* the ticket of the page's address
          op                        \* changeTicketState or exportarBoletoPDF

serverVars == <<estado, history>>
viewVars == <<selectedBoleto, selectedPass, pedido>>
deskVars == <<serverVars, viewVars, loading, updating, fetches, requestedID, op>>

TicketStates == {"RESERVED", "SALED", "REFUNDED", "ANNULLED"}
Rows == [id : Boletos, estado : TicketStates]
Nothing == [id |-> NoBoleto, estado |-> "ANNULLED"]
NoOp == [st |-> "none", sel |-> Nothing, nuevo |-> "ANNULLED"]

ServerTypeOK ==
    estado \in [Boletos -> TicketStates] /\ history \in [Boletos -> SUBSET TicketStates]

ViewTypeOK ==
    /\ selectedBoleto \in Rows \cup {Nothing}
    /\ selectedPass \in Boletos \cup {NoBoleto}
    /\ pedido \subseteq [id : Boletos, vivo : BOOLEAN]

Ops == [st : {"none", "patch", "ok", "refetch", "pdf"},
        sel : Rows \cup {Nothing}, nuevo : TicketStates]
OpTypeOK ==
    /\ loading \in BOOLEAN /\ updating \in BOOLEAN
    /\ fetches \in 0..MaxFetches /\ requestedID \in Boletos \cup {NoBoleto}
    /\ op \in Ops /\ (op.st # "none" => op.sel \in Rows)

\* The type invariant.
DeskTypeOK == ServerTypeOK /\ ViewTypeOK /\ OpTypeOK
----------------------------------------------------------------------------
\* UpdateEstadoBoleto and CancelarReserva: what a request may make of a ticket.
Allows(e, nuevo) ==
    \/ nuevo = "SALED" /\ e = "RESERVED"
    \/ nuevo = "ANNULLED" /\ e \in {"RESERVED", "SALED"}
Result(nuevo) == IF nuevo = "ANNULLED" THEN "REFUNDED" ELSE nuevo

TicketBecomes(b, e) ==
    /\ estado' = [estado EXCEPT ![b] = e]
    /\ history' = [history EXCEPT ![b] = @ \cup {e}]

\* A new selection, with the effect of lines 69 to 81: when the ticket or its
\* state changed, the pass is forgotten, the request for it cancelled, and the
\* pass of a paid ticket asked for.
Select(sel) ==
    /\ selectedBoleto' = sel
    /\ IF sel = selectedBoleto
         THEN UNCHANGED <<selectedPass, pedido>>
         ELSE /\ selectedPass' = NoBoleto
              /\ pedido' = {[p EXCEPT !.vivo = FALSE] : p \in pedido}
                             \cup (IF sel.estado = "SALED"
                                     THEN {[id |-> sel.id, vivo |-> TRUE]} ELSE {})

DeskInit ==
    /\ estado \in [Boletos -> {"RESERVED", "SALED"}]
    /\ history = [b \in Boletos |-> {estado[b]}]
    /\ loading = TRUE /\ updating = FALSE
    /\ selectedBoleto = Nothing /\ selectedPass = NoBoleto /\ pedido = {}
    /\ fetches = 1 /\ requestedID \in Boletos \cup {NoBoleto}
    /\ op = NoOp
----------------------------------------------------------------------------
\* What a ticket may look like in a list: as a copy had it, or absent.
Seen(b) == {[id |-> b, estado |-> e] : e \in history[b]}

\* fetchData ends: the ticket of the address is selected, as the list has it.
FetchArrives ==
    /\ fetches > 0
    /\ fetches' = fetches - 1
    /\ loading' = FALSE
    /\ \/ requestedID = NoBoleto /\ UNCHANGED viewVars
       \/ /\ requestedID # NoBoleto
          /\ \E sel \in Seen(requestedID) \cup {Nothing} : Select(sel)
    /\ UNCHANGED <<serverVars, updating, requestedID, op>>

\* It may fail as a whole as well: an answer that cannot be read.
FetchFails ==
    /\ fetches > 0
    /\ fetches' = fetches - 1 /\ loading' = FALSE
    /\ UNCHANGED <<serverVars, viewVars, updating, requestedID, op>>

Refrescar ==
    /\ ~loading /\ fetches < MaxFetches
    /\ fetches' = fetches + 1
    /\ UNCHANGED <<serverVars, viewVars, loading, updating, requestedID, op>>

ClickBoleto(b) ==
    /\ ~loading
    /\ \E sel \in Seen(b) : Select(sel)
    /\ UNCHANGED <<serverVars, loading, updating, fetches, requestedID, op>>

\* The pass arrives; the server gives it for a paid ticket only.
Arrives_late(p) == selectedPass' = p.id
Arrives(p) == selectedPass' = IF p.vivo THEN p.id ELSE selectedPass

PassAnswered(p) ==
    /\ p \in pedido
    /\ pedido' = pedido \ {p}
    /\ \/ estado[p.id] = "SALED" /\ Arrives(p)
       \/ UNCHANGED selectedPass
    /\ UNCHANGED <<serverVars, selectedBoleto, loading, updating, fetches, requestedID, op>>

\* The three buttons of the state; the one of the PDF is shown for a paid ticket.
CanAct == ~loading /\ ~updating /\ selectedBoleto # Nothing
CanExport == CanAct /\ selectedBoleto.estado = "SALED"

\* changeTicketState, confirmed by the user, up to its request.
ChangeTicketState(nuevo) ==
    /\ CanAct /\ selectedBoleto.estado # nuevo
    /\ updating' = TRUE
    /\ op' = [st |-> "patch", sel |-> selectedBoleto, nuevo |-> nuevo]
    /\ UNCHANGED <<serverVars, viewVars, loading, fetches, requestedID>>

ExportarBoletoPDF ==
    /\ CanExport
    /\ updating' = TRUE
    /\ op' = [NoOp EXCEPT !.st = "pdf", !.sel = selectedBoleto]
    /\ UNCHANGED <<serverVars, viewVars, loading, fetches, requestedID>>

\* The owner makes the change.
PatchDone ==
    /\ op.st = "patch" /\ Allows(estado[op.sel.id], op.nuevo)
    /\ TicketBecomes(op.sel.id, Result(op.nuevo))
    /\ op' = [op EXCEPT !.st = "ok"]
    /\ UNCHANGED <<viewVars, loading, updating, fetches, requestedID>>

\* The finally of both operations.
Release == updating' = FALSE /\ op' = NoOp

\* Refused, or lost before or after the owner made the change; or the PDF is
\* saved or fails.
OpFails ==
    /\ op.st \in {"patch", "ok", "pdf"}
    /\ Release
    /\ UNCHANGED <<serverVars, viewVars, loading, fetches, requestedID>>

\* What follows the answer: the list is awaited after a success only.
AfterPatch == op.st = "ok"

PatchAnswered ==
    /\ AfterPatch
    /\ op' = [op EXCEPT !.st = "refetch"]
    /\ UNCHANGED <<serverVars, viewVars, loading, updating, fetches, requestedID>>

\* The new list arrives or fails, and the captured ticket is selected in the
\* state that was asked for.  fetchData selects the ticket of the address just
\* before (line 57), which is not rendered: React 18 batches the two.
RefetchEnds ==
    /\ op.st = "refetch"
    /\ Select([id |-> op.sel.id, estado |-> op.nuevo])
    /\ Release
    /\ UNCHANGED <<serverVars, loading, fetches, requestedID>>

\* Somebody else changes a ticket, or the worker releases a refund.
OthersChange(b) ==
    /\ \/ \E nuevo \in {"SALED", "ANNULLED"} :
             Allows(estado[b], nuevo) /\ TicketBecomes(b, Result(nuevo))
       \/ estado[b] = "REFUNDED" /\ TicketBecomes(b, "ANNULLED")
    /\ UNCHANGED <<viewVars, loading, updating, fetches, requestedID, op>>

OpGoesOn == PatchDone \/ OpFails \/ PatchAnswered \/ RefetchEnds

DeskNext ==
    \/ FetchArrives \/ FetchFails \/ Refrescar
    \/ \E b \in Boletos : ClickBoleto(b) \/ OthersChange(b)
    \/ \E p \in pedido : PassAnswered(p)
    \/ \E nuevo \in {"RESERVED", "SALED", "ANNULLED"} : ChangeTicketState(nuevo)
    \/ ExportarBoletoPDF \/ OpGoesOn

DeskSpec == DeskInit /\ [][DeskNext]_deskVars
----------------------------------------------------------------------------
(***************************************************************************)
(* Properties.                                                             *)
(***************************************************************************)

\* The displayed pass is of the selected ticket, which is shown as paid, in
\* whatever order the passes arrive (the cancelled flag of lines 70 to 80).
PassIsOfTheSelection ==
    selectedPass # NoBoleto =>
        selectedBoleto = [id |-> selectedPass, estado |-> "SALED"]

\* A ticket the desk shows as paid has been paid: the state it assumes after a
\* change is one the owner confirmed.
ShownAsPaidWasPaid ==
    selectedBoleto.estado = "SALED" => "SALED" \in history[selectedBoleto.id]

\* So what the desk shows of the selected ticket belongs together and is true.
DeskShowsTheTruth == PassIsOfTheSelection /\ ShownAsPaidWasPaid
=============================================================================
