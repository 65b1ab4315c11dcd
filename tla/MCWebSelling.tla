---------------------------- MODULE MCWebSelling ----------------------------
(***************************************************************************)
(* The other pages of the web client as one instance for TLC: the dialog   *)
(* of new flights (FlightCreation), the sale and the desk of tickets       *)
(* (SeatSale, TicketDesk), the passes (PassDownload) and the two searches  *)
(* (SearchPages).  They share no state of the browser, so a behaviour is   *)
(* one of a single module (page); the others rest where nothing of them    *)
(* goes on.                                                                *)
(***************************************************************************)
EXTENDS FlightCreation, SeatSale, TicketDesk, PassDownload, SearchPages

CONSTANTS lpb, mad, f1, f2, a, b, costo

VARIABLE page   \* the module a behaviour is of

sellingVars == <<page, creationVars, saleVars, deskVars, passVars, searchVars>>

(* Two cities with a time in one of the matrices, and fares both ways; two *)
(* flights whose planes have different seats.                              *)
MCHours(m, o, d) == IF o = d THEN 0 ELSE IF o = lpb THEN m ELSE 2 - m
MCFares == {<<lpb, mad>>, <<mad, lpb>>}
MCRutas == {{f1, f2}, {}}
MCSeatsOf(f) == IF f = f2 THEN {b} ELSE {a}
-----------------------------------------------------------------------------
DeskRests ==
  estado = [x \in Boletos |-> "RESERVED"] /\ requestedID = NoBoleto /\ DeskInit
SearchRests ==
  /\ pagina = "tsp" /\ eleccion \in [ciudades : Ciudades \ Buscables, opcion : {costo}]
  /\ SearchInit

SellingInit ==
  /\ CreationInit /\ SaleInit /\ PassInit
  /\ \/ page = "gestion-boletos" /\ DeskInit /\ SearchRests
     \/ page = "buscar" /\ DeskRests /\ SearchInit
     \/ page \in {"programar", "boletos", "pase"} /\ DeskRests /\ SearchRests

SellingNext ==
  /\ UNCHANGED page
  /\ \/ /\ page = "programar" /\ CreationNext
        /\ UNCHANGED <<saleVars, deskVars, passVars, searchVars>>
     \/ /\ page = "boletos" /\ SaleNext
        /\ UNCHANGED <<creationVars, deskVars, passVars, searchVars>>
     \/ /\ page = "gestion-boletos" /\ DeskNext
        /\ UNCHANGED <<creationVars, saleVars, passVars, searchVars>>
     \/ /\ page = "pase" /\ PassNext
        /\ UNCHANGED <<creationVars, saleVars, deskVars, searchVars>>
     \/ /\ page = "buscar" /\ SearchNext
        /\ UNCHANGED <<creationVars, saleVars, deskVars, passVars>>

SellingSpec == SellingInit /\ [][SellingNext]_sellingVars

(* The types of the five modules. *)
TypesOK == CreationTypeOK /\ SaleTypeOK /\ DeskTypeOK /\ PassTypeOK /\ SearchTypeOK
=============================================================================
