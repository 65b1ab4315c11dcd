--------------------------- MODULE MCWebFollowing ---------------------------
(***************************************************************************)
(* Two pages of the web client as one instance for TLC, those that follow  *)
(* what changes on the server with requests that overlap: the list of the  *)
(* flights (FlightCatalogue) and the job of the input files (InputsPage).  *)
(* One page is open at a time and they share no state of the browser, so a *)
(* behaviour is one of a single page; the other rests where nothing of it  *)
(* goes on.                                                                *)
(***************************************************************************)
EXTENDS FlightCatalogue, InputsPage

VARIABLE page   \* the page a behaviour is of

followingVars == <<page, catalogueVars, inputsVars>>
-----------------------------------------------------------------------------
(* The list rests after its first request failed. *)
CatalogueRests ==
  /\ query = FirstQuery
  /\ asked = [i \in Requests |-> query]
  /\ requestID = 1
  /\ call = [i \in Requests |-> IF i = 1 THEN "done" ELSE "none"]
  /\ loading = FALSE /\ listError = TRUE
  /\ shown = 0 /\ totalVuelos = 0 /\ selectedVuelo = 0
  /\ puts = {} /\ arriving = {} /\ changes = 0
  /\ stage = 1 /\ history = {1} /\ departed = FALSE

FollowingInit ==
  \/ page = "vuelos"   /\ CatalogueInit  /\ InputsInit
  \/ page = "entradas" /\ CatalogueRests /\ InputsInit

FollowingNext ==
  /\ UNCHANGED page
  /\ \/ page = "vuelos"   /\ CatalogueNext /\ UNCHANGED inputsVars
     \/ page = "entradas" /\ InputsNext    /\ UNCHANGED catalogueVars

FollowingSpec ==
  /\ FollowingInit /\ [][FollowingNext]_followingVars
  /\ CatalogueFairness /\ InputsFairness
-----------------------------------------------------------------------------
(* The types of both pages. *)
TypesOK == CatalogueTypeOK /\ InputsTypeOK

(* Nobody waits in front of either page for ever: the spinner of the list  *)
(* goes away, and a job that is shown as running is shown as ended.        *)
WaitingEnds == LoadingEnds /\ ProgressEnds
=============================================================================
