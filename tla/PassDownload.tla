---------------------------- MODULE PassDownload ----------------------------
(***************************************************************************)
(* The visual boarding pass (lib/boardingPassPdf.ts): a download asks for  *)
(* the pass, adds a style sheet and a hidden page to the document, takes   *)
(* the pictures of its two sides, saves them, and takes away what it       *)
(* added.                                                                  *)
(*                                                                         *)
(* The document is shared.  Downloads overlap: a purchase starts its own   *)
(* while one of the button is running, and leaving a page stops none.      *)
(* Each one finds its hidden page by reference, but its style sheet by the *)
(* identifier all of them use (lines 600 and 780), so that it may take     *)
(* away another one's.  An action is the code between two awaits; a side   *)
(* of a file is kept as the ticket it shows and whether it had its styles. *)
(***************************************************************************)
EXTENDS Naturals, SequencesExt

CONSTANTS Pasajes,       \* the tickets whose passes are downloaded
          MaxDownloads   \* bound on the downloads

ASSUME PassAssumption == MaxDownloads \in Nat \ {0}

VARIABLES descarga,   \* the downloads, in the order they were started
          styleTags,  \* the style sheets in the document's head, in its order
          divs,       \* the hidden pages in the document's body, in its order
          archivo,    \* the saved file of each download, no sides before
          enCurso     \* pdfDownloading of boletos, updating of gestion-boletos

passVars == <<descarga, styleTags, divs, archivo, enCurso>>

Downloads == 1..MaxDownloads
Sides == [boleto : Pasajes, styled : BOOLEAN]

\* The type invariant.
PassTypeOK ==
    /\ Len(descarga) <= MaxDownloads
    /\ \A d \in DOMAIN descarga :
          /\ descarga[d].boleto \in Pasajes
          /\ descarga[d].st \in {"pass", "images", "front", "back",
                                 "saved", "failed", "nopass"}
          /\ descarga[d].lados \in Seq(Sides)
          /\ descarga[d].mounted \in BOOLEAN
    /\ styleTags \in Seq(Downloads) /\ divs \in Seq(Downloads)
    /\ archivo \in [Downloads -> {<<>>} \cup [1..2 -> Sides]]
    /\ enCurso \in BOOLEAN
----------------------------------------------------------------------------
Stage(d) == IF d \in DOMAIN descarga THEN descarga[d].st ELSE "none"

PassInit ==
    /\ descarga = <<>> /\ styleTags = <<>> /\ divs = <<>>
    /\ archivo = [d \in Downloads |-> <<>>] /\ enCurso = FALSE

\* downloadBoardingPassPdf up to its first await, by a button, which is off
\* while the page is busy, or by a purchase, which does not look.
StartDownload(b, byButton) ==
    /\ Len(descarga) < MaxDownloads
    /\ byButton => ~enCurso
    /\ descarga' = Append(descarga, [boleto |-> b, st |-> "pass", lados |-> <<>>,
                                     mounted |-> TRUE])
    /\ enCurso' = TRUE
    /\ UNCHANGED <<styleTags, divs, archivo>>

\* The page is left: its downloads go on.
LeaveDownloads ==
    /\ descarga' = [d \in DOMAIN descarga |-> [descarga[d] EXCEPT !.mounted = FALSE]]
    /\ enCurso' = FALSE
    /\ UNCHANGED <<styleTags, divs, archivo>>

\* The pass is there: the style sheet and the hidden page are added, and the
\* pictures of the page (its QR) are awaited.
PassIsThere(d) ==
    /\ Stage(d) = "pass"
    /\ styleTags' = Append(styleTags, d)
    /\ divs' = Append(divs, d)
    /\ descarga' = [descarga EXCEPT ![d].st = "images"]
    /\ UNCHANGED <<archivo, enCurso>>

\* esperarImagenes: every picture has been loaded, or has failed to.
ImagesSettle(d) ==
    /\ Stage(d) = "images"
    /\ descarga' = [descarga EXCEPT ![d].st = "front"]
    /\ UNCHANGED <<styleTags, divs, archivo, enCurso>>

\* The hidden page a download takes its sides from: its own.
SourceOf_document(d) == Head(divs)
SourceOf(d) == d

\* html2canvas of a side, with the styles of the document.
Picture(d) == [boleto |-> descarga[SourceOf(d)].boleto, styled |-> styleTags # <<>>]

FrontDone(d) ==
    /\ Stage(d) = "front"
    /\ descarga' = [descarga EXCEPT ![d].st = "back", ![d].lados = <<Picture(d)>>]
    /\ UNCHANGED <<styleTags, divs, archivo, enCurso>>

\* What the end of a download takes away: its hidden page, and the first
\* style sheet with the identifier.
StylesLeft == IF styleTags = <<>> THEN <<>> ELSE Tail(styleTags)

DivsLeft(d) == RemoveFirst(divs, d)

\* The finally of a download, and the one of its page when that still exists.
EndDownload(d, st, lados) ==
    /\ styleTags' = StylesLeft
    /\ divs' = DivsLeft(d)
    /\ descarga' = [descarga EXCEPT ![d].st = st, ![d].lados = lados]
    /\ enCurso' = (enCurso /\ ~descarga[d].mounted)

\* The second side, and the file of both.
BothSides(d) == Append(descarga[d].lados, Picture(d))

BackDone(d) ==
    /\ Stage(d) = "back"
    /\ archivo' = [archivo EXCEPT ![d] = BothSides(d)]
    /\ EndDownload(d, "saved", BothSides(d))

\* No pass is given, or a later step fails; nothing is saved.
DownloadFails(d) ==
    /\ \/ Stage(d) = "pass" /\ EndDownload(d, "nopass", <<>>)
       \/ Stage(d) \in {"images", "front", "back"}
            /\ EndDownload(d, "failed", descarga[d].lados)
    /\ UNCHANGED archivo

DownloadGoesOn(d) ==
    PassIsThere(d) \/ ImagesSettle(d) \/ FrontDone(d) \/ BackDone(d) \/ DownloadFails(d)

PassNext ==
    \/ \E b \in Pasajes, byButton \in BOOLEAN : StartDownload(b, byButton)
    \/ LeaveDownloads
    \/ \E d \in Downloads : DownloadGoesOn(d)

PassSpec == PassInit /\ [][PassNext]_passVars
----------------------------------------------------------------------------
(***************************************************************************)
(* Properties.                                                             *)
(***************************************************************************)
Running == {d \in DOMAIN descarga : Stage(d) \notin {"saved", "failed", "nopass"}}

\* Downloads that overlap leave nothing behind: the style sheet names its
\* classes for the whole document, and would change the pages of the client.
NothingIsLeft == Running = {} => styleTags = <<>> /\ divs = <<>>

\* A saved file has the two sides of its own ticket, whatever other hidden
\* pages the document has.
FileIsOfItsTicket ==
    \A d \in Downloads : archivo[d] # <<>> =>
        \A i \in 1..2 : archivo[d][i].boleto = descarga[d].boleto

\* The sides of a file have their styles, although the first style sheet may
\* be another one's, unless some download was given no pass: that one takes
\* a style sheet away without having added one (lines 597 and 780).
FilesAreStyled ==
    (\A d \in Downloads : Stage(d) # "nopass") =>
        \A d \in Downloads : \A i \in DOMAIN archivo[d] : archivo[d][i].styled

\* Downloads that overlap do not disturb each other, nor the page after them.
DownloadsKeepApart == NothingIsLeft /\ FileIsOfItsTicket /\ FilesAreStyled
=============================================================================
