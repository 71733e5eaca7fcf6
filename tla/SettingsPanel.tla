---------------------------- MODULE SettingsPanel ----------------------------
(***************************************************************************)
(* The customer's settings on the page (DocumentSettings.tsx and           *)
(* PhotoSettings.tsx): what can be set up step by step, what the page      *)
(* sends to POST /jobs/:id/price, and what comes of it on paper.           *)
(***************************************************************************)
EXTENDS Pricing, CropWindow

CONSTANTS
  Uploads,   \* [kind, pages, w, h]: what the customer may have uploaded
  Parts,     \* parts of a page range that may be typed
  MaxParts,  \* bound: parts in a typed range
  Zooms,     \* positions of the zoom slider, in twentieths
  Moves      \* drags, in twentieths of the slack

UploadRow == [kind : {"document", "photo"}, pages : Nat \ {0}, w : Nat, h : Nat]

\* An image counts as one page and has at least one pixel.
ASSUME PanelAssumption ==
  /\ Uploads \subseteq {u \in UploadRow : u.kind = "photo" => u.pages = 1 /\ u.w # 0 /\ u.h # 0}
  /\ Parts \subseteq Nat \X Nat
  /\ MaxParts \in Nat
  /\ Zooms \subseteq 20..60
  /\ Moves \subseteq Int

VARIABLES upload, doc, photoMode, crop
panelVars == <<upload, doc, photoMode, crop>>

Document == upload.kind = "document"
Photo    == upload.kind = "photo"
NewDoc   == [copies |-> 1, color |-> FALSE, duplex |-> FALSE, paper |-> "A4", range |-> <<>>]
NewCrop  == [zoom |-> 20, x |-> 10, y |-> 7]

Init ==
  /\ upload \in Uploads
  /\ doc = NewDoc /\ photoMode = "photo4x6" /\ crop = NewCrop

Clamp(low, high, n) == IF n < low THEN low ELSE IF n > high THEN high ELSE n

\* Stepper: the - and + buttons, for both kinds of print.
Step(d) ==
  /\ doc' = [doc EXCEPT !.copies = Clamp(1, MaxCopies, @ + d)]
  /\ UNCHANGED <<upload, photoMode, crop>>

\* The two-way pills.
Choose(color, duplex, paper) ==
  /\ Document
  /\ doc' = [doc EXCEPT !.color = color, !.duplex = duplex, !.paper = paper]
  /\ UNCHANGED <<upload, photoMode, crop>>

\* The range is free text; "All n" empties it.
TypePart(part) ==
  /\ Document /\ Len(doc.range) < MaxParts
  /\ doc' = [doc EXCEPT !.range = Append(@, part)]
  /\ UNCHANGED <<upload, photoMode, crop>>

AllPages ==
  /\ Document
  /\ doc' = [doc EXCEPT !.range = <<>>]
  /\ UNCHANGED <<upload, photoMode, crop>>

SelectMode(m) == Photo /\ photoMode' = m /\ UNCHANGED <<upload, doc, crop>>

\* CropEditor, which is shown for a 4x6 print only.
Cropping == Photo /\ photoMode = "photo4x6"

Zoom(z) == Cropping /\ crop' = [crop EXCEPT !.zoom = z] /\ UNCHANGED <<upload, doc, photoMode>>

\* Mutant: a drag may leave the photo.
DragFree(dx, dy) ==
  /\ Cropping /\ crop.zoom > 20
  /\ crop' = [crop EXCEPT !.x = @ - dx, !.y = @ - dy]
  /\ UNCHANGED <<upload, doc, photoMode>>

\* The photo follows the finger, if there is anything to pan.
Drag(dx, dy) ==
  /\ Cropping /\ crop.zoom > 20
  /\ crop' = [crop EXCEPT !.x = Clamp(0, 20, @ - dx), !.y = Clamp(0, 20, @ - dy)]
  /\ UNCHANGED <<upload, doc, photoMode>>

Next ==
  \/ \E d \in {-1, 1} : Step(d)
  \/ \E color, duplex \in BOOLEAN, paper \in Papers : Choose(color, duplex, paper)
  \/ \E part \in Parts : TypePart(part)
  \/ AllPages
  \/ \E m \in PhotoModes : SelectMode(m)
  \/ \E z \in Zooms : Zoom(z)
  \/ \E dx, dy \in Moves : Drag(dx, dy)

Spec == Init /\ [][Next]_panelVars

\* The body of the price request.
Request ==
  IF Document
  THEN [mode |-> "document", copies |-> doc.copies, color |-> doc.color,
        duplex |-> doc.duplex, paper |-> doc.paper, range |-> doc.range]
  ELSE [mode |-> photoMode, copies |-> doc.copies, crop |-> crop]

------------------------------------------------------------------------------
TypeOK ==
  /\ upload \in Uploads
  /\ doc \in [copies : 1..MaxCopies, color : BOOLEAN, duplex : BOOLEAN, paper : Papers,
              range : Seq(Parts)]
  /\ photoMode \in PhotoModes
  /\ crop \in [zoom : 20..60, x : 0..20, y : 0..20]

\* Whatever is tapped and dragged, the request passes the server's schema: only
\* a mistyped page range can be refused.
PanelIsNeverRefused == AcceptedBySchema(Request)

\* What is priced is what is printed: for settings the server accepts, the
\* sides charged for are those that CUPS prints, at the rate of the paper and
\* the ink that it prints with.
Charged == PricePrint(Request, upload.pages)
Printed == CupsOptions(Request)
PricedAsPrinted ==
  Accepted(Request, upload.pages) =>
    /\ Charged.sides = PrintedSides(Printed, upload.pages)
    /\ Charged.sheets = PrintedSheets(Printed, upload.pages)
    /\ Charged.total = Charged.sides *
         Rates[IF Photo THEN photoMode ELSE RateName(Printed.color, Printed.media)]

\* The agent's paper counter, which warns before the tray is empty, never
\* counts fewer sheets than are used; without a page range it is exact.
PaperIsNeverUnderestimated ==
  Accepted(Request, upload.pages) =>
    /\ CountSheets(Request, upload.pages) >= PrintedSheets(Printed, upload.pages)
    /\ Photo \/ doc.range = <<>> =>
         CountSheets(Request, upload.pages) = PrintedSheets(Printed, upload.pages)

\* The window is a 2:3 part of the image (to the pixel that rounding takes):
\* sharp refuses one that is not inside, and the print must not be distorted.
Cut == Window(upload.w, upload.h, crop)
CropIsInsideAndUndistorted ==
  Photo =>
    /\ Cut.left >= 0 /\ Cut.left + Cut.width <= upload.w
    /\ Cut.top >= 0 /\ Cut.top + Cut.height <= upload.h
    /\ Cut.width >= 1 /\ Cut.height >= 1
    /\ 3 * Cut.width <= 2 * (Cut.height + 1) + 1
    /\ 2 * Cut.height <= 3 * (Cut.width + 1)

\* The edges of the print are where the frame shows them, to within one and a
\* half pixels.
ShownAs(edge, cut) == 2 * (edge - cut * PreviewUnit(crop)) \in
                        -3 * PreviewUnit(crop)..3 * PreviewUnit(crop)
PrintedAsFramed ==
  Cropping =>
    LET c == Covered(upload.w, upload.h) IN
    /\ ShownAs(PreviewEdge(upload.w, c.w, crop.x, crop), Cut.left)
    /\ ShownAs(PreviewEdge(upload.h, c.h, crop.y, crop), Cut.top)

\* The server cuts a 4x6 photo (3:2) where the customer's frame shows it.
FrameIsTrueFor4x6 == 3 * upload.w = 2 * upload.h => PrintedAsFramed
==============================================================================
