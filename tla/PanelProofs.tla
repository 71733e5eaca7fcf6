----------------------------- MODULE PanelProofs -----------------------------
(***************************************************************************)
(* For every document, rate table, page range and photo: the settings the  *)
(* page sends pass the schema, what is priced is what is printed, the      *)
(* agent's paper counter is never too low, photos are cut soundly, and     *)
(* those of the print's own shape where the customer's frame shows it.     *)
(***************************************************************************)
EXTENDS SettingsPanel, TLAPS, FiniteSetTheorems

LEMMA Assumptions ==
  /\ Rates \in [RateNames -> Nat] /\ MaxCopies \in Nat \ {0}
  /\ Uploads \subseteq {u \in UploadRow : u.kind = "photo" => u.pages = 1 /\ u.w # 0 /\ u.h # 0}
  /\ Parts \subseteq Nat \X Nat /\ MaxParts \in Nat
  /\ Zooms \subseteq 20..60 /\ Moves \subseteq Int
BY PricingAssumption, PanelAssumption DEF PricingAssumption, PanelAssumption

\* Clamping gives a value within the limits.
LEMMA ClampInRange ==
  ASSUME NEW low \in Int, NEW high \in Int, NEW n \in Int, low <= high
  PROVE  Clamp(low, high, n) \in low..high
BY DEF Clamp

LEMMA DraggedOffset ==
  ASSUME NEW o \in 0..20, NEW d \in Int
  PROVE  Clamp(0, 20, o - d) \in 0..20
BY DEF Clamp

\* The settings stay within their types, whatever is tapped and dragged.
THEOREM PanelTypes == Spec => []TypeOK
<1>1. Init => TypeOK
  <2> SUFFICES ASSUME Init PROVE TypeOK
    OBVIOUS
  <2>1. <<>> \in Seq(Parts)
    OBVIOUS
  <2>2. 1 \in 1..MaxCopies
    BY Assumptions
  <2>. QED
    BY <2>1, <2>2 DEF Init, TypeOK, NewDoc, NewCrop, Papers, PhotoModes
<1>2. TypeOK /\ [Next]_panelVars => TypeOK'
  <2> SUFFICES ASSUME TypeOK, [Next]_panelVars PROVE TypeOK'
    OBVIOUS
  <2> USE DEF TypeOK
  <2>1. ASSUME NEW d \in {-1, 1}, Step(d) PROVE TypeOK'
    <3>1. doc.copies + d \in Int
      BY <2>1, Assumptions
    <3>2. Clamp(1, MaxCopies, doc.copies + d) \in 1..MaxCopies
      BY <3>1, ClampInRange, Assumptions
    <3>. QED
      BY <2>1, <3>2 DEF Step
  <2>2. ASSUME NEW color \in BOOLEAN, NEW duplex \in BOOLEAN, NEW paper \in Papers,
               Choose(color, duplex, paper)
        PROVE  TypeOK'
    BY <2>2 DEF Choose
  <2>3. ASSUME NEW part \in Parts, TypePart(part) PROVE TypeOK'
    <3>1. Append(doc.range, part) \in Seq(Parts)
      BY <2>3
    <3>. QED
      BY <2>3, <3>1 DEF TypePart
  <2>4. CASE AllPages
    <3>1. <<>> \in Seq(Parts)
      OBVIOUS
    <3>. QED
      BY <2>4, <3>1 DEF AllPages
  <2>5. ASSUME NEW m \in PhotoModes, SelectMode(m) PROVE TypeOK'
    BY <2>5 DEF SelectMode
  <2>6. ASSUME NEW z \in Zooms, Zoom(z) PROVE TypeOK'
    BY <2>6, Assumptions DEF Zoom
  <2>7. ASSUME NEW dx \in Moves, NEW dy \in Moves, Drag(dx, dy) PROVE TypeOK'
    <3>1. dx \in Int /\ dy \in Int
      BY Assumptions
    <3>2. crop.x \in 0..20 /\ crop.y \in 0..20
      OBVIOUS
    <3>3. Clamp(0, 20, crop.x - dx) \in 0..20 /\ Clamp(0, 20, crop.y - dy) \in 0..20
      BY <3>1, <3>2, DraggedOffset
    <3>. QED
      BY <2>7, <3>3 DEF Drag
  <2>8. CASE UNCHANGED panelVars
    BY <2>8 DEF panelVars
  <2>. QED
    BY <2>1, <2>2, <2>3, <2>4, <2>5, <2>6, <2>7, <2>8 DEF Next
<1>. QED
  BY <1>1, <1>2, PTL DEF Spec

\* The server's schema never refuses what the panel sends.
THEOREM PanelRequestsPass == Spec => []PanelIsNeverRefused
<1>1. TypeOK => PanelIsNeverRefused
  BY Assumptions DEF TypeOK, PanelIsNeverRefused, AcceptedBySchema, Request, PhotoModes
<1>. QED
  BY <1>1, PanelTypes, PTL

LEMMA FirstPages ==
  ASSUME NEW n \in Nat
  PROVE  IsFiniteSet(1..n) /\ Cardinality(1..n) = n
BY FS_Interval

\* A page range that is accepted selects pages of the document.
LEMMA SelectedPages ==
  ASSUME NEW total \in Nat, NEW range \in Seq(Parts), ValidRange(range, total)
  PROVE  /\ Selected(range, total) \subseteq 1..total
         /\ Cardinality(Selected(range, total)) \in Nat
         /\ Cardinality(Selected(range, total)) <= total
<1>1. Selected(range, total) \subseteq 1..total
  <2>1. CASE range = <<>>
    BY <2>1 DEF Selected
  <2>2. CASE range # <<>>
    <3>1. ASSUME NEW i \in DOMAIN range PROVE range[i][1]..range[i][2] \subseteq 1..total
      <4>1. range[i] \in Nat \X Nat
        BY <3>1, Assumptions
      <4>2. range[i][1] \in Nat /\ range[i][2] \in Nat
        BY <4>1
      <4>. QED
        BY <3>1, <4>2 DEF ValidRange
    <3>. QED
      BY <2>2, <3>1 DEF Selected
  <2>. QED
    BY <2>1, <2>2
<1>2. IsFiniteSet(1..total) /\ Cardinality(1..total) = total
  BY FirstPages
<1>3. IsFiniteSet(Selected(range, total))
      /\ Cardinality(Selected(range, total)) <= Cardinality(1..total)
  BY <1>1, <1>2, FS_Subset
<1>4. Cardinality(Selected(range, total)) \in Nat
  BY <1>3, FS_CardinalityType
<1>. QED
  BY <1>1, <1>2, <1>3, <1>4

\* A photo is one page, which CUPS prints as it is.
LEMMA OnePage == Selected(<<>>, 1) = 1..1 /\ Cardinality(1..1) = 1
<1>1. Selected(<<>>, 1) = 1..1
  BY DEF Selected
<1>2. Cardinality(1..1) = 1
  BY FirstPages
<1>. QED
  BY <1>1, <1>2

LEMMA UploadType ==
  ASSUME TypeOK
  PROVE  /\ upload.pages \in Nat \ {0}
         /\ Document <=> ~Photo
         /\ Photo => upload.pages = 1
BY Assumptions DEF TypeOK, UploadRow, Document, Photo

\* Nobody pays for other sides, sheets, colour or paper than are printed.
THEOREM PricesMatchPrints == Spec => []PricedAsPrinted
<1>1. ASSUME TypeOK, Accepted(Request, upload.pages) PROVE PricedAsPrinted
  <2> DEFINE n == Cardinality(Selected(doc.range, upload.pages))
  <2>1. CASE Document
    <3>1. Request.mode = "document" /\ ~Photo
      BY <1>1, <2>1, UploadType DEF Request
    <3>2. Charged = PriceDocument(Request, upload.pages)
      BY <3>1 DEF Charged, PricePrint
    <3>3. /\ Printed.copies = doc.copies /\ Printed.color = doc.color
          /\ Printed.duplex = doc.duplex /\ Printed.media = doc.paper
          /\ Printed.range = doc.range
      BY <2>1 DEF Printed, CupsOptions, Request, PhotoModes
    <3>4. /\ Request.copies = doc.copies /\ Request.color = doc.color
          /\ Request.duplex = doc.duplex /\ Request.paper = doc.paper
          /\ Request.range = doc.range
      BY <2>1 DEF Request
    <3>5. /\ Charged.sides = n * doc.copies
          /\ Charged.sheets = (IF doc.duplex THEN HalfUp(n) ELSE n) * doc.copies
          /\ Charged.total = Rates[RateName(doc.color, doc.paper)] * (n * doc.copies)
      BY <3>2, <3>4 DEF PriceDocument
    <3>6. /\ PrintedSides(Printed, upload.pages) = n * doc.copies
          /\ PrintedSheets(Printed, upload.pages) =
               (IF doc.duplex THEN HalfUp(n) ELSE n) * doc.copies
      BY <3>3 DEF PrintedSides, PrintedSheets
    <3>7. n * doc.copies \in Nat /\ Rates[RateName(doc.color, doc.paper)] \in Nat
      <4>1. n \in Nat /\ doc.copies \in Nat
        BY <1>1, <2>1, <3>4, UploadType, SelectedPages, Assumptions
        DEF Accepted, Request, TypeOK
      <4>2. RateName(doc.color, doc.paper) \in RateNames
        BY <1>1 DEF TypeOK, Papers, RateName, RateNames
      <4>. QED
        BY <4>1, <4>2, Assumptions
    <3>8. \A a, b \in Nat : a * b = b * a
      OBVIOUS
    <3>9. Charged.total = Charged.sides * Rates[RateName(Printed.color, Printed.media)]
      BY <3>3, <3>5, <3>7, <3>8
    <3>. QED
      BY <3>1, <3>5, <3>6, <3>9 DEF PricedAsPrinted
  <2>2. CASE Photo
    <3>1. Request = [mode |-> photoMode, copies |-> doc.copies, crop |-> crop]
      BY <1>1, <2>2, UploadType DEF Request
    <3>2. photoMode \in PhotoModes /\ doc.copies \in Nat
      BY <1>1, Assumptions DEF TypeOK
    <3>3. Charged = PricePhoto(Request)
      BY <3>1, <3>2 DEF Charged, PricePrint, PhotoModes
    <3>4. Printed.copies = doc.copies /\ Printed.duplex = FALSE /\ Printed.range = <<>>
      BY <3>1, <3>2 DEF Printed, CupsOptions
    <3>5. Cardinality(Selected(<<>>, upload.pages)) = 1
      BY <1>1, <2>2, UploadType, OnePage
    <3>6. PrintedSides(Printed, upload.pages) = doc.copies
          /\ PrintedSheets(Printed, upload.pages) = doc.copies
      BY <3>2, <3>4, <3>5 DEF PrintedSides, PrintedSheets
    <3>7. Rates[photoMode] \in Nat
      BY <3>2, Assumptions DEF RateNames
    <3>. QED
      BY <2>2, <3>1, <3>2, <3>3, <3>6, <3>7 DEF PricedAsPrinted, PricePhoto
  <2>. QED
    BY <1>1, <2>1, <2>2, UploadType
<1>2. TypeOK => PricedAsPrinted
  BY <1>1 DEF PricedAsPrinted
<1>. QED
  BY <1>2, PanelTypes, PTL

\* The tray is never emptier than the agent thinks it is by its own counting.
THEOREM PaperCountIsSafe == Spec => []PaperIsNeverUnderestimated
<1>1. ASSUME TypeOK, Accepted(Request, upload.pages) PROVE PaperIsNeverUnderestimated
  <2> DEFINE n == Cardinality(Selected(doc.range, upload.pages))
             total == upload.pages
  <2>0. doc.copies \in Nat /\ doc.copies >= 1 /\ total \in Nat \ {0} /\ doc.duplex \in BOOLEAN
    BY <1>1, UploadType, Assumptions DEF TypeOK
  <2>1. CASE Document
    <3>1. Request.mode = "document" /\ Request.copies = doc.copies
          /\ Request.duplex = doc.duplex /\ Request.range = doc.range /\ ~Photo
      BY <1>1, <2>1, UploadType DEF Request
    <3>2. Printed.copies = doc.copies /\ Printed.duplex = doc.duplex
          /\ Printed.range = doc.range
      BY <2>1 DEF Printed, CupsOptions, Request, PhotoModes
    <3>3. n \in Nat /\ n <= total
      <4>1. ValidRange(doc.range, total)
        BY <1>1, <3>1 DEF Accepted
      <4>2. doc.range \in Seq(Parts)
        BY <1>1 DEF TypeOK
      <4>. QED
        BY <2>0, <4>1, <4>2, SelectedPages
    <3>4. HalfUp(n) \in Nat /\ HalfUp(total) \in Nat /\ HalfUp(n) <= HalfUp(total)
      BY <2>0, <3>3 DEF HalfUp
    <3>5. doc.range = <<>> => n = total
      BY <2>0, FirstPages DEF Selected
    <3>6. \A a, b \in Nat : a <= b => a * doc.copies <= b * doc.copies
      BY <2>0
    <3>7. PrintedSheets(Printed, total) = (IF doc.duplex THEN HalfUp(n) ELSE n) * doc.copies
      BY <3>2 DEF PrintedSheets
    <3>8. CountSheets(Request, total) =
            (IF doc.duplex THEN HalfUp(total) ELSE total) * doc.copies
      BY <3>1 DEF CountSheets
    <3>9. CountSheets(Request, total) >= PrintedSheets(Printed, total)
      <4>1. CASE doc.duplex
        BY <4>1, <2>0, <3>4, <3>6, <3>7, <3>8
      <4>2. CASE ~doc.duplex
        BY <4>2, <2>0, <3>3, <3>6, <3>7, <3>8
      <4>. QED
        BY <4>1, <4>2
    <3>10. doc.range = <<>> => CountSheets(Request, total) = PrintedSheets(Printed, total)
      BY <3>5, <3>7, <3>8
    <3>. QED
      BY <3>1, <3>9, <3>10 DEF PaperIsNeverUnderestimated
  <2>2. CASE Photo
    <3>1. Request = [mode |-> photoMode, copies |-> doc.copies, crop |-> crop]
      BY <1>1, <2>2, UploadType DEF Request
    <3>2. photoMode \in PhotoModes
      BY <1>1 DEF TypeOK
    <3>3. Printed.copies = doc.copies /\ Printed.duplex = FALSE /\ Printed.range = <<>>
      BY <3>1, <3>2 DEF Printed, CupsOptions
    <3>4. Cardinality(Selected(<<>>, total)) = 1 /\ total = 1
      BY <1>1, <2>2, UploadType, OnePage
    <3>5. PrintedSheets(Printed, total) = doc.copies
      BY <2>0, <3>3, <3>4 DEF PrintedSheets
    <3>6. CountSheets(Request, total) = doc.copies
      BY <2>0, <3>1, <3>2, <3>4 DEF CountSheets, PhotoModes
    <3>. QED
      BY <2>0, <3>5, <3>6 DEF PaperIsNeverUnderestimated
  <2>. QED
    BY <1>1, <2>1, <2>2, UploadType
<1>2. TypeOK => PaperIsNeverUnderestimated
  BY <1>1 DEF PaperIsNeverUnderestimated
<1>. QED
  BY <1>2, PanelTypes, PTL

\* What integer division gives, with products instead of quotients.
LEMMA Division ==
  ASSUME NEW a \in Nat, NEW b \in Nat \ {0}
  PROVE  /\ a \div b \in Nat
         /\ b * (a \div b) <= a
         /\ a < b * (a \div b) + b
OBVIOUS

LEMMA Cancel ==
  ASSUME NEW b \in Nat \ {0}, NEW p \in Int, NEW q \in Int, b * p < b * q
  PROVE  p < q
<1>1. ASSUME p >= q PROVE FALSE
  <2>1. b * (p - q) >= 0
    BY <1>1
  <2>2. b * (p - q) = b * p - b * q
    OBVIOUS
  <2>. QED
    BY <2>1, <2>2
<1>. QED
  BY <1>1

LEMMA DivisionBound ==
  ASSUME NEW a \in Nat, NEW b \in Nat \ {0}, NEW k \in Nat, a <= b * k
  PROVE  a \div b <= k
<1> DEFINE q == a \div b
<1>1. q \in Nat /\ b * q <= a
  BY Division
<1>2. b * (k + 1) = b * k + b /\ b * k \in Nat /\ b * q \in Nat
  BY <1>1
<1>3. b * q < b * (k + 1)
  BY <1>1, <1>2
<1>4. q < k + 1
  <2> HIDE DEF q
  <2>. QED
    BY <1>1, <1>3, Cancel
<1>. QED
  BY <1>1, <1>4

LEMMA Rounding ==
  ASSUME NEW slack \in Nat, NEW o \in 0..20
  PROVE  Round(slack * o, 20) \in 0..slack
<1>1. slack * o \in Nat /\ slack * o <= 20 * slack
  OBVIOUS
<1>2. ASSUME NEW n \in Nat, n <= 20 * slack PROVE Round(n, 20) \in 0..slack
  BY <1>2 DEF Round
<1>. QED
  BY <1>1, <1>2

\* The window lies in the image and keeps the ratio 2:3 up to rounding.
LEMMA WindowIsSound ==
  ASSUME NEW w \in Nat \ {0}, NEW h \in Nat \ {0},
         NEW z \in 20..60, NEW x \in 0..20, NEW y \in 0..20
  PROVE  LET win == Window(w, h, [zoom |-> z, x |-> x, y |-> y]) IN
         /\ win.left >= 0 /\ win.left + win.width <= w
         /\ win.top >= 0 /\ win.top + win.height <= h
         /\ win.width >= 1 /\ win.height >= 1
         /\ 3 * win.width <= 2 * (win.height + 1) + 1
         /\ 2 * win.height <= 3 * (win.width + 1)
<1> DEFINE cw == Covered(w, h).w
           ch == Covered(w, h).h
           b  == 6 * z
           p  == (20 * cw) \div b
           q  == (20 * ch) \div b
           ww == AtLeastOne(p)
           hh == AtLeastOne(q)
<1>1. b \in Nat \ {0} /\ b >= 120
  OBVIOUS
<1>2. /\ cw \in Nat /\ ch \in Nat /\ 3 * cw = 2 * ch
      /\ cw <= 6 * w /\ ch <= 6 * h
  BY DEF Covered
<1>3. b * w >= 120 * w /\ b * h >= 120 * h
  BY <1>1
<1> HIDE DEF cw, ch, b
<1>4. 20 * cw <= b * w /\ 20 * ch <= b * h
  BY <1>1, <1>2, <1>3
<1>5. p \in Nat /\ b * p <= 20 * cw /\ 20 * cw < b * p + b /\ p <= w
  BY <1>1, <1>2, <1>4, Division, DivisionBound
<1>6. q \in Nat /\ b * q <= 20 * ch /\ 20 * ch < b * q + b /\ q <= h
  BY <1>1, <1>2, <1>4, Division, DivisionBound
<1> HIDE DEF p, q
<1>7. 3 * p < 2 * (q + 1)
  <2>1. b * (3 * p) = 3 * (b * p) /\ b * (2 * (q + 1)) = 2 * (b * q + b)
    BY <1>1, <1>5, <1>6
  <2>2. b * (3 * p) < b * (2 * (q + 1))
    BY <2>1, <1>1, <1>2, <1>5, <1>6
  <2>. QED
    BY <2>2, <1>1, <1>5, <1>6, Cancel
<1>8. 2 * q < 3 * (p + 1)
  <2>1. b * (2 * q) = 2 * (b * q) /\ b * (3 * (p + 1)) = 3 * (b * p + b)
    BY <1>1, <1>5, <1>6
  <2>2. b * (2 * q) < b * (3 * (p + 1))
    BY <2>1, <1>1, <1>2, <1>5, <1>6
  <2>. QED
    BY <2>2, <1>1, <1>5, <1>6, Cancel
<1>9. /\ ww \in 1..w /\ hh \in 1..h
      /\ 3 * ww <= 2 * (hh + 1) + 1 /\ 2 * hh <= 3 * (ww + 1)
  BY <1>5, <1>6, <1>7, <1>8 DEF AtLeastOne
<1> HIDE DEF ww, hh
<1>10. w - ww \in Nat /\ h - hh \in Nat
  BY <1>9
<1>11. Round((w - ww) * x, 20) \in 0..(w - ww) /\ Round((h - hh) * y, 20) \in 0..(h - hh)
  BY <1>10, Rounding
<1>12. Window(w, h, [zoom |-> z, x |-> x, y |-> y]) =
         [left |-> Round((w - ww) * x, 20), top |-> Round((h - hh) * y, 20),
          width |-> ww, height |-> hh]
  BY DEF Window, ww, hh, p, q, cw, ch, b
<1>. QED
  BY <1>9, <1>11, <1>12

\* sharp can cut every window the panel can ask for, and the print it makes is
\* not distorted, for images of any size.
THEOREM CropsAreSound == Spec => []CropIsInsideAndUndistorted
<1>1. ASSUME TypeOK, Photo PROVE CropIsInsideAndUndistorted
  <2>1. upload.w \in Nat \ {0} /\ upload.h \in Nat \ {0}
    BY <1>1, Assumptions DEF TypeOK, UploadRow, Photo
  <2>2. crop.zoom \in 20..60 /\ crop.x \in 0..20 /\ crop.y \in 0..20
        /\ crop = [zoom |-> crop.zoom, x |-> crop.x, y |-> crop.y]
    BY <1>1 DEF TypeOK
  <2>3. Cut = Window(upload.w, upload.h, [zoom |-> crop.zoom, x |-> crop.x, y |-> crop.y])
    BY <2>2 DEF Cut
  <2>. QED
    BY <2>1, <2>2, <2>3, WindowIsSound DEF CropIsInsideAndUndistorted
<1>2. TypeOK => CropIsInsideAndUndistorted
  BY <1>1 DEF CropIsInsideAndUndistorted
<1>. QED
  BY <1>2, PanelTypes, PTL


\* Multiplying bounds by a natural number.
LEMMA Scaled ==
  ASSUME NEW a \in Nat, NEW m \in Nat, NEW x \in Int, -m <= x, x <= m
  PROVE  a * x \in Int /\ a * m \in Nat /\ -(a * m) <= a * x /\ a * x <= a * m
<1>1. a * (m - x) >= 0 /\ a * (m + x) >= 0
  OBVIOUS
<1>2. a * (m - x) = a * m - a * x /\ a * (m + x) = a * m + a * x
  OBVIOUS
<1> QED BY <1>1, <1>2

\* Rounding moves a length by at most half a unit.
LEMMA RoundedBy ==
  ASSUME NEW n \in Nat
  PROVE  Round(n, 20) \in Nat /\ -10 <= n - 20 * Round(n, 20) /\ n - 20 * Round(n, 20) <= 10
  BY DEF Round

\* Along a side that the frame covers whole, the server cuts where the page shows
\* the frame's edge, to within one and a half pixels: the width of the window is
\* rounded by less than one pixel, and its position by half of one.
LEMMA EdgeIsTrue ==
  ASSUME NEW s \in Nat \ {0}, NEW z \in 20..60, NEW o \in 0..20
  PROVE  LET u    == 120 * z
             win  == AtLeastOne((20 * (6 * s)) \div (6 * z))
             edge == 10 * z * (6 * s - 6 * s) + o * (6 * s) * (z - 20)
         IN  2 * (edge - Round((s - win) * o, 20) * u) \in -3 * u..3 * u
<1> DEFINE p    == (20 * (6 * s)) \div (6 * z)
           win  == AtLeastOne(p)
           n    == (s - win) * o
           k    == Round(n, 20)
           d    == 20 * s - z * win
           edge == 10 * z * (6 * s - 6 * s) + o * (6 * s) * (z - 20)
<1>1. p \in Nat /\ (6 * z) * p <= 20 * (6 * s) /\ 20 * (6 * s) < (6 * z) * p + 6 * z
  BY Division
<1> HIDE DEF p
<1>2. z * p \in Nat /\ z * p <= 20 * s /\ 20 * s < z * p + z
  <2>1. (6 * z) * p = 6 * (z * p)
    BY <1>1
  <2> QED BY <1>1, <2>1
<1>3. win \in Nat /\ win <= s /\ d \in Int /\ -z <= d /\ d <= z
  <2>1. CASE p = 0
    <3>1. win = 1
      BY <2>1 DEF AtLeastOne
    <3> QED BY <1>2, <2>1, <3>1
  <2>2. CASE p # 0
    <3>1. win = p
      BY <1>1, <2>2 DEF AtLeastOne
    <3>2. z * p <= z * s
      <4>1. z * s >= 20 * s
        OBVIOUS
      <4> QED BY <1>2, <4>1
    <3>3. p <= s
      <4>1. z * (s + 1) = z * s + z /\ z * s \in Nat
        OBVIOUS
      <4>2. z * p < z * (s + 1)
        BY <1>2, <3>2, <4>1
      <4> QED BY <1>1, <4>2, Cancel
    <3> QED BY <1>1, <1>2, <3>1, <3>3
  <2> QED BY <2>1, <2>2
<1> HIDE DEF win
<1>4. n \in Nat /\ s - win \in Nat
  BY <1>3
<1>5. k \in Nat /\ n - 20 * k \in Int /\ -10 <= n - 20 * k /\ n - 20 * k <= 10
  BY <1>4, RoundedBy
<1>6. edge - k * (120 * z) = 6 * (z * (n - 20 * k) - o * d)
  <2> HIDE DEF k
  <2>1. edge = 6 * (o * (s * z) - o * (20 * s))
    OBVIOUS
  <2>2. o * d = o * (20 * s) - o * (z * win)
    BY <1>3
  <2>3. z * (n - 20 * k) = z * n - 20 * (z * k)
    BY <1>4, <1>5
  <2>4. z * n = o * (s * z) - o * (z * win)
    BY <1>3
  <2>5. k * (120 * z) = 120 * (z * k)
    BY <1>5
  <2> QED BY <1>3, <1>4, <1>5, <2>1, <2>2, <2>3, <2>4, <2>5
<1> HIDE DEF n, k, d, edge
<1>7. z * (n - 20 * k) \in Int /\ -(z * 10) <= z * (n - 20 * k) /\ z * (n - 20 * k) <= z * 10
  BY <1>5, Scaled
<1>8. o * d \in Int /\ -(o * z) <= o * d /\ o * d <= o * z /\ o * z \in Nat /\ o * z <= 20 * z
  <2>1. z * o <= z * 20 /\ z * o = o * z
    OBVIOUS
  <2> QED BY <1>3, <2>1, Scaled
<1>9. 2 * (edge - k * (120 * z)) \in -3 * (120 * z)..3 * (120 * z)
  BY <1>6, <1>7, <1>8
<1> QED BY <1>9 DEF edge, k, n, win, p

\* A photo of the print's own shape is cut where the customer's frame shows it.
THEOREM FrameShowsThePrint == Spec => []FrameIsTrueFor4x6
<1>1. ASSUME TypeOK, 3 * upload.w = 2 * upload.h, Cropping PROVE PrintedAsFramed
  <2> DEFINE w == upload.w
             h == upload.h
  <2>1. w \in Nat \ {0} /\ h \in Nat \ {0}
    BY <1>1, Assumptions DEF TypeOK, UploadRow, Cropping, Photo
  <2>2. crop.zoom \in 20..60 /\ crop.x \in 0..20 /\ crop.y \in 0..20
    BY <1>1 DEF TypeOK
  <2>3. Covered(w, h).w = 6 * w /\ Covered(w, h).h = 6 * h
    BY <1>1, <2>1 DEF Covered
  <2> DEFINE EdgeOf(s, z, o) == 10 * z * (6 * s - 6 * s) + o * (6 * s) * (z - 20)
             CutOf(s, z, o)  == Round((s - AtLeastOne((20 * (6 * s)) \div (6 * z))) * o, 20)
  <2>4. \A s \in Nat \ {0}, z \in 20..60, o \in 0..20 :
           2 * (EdgeOf(s, z, o) - CutOf(s, z, o) * (120 * z)) \in -3 * (120 * z)..3 * (120 * z)
    BY EdgeIsTrue
  <2>5. /\ PreviewEdge(w, 6 * w, crop.x, crop) = EdgeOf(w, crop.zoom, crop.x)
        /\ PreviewEdge(h, 6 * h, crop.y, crop) = EdgeOf(h, crop.zoom, crop.y)
        /\ PreviewUnit(crop) = 120 * crop.zoom
    BY DEF PreviewEdge, PreviewUnit
  <2>6. Cut.left = CutOf(w, crop.zoom, crop.x) /\ Cut.top = CutOf(h, crop.zoom, crop.y)
    BY <2>3 DEF Cut, Window
  <2> HIDE DEF EdgeOf, CutOf
  <2>7. ShownAs(PreviewEdge(w, 6 * w, crop.x, crop), Cut.left)
    BY <2>1, <2>2, <2>4, <2>5, <2>6 DEF ShownAs
  <2>8. ShownAs(PreviewEdge(h, 6 * h, crop.y, crop), Cut.top)
    BY <2>1, <2>2, <2>4, <2>5, <2>6 DEF ShownAs
  <2> QED BY <2>3, <2>7, <2>8 DEF PrintedAsFramed
<1>2. TypeOK => FrameIsTrueFor4x6
  BY <1>1 DEF FrameIsTrueFor4x6, PrintedAsFramed
<1> QED BY <1>2, PanelTypes, PTL
==============================================================================
