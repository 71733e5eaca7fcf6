\* The settings panel with every page range of two parts over up to four
\* pages, and photos of seven shapes: what is priced, printed, counted and cut.
SPECIFICATION Spec

CONSTANTS
  Rates <- SomeRates
  MaxCopies = 3
  Uploads <- SomeUploads
  Parts <- SomeParts
  Moves <- SomeMoves
  Zooms = {20, 21, 30, 47, 60}

\* Bounds.
CONSTANTS
  MaxPages = 4
  MaxParts = 2

INVARIANTS
  PanelIsNeverRefused
  PricedAsPrinted
  PaperIsNeverUnderestimated
  CropIsInsideAndUndistorted
  FrameIsTrueFor4x6
