------------------------------ MODULE CropWindow ------------------------------
(***************************************************************************)
(* The part of a photo that ends up on a 4x6 print, as the server cuts it  *)
(* (images/image.util.ts) and as the customer sees it framed               *)
(* (PhotoSettings.tsx).  A crop is [zoom, x, y], all in twentieths: zoom   *)
(* 20 is 1, x = 10 is the offset 0.5.  Lengths that the code computes in   *)
(* floating point are kept as integers over a common denominator.          *)
(***************************************************************************)
EXTENDS Integers

AtLeastOne(n) == IF n > 1 THEN n ELSE 1

\* Math.round(n / d) for n >= 0.
Round(n, d) == (2 * n + d) \div (2 * d)

\* The largest 2:3 rectangle in the image; sides in sixths of a pixel.
Covered(w, h) ==
  IF 3 * w > 2 * h THEN [w |-> 4 * h, h |-> 6 * h] ELSE [w |-> 6 * w, h |-> 9 * w]

\* Mutant: the window keeps the ratio of the image.
WindowUncovered(w, h, crop) ==
  LET winW == AtLeastOne((20 * w) \div crop.zoom)
      winH == AtLeastOne((20 * h) \div crop.zoom)
  IN  [left |-> Round((w - winW) * crop.x, 20), top |-> Round((h - winH) * crop.y, 20),
       width |-> winW, height |-> winH]

\* cropWindow: the window that sharp extracts.  (As zoom is at least 1, the
\* covered rectangle is inside the image and Math.min changes nothing.)
Window(w, h, crop) ==
  LET winW == AtLeastOne((20 * Covered(w, h).w) \div (6 * crop.zoom))
      winH == AtLeastOne((20 * Covered(w, h).h) \div (6 * crop.zoom))
  IN  [left |-> Round((w - winW) * crop.x, 20), top |-> Round((h - winH) * crop.y, 20),
       width |-> winW, height |-> winH]

\* Mutant: the pan counts twice.
PreviewEdgeUnscaled(side, c, offset, crop) ==
  10 * crop.zoom * (6 * side - c) + offset * c * (crop.zoom - 20) * 2

\* CropEditor: where the frame's edge lies on a side of the image, when
\* object-cover has centred the covered part c (in sixths) of that side and
\* scale(zoom) translate(pan) has moved it; in units of 1 / PreviewUnit pixel.
PreviewUnit(crop) == 120 * crop.zoom
PreviewEdge(side, c, offset, crop) ==
  10 * crop.zoom * (6 * side - c) + offset * c * (crop.zoom - 20)
==============================================================================
