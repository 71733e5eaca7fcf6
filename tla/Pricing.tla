------------------------------- MODULE Pricing -------------------------------
(***************************************************************************)
(* What a print costs (packages/shared), and what the printer makes of the *)
(* same settings (agent/kiosk/printer.py).  The two are written in two     *)
(* languages and meet only in the settings, so they can drift apart.       *)
(*                                                                         *)
(* The text of a page range is the sequence of its parts <<from, to>>; no  *)
(* part at all is a blank field, which means every page.  A text that is   *)
(* not a range is rejected like one with the part <<0, 0>>.                *)
(***************************************************************************)
EXTENDS Integers, FiniteSets, Sequences

CONSTANTS Rates,     \* PricingProfile: paise per side, or per sheet of photos
          MaxCopies  \* 50 in the schema and on the page

Papers     == {"A4", "A3"}
PhotoModes == {"photo4x6", "passport"}
RateNames  == {"bwA4", "colorA4", "bwA3", "colorA3"} \cup PhotoModes

ASSUME PricingAssumption == Rates \in [RateNames -> Nat] /\ MaxCopies \in Nat \ {0}

HalfUp(n) == (n + 1) \div 2

\* parsePageRange: which texts it accepts, and the pages they select.
ValidRange(range, total) ==
  \A i \in DOMAIN range : 1 <= range[i][1] /\ range[i][1] <= range[i][2] /\ range[i][2] <= total

Selected(range, total) ==
  IF range = <<>> THEN 1..total
  ELSE UNION {range[i][1]..range[i][2] : i \in DOMAIN range}

RateName(color, paper) ==
  CASE paper = "A3" -> IF color THEN "colorA3" ELSE "bwA3"
    [] paper = "A4" -> IF color THEN "colorA4" ELSE "bwA4"

\* priceDocument: rates are per printed side, duplex saves sheets only.
PriceDocument(s, total) ==
  LET n == Cardinality(Selected(s.range, total)) IN
  [sides  |-> n * s.copies,
   sheets |-> (IF s.duplex THEN HalfUp(n) ELSE n) * s.copies,
   total  |-> Rates[RateName(s.color, s.paper)] * (n * s.copies)]

\* pricePhoto: one sheet of photos per copy.
PricePhoto(s) ==
  [sides |-> s.copies, sheets |-> s.copies, total |-> Rates[s.mode] * s.copies]

PricePrint(s, total) ==
  IF s.mode = "document" THEN PriceDocument(s, total) ELSE PricePhoto(s)

\* Mutant: the schema allows less zoom than the slider.
AcceptedBySchemaLess(s) ==
  /\ s.copies \in 1..MaxCopies
  /\ s.mode = "photo4x6" => /\ s.crop.zoom \in 20..40
                            /\ s.crop.x \in 0..20 /\ s.crop.y \in 0..20

\* PrintSettingsSchema, offsets in twentieths of the slack and zoom in
\* twentieths; the page range against the document is priceDocument's.
AcceptedBySchema(s) ==
  /\ s.copies \in 1..MaxCopies
  /\ s.mode = "photo4x6" => /\ s.crop.zoom \in 20..100
                            /\ s.crop.x \in 0..20 /\ s.crop.y \in 0..20

Accepted(s, total) ==
  /\ AcceptedBySchema(s)
  /\ s.mode = "document" => total >= 1 /\ ValidRange(s.range, total)

(***************************************************************************)
(* The agent.                                                              *)
(***************************************************************************)
\* Mutant: the page range is not handed to CUPS.
CupsOptionsNoRange(s) ==
  IF s.mode \in PhotoModes
  THEN [copies |-> s.copies, color |-> TRUE, duplex |-> FALSE, media |-> "4x6", range |-> <<>>]
  ELSE [copies |-> s.copies, color |-> s.color, duplex |-> s.duplex, media |-> s.paper,
        range |-> <<>>]

\* build_cups_options: photos are single colour sheets of 4x6 paper.
CupsOptions(s) ==
  IF s.mode \in PhotoModes
  THEN [copies |-> s.copies, color |-> TRUE, duplex |-> FALSE, media |-> "4x6", range |-> <<>>]
  ELSE [copies |-> s.copies, color |-> s.color, duplex |-> s.duplex, media |-> s.paper,
        range |-> s.range]

\* CUPS (external): the pages in the ranges, once each, per copy.
PrintedSides(o, total)  == Cardinality(Selected(o.range, total)) * o.copies
PrintedSheets(o, total) ==
  LET n == Cardinality(Selected(o.range, total))
  IN  (IF o.duplex THEN HalfUp(n) ELSE n) * o.copies

\* Mutant: an odd last page needs no sheet of its own.
CountSheetsDown(s, total) ==
  (IF s.mode = "document" /\ s.duplex THEN total \div 2 ELSE total) * s.copies

\* count_sheets: the whole document counts, whatever the page range.
CountSheets(s, total) ==
  (IF s.mode = "document" /\ s.duplex THEN HalfUp(total) ELSE total) * s.copies
==============================================================================
