------------------------------- MODULE CropPlans -------------------------------
(***************************************************************************)
(* One page of a manga is drawn: the regions its lines of text stand in    *)
(* are found, regions whose surroundings meet are put into one group, and  *)
(* for each group a square is cut from the page as it is drawn so far,     *)
(* drawn, and put back (manga_reembed_planner.py and reembed of manga.py). *)
(***************************************************************************)
EXTENDS Integers, Sequences, FiniteSetsExt

CONSTANTS
  Pages,                   \* [source, boxes, answer]: the pages that are tried
  PageWidth, PageHeight,
  PadPixels                \* context_pad_px

ASSUME CropAssumption == PageWidth \in Nat /\ PageHeight \in Nat /\ PadPixels \in Nat

VARIABLE
  crops    \* [at, page, groups, drawn, torn]

cropsVars == <<crops>>

(***************************************************************************)
(* Text.  source: what the lines of the page are, "words" or "symbols";    *)
(* answer: the lines of its translation, [of, is], where of is the line of *)
(* the source it translates.  Lines of symbols have no region.             *)
(***************************************************************************)
LinesWithRegion(p) == SelectSeq([i \in DOMAIN p.source |-> i], LAMBDA i : p.source[i] = "words")
PageLines(p) == SelectSeq(p.answer, LAMBDA line : line.is = "words")

-----------------------------------------------------------------------------
(* Boxes [x0, y0, x1, y1].                                                 *)

Clamped(x, most) == Max({0, Min({x, most})})
Meet(a, b) ==
  Max({a.x0, b.x0}) < Min({a.x1, b.x1}) /\ Max({a.y0, b.y0}) < Min({a.y1, b.y1})
Encloses(a, b) == a.x0 <= b.x0 /\ a.y0 <= b.y0 /\ a.x1 >= b.x1 /\ a.y1 >= b.y1
UnionOf(boxes) ==
  [x0 |-> Min({b.x0 : b \in boxes}), y0 |-> Min({b.y0 : b \in boxes}),
   x1 |-> Max({b.x1 : b \in boxes}), y1 |-> Max({b.y1 : b \in boxes})]

\* round() of n / d: a half goes to the even neighbour.
Rounded(n, d) ==
  LET whole == n \div d  rest == 2 * (n % d)
  IN  IF rest > d \/ (rest = d /\ whole % 2 = 1) THEN whole + 1 ELSE whole

\* 15 percent of the box and some pixels, at most 18 percent of the page
Padding(length, most) == Min({Rounded(15 * length + 100 * PadPixels, 100), (18 * most) \div 100})
Expanded(b) ==
  LET x == Padding(b.x1 - b.x0, PageWidth)  y == Padding(b.y1 - b.y0, PageHeight)
  IN  [x0 |-> Clamped(b.x0 - x, PageWidth), y0 |-> Clamped(b.y0 - y, PageHeight),
       x1 |-> Clamped(b.x1 + x, PageWidth), y1 |-> Clamped(b.y1 + y, PageHeight)]

\* A group is a set of regions, its context their surroundings in one box.
Context(p, g) == UnionOf({Expanded(p.boxes[i]) : i \in g})

\* The square that is sent, its corner possibly outside of the page
Square(b) ==
  LET side == Max({b.x1 - b.x0, b.y1 - b.y0, 8})
      x == Rounded(b.x0 + b.x1 - side, 2)  y == Rounded(b.y0 + b.y1 - side, 2)
  IN  [x0 |-> x, y0 |-> y, x1 |-> x + side, y1 |-> y + side]

ValidBoxes(p) == \A i \in DOMAIN p.boxes : p.boxes[i].x0 < p.boxes[i].x1 /\ p.boxes[i].y0 < p.boxes[i].y1

-----------------------------------------------------------------------------
(* Groups.                                                                 *)

\* Whatever is connected by the edges becomes one.
Merged(groups, edges) ==
  LET Closed(c) == \A g \in c, h \in groups \ c : <<g, h>> \notin edges
      Component(g) == {h \in groups : \A c \in SUBSET groups : g \in c /\ Closed(c) => h \in c}
  IN  {UNION Component(g) : g \in groups}

\* (a mutant: of two regions only the boxes are looked at)
BoxesMeet(p, g, h) == g # h /\ Meet(UnionOf({p.boxes[i] : i \in g}), UnionOf({p.boxes[i] : i \in h}))
ContextsMeet(p, g, h) == g # h /\ Meet(Context(p, g), Context(p, h))
\* A region of one is cut by the other's crop.
Cuts(p, g, h) == \E i \in h : Meet(Context(p, g), p.boxes[i]) /\ ~Encloses(Context(p, g), p.boxes[i])
CutsApart(p, g, h) == g # h /\ (Cuts(p, g, h) \/ Cuts(p, h, g))
Meetings(p, groups) == {e \in groups \X groups : ContextsMeet(p, e[1], e[2])}
Cuttings(p, groups) == {e \in groups \X groups : CutsApart(p, e[1], e[2])}

\* Reading order, and a crop before those after it whose squares meet its own
Order(g) == Min(g)
Awaits(p, g, h) == Order(h) < Order(g) /\ Meet(Square(Context(p, g)), Square(Context(p, h)))
ReadyToDraw(p, left) == {g \in left : \A h \in left : ~Awaits(p, g, h)}

-----------------------------------------------------------------------------
NothingDrawn(p) == [i \in DOMAIN p.boxes |-> 0]
CropsInit ==
  \E p \in Pages :
    crops = [at |-> "regions", page |-> p, groups |-> {}, left |-> {}, drawn |-> NothingDrawn(p), torn |-> {}]

Grown(groups, next) ==
  crops' = [crops EXCEPT !.groups = groups, !.at = IF groups = crops.groups THEN next ELSE @]

\* Regions that are no boxes, or as many as there are lines: the whole page is drawn.
FindRegions ==
  /\ crops.at = "regions"
  /\ LET p == crops.page IN
     crops' = IF /\ p.boxes # <<>> /\ ValidBoxes(p)
                 /\ Len(PageLines(p)) = Len(p.boxes)
              THEN [crops EXCEPT !.at = "meeting", !.groups = {{i} : i \in DOMAIN p.boxes}]
              ELSE [crops EXCEPT !.at = "whole page"]
MergeMeeting ==
  crops.at = "meeting" /\ Grown(Merged(crops.groups, Meetings(crops.page, crops.groups)), "cutting")
MergeCutting ==
  /\ crops.at = "cutting"
  /\ LET groups == Merged(crops.groups, Cuttings(crops.page, crops.groups)) IN
     crops' = [crops EXCEPT !.groups = groups,
                            !.at = IF groups = crops.groups THEN "crops" ELSE @,
                            !.left = IF groups = crops.groups THEN groups ELSE @]

(* A crop is taken from the page as drawn so far; what of other regions    *)
(* it takes with it whole it may draw again, what it takes in part it tears. *)
DrawCrop ==
  /\ crops.at = "crops" /\ crops.left # {}
  /\ LET p == crops.page
         g == CHOOSE h \in ReadyToDraw(p, crops.left) : \A k \in ReadyToDraw(p, crops.left) : Order(h) <= Order(k)
     IN  crops' = [crops EXCEPT
                     !.left = @ \ {g},
                     !.drawn = [i \in DOMAIN @ |-> IF i \in g THEN PageLines(p)[i].of ELSE @[i]],
                     !.torn = @ \cup {i \in DOMAIN p.boxes \ g : Meet(Context(p, g), p.boxes[i])}]
PageIsDrawn == crops.at = "crops" /\ crops.left = {} /\ crops' = [crops EXCEPT !.at = "drawn"]

CropsNext == FindRegions \/ MergeMeeting \/ MergeCutting \/ DrawCrop \/ PageIsDrawn
CropsSpec == CropsInit /\ [][CropsNext]_cropsVars

-----------------------------------------------------------------------------
(* Each region is drawn in one crop, which holds its surroundings, no crop *)
(* takes a part of another's region, and what is put back on the page lies *)
(* in the square that came back.                                           *)
CropsAreApart ==
  crops.at \in {"crops", "drawn"} =>
    LET p == crops.page IN
    /\ \A i \in DOMAIN p.boxes : \E g \in crops.groups : i \in g /\ Encloses(Context(p, g), p.boxes[i])
    /\ \A g, h \in crops.groups : g # h => g \cap h = {} /\ ~Meet(Context(p, g), Context(p, h))
    /\ \A g \in crops.groups : Encloses(Square(Context(p, g)), Context(p, g))
    /\ crops.torn = {}

(* A page whose translation keeps words where there are words has each     *)
(* line drawn where it was.                                                *)
LinesStandInTheirRegions ==
  LET p == crops.page IN
  (/\ crops.at = "drawn" /\ Len(p.answer) = Len(p.source)
   /\ \A i \in DOMAIN p.answer : p.answer[i] = [of |-> i, is |-> p.source[i]])
  => \A i \in DOMAIN p.boxes : crops.drawn[i] = LinesWithRegion(p)[i]
================================================================================
