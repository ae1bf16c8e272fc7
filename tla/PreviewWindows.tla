--------------------------- MODULE PreviewWindows ---------------------------
(* The part of a document that a preview shows.  Each format has a path through *)
(* an engine (the GenOffice model, the native sidecar) and a path that streams   *)
(* the ZIP parts, which serves when the engine is not there.  Both cut a window   *)
(* out of the document, from one validated scope.  The functions here are pure:  *)
(* PreviewService decides when they run, XlsxSidecar how the native reads go.     *)
EXTENDS Integers, Sequences, FiniteSets

CONSTANT
    None        \* a field of the scope that was not given (undefined)

ASSUME NoneAssumption == None \notin Int

Smaller(a, b) == IF a <= b THEN a ELSE b
Larger(a, b) == IF a <= b THEN b ELSE a
Or(value, default) == IF value = None THEN default ELSE value

-----------------------------------------------------------------------------
(***************************************************************************)
(* The scope: validated once, before it becomes part of a cache key        *)
(***************************************************************************)
RangeMaxRows == 500
RangeMaxCols == 128

Positive == Nat \ {0}

Ranges == [fromRow : Positive, toRow : Positive, fromCol : Positive, toCol : Positive]

\* The scopes that the two paths may be given: ordered ranges within the ceilings.
Scopes ==
    {s \in [sheet : STRING \cup {None}, slide : Positive \cup {None}, block : Nat \cup {None},
            range : Ranges \cup {None}, maxEntries : Positive \cup {None}] :
        /\ s.maxEntries # None => s.maxEntries <= RangeMaxRows
        /\ s.range # None =>
              /\ s.range.fromRow <= s.range.toRow /\ s.range.fromCol <= s.range.toCol
              /\ s.range.toRow - s.range.fromRow < RangeMaxRows
              /\ s.range.toCol - s.range.fromCol < RangeMaxCols}

\* The gate tests each field that is there; whatever is missing passes it, a bound of the
\* range included (its type says that all four are there), as does a comparison with it.
AtLeast(value, least) == value = None \/ (value \in Int /\ value >= least)
Over(value, limit) == value # None /\ limit # None /\ value > limit
Span(from, to) == IF from = None \/ to = None THEN None ELSE to - from + 1

Accepts(s) ==
    /\ AtLeast(s.slide, 1) /\ AtLeast(s.block, 0)
    /\ AtLeast(s.maxEntries, 1) /\ ~Over(s.maxEntries, RangeMaxRows)
    /\ s.range # None =>
          /\ AtLeast(s.range.fromRow, 1) /\ AtLeast(s.range.toRow, 1)
          /\ AtLeast(s.range.fromCol, 1) /\ AtLeast(s.range.toCol, 1)
          /\ ~Over(s.range.fromRow, s.range.toRow) /\ ~Over(s.range.fromCol, s.range.toCol)
          /\ ~Over(Span(s.range.fromRow, s.range.toRow), RangeMaxRows)
          /\ ~Over(Span(s.range.fromCol, s.range.toCol), RangeMaxCols)

\* The key is a tuple of fixed length; the empty tuple stands for the null of no range.
ScopeKey(s) ==
    <<s.sheet, s.slide, s.block,
      IF s.range = None THEN <<>>
      ELSE <<s.range.fromRow, s.range.fromCol, s.range.toRow, s.range.toCol>>,
      s.maxEntries>>

-----------------------------------------------------------------------------
(***************************************************************************)
(* Slides: presentation positions, from 1                                  *)
(***************************************************************************)
SvgWindowOf(slideCount, s, max) ==
    LET anchor == Larger(0, Or(s.slide, 1) - 1)
        from   == Smaller(anchor, Larger(0, slideCount - 1))
    IN  [from |-> from,
         count |-> Larger(0, Smaller(Smaller(max, Or(s.maxEntries, max)), slideCount - from))]

SlidesOf(w) == w.from + 1 .. w.from + w.count

EngineMaxSlides(s) == Smaller(200, Larger(1, Or(s.maxEntries, 200)))
EngineSlides(slideCount, s) == SlidesOf(SvgWindowOf(slideCount, s, EngineMaxSlides(s)))

MaxSvgSlides == 6
SvgSlides(slideCount, s) == SlidesOf(SvgWindowOf(slideCount, s, MaxSvgSlides))

PptxMaxSlides == 40
ZipSlides(slideCount, s) ==
    LET anchor    == Larger(1, Or(s.slide, 1))
        maxSlides == Smaller(PptxMaxSlides, Larger(1, Or(s.maxEntries, PptxMaxSlides)))
        inWindow  == {i \in 1 .. slideCount : i >= anchor /\ i < anchor + maxSlides}
    IN  IF inWindow # {} THEN inWindow ELSE {slideCount} \cap (1 .. slideCount)

\* The order in which the ZIP path counts slides: that of the presentation's list, as far
\* as it resolves to parts; parts in number order if nothing does.
PresentationOrder(parts, listed, target) ==
    LET resolves(id) == id \in DOMAIN target /\ \E i \in DOMAIN parts : parts[i] = target[id]
        ids          == SelectSeq(listed, resolves)
    IN  IF ids = <<>> THEN parts ELSE [i \in DOMAIN ids |-> target[ids[i]]]

-----------------------------------------------------------------------------
(***************************************************************************)
(* Blocks of a text: positions from 0                                      *)
(***************************************************************************)
DocxMaxBlocks == 400
MaxBlocks(s) == Smaller(DocxMaxBlocks, Larger(1, Or(s.maxEntries, DocxMaxBlocks)))
Anchor(s) == Larger(0, Or(s.block, 0))

EngineBlocks(blockCount, s) ==
    {b \in 0 .. blockCount - 1 : b >= Anchor(s) /\ b < Anchor(s) + MaxBlocks(s)}

\* The ZIP path reads paragraphs from a stream of chunks.  Paragraph i of the text opens
\* in chunk p[i].opens, closes in chunk p[i].closes and is "bare" (<w:p>) or has
\* attributes.  With each chunk the loop looks for an opening tag with attributes first,
\* and only where it finds none for a bare one: a bare paragraph is passed over
\* when one with attributes opens behind it before its own chunk ends.
Paragraphs == [opens : Nat, closes : Nat, bare : BOOLEAN]

InStreamOrder(p) ==
    \A i \in DOMAIN p : /\ p[i].opens <= p[i].closes
                        /\ \A j \in DOMAIN p : i < j => p[i].closes <= p[j].opens

Seen(p) ==
    {i \in DOMAIN p : p[i].bare =>
        \A j \in DOMAIN p : j > i /\ p[j].opens <= p[i].closes => p[j].bare}

\* A block's index is the number of paragraphs the loop met before it.
ZipBlocks(p, s) ==
    LET index(i) == Cardinality({j \in Seen(p) : j < i})
    IN  {i \in Seen(p) : index(i) >= Anchor(s) /\ index(i) < Anchor(s) + MaxBlocks(s)}

-----------------------------------------------------------------------------
(***************************************************************************)
(* Rows and columns of a sheet: positions from 1.  A sheet is the set of its *)
(* rows that exist, and the extent that its metadata declares, or None.      *)
(***************************************************************************)
\* Which sheets: the named one (names are unique) or nothing; without a name the first.
MaxSheets == 4
ShownSheets(names, s) ==
    IF s.sheet # None THEN SelectSeq(names, LAMBDA name : name = s.sheet)
    ELSE SubSeq(names, 1, Smaller(MaxSheets, Len(names)))

Height(s) == s.range.toRow - s.range.fromRow + 1
Width(s) == s.range.toCol - s.range.fromCol + 1
FromRow(s) == IF s.range = None THEN 1 ELSE Larger(1, s.range.fromRow)
FromCol(s) == IF s.range = None THEN 1 ELSE Larger(1, s.range.fromCol)

XlsxMaxRows == 60
XlsxMaxCols == 24
ZipMaxRows(s) ==
    IF s.range # None THEN Smaller(RangeMaxRows, Larger(1, Or(s.maxEntries, Height(s))))
    ELSE Smaller(XlsxMaxRows, Larger(1, Or(s.maxEntries, XlsxMaxRows)))
ZipMaxCols(s) == IF s.range # None THEN Smaller(RangeMaxCols, Width(s)) ELSE XlsxMaxCols

\* The ZIP path takes the rows in the order of the part and packs them: a row that does
\* not exist takes no line of the window.
ZipLine(rows, s, r) == Cardinality({q \in rows : FromRow(s) <= q /\ q <= r})

ZipRows(rows, s) ==
    {r \in rows : /\ r >= FromRow(s) /\ ZipLine(rows, s, r) <= ZipMaxRows(s)
                  /\ s.range # None => r <= Larger(FromRow(s), s.range.toRow)}

\* parseRowCells: a cell has its slot by its column, whatever is missing before it.
ZipCols(s) == {c \in Positive : c >= FromCol(s) /\ c - FromCol(s) < ZipMaxCols(s)}

\* What the preview asks the sidecar for.
SidecarMaxRows(s) ==
    IF s.range # None
    THEN Smaller(Smaller(RangeMaxRows, Height(s)), Or(s.maxEntries, Height(s)))
    ELSE Or(s.maxEntries, 40)
SidecarMaxCols(s) == IF s.range # None THEN Smaller(RangeMaxCols, Width(s)) ELSE 16

\* What is left of the declared extent behind the origin of the window.
Remaining(declared, from) == IF declared = None THEN None ELSE Larger(0, declared - (from - 1))

SidecarReads(declaredRows, declaredCols, s) ==
    Remaining(declaredRows, FromRow(s)) # 0 /\ Remaining(declaredCols, FromCol(s)) # 0

Extent(max, remaining, span) == Larger(1, Smaller(Smaller(max, Or(remaining, max)), Or(span, max)))

ReadRows(declaredRows, s) ==
    FromRow(s) .. FromRow(s) - 1 + Extent(SidecarMaxRows(s), Remaining(declaredRows, FromRow(s)),
                                          IF s.range = None THEN None ELSE Height(s))
ReadCols(declaredCols, s) ==
    FromCol(s) .. FromCol(s) - 1 + Extent(SidecarMaxCols(s), Remaining(declaredCols, FromCol(s)),
                                          IF s.range = None THEN None ELSE Width(s))

\* The second try of a read that failed on a sheet without metadata: five by five.
ProbeRows(s) == FromRow(s) .. FromRow(s) + 4
ProbeCols(s) == FromCol(s) .. FromCol(s) + 4

\* normalizeWindow puts the cells that came back on the grid of the window, by their
\* distance from its origin.
GridLine(s, r) == r - FromRow(s) + 1
OnGridRows(s, cells) == {r \in cells : r >= FromRow(s) /\ r - FromRow(s) < SidecarMaxRows(s)}
OnGridCols(s, cells) == {c \in cells : c >= FromCol(s) /\ c - FromCol(s) < SidecarMaxCols(s)}

SidecarRows(rows, declaredRows, s) == OnGridRows(s, rows \cap ReadRows(declaredRows, s))

=============================================================================
