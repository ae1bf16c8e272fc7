----------------------- MODULE PreviewWindows_proofs ------------------------
(* What the windows of a preview are, for every document and every scope: the  *)
(* paths of a format agree, and a scope is a boundary that nothing crosses.     *)
EXTENDS PreviewWindows, FiniteSetTheorems, TLAPS

-----------------------------------------------------------------------------
(***************************************************************************)
(* Scopes                                                                  *)
(***************************************************************************)
\* What the fields of a scope are, one fact per field for the provers.
LEMMA ScopeFields ==
  ASSUME NEW s \in Scopes
  PROVE  /\ s.slide = None \/ s.slide \in Positive
         /\ s.block = None \/ s.block \in Nat
         /\ s.maxEntries = None \/ s.maxEntries \in 1 .. RangeMaxRows
         /\ s.range # None => /\ s.range \in Ranges
                              /\ s.range.fromRow <= s.range.toRow
                              /\ s.range.fromCol <= s.range.toCol
                              /\ Height(s) \in 1 .. RangeMaxRows
                              /\ Width(s) \in 1 .. RangeMaxCols
BY SMTT(30) DEF Scopes, Ranges, Positive, Height, Width, RangeMaxRows, RangeMaxCols

\* normalizeAndValidateScope: a scope of the declared type that passes the gate is within
\* every ceiling, so no later path needs a correction of its own.
THEOREM GateBoundsScopes ==
  ASSUME NEW s \in [sheet : STRING \cup {None}, slide : Int \cup {None}, block : Int \cup {None},
                    range : [fromRow : Int, toRow : Int, fromCol : Int, toCol : Int] \cup {None},
                    maxEntries : Int \cup {None}],
         Accepts(s)
  PROVE  s \in Scopes
<1>1. /\ s.slide \in Positive \cup {None}
      /\ s.block \in Nat \cup {None}
      /\ s.maxEntries \in Positive \cup {None}
      /\ s.maxEntries # None => s.maxEntries <= RangeMaxRows
  <2>1. RangeMaxRows # None
    BY NoneAssumption DEF RangeMaxRows
  <2>2. s.slide \in Int \cup {None} /\ s.block \in Int \cup {None} /\ s.maxEntries \in Int \cup {None}
    OBVIOUS
  <2>3. /\ s.slide # None => s.slide >= 1
        /\ s.block # None => s.block >= 0
        /\ s.maxEntries # None => s.maxEntries >= 1 /\ ~(s.maxEntries > RangeMaxRows)
    BY <2>1 DEF Accepts, AtLeast, Over
  <2> QED BY <2>2, <2>3 DEF Positive, RangeMaxRows
<1>2. ASSUME s.range # None
      PROVE  /\ s.range \in Ranges
             /\ s.range.fromRow <= s.range.toRow /\ s.range.fromCol <= s.range.toCol
             /\ s.range.toRow - s.range.fromRow < RangeMaxRows
             /\ s.range.toCol - s.range.fromCol < RangeMaxCols
  <2> DEFINE r == s.range
  <2>1. r \in [fromRow : Int, toRow : Int, fromCol : Int, toCol : Int]
    BY <1>2
  <2>2. /\ r.fromRow # None /\ r.toRow # None /\ r.fromCol # None /\ r.toCol # None
        /\ r.toRow - r.fromRow + 1 # None /\ r.toCol - r.fromCol + 1 # None
    BY <2>1, NoneAssumption
  <2>3. /\ r.fromRow >= 1 /\ r.toRow >= 1 /\ r.fromCol >= 1 /\ r.toCol >= 1
        /\ ~(r.fromRow > r.toRow) /\ ~(r.fromCol > r.toCol)
    BY <1>2, <2>2 DEF Accepts, AtLeast, Over
  <2>4. RangeMaxRows # None /\ RangeMaxCols # None
    BY NoneAssumption DEF RangeMaxRows, RangeMaxCols
  <2>5. /\ ~(r.toRow - r.fromRow + 1 > RangeMaxRows)
        /\ ~(r.toCol - r.fromCol + 1 > RangeMaxCols)
    BY <1>2, <2>2, <2>4 DEF Accepts, Over, Span
  <2> QED BY <2>1, <2>3, <2>5 DEF Ranges, Positive, RangeMaxRows, RangeMaxCols
<1> QED BY <1>1, <1>2 DEF Scopes

\* normalizeScopeKey: two scopes never share a key, so a cached or shared render is never
\* of another window than the one that was asked for.
THEOREM KeysTellScopesApart ==
  ASSUME NEW s \in Scopes, NEW t \in Scopes, ScopeKey(s) = ScopeKey(t)
  PROVE  s = t
<1>1. /\ s.sheet = t.sheet /\ s.slide = t.slide /\ s.block = t.block /\ s.maxEntries = t.maxEntries
  BY DEF ScopeKey
<1>2. CASE s.range = None
  <2>1. ScopeKey(t)[4] = <<>>
    BY <1>2 DEF ScopeKey
  <2> QED BY <1>1, <1>2, <2>1 DEF ScopeKey, Scopes
<1>3. CASE s.range # None
  <2>1. ScopeKey(s)[4] = <<s.range.fromRow, s.range.fromCol, s.range.toRow, s.range.toCol>>
    BY <1>3 DEF ScopeKey
  <2>2. t.range # None
    BY <2>1 DEF ScopeKey
  <2>3. ScopeKey(t)[4] = <<t.range.fromRow, t.range.fromCol, t.range.toRow, t.range.toCol>>
    BY <2>2 DEF ScopeKey
  <2>4. s.range = t.range
    BY <1>3, <2>1, <2>2, <2>3 DEF Scopes, Ranges
  <2> QED BY <1>1, <2>4 DEF Scopes
<1> QED BY <1>2, <1>3

-----------------------------------------------------------------------------
(***************************************************************************)
(* Slides and blocks                                                       *)
(***************************************************************************)
\* The window sizes of the three slide paths, and where all of them begin.
LEMMA SlideCaps ==
  ASSUME NEW s \in Scopes
  PROVE  \E a \in Nat, e \in 1 .. RangeMaxRows :
            /\ Or(s.slide, 1) = a + 1
            /\ Smaller(EngineMaxSlides(s), Or(s.maxEntries, EngineMaxSlides(s))) = Smaller(200, e)
            /\ Smaller(MaxSvgSlides, Or(s.maxEntries, MaxSvgSlides)) = Smaller(6, e)
            /\ Smaller(PptxMaxSlides, Larger(1, Or(s.maxEntries, PptxMaxSlides))) = Smaller(40, e)
<1>1. PICK a \in Nat : Or(s.slide, 1) = a + 1
  <2>1. Or(s.slide, 1) \in Positive
    BY ScopeFields, NoneAssumption DEF Or, Positive
  <2>2. Or(s.slide, 1) - 1 \in Nat /\ Or(s.slide, 1) = (Or(s.slide, 1) - 1) + 1
    BY <2>1 DEF Positive
  <2> QED BY <2>2
<1>2. CASE s.maxEntries = None
  <2>1. /\ Or(s.maxEntries, 200) = 200 /\ Or(s.maxEntries, MaxSvgSlides) = MaxSvgSlides
        /\ Or(s.maxEntries, PptxMaxSlides) = PptxMaxSlides
        /\ Or(s.maxEntries, EngineMaxSlides(s)) = EngineMaxSlides(s)
    BY <1>2 DEF Or
  <2>2. EngineMaxSlides(s) = 200
    BY <2>1 DEF EngineMaxSlides, Smaller, Larger
  <2>3. /\ Smaller(EngineMaxSlides(s), Or(s.maxEntries, EngineMaxSlides(s))) = Smaller(200, 200)
        /\ Smaller(MaxSvgSlides, Or(s.maxEntries, MaxSvgSlides)) = Smaller(6, 200)
        /\ Smaller(PptxMaxSlides, Larger(1, Or(s.maxEntries, PptxMaxSlides))) = Smaller(40, 200)
    BY <2>1, <2>2 DEF MaxSvgSlides, PptxMaxSlides, Smaller, Larger
  <2>4. 200 \in 1 .. RangeMaxRows
    BY DEF RangeMaxRows
  <2> QED BY <1>1, <2>3, <2>4
<1>3. CASE s.maxEntries # None
  <2>1. /\ Or(s.maxEntries, 200) = s.maxEntries /\ Or(s.maxEntries, MaxSvgSlides) = s.maxEntries
        /\ Or(s.maxEntries, PptxMaxSlides) = s.maxEntries
        /\ Or(s.maxEntries, EngineMaxSlides(s)) = s.maxEntries
        /\ s.maxEntries \in 1 .. RangeMaxRows
    BY <1>3, ScopeFields DEF Or
  <2> DEFINE e == s.maxEntries
  <2>2. EngineMaxSlides(s) = Smaller(200, e)
    BY <2>1 DEF EngineMaxSlides, Smaller, Larger, RangeMaxRows
  <2>3. Smaller(Smaller(200, e), e) = Smaller(200, e) /\ Larger(1, e) = e
    BY <2>1 DEF Smaller, Larger, RangeMaxRows
  <2> QED BY <1>1, <2>1, <2>2, <2>3 DEF MaxSvgSlides, PptxMaxSlides
<1> QED BY <1>2, <1>3

\* Outline and SVG come from the same window: the slides drawn are the first ones of the
\* slides listed.
THEOREM DrawnSlidesAreTheFirstListed ==
  ASSUME NEW n \in Nat, NEW s \in Scopes
  PROVE  /\ SvgSlides(n, s) \subseteq EngineSlides(n, s)
         /\ \A i \in SvgSlides(n, s) : \A j \in EngineSlides(n, s) \ SvgSlides(n, s) : i < j
<1>1. PICK a \in Nat, e \in 1 .. RangeMaxRows :
        /\ Or(s.slide, 1) = a + 1
        /\ Smaller(EngineMaxSlides(s), Or(s.maxEntries, EngineMaxSlides(s))) = Smaller(200, e)
        /\ Smaller(MaxSvgSlides, Or(s.maxEntries, MaxSvgSlides)) = Smaller(6, e)
  BY SlideCaps
<1> DEFINE from == Smaller(Larger(0, a), Larger(0, n - 1))
<1>2. from \in Nat
  BY DEF Smaller, Larger
<1>3. (a + 1) - 1 = a
  OBVIOUS
<1>4. EngineSlides(n, s) = from + 1 .. from + Larger(0, Smaller(Smaller(200, e), n - from))
  BY <1>1, <1>3 DEF EngineSlides, SvgWindowOf, SlidesOf
<1>5. SvgSlides(n, s) = from + 1 .. from + Larger(0, Smaller(Smaller(6, e), n - from))
  BY <1>1, <1>3 DEF SvgSlides, SvgWindowOf, SlidesOf
<1> HIDE DEF from
<1> QED BY <1>2, <1>4, <1>5 DEF Smaller, Larger, RangeMaxRows

\* renderPptxOutline and the engine's outline: without the engine a preview lists the same
\* slides, cut after 40, an anchor behind the last slide included.
THEOREM ZipListsTheEnginesSlides ==
  ASSUME NEW n \in Nat, NEW s \in Scopes
  PROVE  ZipSlides(n, s) =
            {i \in EngineSlides(n, s) :
                i <= SvgWindowOf(n, s, EngineMaxSlides(s)).from + PptxMaxSlides}
<1>1. PICK a \in Nat, e \in 1 .. RangeMaxRows :
        /\ Or(s.slide, 1) = a + 1
        /\ Smaller(EngineMaxSlides(s), Or(s.maxEntries, EngineMaxSlides(s))) = Smaller(200, e)
        /\ Smaller(PptxMaxSlides, Larger(1, Or(s.maxEntries, PptxMaxSlides))) = Smaller(40, e)
  BY SlideCaps
<1> DEFINE from == Smaller(Larger(0, a), Larger(0, n - 1))
           inWindow == {i \in 1 .. n : i >= a + 1 /\ i < a + 1 + Smaller(40, e)}
<1>2. (a + 1) - 1 = a /\ Larger(1, a + 1) = a + 1
  BY DEF Larger
<1>3. /\ EngineSlides(n, s) = from + 1 .. from + Larger(0, Smaller(Smaller(200, e), n - from))
      /\ SvgWindowOf(n, s, EngineMaxSlides(s)).from = from
  BY <1>1, <1>2 DEF EngineSlides, SvgWindowOf, SlidesOf
<1>4. ZipSlides(n, s) = IF inWindow # {} THEN inWindow ELSE {n} \cap (1 .. n)
  BY <1>1, <1>2 DEF ZipSlides
<1>5. CASE a < n
  <2>1. from = a /\ a + 1 \in inWindow
    BY <1>5 DEF Smaller, Larger, RangeMaxRows
  <2>2. ZipSlides(n, s) = inWindow
    BY <1>4, <2>1
  <2>3. EngineSlides(n, s) = a + 1 .. a + Larger(0, Smaller(Smaller(200, e), n - a))
    BY <1>3, <2>1
  <2> QED BY <1>3, <1>5, <2>1, <2>2, <2>3 DEF Smaller, Larger, RangeMaxRows, PptxMaxSlides
<1>6. CASE a >= n
  <2>1. inWindow = {} /\ from = Larger(0, n - 1)
    BY <1>6 DEF Smaller, Larger
  <2>2. ZipSlides(n, s) = {n} \cap (1 .. n)
    BY <1>4, <2>1
  <2> QED BY <1>3, <2>1, <2>2 DEF Smaller, Larger, RangeMaxRows, PptxMaxSlides
<1> QED BY <1>5, <1>6

\* renderDocxOutline and the engine's outline: where the paragraphs of a text are all of
\* one form, the stream loses none of them, whatever chunks it comes in, and the two
\* paths list the same blocks.
THEOREM UniformTextsAreListedAlike ==
  ASSUME NEW n \in Nat, NEW p \in [1 .. n -> Paragraphs], NEW s \in Scopes,
         (\A i \in 1 .. n : p[i].bare) \/ (\A i \in 1 .. n : ~p[i].bare)
  PROVE  ZipBlocks(p, s) = {i \in 1 .. n : i - 1 \in EngineBlocks(n, s)}
<1>1. Seen(p) = 1 .. n
  BY DEF Seen
<1>2. ASSUME NEW i \in 1 .. n
      PROVE  Cardinality({j \in Seen(p) : j < i}) = i - 1
  <2>1. {j \in Seen(p) : j < i} = 1 .. i - 1
    BY <1>1
  <2>2. Cardinality(1 .. i - 1) = i - 1
    <3>1. 1 \in Int /\ i - 1 \in Int /\ (1 > i - 1 => i - 1 = 0)
      OBVIOUS
    <3> QED BY <3>1, FS_Interval
  <2> QED BY <2>1, <2>2
<1>3. Anchor(s) \in Nat /\ MaxBlocks(s) \in Nat
  <2>1. Or(s.block, 0) \in Nat /\ Or(s.maxEntries, DocxMaxBlocks) \in 1 .. RangeMaxRows
    BY ScopeFields DEF Or, DocxMaxBlocks, RangeMaxRows
  <2>2. Anchor(s) \in Nat
    BY <2>1 DEF Anchor, Larger
  <2>3. MaxBlocks(s) \in Nat
    <3>1. \A e \in 1 .. RangeMaxRows : Smaller(DocxMaxBlocks, Larger(1, e)) \in Nat
      BY DEF Larger, Smaller, DocxMaxBlocks, RangeMaxRows
    <3> QED BY <2>1, <3>1 DEF MaxBlocks
  <2> QED BY <2>2, <2>3
<1>4. ZipBlocks(p, s) = {i \in 1 .. n : i - 1 >= Anchor(s) /\ i - 1 < Anchor(s) + MaxBlocks(s)}
  BY <1>1, <1>2 DEF ZipBlocks
<1> QED BY <1>3, <1>4 DEF EngineBlocks

-----------------------------------------------------------------------------
(***************************************************************************)
(* Rows and columns                                                        *)
(***************************************************************************)
\* An explicit range is a hard boundary on both paths: maxEntries may narrow it, and
\* neither the five by five probe nor an engine that returns too much gets past it.
THEOREM RangeIsHardBoundary ==
  ASSUME NEW s \in Scopes, s.range # None, NEW rows \in SUBSET Positive, NEW cells \in SUBSET Int
  PROVE  /\ ZipRows(rows, s) \subseteq s.range.fromRow .. s.range.toRow
         /\ ZipCols(s) = s.range.fromCol .. s.range.toCol
         /\ OnGridRows(s, cells) \subseteq s.range.fromRow .. s.range.toRow
         /\ OnGridCols(s, cells) \subseteq s.range.fromCol .. s.range.toCol
<1> DEFINE r == s.range
<1>1. /\ r.fromRow \in Positive /\ r.toRow \in Positive /\ r.fromCol \in Positive /\ r.toCol \in Positive
      /\ r.fromRow <= r.toRow /\ r.fromCol <= r.toCol
      /\ r.toRow - r.fromRow + 1 \in 1 .. RangeMaxRows /\ r.toCol - r.fromCol + 1 \in 1 .. RangeMaxCols
      /\ s.maxEntries = None \/ s.maxEntries \in 1 .. RangeMaxRows
  BY ScopeFields DEF Ranges, Height, Width
<1>2. FromRow(s) = r.fromRow /\ FromCol(s) = r.fromCol
  BY <1>1 DEF FromRow, FromCol, Larger, Positive
<1>3. ZipRows(rows, s) \subseteq r.fromRow .. r.toRow
  <2>1. Larger(r.fromRow, r.toRow) = r.toRow
    BY <1>1 DEF Larger
  <2>2. ASSUME NEW q \in ZipRows(rows, s) PROVE q \in r.fromRow .. r.toRow
    <3>1. q \in Int /\ q >= r.fromRow /\ q <= r.toRow
      BY <1>2, <2>1 DEF ZipRows, Positive
    <3>2. r.fromRow \in Int /\ r.toRow \in Int
      BY <1>1 DEF Positive
    <3> QED BY <3>1, <3>2
  <2> QED BY <2>2
<1>4. ZipCols(s) = r.fromCol .. r.toCol
  BY <1>1, <1>2 DEF ZipCols, ZipMaxCols, Smaller, Width, Positive, RangeMaxCols
<1>5. /\ SidecarMaxRows(s) \in Int /\ SidecarMaxRows(s) <= Height(s)
      /\ SidecarMaxCols(s) \in Int /\ SidecarMaxCols(s) <= Width(s)
  <2>1. Or(s.maxEntries, Height(s)) \in 1 .. RangeMaxRows
    BY <1>1 DEF Or, Height
  <2>2. Height(s) \in 1 .. RangeMaxRows /\ Width(s) \in 1 .. RangeMaxCols
    BY <1>1 DEF Height, Width
  <2> QED BY SMTT(30), <2>1, <2>2 DEF SidecarMaxRows, SidecarMaxCols, Smaller, RangeMaxRows, RangeMaxCols
<1>6. OnGridRows(s, cells) \subseteq r.fromRow .. r.toRow
  <2>1. SidecarMaxRows(s) <= r.toRow - r.fromRow + 1
    BY <1>5 DEF Height
  <2>2. ASSUME NEW c \in OnGridRows(s, cells) PROVE c \in r.fromRow .. r.toRow
    <3>1. c \in Int /\ c >= r.fromRow /\ c - r.fromRow < SidecarMaxRows(s)
      BY <1>2 DEF OnGridRows
    <3>2. r.fromRow \in Int /\ r.toRow \in Int
      BY <1>1 DEF Positive
    <3> QED BY <1>5, <2>1, <3>1, <3>2
  <2> QED BY <2>2
<1>7. OnGridCols(s, cells) \subseteq r.fromCol .. r.toCol
  <2>1. SidecarMaxCols(s) <= r.toCol - r.fromCol + 1
    BY <1>5 DEF Width
  <2>2. ASSUME NEW c \in OnGridCols(s, cells) PROVE c \in r.fromCol .. r.toCol
    <3>1. c \in Int /\ c >= r.fromCol /\ c - r.fromCol < SidecarMaxCols(s)
      BY <1>2 DEF OnGridCols
    <3>2. r.fromCol \in Int /\ r.toCol \in Int
      BY <1>1 DEF Positive
    <3> QED BY <1>5, <2>1, <3>1, <3>2
  <2> QED BY <2>2
<1> QED BY <1>3, <1>4, <1>6, <1>7

\* What the sidecar is asked for lies within the extent that the sheet declares, so a read
\* that fails on such a sheet is a real failure and not one of the window.
THEOREM ReadsStayWithinTheSheet ==
  ASSUME NEW s \in Scopes, NEW declaredRows \in Nat, NEW declaredCols \in Nat,
         SidecarReads(declaredRows, declaredCols, s)
  PROVE  /\ ReadRows(declaredRows, s) \subseteq 1 .. declaredRows
         /\ ReadCols(declaredCols, s) \subseteq 1 .. declaredCols
<1>1. /\ s.range = None \/ (Height(s) \in Positive /\ Width(s) \in Positive)
      /\ FromRow(s) \in Positive /\ FromCol(s) \in Positive
  BY ScopeFields DEF FromRow, FromCol, Larger, Ranges, Positive
<1>2. SidecarMaxRows(s) \in Positive /\ SidecarMaxCols(s) \in Positive
  BY SMTT(30), <1>1, ScopeFields, NoneAssumption
     DEF SidecarMaxRows, SidecarMaxCols, Smaller, Or, Positive, RangeMaxRows, RangeMaxCols
<1>3. declaredRows # None /\ declaredCols # None
  BY NoneAssumption
<1> QED BY <1>1, <1>2, <1>3, NoneAssumption
        DEF SidecarReads, ReadRows, ReadCols, Remaining, Extent, Smaller, Larger, Or, Positive

\* On a sheet that has all its rows, both paths show the same rows of an explicit range,
\* each on the same line.  (Where rows are missing they do not: the ZIP path packs what is
\* there, the sidecar leaves the lines empty.)
THEOREM FullSheetsAreShownAlike ==
  ASSUME NEW s \in Scopes, s.range # None, NEW n \in Nat, Remaining(n, FromRow(s)) # 0
  PROVE  /\ ZipRows(1 .. n, s) = SidecarRows(1 .. n, n, s)
         /\ \A r \in ZipRows(1 .. n, s) : ZipLine(1 .. n, s, r) = GridLine(s, r)
<1>1. /\ FromRow(s) \in Positive /\ FromRow(s) = s.range.fromRow
      /\ s.range.toRow \in Positive /\ s.range.fromRow <= s.range.toRow
      /\ Height(s) = s.range.toRow - s.range.fromRow + 1
      /\ Height(s) \in 1 .. RangeMaxRows
      /\ s.maxEntries = None \/ s.maxEntries \in 1 .. RangeMaxRows
  BY ScopeFields DEF FromRow, Larger, Ranges, Positive, Height
<1>2. ASSUME NEW r \in 1 .. n, r >= FromRow(s)
      PROVE  ZipLine(1 .. n, s, r) = GridLine(s, r)
  <2>1. {q \in 1 .. n : FromRow(s) <= q /\ q <= r} = FromRow(s) .. r
    BY <1>1, <1>2 DEF Positive
  <2>2. FromRow(s) \in Int /\ r \in Int /\ FromRow(s) <= r
    BY <1>1, <1>2 DEF Positive
  <2>3. Cardinality(FromRow(s) .. r) = r - FromRow(s) + 1
    BY <2>2, FS_Interval
  <2> QED BY <2>1, <2>3 DEF ZipLine, GridLine
<1> DEFINE h == Height(s)
           m == Or(s.maxEntries, h)
<1>3. m \in 1 .. RangeMaxRows /\ h \in 1 .. RangeMaxRows
  BY <1>1, NoneAssumption DEF Or
<1>4. SidecarMaxRows(s) = Smaller(h, m) /\ ZipMaxRows(s) = m
  <2>1. Smaller(RangeMaxRows, h) = h /\ Larger(1, m) = m /\ Smaller(RangeMaxRows, m) = m
    BY <1>3 DEF Smaller, Larger, RangeMaxRows
  <2> QED BY <2>1 DEF SidecarMaxRows, ZipMaxRows
<1>5. Smaller(h, m) \in Positive /\ Smaller(h, m) <= h /\ Smaller(h, m) <= m
  BY <1>3 DEF Smaller, Positive
<1>6. ZipRows(1 .. n, s) =
        {r \in 1 .. n : r >= FromRow(s) /\ r - FromRow(s) < m /\ r <= s.range.toRow}
  <2>1. Larger(FromRow(s), s.range.toRow) = s.range.toRow
    BY <1>1 DEF Larger
  <2>2. ZipRows(1 .. n, s) =
          {r \in 1 .. n : r >= FromRow(s) /\ ZipLine(1 .. n, s, r) <= m /\ r <= s.range.toRow}
    BY <1>4, <2>1 DEF ZipRows
  <2> QED BY <1>1, <1>2, <1>3, <2>2 DEF GridLine, Positive
<1>7. ReadRows(n, s) = FromRow(s) .. FromRow(s) - 1 + Smaller(Smaller(h, m), n - FromRow(s) + 1)
  <2>1. Remaining(n, FromRow(s)) = n - FromRow(s) + 1 /\ n >= FromRow(s)
    BY <1>1, NoneAssumption DEF Remaining, Larger, Positive
  <2>2. n - FromRow(s) + 1 # None /\ h # None
    BY <1>1, <1>3, NoneAssumption DEF Positive
  <2>3. Extent(Smaller(h, m), n - FromRow(s) + 1, h) = Smaller(Smaller(h, m), n - FromRow(s) + 1)
    BY SMTT(30), <1>1, <1>3, <1>5, <2>1, <2>2 DEF Extent, Smaller, Larger, Or, Positive, RangeMaxRows
  <2> QED BY <1>4, <2>1, <2>3 DEF ReadRows
<1>8. SidecarRows(1 .. n, n, s) =
        {r \in 1 .. n : r >= FromRow(s) /\ r - FromRow(s) < m /\ r <= s.range.toRow}
  <2>1. SidecarRows(1 .. n, n, s) =
          {r \in 1 .. n : r \in ReadRows(n, s) /\ r >= FromRow(s) /\ r - FromRow(s) < Smaller(h, m)}
    BY <1>4 DEF SidecarRows, OnGridRows
  <2>2. ASSUME NEW r \in 1 .. n, r >= FromRow(s)
        PROVE  /\ r \in ReadRows(n, s) <=> r - FromRow(s) < Smaller(h, m)
               /\ r - FromRow(s) < Smaller(h, m) <=> r - FromRow(s) < m /\ r <= s.range.toRow
    <3>1. /\ FromRow(s) \in Int /\ s.range.toRow \in Int /\ r \in Int /\ r <= n
          /\ h = s.range.toRow - FromRow(s) + 1
      BY <1>1 DEF Positive
    <3>2. Smaller(h, m) \in Int
      BY <1>5 DEF Positive
    <3>3. r \in ReadRows(n, s) <=> r - FromRow(s) < Smaller(h, m)
      BY <1>7, <2>2, <3>1, <3>2 DEF Smaller
    <3>4. r - FromRow(s) < Smaller(h, m) <=> r - FromRow(s) < m /\ r <= s.range.toRow
      BY <1>3, <3>1 DEF Smaller
    <3> QED BY <3>3, <3>4
  <2> QED BY <2>1, <2>2
<1> QED BY <1>1, <1>2, <1>6, <1>8

=============================================================================
