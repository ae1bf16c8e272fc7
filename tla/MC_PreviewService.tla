------------------------- MODULE MC_PreviewService --------------------------
(* PreviewService for TLC, and the windows of PreviewWindows evaluated around *)
(* their limits: what PreviewWindows_proofs shows for every document, and the  *)
(* documents on which the paths differ.                                        *)
EXTENDS PreviewService, PreviewWindows

TheVersions == 1 .. MaxVersion
TheProfiles == {"metadata", "full"}
TheTickets == Calls \cup (TheVersions \X Kinds)

-----------------------------------------------------------------------------
NoScope == [sheet |-> None, slide |-> None, block |-> None, range |-> None, maxEntries |-> None]
Counts == {0, 1, 2, 5, 6, 7, 39, 40, 41, 60, 199, 200, 201, 400, 401}
Caps == {None, 1, 2, 6, 7, 40, 41, 200, 500}

SlideScopes == {[NoScope EXCEPT !.slide = n, !.maxEntries = m] :
                   n \in {None, 1, 2, 6, 40, 41, 201, 300}, m \in Caps}

ASSUME SlideWindows ==
    \A s \in SlideScopes, n \in Counts :
        /\ Accepts(s) /\ s \in Scopes
        /\ SvgSlides(n, s) \subseteq EngineSlides(n, s)
        /\ ZipSlides(n, s) = {i \in EngineSlides(n, s) :
                                 i <= SvgWindowOf(n, s, EngineMaxSlides(s)).from + PptxMaxSlides}

\* A text whose paragraphs are all of one form is shown alike, however it is cut into
\* chunks; one that mixes them loses blocks that the engine shows.
Texts == {p \in [1 .. 3 -> [opens : 0 .. 1, closes : 0 .. 1, bare : BOOLEAN]] : InStreamOrder(p)}

ASSUME BlockWindows ==
    /\ \A p \in Texts : \A m \in {None, 1, 2}, b \in {None, 0, 1, 2, 3} :
          (\A i \in 1 .. 3 : p[i].bare) \/ (\A i \in 1 .. 3 : ~p[i].bare) =>
              LET s == [NoScope EXCEPT !.block = b, !.maxEntries = m]
              IN  ZipBlocks(p, s) = {i + 1 : i \in EngineBlocks(3, s)}
    /\ \E p, q \in Texts :
          /\ \A i \in 1 .. 3 : p[i].bare = q[i].bare
          /\ ZipBlocks(p, NoScope) # ZipBlocks(q, NoScope)

SheetRanges == {r \in [fromRow : {1, 3}, toRow : {1, 3, 5}, fromCol : {1, 2}, toCol : {2, 4}] :
                   r.fromRow <= r.toRow /\ r.fromCol <= r.toCol}
SheetScopes == {[NoScope EXCEPT !.range = r, !.maxEntries = m] :
                   r \in SheetRanges, m \in {None, 1, 2, 500}}

\* On a sheet without missing rows the two paths show the same rows on the same lines of
\* an explicit range; a missing row makes the ZIP path show what the sidecar does not.
ASSUME RowWindows ==
    /\ \A s \in SheetScopes, n \in 0 .. 6 :
          LET shown == IF SidecarReads(n, 4, s) THEN SidecarRows(1 .. n, n, s) ELSE {}
          IN  /\ s \in Scopes
              /\ ZipRows(1 .. n, s) = shown
              /\ \A r \in shown : ZipLine(1 .. n, s, r) = GridLine(s, r)
    /\ \E s \in SheetScopes : ZipRows({1, 2, 5}, s) # SidecarRows({1, 2, 5}, 5, s)

\* The gate lets a range pass that lacks a bound.
ASSUME GateIsOpen ==
    Accepts([NoScope EXCEPT !.range = [fromRow |-> None, toRow |-> 9, fromCol |-> 1, toCol |-> 1]])

=============================================================================
