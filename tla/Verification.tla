---------------------------- MODULE Verification ----------------------------
(* What a verification says of a candidate: the layers, the package diff that  *)
(* one of them rests on, the confidence they add up to and what the runtime     *)
(* makes of it.  A verification is one scheduler job; that its report is bound   *)
(* to the bytes it read is WriterSession's matter, here are its answers.         *)
EXTENDS Integers, Sequences, FiniteSets

CONSTANTS
    Signatures,     \* findings of the engine's validation, by schema, path and part
    Parts,          \* names of the parts of packages
    Contents,       \* what a part can hold
    Absent,         \* the part is not in the package
    Checksum,       \* [Contents -> ...]: size and CRC, what tells a change
    Canonical,      \* [Contents -> ...]: what is left after formatting is taken out
    Unreadable,     \* contents behind the comparison's limit of 8 MiB, or that fail to inflate
    Xml,            \* parts named .xml or .rels: the ones that are compared at all
    HighRisk,       \* themes, masters, layouts, styles, settings, numbering, content types
    Relationships,  \* parts named .rels
    DocProps, WordBody, SheetParts,        \* the side effects that edits are known to have
    SlideParts      \* [slide number -> its part and its relationships]

ASSUME VerificationAssumption ==
    /\ Absent \notin Contents /\ Unreadable \subseteq Contents
    /\ Relationships \subseteq Xml /\ Xml \subseteq Parts /\ HighRisk \subseteq Parts

Status == {"pass", "warn", "fail", "skipped"}

-----------------------------------------------------------------------------
(***************************************************************************)
(* L1: validation by the engine, against that of the base revision.  An     *)
(* outcome is [passed, findings], or "throws".                              *)
(***************************************************************************)
Outcomes == [passed : BOOLEAN, findings : SUBSET Signatures]
Threw == [passed |-> FALSE, findings |-> {}, threw |-> TRUE]

\* The base is validated only when there is something to compare.
NewFindings(outcome, base) == outcome.findings \ base.findings

L1(engine, outcome, base) ==
    CASE ~engine -> "skipped"
      [] engine /\ outcome = Threw -> "fail"
      [] engine /\ outcome # Threw /\ outcome.passed -> "pass"
      [] engine /\ outcome # Threw /\ ~outcome.passed ->
            IF outcome.findings = {} THEN "warn"
            ELSE IF base = Threw THEN "fail"
            ELSE IF NewFindings(outcome, base) = {} THEN "warn" ELSE "fail"

\* L3: the engine loads the root of the document.
L3(engine, answersWithMatches) ==
    IF ~engine THEN "skipped" ELSE IF answersWithMatches THEN "pass" ELSE "fail"

-----------------------------------------------------------------------------
(***************************************************************************)
(* L4: which parts changed, and whether the declared targets explain it.    *)
(* A package is a function from Parts to Contents or Absent.                *)
(***************************************************************************)
Packages == [Parts -> Contents \cup {Absent}]

\* What an edit of a target may touch besides: of a slide its part and relationships, of
\* any sheet every sheet, the shared strings, the calculation chain and the workbook.
ExpectedSideParts(targets) ==
    DocProps \cup UNION {CASE t.kind = "slide" ->
                                 IF t.number \in DOMAIN SlideParts THEN SlideParts[t.number] ELSE {}
                           [] t.kind = "sheet" -> SheetParts
                           [] t.kind = "body"  -> WordBody
                           [] t.kind = "other" -> {} : t \in targets}

Unchanged(base, candidate, part) ==
    \/ base[part] = Absent /\ candidate[part] = Absent
    \/ /\ base[part] # Absent /\ candidate[part] # Absent
       /\ Checksum[base[part]] = Checksum[candidate[part]]

\* classifyModified: of two readable XML parts whether they differ in more than format.
ClassifyModified(base, candidate, part) ==
    CASE part \notin Xml -> "UNEXPECTED_LOW_RISK"
      [] part \in Xml /\ {base[part], candidate[part]} \cap Unreadable # {} -> "UNEXPECTED_LOW_RISK"
      [] part \in Xml /\ {base[part], candidate[part]} \cap Unreadable = {} ->
            IF Canonical[base[part]] = Canonical[candidate[part]] THEN "NORMALIZATION_ONLY"
            ELSE IF part \in HighRisk THEN "UNEXPECTED_HIGH_RISK" ELSE "UNEXPECTED_LOW_RISK"

\* The class of a part that changed before relationships are looked at.
Changed(base, candidate, targets, part) ==
    CASE part \in ExpectedSideParts(targets) -> "EXPECTED"
      [] part \notin ExpectedSideParts(targets) /\ part \in HighRisk -> "UNEXPECTED_HIGH_RISK"
      [] part \notin ExpectedSideParts(targets) /\ part \notin HighRisk ->
            IF base[part] # Absent /\ candidate[part] # Absent
            THEN ClassifyModified(base, candidate, part) ELSE "UNEXPECTED_LOW_RISK"

Class(base, candidate, targets, part) ==
    IF Unchanged(base, candidate, part) THEN "UNCHANGED"
    ELSE IF part \in Relationships /\ Changed(base, candidate, targets, part) # "EXPECTED"
    THEN "UNEXPECTED_HIGH_RISK" ELSE Changed(base, candidate, targets, part)

InClass(base, candidate, targets, class) ==
    {part \in Parts : Class(base, candidate, targets, part) = class}

L4(readable, base, candidate, targets) ==
    CASE ~readable -> "fail"
      [] readable /\ InClass(base, candidate, targets, "UNEXPECTED_HIGH_RISK") # {} -> "fail"
      [] OTHER -> IF InClass(base, candidate, targets, "UNEXPECTED_LOW_RISK") # {}
                  THEN "warn" ELSE "pass"

-----------------------------------------------------------------------------
(***************************************************************************)
(* L5: the first three of the slides that the targets name are rasterised.  *)
(* A slide is "drawn", "blank" (too few bytes), "none" (no such slide or    *)
(* draw list) or "throws".                                                  *)
(***************************************************************************)
Drawings == {"drawn", "blank", "none", "throws"}

L5(engine, raster, opens, slides, drawing) ==
    LET tried == {slides[i] : i \in DOMAIN slides \cap (1 .. 3)}
    IN  CASE ~engine \/ slides = <<>> \/ ~raster -> "skipped"
          [] engine /\ slides # <<>> /\ raster /\ ~opens -> "fail"
          [] engine /\ slides # <<>> /\ raster /\ opens ->
                IF \E n \in tried : drawing[n] \in {"blank", "throws"} THEN "fail"
                ELSE IF \E n \in tried : drawing[n] = "drawn" THEN "pass" ELSE "skipped"

\* L7: a copy through the real host, where one is known to work.
HostAnswers == {"pass", "fail", "unavailable", "throws"}
L7(host, answer) ==
    CASE ~host \/ answer = "unavailable" -> "skipped"
      [] host /\ answer = "pass" -> "pass"
      [] host /\ answer \in {"fail", "throws"} -> "fail"

-----------------------------------------------------------------------------
(***************************************************************************)
(* The report and what becomes of the candidate                            *)
(***************************************************************************)
\* A result per layer; L0 is the integrity of the ZIP in the strong scan.
Results == [l0 : {"pass", "fail"}, l1 : Status, l3 : Status \ {"warn"}, l4 : Status \ {"skipped"},
            l5 : Status \ {"warn"}, l7 : Status \ {"warn"}]

Levels == <<"unverified", "structural", "engine", "visual", "consumer-certified">>

\* Each step of the ladder stands on the one below it.
Engine(r) == r.l0 = "pass" /\ r.l1 = "pass" /\ r.l3 = "pass"
Visual(r) == Engine(r) /\ r.l4 = "pass" /\ r.l5 = "pass"
Level(r) ==
    CASE r.l0 = "fail" -> 1
      [] r.l0 = "pass" /\ ~Engine(r) -> 2
      [] Engine(r) /\ ~Visual(r) -> 3
      [] Visual(r) -> IF r.l7 = "pass" THEN 5 ELSE 4
Confidence(r) == Levels[Level(r)]

StructuralStatus(r) == IF r.l0 = "fail" THEN "fail" ELSE r.l1
VisualStatus(r) == IF r.l7 = "fail" THEN "fail" ELSE r.l5

\* verifyAgentCandidate: a candidate that is not failed becomes ready for review.
BecomesReady(r) == ~(Confidence(r) = "unverified" \/ StructuralStatus(r) = "fail")

=============================================================================
