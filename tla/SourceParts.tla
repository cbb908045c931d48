----------------------------- MODULE SourceParts -----------------------------
(* How the SourcePartPreparer divides an approved source into the parts     *)
(* that are analysed one by one.  A source is what its reader makes of it:  *)
(* the sizes of its lines or pages, the tokens of a table, the sections of  *)
(* an office document, the members of an archive.  A part names the lines,  *)
(* rows, pages or image it consists of, as its locator does.  All sizes are *)
(* bytes, scaled down.  A source that is refused has no parts; which error  *)
(* it is refused with is left out.                                          *)
EXTENDS Integers, FiniteSets, Functions, SequencesExt

CONSTANTS MaxPart,       \* bytes of a part
          PagesPerPart,  \* pages of a part
          MaxOutput,     \* parts of an office document or an archive
          MaxFrames,     \* frames of an image
          MaxMembers, MaxExpanded,  \* members of an archive, and their bytes
          Names,         \* of members and of pictures
          Documents      \* the sources there may be

(* What a reader makes of a source, by its format.  A line, a row or a page *)
(* has at least a byte; a picture is named once by a section.               *)
Tokens == {"text", "quote", "delimiter", "line"}
Positive == Nat \ {0}
Distinct(S) == {s \in Seq(S) : IsInjective(s)}
Sections == Seq([rows : Seq(Positive), images : Distinct(Names)])
Paragraphs == Seq([heading : BOOLEAN, text : Nat, images : Distinct(Names)])
Members == Seq([path : Names, unsafe : BOOLEAN, size : Nat, lines : Seq(Positive)])

Sources ==
    [format : {"text"}, lines : Seq(Positive)]
    \cup [format : {"structured"}, parses : BOOLEAN, lines : Seq(Positive)]
    \cup [format : {"tabular"}, tokens : Seq(Tokens)]
    \cup [format : {"pdf"}, pages : Seq(Positive)]
    \cup [format : {"image"}, animated : BOOLEAN, frames : Positive]
    \cup [format : {"slides", "sheets"}, sections : Sections]
    \cup [format : {"document"}, paragraphs : Paragraphs]
    \cup [format : {"legacy"}, converted : BOOLEAN, sections : Sections]
    \cup {d \in [format : {"archive"}, members : Members, previews : Distinct(Positive)] :
             ToSet(d.previews) \subseteq DOMAIN d.members}

ASSUME SourcePartsAssumption ==
    /\ {MaxPart, PagesPerPart, MaxOutput, MaxFrames, MaxMembers, MaxExpanded} \subseteq Positive
    /\ Documents \subseteq Sources

Overlap == 2
Untitled == 1
Selected == 3
Refused == <<>>

Size(sizes, i, j) == FoldFunctionOnSet(LAMBDA s, sum : s + sum, 0, sizes, i..j)

(* Part `of' a section or a member, 0 if the source has none: consecutive   *)
(* units, of which the first `overlap' were in the part before, or an image.*)
Units(first, last, overlap) ==
    [of |-> 0, kind |-> "units", first |-> first, last |-> last, overlap |-> overlap]
Picture(n) == [of |-> 0, kind |-> "image", first |-> n, last |-> n, overlap |-> 0]

(* The elements of s at certain positions, in their order.                  *)
Picked(s, positions) ==
    LET picked[i \in 0..Len(s)] ==
            IF i = 0 THEN <<>>
            ELSE IF i \in positions THEN Append(picked[i-1], s[i]) ELSE picked[i-1]
    IN  picked[Len(s)]

Within(of, parts) == [i \in DOMAIN parts |-> [parts[i] EXCEPT !.of = of]]

-----------------------------------------------------------------------------
(* Lines are packed into a part until the next does not fit; the next part  *)
(* starts with up to `most' of the last lines again, if they leave room.    *)

Packing(parts, first, size, overlap) ==
    [parts |-> parts, first |-> first, size |-> size, overlap |-> overlap]

(* Mutant: the lines are taken again whether or not they leave room.        *)
KeptAlways(sizes, i, first, most) ==
    IF most < i - first THEN most ELSE i - first

Kept(sizes, i, first, most) ==
    IF most >= 2 /\ i - first >= 2 /\ sizes[i-2] + sizes[i-1] + sizes[i] <= MaxPart THEN 2
    ELSE IF most >= 1 /\ i - first >= 1 /\ sizes[i-1] + sizes[i] <= MaxPart THEN 1 ELSE 0

KeptSize(sizes, i, kept) ==
    CASE kept = 2 -> sizes[i-2] + sizes[i-1] [] kept = 1 -> sizes[i-1] [] OTHER -> 0

Staged(acc, i) == Append(acc.parts, Units(acc.first, i - 1, acc.overlap))

AddUnit(sizes, acc, i, most) ==
    IF acc.first < i /\ acc.size + sizes[i] > MaxPart
    THEN LET kept == Kept(sizes, i, acc.first, most)
         IN  Packing(Staged(acc, i), i - kept, KeptSize(sizes, i, kept) + sizes[i], kept)
    ELSE Packing(acc.parts, acc.first, acc.size + sizes[i], acc.overlap)

Packed(sizes, most) ==
    LET pack[i \in 0..Len(sizes)] ==
            IF i = 0 THEN Packing(<<>>, 1, 0, 0) ELSE AddUnit(sizes, pack[i-1], i, most)
    IN  IF sizes = <<>> \/ \E i \in DOMAIN sizes : sizes[i] > MaxPart THEN Refused
        ELSE Staged(pack[Len(sizes)], Len(sizes) + 1)

TextParts(lines) == Packed(lines, Overlap)

(* Structured data has to be well formed, and no more than four parts long. *)
StructuredParts(parses, lines) ==
    IF parses /\ Size(lines, 1, Len(lines)) <= 4 * MaxPart THEN TextParts(lines) ELSE Refused

-----------------------------------------------------------------------------
(* The rows of a table end at the line ends that are not quoted.            *)

NextMode(tokens, i, mode) ==
    LET t == tokens[i]
        ends == t \in {"delimiter", "line"}
        doubled == i < Len(tokens) /\ tokens[i+1] = "quote"
    IN  CASE mode = "malformed" -> "malformed"
          [] mode = "escape" -> "quoted"
          [] mode = "quoted" ->
               IF t # "quote" THEN "quoted" ELSE IF doubled THEN "escape" ELSE "closed"
          [] mode = "start" -> IF ends THEN "start" ELSE IF t = "quote" THEN "quoted" ELSE "field"
          [] mode = "field" -> IF ends THEN "start" ELSE IF t = "quote" THEN "malformed" ELSE "field"
          [] mode = "closed" -> IF ends THEN "start" ELSE "malformed"

Modes(tokens) ==
    LET mode[i \in 0..Len(tokens)] ==
            IF i = 0 THEN "start" ELSE NextMode(tokens, i, mode[i-1])
    IN  mode

RowEnds(tokens) ==
    {i \in DOMAIN tokens :
        \/ i = Len(tokens)
        \/ tokens[i] = "line" /\ Modes(tokens)[i-1] \notin {"quoted", "escape"}}

Malformed(tokens) == Modes(tokens)[Len(tokens)] \in {"malformed", "quoted"}

Reading(rows, size) == [rows |-> rows, size |-> size]

RowSizes(tokens) ==
    LET read[i \in 0..Len(tokens)] ==
            IF i = 0 THEN Reading(<<>>, 0)
            ELSE IF i \in RowEnds(tokens)
            THEN Reading(Append(read[i-1].rows, read[i-1].size + 1), 0)
            ELSE Reading(read[i-1].rows, read[i-1].size + 1)
    IN  read[Len(tokens)].rows

TabularParts(tokens) == IF Malformed(tokens) THEN Refused ELSE Packed(RowSizes(tokens), 0)

-----------------------------------------------------------------------------
(* A part of a PDF file has at most PagesPerPart pages; a range that is too *)
(* large is halved until it fits.                                           *)

Halved(pages, start, end) ==
    LET fit[e \in start..end] ==
            IF e = start \/ Size(pages, start + 1, e) <= MaxPart THEN e
            ELSE IF e - start = 1 THEN start
            ELSE fit[start + (e - start) \div 2]
    IN  fit[end]

PageRange(pages, start) ==
    Halved(pages, start, IF start + PagesPerPart < Len(pages) THEN start + PagesPerPart ELSE Len(pages))

PdfParts(pages) ==
    LET from[start \in 0..Len(pages)] ==
            LET end == PageRange(pages, start)
            IN  <<Units(start + 1, end, 0)>> \o (IF end \in {start, Len(pages)} THEN <<>> ELSE from[end])
        parts == from[0]
    IN  IF \E i \in DOMAIN parts : parts[i].last < parts[i].first THEN Refused ELSE parts

-----------------------------------------------------------------------------
(* The first, the middle and the last come first, then the others: of the   *)
(* frames of an animation, only those three; of the parts of a source, all, *)
(* which gives each its rank.                                               *)

RepresentativeOrdinals(n) ==
    IF n <= 2 THEN [i \in 1..n |-> i - 1]
    ELSE <<0, n \div 2, n - 1>> \o [i \in 1..n - 3 |-> IF i < n \div 2 THEN i ELSE i + 1]

ImageParts(animated, frames) ==
    IF frames > MaxFrames THEN Refused
    ELSE IF ~animated \/ frames = 1 THEN <<Picture(1)>>
    ELSE LET order == RepresentativeOrdinals(frames)
         IN  [i \in 1..(IF Len(order) < Selected THEN Len(order) ELSE Selected) |-> Picture(order[i] + 1)]

-----------------------------------------------------------------------------
(* A document has the text of its headings and paragraphs; a heading starts *)
(* a section, as does what comes before the first one.                      *)

Section(sections, rows, images, titled) ==
    [sections |-> sections, rows |-> rows, images |-> images, titled |-> titled]

Finished(acc) ==
    IF acc.titled \/ acc.rows # <<Untitled>> \/ acc.images # <<>>
    THEN Append(acc.sections, [rows |-> acc.rows, images |-> acc.images]) ELSE acc.sections

AddParagraph(acc, p) ==
    LET heading == p.heading /\ p.text # 0
        begun == IF heading THEN Section(Finished(acc), <<p.text>>, <<>>, TRUE)
                 ELSE IF p.text # 0 THEN [acc EXCEPT !.rows = Append(@, p.text)] ELSE acc
        new == {i \in DOMAIN p.images : p.images[i] \notin ToSet(begun.images)}
    IN  [begun EXCEPT !.images = @ \o Picked(p.images, new)]

DocumentSections(paragraphs) ==
    LET read[i \in 0..Len(paragraphs)] ==
            IF i = 0 THEN Section(<<>>, <<Untitled>>, <<>>, FALSE)
            ELSE AddParagraph(read[i-1], paragraphs[i])
    IN  Finished(read[Len(paragraphs)])

(* A slide or a section is one part, a sheet as many as its rows need; then *)
(* come its images that no section before it has shown.                     *)

SlideText(rows) ==
    IF rows = <<>> \/ Size(rows, 1, Len(rows)) > MaxPart THEN Refused
    ELSE <<Units(1, Len(rows), 0)>>

SheetText(rows) == Packed(rows, 0)

SectionText(sheets, rows) == IF sheets THEN SheetText(rows) ELSE SlideText(rows)

TooLarge(sheets, rows) == rows # <<>> /\ SectionText(sheets, rows) = Refused

Shown(sections, s) == UNION {ToSet(sections[before].images) : before \in 1..s - 1}

SectionImages(sections, s) ==
    LET images == sections[s].images
    IN  Picked([n \in DOMAIN images |-> Picture(n)],
               {n \in DOMAIN images : images[n] \notin Shown(sections, s)})

SectionParts(sheets, sections, s) ==
    Within(s, SectionText(sheets, sections[s].rows) \o SectionImages(sections, s))

OfficeParts(sheets, sections) ==
    LET all == FlattenSeq([s \in DOMAIN sections |-> SectionParts(sheets, sections, s)])
    IN  IF (\E s \in DOMAIN sections : TooLarge(sheets, sections[s].rows)) \/ Len(all) > MaxOutput
        THEN Refused ELSE all

(* An old document is converted first, if there is a converter.             *)
LegacyParts(converted, sections) == IF converted THEN OfficeParts(FALSE, sections) ELSE Refused

-----------------------------------------------------------------------------
(* The members of an archive are inspected in order; the inspection ends    *)
(* with the one that makes it too large.                                    *)

Expanded(members, i) == Size([j \in DOMAIN members |-> members[j].size], 1, i)

MemberFails(members, i) ==
    \/ members[i].unsafe
    \/ Expanded(members, i) > MaxExpanded
    \/ \E j \in 1..i - 1 : members[j].path = members[i].path

Inspected(members) ==
    {i \in DOMAIN members : \A j \in 1..i - 1 : Expanded(members, j) <= MaxExpanded}

ArchiveUnsafe(members) ==
    \/ members = <<>> \/ Len(members) > MaxMembers
    \/ \E i \in Inspected(members) : MemberFails(members, i)

MemberParts(members, i) == Within(i, TextParts(members[i].lines))

ArchiveParts(members, previews) ==
    LET all == FlattenSeq([n \in DOMAIN previews |-> MemberParts(members, previews[n])])
    IN  IF \/ previews = <<>> \/ ArchiveUnsafe(members)
           \/ \E n \in DOMAIN previews : MemberParts(members, previews[n]) = Refused
           \/ Len(all) > MaxOutput
        THEN Refused ELSE all

-----------------------------------------------------------------------------
(* prepare: the parts of a source, each with its ordinal, in the order of   *)
(* their ranks.                                                             *)

PartsOf(d) ==
    CASE d.format = "text" -> TextParts(d.lines)
      [] d.format = "structured" -> StructuredParts(d.parses, d.lines)
      [] d.format = "tabular" -> TabularParts(d.tokens)
      [] d.format = "pdf" -> PdfParts(d.pages)
      [] d.format = "image" -> ImageParts(d.animated, d.frames)
      [] d.format \in {"slides", "sheets"} -> OfficeParts(d.format = "sheets", d.sections)
      [] d.format = "document" -> OfficeParts(FALSE, DocumentSections(d.paragraphs))
      [] d.format = "legacy" -> LegacyParts(d.converted, d.sections)
      [] d.format = "archive" -> ArchiveParts(d.members, d.previews)
      [] OTHER -> Refused

Prepared(d) ==
    LET parts == PartsOf(d)
        order == RepresentativeOrdinals(Len(parts))
    IN  [rank \in DOMAIN order |-> [ordinal |-> order[rank], part |-> parts[order[rank] + 1]]]

-----------------------------------------------------------------------------
(* What the parts of a source are to be, said without the algorithms.       *)

UnitsOfPart(p) == p.last - p.first + 1

(* Consecutive parts that take in every unit once, apart from an overlap    *)
(* with the part before; none is too large, none could have taken in more.  *)
Covers(sizes, parts, most) ==
    IF sizes = <<>> \/ \E i \in DOMAIN sizes : sizes[i] > MaxPart THEN parts = Refused
    ELSE /\ parts # <<>> /\ parts[1].first = 1 /\ parts[1].overlap = 0
         /\ parts[Len(parts)].last = Len(sizes)
         /\ \A k \in DOMAIN parts :
               /\ Size(sizes, parts[k].first, parts[k].last) <= MaxPart
               /\ parts[k].overlap \in 0..most /\ parts[k].overlap < UnitsOfPart(parts[k])
               /\ k > 1 => /\ parts[k].first + parts[k].overlap = parts[k-1].last + 1
                          /\ parts[k].first >= parts[k-1].first
                          /\ Size(sizes, parts[k-1].first, parts[k-1].last + 1) > MaxPart

Quotes(tokens, i, j) == Cardinality({k \in i..j : tokens[k] = "quote"})
Even(n) == n % 2 = 0

(* A line or field ends outside of quotes, after an even number of them.  A *)
(* table is well quoted if all its quotes are closed and no field that has  *)
(* quotes has any text outside of them.                                     *)
Ends(tokens, kinds) == {i \in DOMAIN tokens : tokens[i] \in kinds /\ Even(Quotes(tokens, 1, i))}
SameField(tokens, i, k) ==
    \A e \in Ends(tokens, {"delimiter", "line"}) : ~(i <= e /\ e <= k) /\ ~(k <= e /\ e <= i)
WellQuoted(tokens) ==
    /\ Even(Quotes(tokens, 1, Len(tokens)))
    /\ \A i, k \in DOMAIN tokens :
          tokens[i] = "quote" /\ tokens[k] # "quote" /\ SameField(tokens, i, k)
             => ~Even(Quotes(tokens, 1, k))

TableCovered(tokens, parts) ==
    LET ends == Ends(tokens, {"line"}) \cup (DOMAIN tokens \cap {Len(tokens)})
        End(r) == CHOOSE e \in ends : Cardinality({f \in ends : f <= e}) = r
        sizes == [r \in 1..Cardinality(ends) |-> IF r = 1 THEN End(1) ELSE End(r) - End(r-1)]
    IN  IF WellQuoted(tokens) THEN Covers(sizes, parts, 0) ELSE parts = Refused

PagesCovered(pages, parts) ==
    IF pages = <<>> \/ \E i \in DOMAIN pages : pages[i] > MaxPart THEN parts = Refused
    ELSE /\ parts # <<>> /\ parts[1].first = 1 /\ parts[Len(parts)].last = Len(pages)
         /\ \A k \in DOMAIN parts :
               /\ UnitsOfPart(parts[k]) \in 1..PagesPerPart
               /\ Size(pages, parts[k].first, parts[k].last) <= MaxPart
               /\ k > 1 => parts[k].first = parts[k-1].last + 1

FramesChosen(animated, frames, parts) ==
    LET shown == {parts[i].first : i \in DOMAIN parts}
    IN  IF frames > MaxFrames THEN parts = Refused
        ELSE IF animated THEN shown = {1, frames \div 2 + 1, frames} /\ Cardinality(shown) = Len(parts)
        ELSE Len(parts) = 1

(* The text of every section, in the order of the sections, and every image *)
(* once, in the section that shows it first.                                *)
OfficeCovered(sheets, sections, parts) ==
    LET Text(s) == Picked(parts, {i \in DOMAIN parts : parts[i].of = s /\ parts[i].kind = "units"})
        Media(p) == sections[p.of].images[p.first]
        images == {i \in DOMAIN parts : parts[i].kind = "image"}
    IN  parts # Refused =>
          /\ Len(parts) <= MaxOutput
          /\ \A i, j \in DOMAIN parts : i < j => parts[i].of <= parts[j].of
          /\ \A s \in DOMAIN sections : sections[s].rows # <<>> =>
                IF sheets THEN Covers(sections[s].rows, Within(0, Text(s)), 0)
                ELSE Text(s) = <<[Units(1, Len(sections[s].rows), 0) EXCEPT !.of = s]>>
          /\ \A s \in DOMAIN sections : \A m \in ToSet(sections[s].images) :
                \E i \in images : Media(parts[i]) = m /\ parts[i].of <= s
          /\ \A i, j \in images : Media(parts[i]) = Media(parts[j]) => i = j

(* As many text parts as there are headings with text, and one more if      *)
(* something comes before the first; together they have all the paragraphs. *)
DocumentCovered(paragraphs, parts) ==
    LET text == Picked(parts, {i \in DOMAIN parts : parts[i].kind = "units"})
        Begins(i) == paragraphs[i].heading /\ paragraphs[i].text # 0
        headings == {i \in DOMAIN paragraphs : Begins(i)}
        before == {i \in DOMAIN paragraphs : \A h \in headings : i < h}
        preface == \E i \in before : paragraphs[i].text # 0 \/ paragraphs[i].images # <<>>
        untitled == IF preface THEN 1 ELSE 0
        texts == {i \in DOMAIN paragraphs : paragraphs[i].text # 0}
        media == UNION {ToSet(paragraphs[i].images) : i \in DOMAIN paragraphs}
    IN  parts # Refused =>
          /\ Len(parts) <= MaxOutput /\ Len(text) = Cardinality(headings) + untitled
          /\ Len(parts) - Len(text) = Cardinality(media)
          /\ Size([k \in DOMAIN text |-> UnitsOfPart(text[k])], 1, Len(text))
                = Cardinality(texts) + untitled

(* The approved members one after the other, if every member of the archive *)
(* has a path of its own, is safe and within the limits.                    *)
MembersCovered(members, previews, parts) ==
    LET Of(i) == Within(0, Picked(parts, {k \in DOMAIN parts : parts[k].of = i}))
    IN  parts # Refused =>
          /\ Len(parts) <= MaxOutput /\ Len(members) <= MaxMembers
          /\ \A i, j \in DOMAIN members : i # j => members[i].path # members[j].path
          /\ \A i \in DOMAIN members : ~members[i].unsafe
          /\ Size([i \in DOMAIN members |-> members[i].size], 1, Len(members)) <= MaxExpanded
          /\ \A i \in ToSet(previews) : Covers(members[i].lines, Of(i), Overlap)
          /\ {p.of : p \in ToSet(parts)} = ToSet(previews)

Rejoins(d, parts) ==
    CASE d.format = "text" -> Covers(d.lines, parts, Overlap)
      [] d.format = "structured" ->
           IF d.parses /\ Size(d.lines, 1, Len(d.lines)) <= 4 * MaxPart
           THEN Covers(d.lines, parts, Overlap) ELSE parts = Refused
      [] d.format = "tabular" -> TableCovered(d.tokens, parts)
      [] d.format = "pdf" -> PagesCovered(d.pages, parts)
      [] d.format = "image" -> FramesChosen(d.animated, d.frames, parts)
      [] d.format \in {"slides", "sheets"} -> OfficeCovered(d.format = "sheets", d.sections, parts)
      [] d.format = "legacy" -> (~d.converted /\ parts = Refused) \/ OfficeCovered(FALSE, d.sections, parts)
      [] d.format = "document" -> DocumentCovered(d.paragraphs, parts)
      [] d.format = "archive" -> MembersCovered(d.members, d.previews, parts)
      [] OTHER -> parts = Refused

(* Every part once, with a rank of its own.                                 *)
Ranked(parts, ranked) ==
    /\ Len(ranked) = Len(parts)
    /\ {r.ordinal : r \in ToSet(ranked)} = 0..Len(parts) - 1
    /\ \A r \in ToSet(ranked) : r.part = parts[r.ordinal + 1]
    /\ Len(parts) > 2 => ranked[2].ordinal = Len(parts) \div 2 /\ ranked[3].ordinal = Len(parts) - 1
=============================================================================
