----------------------------- MODULE Ingestion -----------------------------
(***************************************************************************)
(* The way of a document into chunks: ParserRegistry and the parsers read  *)
(* a file into blocks, ParentChildChunker or ClauseAwareChunker cut a      *)
(* block into parents and children, of which a dataset is made.  These are *)
(* functions of their input, compared with what they promise.              *)
(*                                                                         *)
(* The text of a block is a sequence of characters of six kinds.  Of a     *)
(* heading, and of a clause's marker, only the first character has a kind  *)
(* of its own.  A chunk is the offsets it starts after and ends with; the  *)
(* ids are hashes of all that makes a chunk what it is.                    *)
(***************************************************************************)
EXTENDS RetrievalRuntime

CONSTANTS
    Files,        \* the files an ingestion may be given
    MaxFileSize,  \* max_file_size of the parsers
    Texts,        \* the texts a block may have
    Sizes         \* [parent, child, overlap] of the chunkers

ASSUME FilesAssumption ==
    /\ MaxFileSize \in Nat \ {0}
    /\ \A file \in Files : {file.size, file.written} \subseteq Nat

Blank == "blank"
Kinds == {Blank, "text", "clause", "heading1", "heading2", "heading3"}

ASSUME TextsAssumption == Texts \subseteq Seq(Kinds)

(* ParentChildChunker.__post_init__ *)
ASSUME SizesAssumption ==
    \A size \in Sizes :
        /\ size.parent \in Nat \ {0} /\ size.child \in 1..size.parent
        /\ size.overlap \in 0..(size.child - 1)

-----------------------------------------------------------------------------
(* Parsers.  A file is written to between its stat and its reading.        *)

TextSuffixes == {".txt", ".md", ".markdown"}
SupportedSuffixes == TextSuffixes \cup {".pdf"}

(* The bytes _read_source gets.                                            *)
Read(file) == Min({file.written, MaxFileSize + 1})

(* What is checked, in this order, and the error each check raises.        *)
Checks(file) ==
    <<[fails |-> file.suffix \notin SupportedSuffixes, error |-> "unsupported_type"],
      [fails |-> file.kind # "regular", error |-> "invalid_source"],
      [fails |-> file.size > MaxFileSize, error |-> "too_large"],
      [fails |-> file.content = "unreadable", error |-> "invalid_source"],
      [fails |-> Read(file) > MaxFileSize, error |-> "too_large"],
      [fails |-> file.suffix \in TextSuffixes /\ file.content = "undecodable",
       error |-> "decoding"],
      [fails |-> file.suffix = ".pdf" /\ file.content \in {"undecodable", "encrypted"},
       error |-> "parsing"]>>

Refusals(file) == {i \in DOMAIN Checks(file) : Checks(file)[i].fails}

(* A text is one block without a page; a PDF is a block for every page,    *)
(* those without a text included.                                          *)
Parse(file) ==
    IF Refusals(file) # {}
    THEN [error |-> Checks(file)[Min(Refusals(file))].error, blocks |-> <<>>]
    ELSE [error |-> "none",
          blocks |-> IF file.suffix = ".pdf"
                     THEN [i \in 1..file.pages |-> [index |-> i - 1, page |-> i]]
                     ELSE <<[index |-> 0, page |-> 0]>>]

-----------------------------------------------------------------------------
(* ParentChildChunker *)

IsBlank(text, start, end) == \A i \in (start + 1)..end : text[i] = Blank

Span(start, end) == [start |-> start, end |-> end]
Moved(span, offset) == Span(span.start + offset, span.end + offset)

(* _windows *)
Windows(length, size, overlap) ==
    LET from[start \in 0..length] ==
            IF start + size >= length THEN <<Span(start, length)>>
            ELSE <<Span(start, start + size)>> \o from[start + size - overlap]
    IN  from[0]

WrittenSpans(text, spans) ==
    Filtered(spans, {span \in Range(spans) : ~IsBlank(text, span.start, span.end)})

Child(parent, span) == [parent |-> parent, start |-> span.start, end |-> span.end]

ChildrenOf(text, size, parent) ==
    LET windows == Windows(parent.end - parent.start, size.child, size.overlap)
        spans == [i \in DOMAIN windows |-> Moved(windows[i], parent.start)]
        written == WrittenSpans(text, spans)
    IN  [i \in DOMAIN written |-> Child(parent, written[i])]

NoChunks == [parents |-> <<>>, children |-> <<>>]

ParentChild(text, size) ==
    IF IsBlank(text, 0, Len(text)) THEN NoChunks
    ELSE LET parents == WrittenSpans(text, Windows(Len(text), size.parent, 0))
         IN  [parents |-> parents,
              children |-> FlattenSeq([i \in DOMAIN parents |->
                                           ChildrenOf(text, size, parents[i])])]

-----------------------------------------------------------------------------
(* ClauseAwareChunker *)

HeadingLevel(character) ==
    CASE character = "heading1" -> 1 [] character = "heading2" -> 2
      [] character = "heading3" -> 3 [] OTHER -> 0

(* Some of a text's positions, in their order.                             *)
Positions(text, chosen) == Filtered([i \in DOMAIN text |-> i], chosen)

(* The level of the business sections: the first one below the title.      *)
BusinessLevel(text) ==
    LET levels == {HeadingLevel(text[i]) : i \in DOMAIN text} \ {0, 1}
    IN  IF levels = {} THEN 1 ELSE Min(levels)

(* _sections: what precedes the first heading belongs to its section.      *)
Sections(text) ==
    LET boundaries ==
            Positions(text, {i \in DOMAIN text : HeadingLevel(text[i]) = BusinessLevel(text)})
        count == Len(boundaries)
    IN  IF count = 0 THEN <<Span(0, Len(text))>>
        ELSE [i \in 1..count |->
                Span(IF i = 1 THEN 0 ELSE boundaries[i] - 1,
                     IF i = count THEN Len(text) ELSE boundaries[i + 1] - 1)]

SectionAt(text, position) ==
    CHOOSE section \in Range(Sections(text)) : section.start <= position /\ position < section.end

(* _clauses: up to the next marker or the end of the section.              *)
Clauses(text) ==
    LET markers == Positions(text, {i \in DOMAIN text : text[i] = "clause"})
    IN  [i \in DOMAIN markers |->
            LET end == SectionAt(text, markers[i] - 1).end
            IN  Span(markers[i] - 1, IF i = Len(markers) THEN end ELSE Min({markers[i + 1] - 1, end}))]

Within(inner, outer) == outer.start <= inner.start /\ inner.end <= outer.end

ClausesIn(text, section) ==
    Filtered(Clauses(text), {clause \in Range(Clauses(text)) : Within(clause, section)})

(* A bug: the parent that follows starts again where its section does.     *)
JoinMutant(section, size, parents, clause) ==
    LET last == parents[Len(parents)]
    IN  IF last.end > last.start /\ clause.end - last.start > size.parent
        THEN Append(parents, Span(section.start, clause.end))
        ELSE [parents EXCEPT ![Len(parents)] = Span(last.start, clause.end)]

(* A clause joins the parent that is being built or starts the next one.   *)
Join(section, size, parents, clause) ==
    LET last == parents[Len(parents)]
    IN  IF last.end > last.start /\ clause.end - last.start > size.parent
        THEN Append(parents, Span(clause.start, clause.end))
        ELSE [parents EXCEPT ![Len(parents)] = Span(last.start, clause.end)]

(* _parent_ranges: the last clause of a section ends where it does.        *)
ParentRanges(text, size, section) ==
    LET clauses == ClausesIn(text, section)
        joined[n \in 0 .. Len(clauses)] ==
            IF n = 0 THEN <<Span(section.start, section.start)>>
            ELSE Join(section, size, joined[n - 1], clauses[n])
    IN  IF clauses = <<>> THEN <<section>> ELSE joined[Len(clauses)]

(* _clause_windows; unlike those of a parent, blank ones are kept.         *)
ClauseChildren(size, parents, clause) ==
    LET parent == parents[Min({i \in DOMAIN parents : Within(clause, parents[i])})]
        windows == Windows(clause.end - clause.start, size.child, size.overlap)
    IN  [i \in DOMAIN windows |-> Child(parent, Moved(windows[i], clause.start))]

ClauseAware(text, size) ==
    IF IsBlank(text, 0, Len(text)) THEN NoChunks
    ELSE LET sections == Sections(text)
             clauses == Clauses(text)
             ranges == FlattenSeq([i \in DOMAIN sections |-> ParentRanges(text, size, sections[i])])
             parents == WrittenSpans(text, ranges)
         IN  [parents |-> parents,
              children |-> FlattenSeq([i \in DOMAIN clauses |->
                                           ClauseChildren(size, parents, clauses[i])])]

-----------------------------------------------------------------------------
Covers(spans, position) == \E i \in DOMAIN spans : spans[i].start < position /\ position <= spans[i].end

(* Chunks in the order of the text; each child in the parent it names, as  *)
(* large as it may be; parents apart, and nothing written outside of one.  *)
(* Consecutive children that share a part of the text share the overlap,   *)
(* or less of it if nothing is written there: a blank one stood between    *)
(* them and was dropped.                                                   *)
WellChunked(text, size, chunks) ==
    LET parents == chunks.parents
        children == chunks.children
    IN  /\ \A i \in DOMAIN parents, j \in DOMAIN parents : i < j => parents[i].end <= parents[j].start
        /\ \A i \in DOMAIN text : text[i] # Blank => Covers(parents, i)
        /\ \A i \in DOMAIN children :
             /\ children[i].parent \in Range(parents)
             /\ Within(children[i], children[i].parent)
             /\ children[i].end - children[i].start \in 1..size.child
        /\ \A i \in 1..(Len(children) - 1) :
             /\ children[i].start < children[i + 1].start
             /\ children[i].end > children[i + 1].start =>
                    LET shared == children[i].end - children[i + 1].start
                    IN  \/ shared = size.overlap
                        \/ /\ shared < size.overlap
                           /\ IsBlank(text, children[i].end - size.overlap, children[i].end)

FilesAreReadWhole ==
    \A file \in Files : Parse(file).error = "none" => Read(file) = file.written

ChunksLoseNothing ==
    \A text \in Texts, size \in Sizes :
        LET plain == ParentChild(text, size)
            aware == ClauseAware(text, size)
        IN  /\ WellChunked(text, size, plain)
            /\ WellChunked(text, size, aware)
            /\ \A i \in DOMAIN text : text[i] # Blank => Covers(plain.children, i)
            /\ \A i \in DOMAIN text :
                 text[i] # Blank => (Covers(Clauses(text), i) <=> Covers(aware.children, i))
            /\ \A parent \in Range(plain.parents) : parent.end - parent.start <= size.parent
            /\ \A parent \in Range(aware.parents) :
                 parent.end - parent.start > size.parent => Len(ClausesIn(text, parent)) <= 1
            /\ \A child \in Range(aware.children) :
                 \E clause \in Range(Clauses(text)) : Within(child, clause)

(* Whatever the documents of a dataset that a process reads are made of,   *)
(* and however they were cut: a file that grew since its size was checked  *)
(* is refused and never parsed in part; what is written in an accepted one *)
(* is in one parent, and in a child of it (with clauses: if a clause holds *)
(* it); a parent larger than asked for has one clause at most, and no      *)
(* child crosses a clause.                                                 *)
IngestionLosesNothing ==
    \A p \in Processes : at[p] = "data" => FilesAreReadWhole /\ ChunksLoseNothing
=============================================================================
