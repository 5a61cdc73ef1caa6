------------------------- MODULE MCRetrievalRuntime -------------------------
(* Two documents with a parent each, the first with two children; one      *)
(* corpus with the first document only and one with both.  For Ingestion:  *)
(* texts of up to five characters and files on both sides of the limit.    *)
EXTENDS Ingestion

MCChunks == 1 .. 3
MCCorpora == {{1, 2}, {1, 2, 3}}
MCParentOf == <<11, 11, 12>>
MCDocumentOf == <<21, 21, 22>>
MCScopes == {{21}}
MCUnscoped == {21, 22}

MCFiles ==
    [kind : {"regular", "missing", "remote"}, suffix : {".md", ".pdf", ".doc"},
     size : {5, 6}, written : {3, 5, 6, 9}, pages : {0, 2},
     content : {"good", "unreadable", "undecodable", "encrypted"}]
TextsOver(characters) == UNION {[1..n -> characters] : n \in 1..5}
MCTexts == TextsOver({"text", "blank", "clause", "heading2", "heading3"})
               \cup TextsOver({"text", "clause", "heading1"})
MCSizes == {[parent |-> 2, child |-> 2, overlap |-> 1], [parent |-> 3, child |-> 2, overlap |-> 0],
            [parent |-> 4, child |-> 3, overlap |-> 2],
            [parent |-> 5, child |-> 3, overlap |-> 2]}

MCSymmetry == Permutations(Processes)
=============================================================================
