\* Two processes, three chunks in two corpora, one retrieval, two faults.
SPECIFICATION Spec
CONSTANTS
    p1 = p1
    p2 = p2
    q1 = q1
    Processes = {p1, p2}
    Requests = {q1}
    Chunks <- MCChunks
    Corpora <- MCCorpora
    ParentOf <- MCParentOf
    DocumentOf <- MCDocumentOf
    Scopes <- MCScopes
    Unscoped <- MCUnscoped
    RrfK = 60
    SourceTopK = 3
    RrfTopK = 2
    CandidateCount = 2
    RerankTopK = 2
    ParentTopK = 2
    EvidenceCount = 2
    MaxFaults = 2
    Files <- MCFiles
    MaxFileSize = 5
    Texts <- MCTexts
    Sizes <- MCSizes
SYMMETRY MCSymmetry
INVARIANTS
    ReadersKeepTheirCorpus
    EvidenceIsVerified
    DominatingHitsRankFirst
    IngestionLosesNothing
PROPERTIES
    CompleteIngestionVerifies
    HealthyRetrievalsAnswer
