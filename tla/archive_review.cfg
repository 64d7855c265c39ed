\* One request, three drafts, two verifier records, two calls at a time.
SPECIFICATION Spec
CONSTANTS
    Requests = {r1}
    Drafts = {d1, d2, d3}
    Verifications = {v1, v2}
    Calls = {c1, c2}
    None = None
SYMMETRY Symmetry
INVARIANTS
    TypeOK
    ReferencesResolve
    VerdictIsRecorded
    RevisionsArePaired
PROPERTIES
    HistoryIsKept
