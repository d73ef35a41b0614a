CONSTANTS
    s1 = s1
    s2 = s2
    Submissions <- MCSubmissions
    Programs <- MCPrograms
SPECIFICATION Spec
PROPERTY
    FailureExplained
