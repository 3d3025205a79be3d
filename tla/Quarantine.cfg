SPECIFICATION Spec
CONSTANTS
    p1 = p1
    p2 = p2
    Processors <- MCProcessors
    MaxMembers = 2
    MaxBytes = 2
    Header = 1
    Uploads <- MCUploads
    Decoys <- MCDecoys
    MaxChanges = 2
    Link = Link
    None = None
SYMMETRY MCSymmetry
INVARIANTS
    TypeOK
    StoredIsCaptured
    OriginalIsGone
CHECK_DEADLOCK FALSE
