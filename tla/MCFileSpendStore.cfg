SPECIFICATION Spec
CONSTANTS
    V1 = V1
    V2 = V2
    I1 = I1
    I2 = I2
    I3 = I3
    I4 = I4
    Absent = Absent
    Torn = Torn
    NoInode = NoInode
    Values <- MCValues
    Inodes <- MCInodes
INVARIANTS LoadsWhole SavedSurvives
PROPERTY ImplementsRecord
SYMMETRY MCSymmetry
