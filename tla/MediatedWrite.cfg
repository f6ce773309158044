CONSTANTS
    Call = {c1, c2, c3}
    Data = {d1, d2}
    Inode = {i1, i2, i3}
    NoFile = NoFile
    NoBinding = NoBinding
    Torn = Torn
    MaxRaw = 1
SPECIFICATION Spec
SYMMETRY Symmetry
CONSTRAINT TwoWithRaws
INVARIANTS
    TypeOK
    AuditExact
    StaleBindingRefused
PROPERTY RegisterSpec
