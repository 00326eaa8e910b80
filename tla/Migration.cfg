SPECIFICATION Spec
CONSTANTS
    a = a
    B = B
    c = c
    Absent = Absent
    Partial = Partial
    Key <- MCKey
    Token = {t1, t2}
    ByteOrder <- MCByteOrder
    LocaleOrder <- MCLocaleOrder
    Importer = {i1, i2}
INVARIANTS
    TypeOK
    MigrationIsComplete
    TargetIsWhole
    ImportedIsThere
PROPERTY
    UploadsOnlyRenew
CHECK_DEADLOCK FALSE
