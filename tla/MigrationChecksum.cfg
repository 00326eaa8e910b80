SPECIFICATION Spec
CONSTANTS
    a = a
    B = B
    c = c
    Absent = Absent
    Partial = Partial
    Key <- MCKey
    Token = {t1, t2}
    ByteOrder <- MCByteOrder
    LocaleOrder <- MCLocaleOrder
    Importer = {i1}
INVARIANT
    AuthenticExportConverts
CHECK_DEADLOCK FALSE
