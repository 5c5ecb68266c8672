CONSTANTS
    m1 = m1
    m2 = m2
    Class = {1, 2}
    Module = {m1, m2}
    Declaration <- MCDeclaration
SPECIFICATION Spec
INVARIANTS
    TypeOK
    GeneratedIsTheMap
PROPERTIES
    MergesKeepTheMapCurrent
