\* Two changes of the tree or the compiler: a file goes and comes back, or
\* changes around an update of the compiler.
SPECIFICATION Spec
CONSTANTS
    old = old
    new = new
    matrix = matrix
    Absent = Absent
    Comps = {add, mul}
    Fragments = {types, head}
    Versions = {v1, v2}
    Extensions = {matrix}
    Compilers = {old, new}
    Accepts <- MCAccepts
    MaxChanges = 2
SYMMETRY Alike
INVARIANTS
    TypeOK
    OutputsAreCurrent
    VariantsAgree
    ClaimsAreVerified
