CONSTANTS
    Images = {i1, i2}
    AMIs = {a1, a2}
    Old = Old
    None = None
SPECIFICATION Spec
INVARIANT DeletesAllCreated
