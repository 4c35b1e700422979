CONSTANTS
    Config = {c1, c2, c3}
    Listed = {l1}
    Cli = Cli
    None = None
SPECIFICATION Spec
INVARIANT NoForeignUserData
