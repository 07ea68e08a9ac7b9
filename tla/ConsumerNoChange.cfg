SPECIFICATION FilesSpec
CONSTANTS
    MaxMishaps = 1
    MaxFiles = 4
    Outdated = {{}}
INVARIANT NoChangeIsReal
