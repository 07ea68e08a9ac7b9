SPECIFICATION FilesSpec
CONSTANTS
    MaxMishaps = 2
    MaxFiles = 4
    Outdated = {{"codeowners", "verifier"}}
INVARIANTS InOrder AppliedIsReal ErrorsAreTrue
PROPERTIES DestroysOnlyWhatItSaw
