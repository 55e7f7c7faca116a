SPECIFICATION Spec
CONSTANTS
    Words <- MCWords
    Lines <- MCLines
    Envs <- MCEnvs
    Defaults <- MCDefaults
    Files <- MCFiles
    Direct = {"./a"}
    ExitCodes = {0, 9}
    EnvSlots = 5
    MaxLines = 4
INVARIANTS
    StatusOfTheCommand
    
    EnvironmentArrives
