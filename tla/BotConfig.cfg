SPECIFICATION Spec
CONSTANTS
    Keys = {1}
    Levs = {1, 2}
    DefaultRest = 1
    MaxRegs = 3
    Absent = Absent
    Torn = Torn
    NoWizard = NoWizard
    InitialFiles <- MCFiles
    InitialEnvs <- MCEnvs
    Shells <- MCShells
INVARIANTS TypeOK NeverUnlimited KeySurvives LimitsAgree RegistrationWhole
