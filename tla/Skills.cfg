SPECIFICATION Spec
CONSTANTS
    Installers = {i1}
    Togglers = {t1}
    SkillNames <- Two
    Versions <- Numbers
    Sources <- SomeSources
    FirstRegistry <- OneInstalled
    Missing = Missing
    Broken = Broken
    Malformed = Malformed
    NoDir = NoDir
    TogglesRace = FALSE
    MaxInstalls = 3
    MaxToggles = 2
    MaxFaults = 1
    MaxCrashes = 2
PROPERTIES
    NothingDestroyed
    
    NoneVanishes
