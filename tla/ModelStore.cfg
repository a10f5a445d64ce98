SPECIFICATION Spec
CONSTANTS
    None = None
    MaxStep = 1
    MaxProject = 2
    MaxMail = 1
    Replacements <- NewOrImport
INVARIANTS
    StoreInv
    OneExportAtATime
    SaverCatchesUp
PROPERTIES
    SaverComesToRest
