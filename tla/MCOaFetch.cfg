SPECIFICATION Spec
CONSTANTS
    LastPub = 2
    Size <- JobSize
    Tasks = {t1}
    RowSets <- OneRow
    Options <- AllOptions
INVARIANTS InstalledWhole
PROPERTIES FinishedIsInstalled ImplementsAtomicInstall
