SPECIFICATION Spec
CONSTANTS
    Masters <- SomeMasters
    Fresh = 2
    CommLossLimit = 2
INVARIANTS
    TypeOK
    CapsComplete
PROPERTIES
    RemoteJustified
    MasterFollowed
