SPECIFICATION FrameFairSpec
CONSTANTS
    NRecords = 3
    QueueLimit = 2
    Channels = {"G", "IR"}
    Infrared = "IR"
    Default <- MCDefault
    Sights <- MCSights
INVARIANTS FrameTypeOK LiveMappingUntouched CommitIsWhole ArmedOnEvidence NothingOverexposed
PROPERTIES ForeignSurvives SessionSettles
