SPECIFICATION Spec
CONSTANTS
    PluginKeys = {"vad:a", "codec:b"}
    Gone = "gone"
    Registries <- MCRegistries
    MaxEntries = 3
    FrameBytes = 2
    MaxSends = 2
    Kinds <- MCKinds
    Frames <- MCFrames
    MaxTold = 3
INVARIANTS
    TypeOK
    SweepsComplete
    EndsWithoutStart
    DeafOnlyToPlugins
    LoadIsOutstanding
    ClientStory
PROPERTIES
    ImplementsLife
CHECK_DEADLOCK FALSE
