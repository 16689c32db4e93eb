SPECIFICATION ArtifactSpec
CONSTANTS
    Bits <- MCTensorTypes
    FileSizes <- MCFileSizes
    UnsafeLocations <- MCUnsafeLocations
    MaxDepth = 9
    MaxElements = 100
    EscapedNames <- MCEscapedWeights
    Schemas <- MCSchemas
    Files <- MCFiles
    EditedFiles <- MCEditedFiles
    NewNames <- MCNewNames
    AttrChoices <- MCAttrChoices
    Operators <- MCOperators
    MaxCommands = 3
    Artifacts <- MCArtifactFiles
    MaxReplacements = 2
    GgmlSizes <- MCGgmlSizes
    MemberKind <- MCMemberKind
    Leaves <- MCLeaves
CHECK_DEADLOCK FALSE
INVARIANTS
  OrderIsTopological
  ReopensAsTheDocument
  ExportsHonest
  ReloadReplays
  RangesSound
  FilesOpen
  WeightsReopen
  StagesInOrder
