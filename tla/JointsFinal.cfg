SPECIFICATION MCSpec
CONSTANTS
  Threads = {t1, t2}
  Users = {u1, u2}
  None = None
  Parts = {"joints"}
  torque = torque
  friction = friction
  sound = sound
  complete = complete
  broken = broken
  Joints = {j1}
  Keys = {k1}
  Bodies = {b1}
  MaxRevisions = 2
  Queries <- MCQueries
  Studies = {s1}
  DatasetCodes = {d1}
  CsvFiles <- MCCsvFiles
  Notes = {n1}
  MaxRecords = 2
  Required = {torque, friction}
  Uploads <- MCUploads
  ValidContents = {sound, complete}
  MaxPackages = 2
  MaxVersions = 2
  MaxGolden = 1
  MaxCertificates = 1
  MaxCalculations = 1
  MaxRevisionRows = 2
  MaxReleases = 1
  Questions = {q1}
  Texts = {p1, p2}
  HighConfidence = {p1}
  MaxVersion = 2
  MaxHistory = 4
  MaxInteractions = 1
  Whole = 4
  JointInputs <- MCJointInputs
  TracedInputs <- MCTracedInputs
  OllamaEnabled = TRUE
  AnthropicEnabled = TRUE
  HasAnthropicKey = TRUE
  MaxTraces = 2
  MaxReasonings = 1
  DocumentFiles <- MCDocumentFiles
  MaxDocuments = 2
  MaxEntries = 3
  Registrations = {r1, r2}
  Days = {1, 2}
  MaxTools = 2
  MaxToolStudies = 2
  BoltRecords <- MCBolts
  NutRecords <- MCNuts
  ThreadRecords <- MCThreads
  WasherRecords <- MCWashers
  FrictionRecords <- MCConditions
  CoatingIds = {"zinc"}
  LubricantIds = {"oil"}
  RegisteredStandards = {"ISO 898", "OEM"}
  AssemblyInputs <- MCInputs
  MaterialLibraries <- MCLibraries
  Requirements <- MCRequirements
  Null = Null
  DataSets <- MCDataSets
  ClassFiles <- MCClassFiles
  Ledgers <- MCLedgers
SYMMETRY MCSymmetry
PROPERTIES ApprovedIsFinal
CHECK_DEADLOCK FALSE
