SPECIFICATION Spec
CHECK_DEADLOCK FALSE
CONSTANTS
  Types <- MCTypes
  Paragraphs <- MCParagraphs
  Images = 1
  OcrTexts = {"t1"}
  Worker = {w1}
  TaskTypesRun = {"ocr", "translation_text"}
  MaxChunk = 0
  Setups <- MCSetups
  Sections = {"export", "translation"}
  Files = {"f1", "f2"}
  FileKinds = {"text", "image", "pdf"}
  ExportTypes = {"subtitle", "epub"}
  Sources <- MCAll
  MaxCuts = 2
  MaxOdd = 1
  Chapters <- MCChapters
  MergedBlocks <- MCMergedBlocks
  Foreign <- MCForeign
  MaxMarkers = 4
  Archives <- MCArchives
  MaxSteps = 4
  Pages <- MCCropPages
  PageWidth = 60
  PageHeight = 40
  PadPixels = 2
INVARIANTS
  QuietHomeIsCurrent
  OffersAreSound
  CompleteIsWhole
  ImportIsMeant
  ExportsAreMeant
  LinesAreKept
  ChaptersAreKept
  CropsAreSound
