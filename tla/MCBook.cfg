SPECIFICATION Spec
CHECK_DEADLOCK FALSE
CONSTANTS
  Documents = {"d1", "d2"}
  SourcesOf <- MCSourcesOf
  ChunksOf <- MCChunksOf
  Types <- MCTypes
  Paragraphs <- MCParagraphs
  Images = 2
  OcrTexts = {"t1", "t2", "blank"}
  Worker = {w1, w2}
  TaskTypesRun = {"ocr", "translation_text", "translation_manga", "chunk_retranslation", "glossary_extraction", "glossary_review"}
  MaxChunk = 1
  Term = {"name", "sign"}
  Symbolic = {"sign"}
  Remembered = {"name"}
  ChunkTexts <- MCChunkTexts
  MaxGlossaryChunk = 1
  MaxEdits = 1
  ImageFormats = {"manga", "scan"}
  Panels = {1, 2}
  Works = {1, 2}
SYMMETRY WorkerSymmetry
INVARIANTS
  DataRacesExcluded
  ChunksFollowText
  EvidenceIsLive
  GalleryIsSound
PROPERTIES
  NoLostUpdate
  TermsAreSpared
