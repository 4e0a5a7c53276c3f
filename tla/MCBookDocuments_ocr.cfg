SPECIFICATION BookSpec
CHECK_DEADLOCK FALSE
CONSTANTS
  Types <- MCTwoScans
  Paragraphs <- MCParagraphs
  Images = 1
  OcrTexts = {"t1", "t2"}
  Worker = {w1}
  TaskTypesRun = {"ocr", "translation_text"}
  MaxChunk = 2
PROPERTIES
  OcrIsLocked
