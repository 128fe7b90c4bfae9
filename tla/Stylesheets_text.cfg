CONSTANTS
  Size = 7
  Documents <- MCDocuments
  Sheets <- MCSheets
SPECIFICATION Spec
INVARIANTS TypeOK HeaderStaysOut AllWordsInOrder CodesUnderTheirSentence OneLinePerToken
