CONSTANTS
  Entries <- MCEntries
  Texts <- MCTexts
  Lines <- MCLines
  Answers <- MCAnswers
  Counts <- MCCounts
  MAXIMUM_FILENAME_LENGTH = 4
  Maximum_command_length = 3
  BUFSIZE = 3
  Leftover = {"nl", "a"}
SPECIFICATION Spec
INVARIANT OutputRight
PROPERTY CommandsEnd
