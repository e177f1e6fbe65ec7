SPECIFICATION Spec
CONSTANTS
  Alphabets <- MCAlphabets
  MaxChars <- MCMaxChars
CHECK_DEADLOCK FALSE
INVARIANTS
  SplitIsFields
  FormIsReadBack
  Base64IsReadBack
  BasedirIsStripped
