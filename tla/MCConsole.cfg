CONSTANTS
  Terms = {t0, t1}
  NUM_ROWS = 2
  NUM_COLS = 3
  four_bit = 2
  Letters = {"a"}
  Texts <- MCTexts
  MaxLine = 2
  MaxPuts = 5
  Corners = FALSE
SYMMETRY TermsAlike
SPECIFICATION Spec
INVARIANTS  EraseUndoes
PROPERTIES ScreensSeparate ImplementsTeletypes
