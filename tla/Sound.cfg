SPECIFICATION Spec
CONSTANTS
  Starts <- MCStarts
  Beats = 1
INVARIANTS TypeOK PlayingHasLength
PROPERTIES NotesBegin NotesEnd
