CONSTANTS
  tagX = tagX
  tagY = tagY
  tagZ = tagZ
  Body = body
  Box = box
  None = none
  Custom = {tagX, tagY, tagZ}
  Start <- MCStart
  Marked = {tagX}
  TellsMoves = TRUE
  MaxCalls = 3
SPECIFICATION CustomElementsSpec
INVARIANT
  EverythingIsTold
PROPERTIES
  StoryIsContinuous
  ReactionsEnd
CHECK_DEADLOCK FALSE
