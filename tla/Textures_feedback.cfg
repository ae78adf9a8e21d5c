SPECIFICATION Spec
CONSTANTS
  Renderers = {r1}
  MaxTextures = 1
  MaxId = 1
  MaxPictures = 1
  MaxFrames = 3
  MaxFeedback = 2
  MaxName = 5
  MaxEvents = 1
  Scenes <- FeedbackScenes
  Trouble = {}
INVARIANTS PastFrameIsPast
CHECK_DEADLOCK FALSE
