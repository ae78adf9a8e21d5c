SPECIFICATION Spec
CONSTANTS
  Renderers = {r1}
  MaxTextures = 2
  MaxId = 2
  MaxPictures = 3
  MaxFrames = 2
  MaxFeedback = 2
  MaxName = 7
  MaxEvents = 1
  Scenes <- MCScenes
  Trouble = {}
INVARIANTS TypeOK WindowShowsPool WindowShowsFrames NoTextureLeaks
CHECK_DEADLOCK FALSE
