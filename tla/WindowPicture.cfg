SPECIFICATION PictureSpec
CONSTANTS
    Observers = {o1}
    MaxFrames = 3
INVARIANTS
    ImageNotOlder
    PaintedStill
PROPERTIES
    FrameWakes
    NewestShown
