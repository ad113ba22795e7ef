SPECIFICATION Spec
CONSTANTS
  r1 = r1
  Chapters = {1, 2}
  Scenes = {3, 4}
  Shots = {5, 6, 7}
  Story = 0
  ParentOf <- TwoChapters
  NoShot = NoShot
  Requests = {r1}
  Slow = {5}
  Asked <- Positions
  AskedSources <- Links
  MaxDepth = 4
INVARIANTS
  OrdersStayDistinct
  NoContinuityCycle
  SourceIsLive
  PlanReplacesStory
