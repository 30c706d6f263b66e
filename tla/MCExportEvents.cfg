SPECIFICATION EventsSpec
CONSTANTS
  Exports = {1, 2}
  MaxSvgs = 3
  ExportFormats <- MCFormats
  Renders <- MCRenders
  Savers = {1, 2}
  Names = {a, b}
  NoFile = NoFile
  Fss <- MCFss
  Renderings = {1, 2, 3}
  MaxImages = 1
  MaxEvents = 1
  Frame = 3
  Second = 4
  Base = 6
  NaN = NaN
  NotSet = NotSet
  Pictures <- MCPictures
INVARIANTS
  ExportsApart
  
  DrawnInTurn
  EndsAsItBegan
PROPERTIES
  StepsGoOn
  EventsLeadOn
CHECK_DEADLOCK FALSE
