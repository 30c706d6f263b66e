SPECIFICATION DrawingSpec
CONSTANTS
  f = f
  g = g
  Topics = {putResources}
  Callbacks = {f, g}
  EmptyFunc = EmptyFunc
  MaxListeners = 4
  MaxPublish = 2
  MaxDepth = 2
  StandardFonts <- MCFonts
  Formats <- MCFormats
  OtherFormats = {banner}
  NoSize = NoSize
  Colors = {black, red}
  Black = black
  Widths = {thin, thick}
  Thin = thin
  Sizes = {sixteen, ten}
  Sixteen = sixteen
  Styles = {0, 1}
  MaxCalls = 4
  FontCount = 2
  MaxPages = 3
  MaxDrawn = 5
  MaxOutputs = 3
  MaxGroups = 4
  Groups <- MCGroups
INVARIANTS
  ListenersInStep
  
  FileReadable
  PathAsWritten
PROPERTIES
  EveryListenerReached
  DeliversWhatWasDrawn
SYMMETRY Symmetry
CHECK_DEADLOCK FALSE
