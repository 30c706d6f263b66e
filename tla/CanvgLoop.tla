------------------------------ MODULE CanvgLoop ------------------------------
(***************************************************************************)
(* The render loop of canvg (canvg.js): every canvg() on a canvas parses a *)
(* picture, draws it once its images are there and sets an interval that   *)
(* draws it again when mouse events, animations or forceRedraw ask for it. *)
(* A renderCallback runs inside the first drawing and may call canvg() on  *)
(* the same canvas again, as the chart export does: `stack` holds the      *)
(* drawings that are waiting for their callback to return.                 *)
(***************************************************************************)
EXTENDS Naturals, Sequences, FiniteSets

CONSTANTS
  Renderings,  \* calls of canvg() on one canvas, by number
  MaxImages,   \* bound: images of a picture
  MaxEvents    \* bound: mouse events that wait at a picture

ASSUME LoopAssumption ==
  Renderings \subseteq Nat \ {0} /\ MaxImages \in Nat /\ MaxEvents \in Nat

VARIABLES
  opts,       \* what each call asked for
  svg,        \* canvas.svg: the rendering stored on the canvas, 0 for none
  listener,   \* whose Mouse the handlers of the canvas feed, 0 for nobody's
  timer,      \* the interval of each rendering: "none", "set" or "cleared"
  images,     \* how many images of each picture are not loaded
  waiting,    \* waitingForImages
  first,      \* isFirstRender
  events,     \* how many mouse events wait at each picture
  stack,      \* drawings under way: <<rendering, what comes after>>
  called,     \* how often each renderCallback was called
  shown,      \* the picture on the canvas
  inside,     \* history: renderings a callback replaced inside their canvg()
  early       \* history: renderings drawn before their images were there

loopVars == <<opts, svg, listener, timer, images, waiting, first, events, stack,
          called, shown, inside, early>>

Options == [ignoreMouse : BOOLEAN, redraws : BOOLEAN]
NoOptions == [called |-> FALSE]

LoopTypeOK ==
  /\ svg \in Renderings \cup {0} /\ listener \in Renderings \cup {0}
  /\ timer \in [Renderings -> {"none", "set", "cleared"}]
  /\ images \in [Renderings -> 0 .. MaxImages]
  /\ events \in [Renderings -> 0 .. MaxEvents]
  /\ \A r \in Renderings :
       /\ called[r] <= 1 /\ (called[r] = 1 => ~first[r])
       /\ ~waiting[r] /\ timer[r] # "none" => ~first[r]
  /\ \A i \in 1 .. Len(stack) :
       /\ stack[i] \in Renderings \X {"interval", "events"}
       /\ called[stack[i][1]] = 1
       /\ i > 1 => stack[i][2] = "interval"

LoopInit ==
  /\ opts = [r \in Renderings |-> NoOptions]
  /\ svg = 0 /\ listener = 0 /\ shown = 0
  /\ timer = [r \in Renderings |-> "none"]
  /\ images = [r \in Renderings |-> 0]
  /\ waiting = [r \in Renderings |-> TRUE]
  /\ first = [r \in Renderings |-> TRUE]
  /\ events = [r \in Renderings |-> 0]
  /\ stack = <<>> /\ called = [r \in Renderings |-> 0]
  /\ inside = {} /\ early = {}

-----------------------------------------------------------------------------
(* draw the first time: the callback starts, and what follows draw in its  *)
(* caller waits on the stack.                                              *)
FirstDraw(r, after) ==
  /\ first[r] /\ first' = [first EXCEPT ![r] = FALSE]
  /\ shown' = r
  /\ called' = [called EXCEPT ![r] = @ + 1]
  /\ stack' = Append(stack, <<r, after>>)
  /\ early' = early \cup (IF images[r] > 0 THEN {r} ELSE {})

(* draw later: nothing comes between the drawing and Mouse.runEvents.      *)
DrawAgain(r) ==
  /\ ~first[r] /\ shown' = r
  /\ events' = [events EXCEPT ![r] = 0]
  /\ UNCHANGED <<first, called, stack, early>>

(* Mutant: the interval is not cleared.                                  *)
StopNothing(timers) ==
  timers

(* stop clears the interval if its number is known by now.                 *)
Stop(timers) ==
  IF svg # 0 /\ timer[svg] = "set" THEN [timers EXCEPT ![svg] = "cleared"]
  ELSE timers

Drawing == {stack[i][1] : i \in 1 .. Len(stack)}

(* canvg() up to its first drawing, or through if it waits for images.     *)
Canvg(r, n, o) ==
  /\ opts[r] = NoOptions /\ \A q \in Renderings : q < r => opts[q] # NoOptions
  /\ svg' = r /\ opts' = [opts EXCEPT ![r] = o]
  /\ listener' = IF o.ignoreMouse THEN listener ELSE r
  /\ inside' = inside \cup
       {q \in {svg} \cap Drawing : timer[q] = "none"}
  /\ IF n = 0
     THEN /\ waiting' = [waiting EXCEPT ![r] = FALSE]
          /\ timer' = Stop(timer) /\ UNCHANGED images
          /\ FirstDraw(r, "interval")
     ELSE /\ images' = [images EXCEPT ![r] = n]
          /\ timer' = [Stop(timer) EXCEPT ![r] = "set"]
          /\ UNCHANGED <<waiting, first, stack, called, shown, early>>
  /\ UNCHANGED events

(* What follows the first drawing in canvg(): setInterval.                 *)
SetInterval(r) ==
  /\ timer' = [timer EXCEPT ![r] = "set"] /\ UNCHANGED events

(* What follows a drawing of the loop: Mouse.runEvents clears the events.  *)
RunEvents(r) ==
  /\ events' = [events EXCEPT ![r] = 0] /\ UNCHANGED timer

DrawReturns ==
  /\ stack # <<>>
  /\ LET top == stack[Len(stack)]
     IN  /\ stack' = SubSeq(stack, 1, Len(stack) - 1)
         /\ IF top[2] = "interval" THEN SetInterval(top[1])
            ELSE RunEvents(top[1])
  /\ UNCHANGED <<opts, svg, listener, images, waiting, first, called, shown,
                 inside, early>>

(* One run of the interval's function.  An animation or forceRedraw may    *)
(* or may not ask for a drawing this time.                                 *)
NeedUpdate(r, redraw) ==
  \/ waiting[r] /\ images[r] = 0
  \/ ~opts[r].ignoreMouse /\ events[r] > 0
  \/ redraw

(* Mutant: the images are asked for once.                                *)
TickForgets(r) ==
  /\ stack = <<>> /\ timer[r] = "set"
  /\ waiting' = [waiting EXCEPT ![r] = FALSE]
  /\ \E redraw \in {FALSE, opts[r].redraws} :
       IF NeedUpdate(r, redraw)
       THEN \/ FirstDraw(r, "events") /\ UNCHANGED events
            \/ DrawAgain(r)
       ELSE UNCHANGED <<first, events, stack, called, shown, early>>
  /\ UNCHANGED <<opts, svg, listener, timer, images, inside>>

IntervalTick(r) ==
  /\ stack = <<>> /\ timer[r] = "set"
  /\ waiting' = [waiting EXCEPT ![r] = @ /\ images[r] > 0]
  /\ \E redraw \in {FALSE, opts[r].redraws} :
       IF NeedUpdate(r, redraw)
       THEN \/ FirstDraw(r, "events") /\ UNCHANGED events
            \/ DrawAgain(r)
       ELSE UNCHANGED <<first, events, stack, called, shown, early>>
  /\ UNCHANGED <<opts, svg, listener, timer, images, inside>>

(* onclick and onmousemove of the canvas.                                  *)
MouseEvent ==
  /\ stack = <<>> /\ listener # 0 /\ events[listener] < MaxEvents
  /\ events' = [events EXCEPT ![listener] = @ + 1]
  /\ UNCHANGED <<opts, svg, listener, timer, images, waiting, first, stack,
                 called, shown, inside, early>>

(* onload and, in a browser with a console, onerror of an image.           *)
ImageLoaded(r) ==
  /\ stack = <<>> /\ images[r] > 0
  /\ images' = [images EXCEPT ![r] = @ - 1]
  /\ UNCHANGED <<opts, svg, listener, timer, waiting, first, events, stack,
                 called, shown, inside, early>>

LoopNext ==
  \/ \E r \in Renderings, n \in 0 .. MaxImages, o \in Options : Canvg(r, n, o)
  \/ DrawReturns \/ MouseEvent
  \/ \E r \in Renderings : IntervalTick(r) \/ ImageLoaded(r)

(* A script runs to its end, an interval that is set goes on ticking, and  *)
(* every image is reported.                                                *)
LoopSpec ==
  /\ LoopInit /\ [][LoopNext]_loopVars
  /\ WF_loopVars(DrawReturns)
  /\ \A r \in Renderings : WF_loopVars(IntervalTick(r)) /\ WF_loopVars(ImageLoaded(r))

-----------------------------------------------------------------------------
Running == {r \in Renderings : timer[r] = "set"}

(* A canvas has one loop, that of its last picture.  Only a picture that   *)
(* was replaced from within its own canvg() keeps a loop nobody can stop.  *)
OneLoop == Running \subseteq {svg} \cup inside

(* A picture that was replaced is not drawn over the one that replaced it, *)
(* with the same exception.                                                *)
NewestStays == shown' # shown => shown' = svg' \/ shown' \in inside'

ReplacedStaysAway == [][NewestStays]_loopVars

(* The renderCallback of a picture that neither mouse nor animation had    *)
(* drawn early sees it with all of its images.                             *)
CallbackSeesImages ==
  \A r \in Renderings :
    called[r] = 1 /\ images[r] > 0 =>
      r \in early /\ (opts[r].redraws \/ ~opts[r].ignoreMouse)

(* What pictures on one canvas promise: one loop runs, and a callback sees *)
(* loaded images.                                                          *)
DrawnInTurn ==
  /\ LoopTypeOK
  /\ OneLoop
  /\ CallbackSeesImages

(* Every picture is drawn, unless the canvas is given another one.         *)
EveryPictureDrawn ==
  \A r \in Renderings : svg = r ~> called[r] = 1 \/ svg # r

(* The events that wait at the picture on the canvas are run.              *)
EventsRun ==
  \A r \in Renderings : svg = r /\ events[r] > 0 ~> events[r] = 0 \/ svg # r
=============================================================================
