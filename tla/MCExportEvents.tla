--------------------------- MODULE MCExportEvents ---------------------------
(***************************************************************************)
(* The parts of the export chain that wait for events: an export of the    *)
(* chart, a save of a file, pictures that canvg draws on one canvas, and   *)
(* the animations of such a picture.  They share no state; working is the  *)
(* one that is checked, beside the others at rest.                         *)
(*                                                                         *)
(* Two exports of a chart of at most three elements; two saves under one   *)
(* name or two, in a browser with or without download links and a file     *)
(* system; three canvg() calls, from the page or from each other's         *)
(* callbacks, with an image and a mouse event each that wait; one or two   *)
(* animations of an attribute, with frames of 3 milliseconds and seconds   *)
(* of 4, so that an animation ends between two frames or with one.  The    *)
(* values are multiples of every duration, which keeps the tweened ones    *)
(* whole.                                                                  *)
(***************************************************************************)
EXTENDS ChartExport, FileSaver, CanvgLoop, CanvgAnimation

VARIABLE working

MCFormats == {"svg", "image/svg+xml", "png"}
MCRenders == {"browser", "canvg"}
MCFss == {"none", "webkit", "standard"}

Begins == [num : {0, 1}, unit : {"ms"}]
Durations(nums) == [num : nums, unit : {"s"}]
Endings == {"remove", "freeze", "indefinite"}
Animations ==
  [begin : Begins, dur : Durations({1, 2, 3}), list : {FALSE},
   values : {<<0, 24>>, <<48, 24>>}, end : Endings]
  \cup
  [begin : Begins, dur : Durations({2, 3}), list : {TRUE},
   values : {<<0, 24, 48>>}, end : Endings]
MCPictures == {<< >>} \cup {<<a>> : a \in Animations} \cup {<<a, b>> : a, b \in Animations}

EventsInit ==
  /\ working \in {"export", "saver", "loop", "animation"}
  /\ ExportInit /\ SaverInit /\ LoopInit /\ AnimationInit
  /\ working # "saver" => env = [saveLink |-> FALSE, fs |-> "none"]
  /\ working # "animation" <=> anims = << >>

OnExport(A) == working = "export" /\ A
             /\ UNCHANGED <<working, saverVars, loopVars, animationVars>>
OnSaver(A) == working = "saver" /\ A
             /\ UNCHANGED <<working, exportVars, loopVars, animationVars>>
OnLoop(A) == working = "loop" /\ A
             /\ UNCHANGED <<working, exportVars, saverVars, animationVars>>
OnAnimation(A) == working = "animation" /\ A
             /\ UNCHANGED <<working, exportVars, saverVars, loopVars>>

EventsNext ==
  \/ OnExport(ExportNext)
  \/ OnSaver(SaverNext)
  \/ OnLoop(LoopNext)
  \/ OnAnimation(Tick)

EventsSpec ==
  /\ EventsInit /\ [][EventsNext]_<<working, exportVars, saverVars, loopVars, animationVars>>
  /\ \A e \in Exports : WF_exportVars(OnExport(SvgImageReports(e)))
  /\ \A s \in Savers : WF_saverVars(OnSaver(Answers(s)))
  /\ WF_loopVars(OnLoop(DrawReturns))
  /\ \A r \in Renderings : /\ WF_loopVars(OnLoop(IntervalTick(r)))
                           /\ WF_loopVars(OnLoop(ImageLoaded(r)))
  /\ WF_animationVars(OnAnimation(Tick))

(* What no step may undo: a save that is done does not write again, a      *)
(* picture that was replaced is not drawn, a frame that changes the        *)
(* attribute asks for a drawing, and an animation does not move back.      *)
StepsGoOn ==
  /\ ReadyStateGoesOn
  /\ ReplacedStaysAway
  /\ ChangesAreDrawn
  /\ NeverBack

(* What events lead to in the end: exports call back or throw, saves give  *)
(* the user the blob, pictures are drawn and their events run, and         *)
(* animations come to rest unless they start over.                         *)
EventsLeadOn ==
  /\ ExportsEnd
  /\ SavesDeliver
  /\ EveryPictureDrawn
  /\ EventsRun
  /\ ComesToRest
=============================================================================
