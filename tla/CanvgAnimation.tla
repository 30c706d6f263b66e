---------------------------- MODULE CanvgAnimation ----------------------------
(***************************************************************************)
(* The animations of one attribute in canvg (canvg.js): animate elements   *)
(* that a loop updates frame by frame.  An animation has a begin and a     *)
(* duration, tweens from one value to another or through a list of values, *)
(* and in the end removes itself, stays as it is or starts over.           *)
(***************************************************************************)
EXTENDS Integers, Sequences

CONSTANTS
  Frame,       \* 1000 / FRAMERATE, milliseconds between two updates
  Second,      \* milliseconds of a second
  Pictures,    \* sequences of animations of the attribute
  Base,        \* the attribute's value in the document
  NaN, NotSet  \* not a number, and null

ASSUME AnimationAssumption ==
  /\ Frame \in Nat \ {0} /\ Second \in Nat \ {0} /\ Base \in Int
  /\ \A p \in Pictures : \A a \in 1 .. Len(p) :
       /\ p[a].begin.num \in Nat /\ p[a].dur.num \in Nat \ {0}
       /\ p[a].begin.unit \in {"s", "ms"} /\ p[a].dur.unit \in {"s", "ms"}
       /\ p[a].end \in {"remove", "freeze", "indefinite"}
       /\ p[a].values \in Seq(Int) /\ Len(p[a].values) >= 2
  /\ NotSet \notin Int \cup {NaN}

VARIABLES
  anims,     \* svg.Animations
  value,     \* the value of the attribute
  duration,  \* duration of each animation
  initial,   \* initialValue of each
  removed,   \* removed of each
  updated    \* whether the last frame asked for a drawing

animationVars == <<anims, value, duration, initial, removed, updated>>

All == 1 .. Len(anims)

-----------------------------------------------------------------------------
(* toMilliseconds asks for a trailing s first, which ms has as well.       *)
ToMilliseconds(time) == time.num * Second

(* begin and maxDuration.                                                  *)
Begin(a) == ToMilliseconds(anims[a].begin)

MaxDuration(a) == Begin(a) + ToMilliseconds(anims[a].dur)

(* How much of the animation is over after `time`, of its whole length.    *)
Covered(a, time) == time - Begin(a)

Whole(a) == MaxDuration(a) - Begin(a)

(* progress and calcValue: the values before and after this moment, and    *)
(* how far it is between the two.  At a value of the list itself 0 / 0 is  *)
(* not a number; neither is a value past the end of the list.              *)
TweenOfTwo(a, time) ==
  LET v == anims[a].values
  IN  v[1] + ((v[2] - v[1]) * Covered(a, time)) \div Whole(a)

TweenOfList(a, time) ==
  LET v == anims[a].values
      p == Covered(a, time) * (Len(v) - 1)
      lb == p \div Whole(a)
      part == p % Whole(a)
  IN  IF part = 0 \/ lb + 1 > Len(v) - 1 THEN NaN
      ELSE v[lb + 1] + ((v[lb + 2] - v[lb + 1]) * part) \div Whole(a)

CalcValue(a, time) ==
  IF anims[a].list THEN TweenOfList(a, time) ELSE TweenOfTwo(a, time)

(* What one update of animation a does to the attribute's value `v`.       *)
Past(a) == duration[a] > MaxDuration(a)

Repeats(a) == anims[a].end = "indefinite"

(* Mutant: initialValue is taken in every frame.                         *)
InitialEachTime(a, v) == v

Initial(a, v) == IF initial[a] = NotSet THEN v ELSE initial[a]

RemovesNow(a) == Past(a) /\ anims[a].end = "remove" /\ ~removed[a]

Rests(a) == Past(a) /\ ~Repeats(a) /\ ~RemovesNow(a)

Duration(a) ==
  IF Past(a) /\ ~Repeats(a) THEN duration[a]
  ELSE (IF Past(a) THEN 0 ELSE duration[a]) + Frame

Tweens(a) ==
  ~(Past(a) /\ ~Repeats(a)) /\ Begin(a) < Duration(a)

Update(a, v) ==
  IF RemovesNow(a) THEN Initial(a, v)
  ELSE IF Tweens(a) THEN CalcValue(a, Duration(a)) ELSE v

(* The value as animation a finds it, after the ones before it.            *)
ValueAt[a \in 1 .. Len(anims) + 1] ==
  IF a = 1 THEN value ELSE Update(a - 1, ValueAt[a - 1])

(* A frame of the loop updates all animations one after the other.         *)
Tick ==
  /\ value' = ValueAt[Len(anims) + 1]
  /\ duration' = [a \in All |-> Duration(a)]
  /\ initial' = [a \in All |-> Initial(a, ValueAt[a])]
  /\ removed' = [a \in All |-> removed[a] \/ RemovesNow(a)]
  /\ updated' = \E a \in All : RemovesNow(a) \/ Tweens(a)
  /\ UNCHANGED anims

AnimationInit ==
  /\ anims \in Pictures /\ value = Base /\ updated = FALSE
  /\ duration = [a \in All |-> 0] /\ initial = [a \in All |-> NotSet]
  /\ removed = [a \in All |-> FALSE]

(* The interval of the loop goes on.                                       *)
AnimationSpec == AnimationInit /\ [][Tick]_animationVars /\ WF_animationVars(Tick)

-----------------------------------------------------------------------------
AnimTypeOK ==
  /\ value \in Int \cup {NaN} /\ updated \in BOOLEAN
  /\ \A a \in All :
       /\ duration[a] \in 0 .. MaxDuration(a) + Frame
       /\ initial[a] \in Int \cup {NaN, NotSet}
       /\ removed[a] => Past(a) /\ anims[a].end = "remove"

(* When every animation has removed itself the attribute has the value of  *)
(* the document again, if no animation but the last one listed tweens in   *)
(* the first frame, where the ones after it take its value for the initial *)
(* one.                                                                    *)
LaterOnly == \A a \in All : a < Len(anims) => Begin(a) >= Frame

RemovedRestores ==
  LaterOnly /\ (\A a \in All : removed[a]) => value = Base

(* What animations of one attribute leave when they end.                   *)
EndsAsItBegan ==
  /\ AnimTypeOK
  /\ RemovedRestores

(* A frame that changes the attribute asks for a drawing.                  *)
ChangesAreDrawn == [][value' # value => updated']_animationVars

(* The only animation of an attribute moves it from its first value in the *)
(* direction of the second, until it starts over or removes itself.        *)
GoesForward ==
  LET v == anims[1].values
  IN  /\ Len(anims) = 1 /\ ~anims[1].list
      /\ duration'[1] > duration[1] /\ Begin(1) < duration[1]
      => IF v[1] < v[2] THEN value' >= value ELSE value' <= value

NeverBack == [][GoesForward]_animationVars

(* Animations that do not start over come to rest, and then ask for no     *)
(* more drawings; the ones that do never stop.                             *)
ComesToRest ==
  /\ (\A a \in All : ~Repeats(a)) ~>
       [](\A a \in All : Rests(a)) /\ <>[]~updated
  /\ (\E a \in All : Repeats(a)) ~> []<>updated
=============================================================================
