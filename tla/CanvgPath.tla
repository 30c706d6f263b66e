------------------------------ MODULE CanvgPath ------------------------------
(***************************************************************************)
(* The parser of path data in canvg (canvg.js).  A command letter is       *)
(* followed by any number of groups of coordinates, relative if it is in   *)
(* lower case; every group draws a segment, puts it in the bounding box    *)
(* and leaves a marker.  Beside the path itself, `abs` is parsed from the  *)
(* same path written out: one group to a command, all of it absolute.      *)
(***************************************************************************)
EXTENDS Integers, Sequences

CONSTANTS
  Groups,    \* for each letter, the groups of coordinates it may be given
  MaxGroups  \* bound: groups of a path

Letters == {"M", "L", "H", "V", "C", "S", "Q", "T", "Z"}

ASSUME PathAssumption ==
  /\ MaxGroups \in Nat
  /\ \A c \in Letters \ {"Z"} : \A g \in Groups[c] :
       /\ g \in Seq(Int \X Int)
       /\ Len(g) = IF c = "C" THEN 3 ELSE IF c \in {"S", "Q"} THEN 2 ELSE 1

VARIABLES
  pp,      \* the PathParser of the path, and what its path() has done
  abs,     \* that of the path written out
  taken,   \* groups read since the last command
  plain,   \* history: no S or T took two groups after a command but a curve
  moved    \* history: a moveto took a third group

pathVars == <<pp, abs, taken, plain, moved>>

NoAngle == <<>>

(* reset(): no command has been read; "none" is the code's empty string.   *)
Fresh ==
  [command |-> "none", relative |-> FALSE, previous |-> "none", start |-> <<0, 0>>,
   control |-> <<0, 0>>, current |-> <<0, 0>>, points |-> <<>>,
   angles |-> <<>>, drawn |-> <<>>, boxed |-> {}]

Plus(p, q) == <<p[1] + q[1], p[2] + q[2]>>

-----------------------------------------------------------------------------
(* nextCommand and makeAbsolute.                                           *)
NextCommand(p, c, relative) ==
  [p EXCEPT !.previous = p.command, !.command = c, !.relative = relative]

MakeAbsolute(p, point) == IF p.relative THEN Plus(point, p.current) ELSE point

(* getReflectedControlPoint.                                               *)
Curves == {"C", "S", "Q", "T"}

ReflectedControlPoint(p) ==
  IF p.previous \notin Curves THEN p.current
  ELSE <<2 * p.current[1] - p.control[1], 2 * p.current[2] - p.control[2]>>

(* addMarker: an angle is left open where there is no point to come from,  *)
(* and settled by the next curve.  Angles are the points they go between.  *)
AddMarker(p, point, from, priorTo) ==
  LET last == Len(p.angles)
      settled ==
        IF priorTo # NoAngle /\ last > 0 /\ p.angles[last] = NoAngle
        THEN [p.angles EXCEPT ![last] = <<p.points[last], priorTo>>]
        ELSE p.angles
      angle == IF from = NoAngle THEN NoAngle ELSE <<from, point>>
  IN  [p EXCEPT !.points = Append(@, point),
                !.angles = Append(settled, angle)]

(* addPoint of the bounding box, and what it is told of a curve: its four  *)
(* points, in the order addBezierCurve takes them.                         *)
AddPoint(point) == {<<point>>}

AddBezierCurve(a, b, c, d) == {<<a, b, c, d>>}

(* addQuadraticCurve makes a cubic curve of it and hands over the          *)
(* coordinates of the two control points in the wrong order.               *)
Third(p0, p1, n) == <<p0[1] + (n * (p1[1] - p0[1])) \div 3,
                      p0[2] + (n * (p1[2] - p0[2])) \div 3>>

AddQuadraticCurve(p0, p1, p2) ==
  LET cp1 == Third(p0, p1, 2)
      cp2 == <<cp1[1] + (p2[1] - p0[1]) \div 3,
               cp1[2] + (p2[2] - p0[2]) \div 3>>
  IN  AddBezierCurve(p0, <<cp1[1], cp2[1]>>, <<cp1[2], cp2[2]>>, p2)

Drawn(p, op, points, box) ==
  [p EXCEPT !.drawn = Append(@, [op |-> op, points |-> points]),
            !.boxed = @ \cup box]

(* The cases of path(), for one group of coordinates.                      *)
MoveTo(p, g) ==
  LET to == MakeAbsolute(p, g[1])
  IN  [Drawn(AddMarker(p, to, NoAngle, NoAngle), "move", <<to>>, AddPoint(to))
         EXCEPT !.current = to, !.start = to]

(* Further groups of a moveto are lines; their markers come from the start.*)
LineOn(p, g) ==
  LET to == MakeAbsolute(p, g[1])
  IN  [Drawn(AddMarker(p, to, p.start, NoAngle), "line", <<to>>, AddPoint(to))
         EXCEPT !.current = to]

LineFromHere(p, to) ==
  [Drawn(AddMarker(p, to, p.current, NoAngle), "line", <<to>>, AddPoint(to))
     EXCEPT !.current = to]

LineTo(p, g) == LineFromHere(p, MakeAbsolute(p, g[1]))

Horizontal(p, g) ==
  LineFromHere(p, <<MakeAbsolute(p, g[1])[1], p.current[2]>>)

Vertical(p, g) ==
  LineFromHere(p, <<p.current[1], MakeAbsolute(p, g[1])[2]>>)

(* Mutant: the control points are in the wrong order.                    *)
BezierSwapped(p, p1, cntrl, cp) ==
  [Drawn(AddMarker(p, cp, cntrl, p1), "curve", <<p1, cntrl, cp>>,
         AddBezierCurve(p.current, cntrl, p1, cp))
     EXCEPT !.control = cntrl, !.current = cp]

Bezier(p, p1, cntrl, cp) ==
  [Drawn(AddMarker(p, cp, cntrl, p1), "curve", <<p1, cntrl, cp>>,
         AddBezierCurve(p.current, p1, cntrl, cp))
     EXCEPT !.control = cntrl, !.current = cp]

CurveTo(p, g) ==
  Bezier(p, MakeAbsolute(p, g[1]), MakeAbsolute(p, g[2]),
         MakeAbsolute(p, g[3]))

SmoothCurveTo(p, g) ==
  Bezier(p, ReflectedControlPoint(p), MakeAbsolute(p, g[1]),
         MakeAbsolute(p, g[2]))

Quadratic(p, cntrl, cp) ==
  [Drawn(AddMarker(p, cp, cntrl, cntrl), "quadratic", <<cntrl, cp>>,
         AddQuadraticCurve(p.current, cntrl, cp))
     EXCEPT !.control = cntrl, !.current = cp]

QuadraticTo(p, g) ==
  Quadratic(p, MakeAbsolute(p, g[1]), MakeAbsolute(p, g[2]))

SmoothQuadraticTo(p, g) ==
  Quadratic(p, ReflectedControlPoint(p), MakeAbsolute(p, g[1]))

ClosePath(p) == [Drawn(p, "close", <<>>, {}) EXCEPT !.current = p.start]

Group(p, g, nth) ==
  CASE p.command = "M" -> IF nth = 0 THEN MoveTo(p, g) ELSE LineOn(p, g)
    [] p.command = "L" -> LineTo(p, g)
    [] p.command = "H" -> Horizontal(p, g)
    [] p.command = "V" -> Vertical(p, g)
    [] p.command = "C" -> CurveTo(p, g)
    [] p.command = "S" -> SmoothCurveTo(p, g)
    [] p.command = "Q" -> QuadraticTo(p, g)
    [] p.command = "T" -> SmoothQuadraticTo(p, g)

-----------------------------------------------------------------------------
PathInit ==
  pp = Fresh /\ abs = Fresh /\ taken = 0 /\ plain = TRUE /\ moved = FALSE

(* A path begins with a moveto, and a command other than z has a group.    *)
MayFollow(c) ==
  /\ pp.command = "none" => c = "M"
  /\ pp.command \notin {"none", "Z"} => taken > 0

ReadCommand(c, relative) ==
  /\ MayFollow(c) /\ c # "Z" /\ Len(pp.points) < MaxGroups
  /\ pp' = NextCommand(pp, c, relative) /\ taken' = 0
  /\ UNCHANGED <<abs, plain, moved>>

ReadClose(relative) ==
  /\ MayFollow("Z") /\ pp.command # "Z"
  /\ pp' = ClosePath(NextCommand(pp, "Z", relative))
  /\ abs' = ClosePath(NextCommand(abs, "Z", FALSE))
  /\ taken' = 0 /\ UNCHANGED <<plain, moved>>

(* The written-out path repeats the letter, or l for a moveto's lines.     *)
Explicit(c, nth) == IF c = "M" /\ nth > 0 THEN "L" ELSE c

ReadGroup ==
  /\ pp.command \notin {"none", "Z"} /\ Len(pp.points) < MaxGroups
  /\ \E g \in Groups[pp.command] :
       /\ pp' = Group(pp, g, taken)
       /\ abs' = Group(NextCommand(abs, Explicit(pp.command, taken), FALSE),
                       [i \in DOMAIN g |-> MakeAbsolute(pp, g[i])], 0)
  /\ taken' = taken + 1
  /\ plain' = (plain /\ ~(taken > 0 /\ pp.command \in {"S", "T"}
                           /\ pp.previous \notin Curves))
  /\ moved' = (moved \/ (taken > 1 /\ pp.command = "M"))

PathNext ==
  \/ \E c \in Letters, relative \in BOOLEAN : ReadCommand(c, relative)
  \/ \E relative \in BOOLEAN : ReadClose(relative)
  \/ ReadGroup

PathSpec == PathInit /\ [][PathNext]_pathVars

-----------------------------------------------------------------------------
EndOf(segment) == segment.points[Len(segment.points)]

PathTypeOK ==
  /\ pp.command \in Letters \cup {"none"} /\ pp.previous \in Letters \cup {"none"}
  /\ pp.current \in Int \X Int /\ pp.control \in Int \X Int
  /\ Len(pp.points) = Len(pp.angles)
  /\ \A i \in DOMAIN pp.angles :
       pp.angles[i] = NoAngle =>
         \E d \in DOMAIN pp.drawn :
           pp.drawn[d].op = "move" /\ EndOf(pp.drawn[d]) = pp.points[i]

(* current, to which relative coordinates are added, is where the canvas's *)
(* pen is: at the end of the last segment, or where the subpath began when *)
(* it was closed.                                                          *)
Moves == {i \in DOMAIN pp.drawn : pp.drawn[i].op = "move"}

LastMove == CHOOSE i \in Moves : \A j \in Moves : j <= i

Pen ==
  LET last == pp.drawn[Len(pp.drawn)]
  IN  EndOf(IF last.op = "close" THEN pp.drawn[LastMove] ELSE last)

CurrentIsPen == pp.drawn # <<>> => pp.current = Pen

(* The path written out draws the same, but for the reflected control      *)
(* point of a second group of S or T after a command that is no curve.     *)
DrawsTheSame == plain => pp.drawn = abs.drawn

(* It leaves the same markers with the same angles too, except after the   *)
(* third group of a moveto, whose line is taken to come from the start.    *)
MarksTheSame ==
  plain /\ ~moved => pp.points = abs.points /\ pp.angles = abs.angles

(* The box holds every point a line or a move goes to, and has every cubic *)
(* curve by its own four points.                                           *)
From(i) == EndOf(pp.drawn[i - 1])

BoxHoldsPath ==
  \A i \in DOMAIN pp.drawn :
    LET s == pp.drawn[i]
    IN  /\ s.op \in {"move", "line"} => <<s.points[1]>> \in pp.boxed
        /\ s.op = "curve" /\ pp.drawn[i - 1].op # "close" =>
             <<From(i), s.points[1], s.points[2], s.points[3]>> \in pp.boxed

(* What a path is drawn as, marked with and measured by, however it is     *)
(* written down.                                                           *)
PathAsWritten ==
  /\ PathTypeOK
  /\ CurrentIsPen
  /\ DrawsTheSame
  /\ MarksTheSame
  /\ BoxHoldsPath
=============================================================================
