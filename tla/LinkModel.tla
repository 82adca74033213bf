------------------------------ MODULE LinkModel ------------------------------
(***************************************************************************)
(* From a pass to a profile (internal/tle/linkmodel.go, generate.go): each *)
(* sample of the pass becomes a point of every impairment curve, by a link *)
(* model that maps elevations to impairments.                              *)
(***************************************************************************)
EXTENDS Condition, PassPrediction

CONSTANT NoProfile  \* GenerateProfile returned an error

ASSUME LinkModelAssumption == NoProfile \notin Profile

ModelPoint == [elev : Int, value : Int]
Models == [Impairments -> Seq(ModelPoint)]

\* LinkModel.Validate
ValidModel(model) ==
  \A c \in Impairments :
    /\ model[c] # <<>>
    /\ \A i \in 2 .. Len(model[c]) : model[c][i - 1].elev <= model[c][i].elev

\* A model whose values a profile accepts.  Nothing checks it when the model is
\* loaded: a session whose model is not sound does not start.
Sound(model) ==
  \A c \in Impairments : \A i \in DOMAIN model[c] :
    model[c][i].value >= 0 /\ (c = "loss" => model[c][i].value <= 100)

\* interpolateCurve.  The division is exact in every model considered.
Interpolate(points, elev) ==
  LET last == points[Len(points)] IN
  IF elev <= points[1].elev THEN points[1].value
  ELSE IF elev >= last.elev THEN last.value
  ELSE LET i == Min({k \in 2 .. Len(points) : elev <= points[k].elev})
           lo == points[i - 1]
           hi == points[i]
       IN lo.value + ((elev - lo.elev) * (hi.value - lo.value)) \div (hi.elev - lo.elev)

\* GenerateProfile, for a pass followed by a gap.
ProfileOf(pass, model, lookahead, gap) ==
  LET window == pass.set - pass.rise IN
  [mode |-> "periodic", window |-> window, period |-> window + gap,
   lookahead |-> IF gap = 0 THEN 0 ELSE lookahead,
   blockages |-> <<>>,
   curves |-> [c \in Impairments |->
                 [k \in DOMAIN pass.samples |->
                    [offset |-> pass.samples[k].t - pass.rise,
                     value |-> Interpolate(model[c], pass.samples[k].elev)]]]]

GenerateProfile(pass, model, lookahead, gap) ==
  LET p == ProfileOf(pass, model, lookahead, gap) IN
  IF Len(pass.samples) < 2 \/ ~Valid(p) THEN NoProfile ELSE p
=============================================================================
