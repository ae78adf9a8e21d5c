------------------------------ MODULE Drawing ------------------------------
(***************************************************************************)
(* What GLRenderer does with the graphics of a bus: the OpenGL state that  *)
(* commands among them switch, and the state in which each shape is drawn. *)
(* Of shaders it has whether a program is in use.  Matrices, materials and *)
(* textures are left out.                                                  *)
(***************************************************************************)
EXTENDS Integers, Sequences

Shapes   == {"cube", "quad", "line"}
Commands == {"blending", "lighting", "culling", "shader"}

\* What culling knows: 0 is none, the others are faces that are left out.
Modes == 0..3

\* What a command takes from its input; culling ignores what is no mode.
Switched(kind, on, v) ==
  IF kind = "culling" THEN IF v \in Modes THEN v ELSE on
  ELSE IF v > 0 THEN 1 ELSE 0

\* The inputs of GGLRenderer that switch a capability.
Controls == [lighting: BOOLEAN, culling: BOOLEAN, transparency: BOOLEAN, clear: BOOLEAN]

\* flat: the shade model is GL_FLAT; shader: a shader program is in use.
GLState == [blend: BOOLEAN, cull: BOOLEAN, lit: BOOLEAN, depth: BOOLEAN,
            flat: BOOLEAN, shader: BOOLEAN]

\* GLRenderWidget::initializeGL; the frame begins by disabling blending.
NewGL == [blend |-> TRUE, cull |-> FALSE, lit |-> FALSE, depth |-> TRUE,
          flat |-> FALSE, shader |-> FALSE]

\* Mutant: what the last frame left switched on stays on.
FrameStartKeepsBlend(gl, controls) ==
  [gl EXCEPT !.lit = controls.lighting, !.cull = controls.culling, !.flat = @ \/ controls.clear]

\* With the clear mode the last frame is painted over, flat and for good.  A
\* build with shaders, the usual one, leaves the program of the last frame in use.
FrameStart(gl, controls) ==
  [gl EXCEPT !.blend = FALSE, !.lit = controls.lighting, !.cull = controls.culling,
             !.flat = @ \/ controls.clear]

\* Lines and points are drawn without light, which is on afterwards.
DrawLine(gl, controls) ==
  IF controls.lighting THEN [gl EXCEPT !.lit = TRUE] ELSE gl

\* A program that is there; the index of no program switches it off, too.
VisitShader(gl, picture) == [gl EXCEPT !.shader = picture.on = 1]

\* Blending disables culling and the depth test as well, and ends smooth shading,
\* the last two for good.
Visit(gl, controls, picture) ==
  CASE picture.kind = "blending" /\ picture.on = 1 /\ controls.transparency
         -> [gl EXCEPT !.blend = TRUE, !.cull = FALSE, !.depth = FALSE, !.flat = TRUE]
    [] picture.kind = "blending" /\ ~(picture.on = 1 /\ controls.transparency)
         -> [gl EXCEPT !.blend = FALSE]
    [] picture.kind = "lighting" -> [gl EXCEPT !.lit = picture.on = 1 /\ controls.lighting]
    [] picture.kind = "culling" /\ picture.on \in Modes -> [gl EXCEPT !.cull = picture.on # 0]
    [] picture.kind = "shader"   -> VisitShader(gl, picture)
    [] picture.kind = "line"     -> DrawLine(gl, controls)
    [] OTHER                     -> gl

\* The state after each of the pictures.
Visited(gl, controls, pictures) ==
  LET after[i \in 0..Len(pictures)] ==
        IF i = 0 THEN FrameStart(gl, controls) ELSE Visit(after[i - 1], controls, pictures[i])
  IN after

\* What the state is while a shape is drawn.
While(gl, controls, picture) ==
  IF picture.kind = "line" /\ controls.lighting THEN [gl EXCEPT !.lit = FALSE] ELSE gl

Drawn(gl, controls, pictures) ==
  [i \in DOMAIN pictures |->
     [picture |-> pictures[i], controls |-> controls,
      state |-> While(Visited(gl, controls, pictures)[i - 1], controls, pictures[i])]]

FrameEnd(gl, controls, pictures) ==
  [Visited(gl, controls, pictures)[Len(pictures)] EXCEPT !.lit = FALSE]
=============================================================================
