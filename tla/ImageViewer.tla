----------------------------- MODULE ImageViewer -----------------------------
(***************************************************************************)
(* The zoom of an image preview (the script in share/render.go): the width *)
(* of the image follows from the width of the viewport, the natural width  *)
(* of the image, which is not known before it has loaded, and the chosen   *)
(* scale.  A resize is handled in the next animation frame.                *)
(***************************************************************************)
EXTENDS Integers, Sequences

CONSTANTS
    Widths,      \* widths of the viewport inside of its padding
    NaturalWidths,   \* natural widths of images
    MaxResizes   \* bound: resizes of the window

VARIABLES
    viewport,    \* the width of the viewport now
    image,       \* natural width, vector image, loaded
    scaleIndex, fitWidth,
    frame,       \* an animation frame is asked for
    width,       \* the width the image was given, 0 before the first time
    enabled,     \* the buttons that can be pressed
    resizes

vars == <<viewport, image, scaleIndex, fitWidth, frame, width, enabled, resizes>>

\* Scales in halves: 100, 150, 200, 300 and 400 percent.
Scales == <<2, 3, 4, 6, 8>>

Smaller(a, b) == IF a < b THEN a ELSE b
Larger(a, b) == IF a > b THEN a ELSE b

\* measureFitWidth.  An image that has not loaded has the natural width 0.
FitWidth(v, img) ==
    IF img.vector \/ ~img.loaded THEN v ELSE Smaller(img.natural, v)

Width(fit, k) == Larger(1, (fit * Scales[k] + 1) \div 2)
Controls(k) ==
    {b \in {"out", "fit", "in"} : IF b = "in" THEN k # Len(Scales) ELSE k # 1}

\* render and updateControls.
Render(fit, k) ==
    /\ fitWidth' = fit /\ scaleIndex' = k
    /\ width' = Width(fit, k)
    /\ enabled' = Controls(k)

\* A page whose image is complete when the script runs is rendered at once.
Init ==
    /\ viewport \in Widths
    /\ image \in [natural : NaturalWidths, vector : BOOLEAN, loaded : BOOLEAN]
    /\ scaleIndex = 1 /\ frame = FALSE /\ resizes = 0
    /\ fitWidth = IF image.loaded THEN FitWidth(viewport, image) ELSE 0
    /\ width = IF image.loaded THEN Width(FitWidth(viewport, image), 1) ELSE 0
    /\ enabled = IF image.loaded THEN Controls(1) ELSE {"fit", "in"}

\* Slip: the image is shown, but not measured again, when it has loaded.
LoadUnmeasured ==
    /\ ~image.loaded
    /\ image' = [image EXCEPT !.loaded = TRUE]
    /\ Render(fitWidth, scaleIndex)
    /\ UNCHANGED <<viewport, frame, resizes>>

\* The load event: initialize.
Load ==
    /\ ~image.loaded
    /\ image' = [image EXCEPT !.loaded = TRUE]
    /\ Render(FitWidth(viewport, image'), scaleIndex)
    /\ UNCHANGED <<viewport, frame, resizes>>

\* setScaleIndex does not measure: it uses the width of the last time.
Zoom(step) ==
    LET k == Larger(1, Smaller(Len(Scales), scaleIndex + step)) IN
    /\ (IF step = 1 THEN "in" ELSE "out") \in enabled
    /\ k # scaleIndex
    /\ Render(fitWidth, k)
    /\ UNCHANGED <<viewport, image, frame, resizes>>

Fit ==
    /\ "fit" \in enabled
    /\ Render(FitWidth(viewport, image), 1)
    /\ UNCHANGED <<viewport, image, frame, resizes>>

Resize(v) ==
    /\ resizes < MaxResizes /\ v # viewport
    /\ viewport' = v /\ frame' = TRUE /\ resizes' = resizes + 1
    /\ UNCHANGED <<image, scaleIndex, fitWidth, width, enabled>>

AnimationFrame ==
    /\ frame
    /\ frame' = FALSE
    /\ Render(FitWidth(viewport, image), scaleIndex)
    /\ UNCHANGED <<viewport, image, resizes>>

Next ==
    \/ Load
    \/ \E step \in {-1, 1} : Zoom(step)
    \/ Fit
    \/ \E v \in Widths : Resize(v)
    \/ AnimationFrame

Spec == Init /\ [][Next]_vars

\* When the image has loaded and no frame is due, its width is what the viewport, the
\* image and the scale say, in whatever order loading, clicks and resizes came, and
\* the buttons that can be pressed are those that change something.
ImageFits ==
    image.loaded /\ ~frame =>
        /\ width = Width(FitWidth(viewport, image), scaleIndex)
        /\ enabled = Controls(scaleIndex)

=============================================================================
