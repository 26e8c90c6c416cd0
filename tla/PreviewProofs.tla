---------------------------- MODULE PreviewProofs ----------------------------
(***************************************************************************)
(* Theorems about what a visitor is shown: the zoom of an image, the label *)
(* of a copy button, the header over an artifact, the links of a share,    *)
(* the bytes of an artifact, and the text of a Markdown document.  The     *)
(* links are proved about in ShareLinksProofs, the others here, each on    *)
(* its own; then the same is proved of MCPreviews, where the others leave  *)
(* the variables of each alone.                                            *)
(***************************************************************************)
EXTENDS MCPreviews, FoldFacts, SequenceTheorems, TLAPS

-----------------------------------------------------------------------------
(* The zoom of an image. *)

\* The last width that was measured is that of the viewport as long as no frame is due,
\* and the image and its buttons show what was measured last.
ViewerInv ==
    /\ image \in [natural : NaturalWidths, vector : BOOLEAN, loaded : BOOLEAN]
    /\ image.loaded =>
        /\ ~frame => fitWidth = Viewer!FitWidth(viewport, image)
        /\ width = Viewer!Width(fitWidth, scaleIndex)
        /\ enabled = Viewer!Controls(scaleIndex)

LEMMA ViewerInit == Viewer!Init => ViewerInv
  BY DEF Viewer!Init, ViewerInv

LEMMA ViewerNext == ViewerInv /\ [Viewer!Next]_viewerVars => ViewerInv'
<1> SUFFICES ASSUME ViewerInv, [Viewer!Next]_viewerVars PROVE ViewerInv'
  OBVIOUS
<1> USE DEF ViewerInv, Viewer!Render
<1>1. CASE Viewer!Load
  BY <1>1 DEF Viewer!Load
<1>2. ASSUME NEW step \in {-1, 1}, Viewer!Zoom(step) PROVE ViewerInv'
  BY <1>2 DEF Viewer!Zoom
<1>3. CASE Viewer!Fit
  BY <1>3 DEF Viewer!Fit
<1>4. ASSUME NEW v \in Widths, Viewer!Resize(v) PROVE ViewerInv'
  BY <1>4 DEF Viewer!Resize
<1>5. CASE Viewer!AnimationFrame
  BY <1>5 DEF Viewer!AnimationFrame
<1>6. CASE UNCHANGED viewerVars
  BY <1>6 DEF viewerVars
<1> QED
  BY <1>1, <1>2, <1>3, <1>4, <1>5, <1>6 DEF Viewer!Next

\* In whatever order loading, clicks, resizes and frames come, an image at rest has the
\* width that its viewport and its scale say.
THEOREM ImageIsFitted == Viewer!Spec => []Viewer!ImageFits
<1>1. ViewerInv => Viewer!ImageFits
  BY DEF ViewerInv, Viewer!ImageFits
<1> QED
  BY <1>1, ViewerInit, ViewerNext, PTL DEF Viewer!Spec, Viewer!vars, viewerVars

\* The same of the composition that TLC runs.
THEOREM ImageShown == MCSpec => []ImageFits
<1> DEFINE I == machine = "viewer" => ViewerInv
<1>1. MCInit => I
  BY ViewerInit DEF MCInit
<1>2. I /\ [MCNext]_allVars => I'
  <2>1. [MCNext]_allVars => machine' = machine
                        /\ (machine = "viewer" => [Viewer!Next]_viewerVars)
    BY DEF MCNext, allVars, OnlyCopy, OnlyBridge, OnlyVisits, OnlyReader, OnlyDocument,
           OnlyButton, OnlyViewer
  <2> QED
    BY <2>1, ViewerNext
<1>3. I => ImageFits
  BY DEF ViewerInv, ImageFits, Viewer!ImageFits
<1> QED
  BY <1>1, <1>2, <1>3, PTL DEF MCSpec

-----------------------------------------------------------------------------
(* The label of a copy button. *)

\* The one timer that runs is the one that the button knows, and it has left what the
\* outcome has still to be shown.
ButtonInv ==
    /\ label \in {"idle", "loading", "success", "error"}
    /\ disabled \in BOOLEAN
    /\ clicks \in 0..MaxClicks
    /\ disabled => clicks # 0
    /\ timers \in [1..MaxClicks -> -1..Delay]
    /\ registered \in 0..MaxClicks
    /\ stood \in 0..Delay
    /\ \A c \in 1..MaxClicks : timers[c] # -1 => c = registered
    /\ registered # 0 => label \in {"success", "error"} /\ timers[registered] + stood = Delay

ButtonNumbers == Delay \in Nat /\ MaxClicks \in Nat

LEMMA ButtonConstants == ButtonNumbers
  BY PreviewAssumption DEF ButtonNumbers

LEMMA ButtonInit == Button!Init => ButtonInv
<1> SUFFICES ASSUME Button!Init PROVE ButtonInv
  OBVIOUS
<1> USE ButtonConstants DEF ButtonNumbers, Button!Init, Button!None
<1>1. timers \in [1..MaxClicks -> -1..Delay] /\ \A c \in 1..MaxClicks : timers[c] = -1
  OBVIOUS
<1>2. label = "idle" /\ disabled \in BOOLEAN /\ ~disabled /\ clicks = 0 /\ registered = 0 /\ stood = Delay
  OBVIOUS
<1> HIDE DEF Button!Init
<1> QED
  BY <1>1, <1>2 DEF ButtonInv

\* ferrySetCopyButtonState leaves no other timer than that of the outcome it shows.
LEMMA SetStateKeeps ==
  ASSUME ButtonInv, NEW state \in {"loading", "success", "error"}, Button!SetState(state),
         clicks' \in 0..MaxClicks, disabled' \in BOOLEAN, disabled' => clicks' # 0,
         state \in {"success", "error"} => clicks' # 0
  PROVE  ButtonInv'
<1> USE ButtonConstants DEF ButtonNumbers, Button!SetState, Button!Outcomes, Button!None
<1>1. /\ label' = state /\ stood' = 0
      /\ registered' = IF state \in {"success", "error"} THEN clicks' ELSE 0
  OBVIOUS
<1>2. timers' \in [1..MaxClicks -> -1..Delay]
  BY DEF ButtonInv
<1>3. \A c \in 1..MaxClicks : timers'[c] = IF c = clicks' /\ state \in {"success", "error"} THEN Delay ELSE -1
  BY DEF ButtonInv
<1> QED
  BY <1>1, <1>2, <1>3 DEF ButtonInv

LEMMA ButtonNext == ButtonInv /\ [Button!Next]_buttonVars => ButtonInv'
<1> SUFFICES ASSUME ButtonInv, [Button!Next]_buttonVars PROVE ButtonInv'
  OBVIOUS
<1> USE ButtonConstants DEF ButtonNumbers
<1>1. CASE Button!Click
  BY <1>1, SetStateKeeps DEF Button!Click, ButtonInv
<1>2. ASSUME NEW outcome \in Button!Outcomes, Button!Settle(outcome) PROVE ButtonInv'
  BY <1>2, SetStateKeeps DEF Button!Settle, Button!Outcomes, ButtonInv
<1>3. CASE Button!Tick
  <2>1. /\ label' = label /\ disabled' = disabled /\ clicks' = clicks /\ registered' = registered
        /\ stood' = IF stood < Delay THEN stood + 1 ELSE stood
        /\ timers' \in [1..MaxClicks -> -1..Delay]
        /\ \A c \in 1..MaxClicks : timers'[c] = IF timers[c] > 0 THEN timers[c] - 1 ELSE timers[c]
    BY <1>3 DEF Button!Tick, ButtonInv
  <2>2. stood \in 0..Delay /\ stood' \in 0..Delay /\ \A c \in 1..MaxClicks : timers[c] \in -1..Delay
    BY <2>1 DEF ButtonInv
  <2>3. \A c \in 1..MaxClicks : timers'[c] # -1 => c = registered
    BY <2>1, <2>2 DEF ButtonInv
  <2>4. ASSUME registered # 0 PROVE timers'[registered] + stood' = Delay
    <3>1. registered \in 1..MaxClicks /\ timers[registered] + stood = Delay
      BY <2>4 DEF ButtonInv
    <3>2. timers[registered] \in Int /\ stood \in Int
      BY <2>2, <3>1
    <3>3. timers'[registered] = IF timers[registered] > 0 THEN timers[registered] - 1
                                                          ELSE timers[registered]
      BY <2>1, <3>1
    <3> QED
      BY <2>1, <2>2, <3>1, <3>2, <3>3
  <2> QED
    BY <2>1, <2>2, <2>3, <2>4 DEF ButtonInv
<1>4. ASSUME NEW c \in 1..MaxClicks, Button!Reset(c) PROVE ButtonInv'
  BY <1>4 DEF Button!Reset, Button!None, ButtonInv
<1>5. CASE UNCHANGED buttonVars
  BY <1>5 DEF buttonVars, ButtonInv
<1> QED
  BY <1>1, <1>2, <1>3, <1>4, <1>5 DEF Button!Next

\* What the label may do in a step.
LEMMA LabelStep ==
  ASSUME ButtonInv, [Button!Next]_buttonVars, label # "idle", label' = "idle"
  PROVE  label \in Button!Outcomes /\ stood >= Delay
<1> USE ButtonConstants DEF ButtonNumbers
<1>1. PICK c \in 1..MaxClicks : Button!Reset(c)
  BY DEF Button!Next, Button!Click, Button!Settle, Button!SetState, Button!Outcomes, Button!Tick,
         buttonVars
<1>2. c = registered /\ registered # 0 /\ timers[c] = 0
  BY <1>1 DEF Button!Reset, ButtonInv
<1> QED
  BY <1>2 DEF ButtonInv, Button!Outcomes

\* An outcome is shown for its two seconds or until the next click, however many copies
\* were started before.
THEOREM LabelStands == Button!Spec => Button!OutcomeStands
<1>1. ButtonInv /\ [Button!Next]_buttonVars =>
        [label # "idle" /\ label' = "idle" => label \in Button!Outcomes /\ stood >= Delay]_buttonVars
  BY LabelStep
<1> QED
  BY <1>1, ButtonInit, ButtonNext, PTL
     DEF Button!Spec, Button!OutcomeStands, Button!vars, buttonVars

\* The same of the composition that TLC runs.
THEOREM LabelShown == MCSpec => OutcomeStands
<1> DEFINE I == machine = "button" => ButtonInv
<1>1. MCInit => I
  BY ButtonInit DEF MCInit
<1>2. [MCNext]_allVars => /\ machine' = machine
                          /\ machine = "button" => [Button!Next]_buttonVars
                          /\ machine # "button" => UNCHANGED buttonVars
  BY DEF MCNext, allVars, OnlyCopy, OnlyBridge, OnlyVisits, OnlyReader, OnlyDocument,
         OnlyButton, OnlyViewer
<1>3. I /\ [MCNext]_allVars => I'
  BY <1>2, ButtonNext
<1>4. I /\ [MCNext]_allVars =>
        [label # "idle" /\ label' = "idle" => label \in Button!Outcomes /\ stood >= Delay]_buttonVars
  BY <1>2, LabelStep
<1> QED
  BY <1>1, <1>3, <1>4, PTL DEF MCSpec, OutcomeStands, Button!OutcomeStands, Button!vars, buttonVars

-----------------------------------------------------------------------------
(* The header over an artifact: queues of messages. *)

\* No message of the type t is in q; each one of the type t has one of the type u
\* behind it.
Free(q, t) == \A k \in 1..Len(q) : q[k].type # t
Followed(q, t, u) ==
    \A k \in 1..Len(q) : q[k].type = t => \E l \in k+1..Len(q) : q[l].type = u

\* The page finds the load at k without a hello since the load before, and takes its
\* header off the frame; no confirmation behind it puts it back.
Closing(q, bridged, k) ==
    /\ q[k].type = "load"
    /\ \A j \in 1..k-1 : q[j].type = "hello" => \E l \in j+1..k-1 : q[l].type = "load"
    /\ bridged => \E l \in 1..k-1 : q[l].type = "load"
    /\ \A l \in k+1..Len(q) : q[l].type # "applied"

\* The last offset on its way is this one.
LastScroll(q, offset) ==
    \E k \in 1..Len(q) : /\ q[k].type = "scroll" /\ q[k].offset = offset
                         /\ \A l \in k+1..Len(q) : q[l].type # "scroll"

-----------------------------------------------------------------------------
(* The header over an artifact: the inductive invariant. *)

\* The page has answered the hello of the document in its frame.
Greeted == doc.kind = "bridge" /\ Free(toPage, "hello")

\* A confirmation comes with an offset.  An artifact that clips its viewport has
\* confirmed nothing.
ConfirmInv ==
    /\ ~page.overlay => page.shift = 0
    /\ Followed(toPage, "applied", "scroll")
    /\ doc.kind = "bridge" /\ doc.clips =>
          Followed(toPage, "applied", "hello") /\ (Greeted => ~page.overlay)

\* The height that the page has sent last is on its way, waits for the document to be
\* parsed, or is what the document has reserved.
SentInv ==
    Greeted /\ page.inset <= MaxInset =>
        IF toFrame # <<>>
        THEN toFrame[Len(toFrame)] = [for |-> steps.navigations, top |-> page.inset]
        ELSE IF doc.phase = "parsing"
             THEN doc.waiting # <<>> /\ doc.waiting[Len(doc.waiting)] = page.inset
             ELSE doc.clips \/ doc.inset = page.inset

\* It is the height of the header, but for an observer that missed it or is due.
KnownInv ==
    Greeted => page.inset = header.height \/ missed \/ header.seen # header.height

\* The document knows what is visible of the header, and the page knows, or is told of,
\* the offset of a document that has reserved its height.
OffsetInv ==
    /\ doc.kind = "bridge" /\ doc.inset # -1 /\ ~doc.frame =>
          doc.visible = Bridge!VisibleOf(doc.inset, doc.scroll)
    /\ /\ Greeted /\ ~doc.clips /\ page.inset <= MaxInset
       /\ toFrame = <<>> /\ doc.phase # "parsing" /\ ~doc.frame
       => \/ LastScroll(toPage, doc.scroll)
          \/ /\ Free(toPage, "scroll")
             /\ page.overlay => page.shift = Bridge!Smaller(doc.scroll, page.inset)

\* The load of each document that said hello comes behind it, unless the document was
\* abandoned; so the load of a plain document takes the header off.
LoadInv ==
    /\ doc.phase = "loaded" \/ (doc.kind = "plain" /\ ~abandoned) =>
          Followed(toPage, "hello", "load") /\ (page.bridged => ~Free(toPage, "load"))
    /\ doc.kind = "plain" /\ doc.phase = "loaded" /\ ~abandoned =>
          \/ ~page.overlay /\ Free(toPage, "applied")
          \/ \E k \in 1..Len(toPage) : Closing(toPage, page.bridged, k)

BridgeInv ==
    Bridge!TypeOK /\ ConfirmInv /\ SentInv /\ KnownInv /\ OffsetInv /\ LoadInv

-----------------------------------------------------------------------------
(* What receiving and sending does to a queue. *)

LEMMA TailFacts ==
  ASSUME NEW M, NEW q \in Seq(M), q # <<>>
  PROVE  /\ Tail(q) \in Seq(M) /\ Head(q) = q[1] /\ q[1] \in M
         /\ Len(q) \in Nat /\ Len(q) > 0 /\ Len(Tail(q)) = Len(q) - 1
         /\ \A k \in 1..Len(Tail(q)) : Tail(q)[k] = q[k + 1]
  OBVIOUS

LEMMA JoinFacts ==
  ASSUME NEW M, NEW q \in Seq(M), NEW s \in Seq(M)
  PROVE  /\ q \o s \in Seq(M)
         /\ Len(q) \in Nat /\ Len(s) \in Nat /\ Len(q \o s) = Len(q) + Len(s)
         /\ \A k \in 1..Len(q) : (q \o s)[k] = q[k]
         /\ \A k \in 1..Len(s) : (q \o s)[Len(q) + k] = s[k]
  OBVIOUS

LEMMA AppendJoins ==
  ASSUME NEW M, NEW q \in Seq(M), NEW m \in M
  PROVE  Append(q, m) = q \o <<m>> /\ <<m>> \in Seq(M) /\ Len(<<m>>) = 1 /\ <<m>>[1] = m
  OBVIOUS

LEMMA TailQueue ==
  ASSUME NEW M, NEW q \in Seq(M), q # <<>>, NEW t, NEW u
  PROVE  /\ Free(q, t) => Free(Tail(q), t)
         /\ Free(Tail(q), t) /\ q[1].type # t => Free(q, t)
         /\ Followed(q, t, u) => Followed(Tail(q), t, u)
         /\ Followed(q, t, u) /\ q[1].type = t => ~Free(Tail(q), u)
         /\ ~Free(q, u) /\ q[1].type # u => ~Free(Tail(q), u)
<1>1. /\ Len(q) \in Nat /\ Len(q) > 0 /\ Len(Tail(q)) = Len(q) - 1
      /\ \A k \in 1..Len(Tail(q)) : Tail(q)[k] = q[k + 1]
  BY TailFacts
<1>2. \A k \in 2..Len(q) : k - 1 \in 1..Len(Tail(q)) /\ Tail(q)[k - 1] = q[k]
  BY <1>1
<1>3. Free(q, t) => Free(Tail(q), t)
  BY <1>1 DEF Free
<1>4. ASSUME NEW v, Free(Tail(q), v), q[1].type # v PROVE Free(q, v)
  BY <1>1, <1>2, <1>4 DEF Free
<1>5. Followed(q, t, u) => Followed(Tail(q), t, u)
  <2> SUFFICES ASSUME Followed(q, t, u), NEW k \in 1..Len(Tail(q)), Tail(q)[k].type = t
               PROVE  \E l \in k+1..Len(Tail(q)) : Tail(q)[l].type = u
    BY DEF Followed
  <2>1. k + 1 \in 1..Len(q) /\ q[k + 1].type = t
    BY <1>1
  <2>2. PICK l \in (k + 1) + 1..Len(q) : q[l].type = u
    BY <2>1 DEF Followed
  <2>3. l - 1 \in k+1..Len(Tail(q)) /\ Tail(q)[l - 1].type = u
    BY <2>2, <1>1, <1>2
  <2> QED
    BY <2>3
<1>6. Followed(q, t, u) /\ q[1].type = t => ~Free(Tail(q), u)
  <2> SUFFICES ASSUME Followed(q, t, u), q[1].type = t PROVE ~Free(Tail(q), u)
    OBVIOUS
  <2>1. PICK l \in 2..Len(q) : q[l].type = u
    BY <1>1 DEF Followed
  <2> QED
    BY <2>1, <1>2 DEF Free
<1> QED
  BY <1>3, <1>4, <1>5, <1>6

LEMMA JoinQueue ==
  ASSUME NEW M, NEW q \in Seq(M), NEW s \in Seq(M), NEW t, NEW u
  PROVE  /\ Free(q \o s, t) <=> Free(q, t) /\ Free(s, t)
         /\ Followed(q, t, u) /\ Followed(s, t, u) => Followed(q \o s, t, u)
         /\ Free(s, t) /\ ~Free(s, u) => Followed(q \o s, t, u)
<1>1. /\ Len(q) \in Nat /\ Len(s) \in Nat /\ Len(q \o s) = Len(q) + Len(s)
      /\ \A k \in 1..Len(q) : (q \o s)[k] = q[k]
      /\ \A k \in 1..Len(s) : (q \o s)[Len(q) + k] = s[k]
  BY JoinFacts
<1>2. \A k \in 1..Len(q \o s) : \/ k \in 1..Len(q)
                                \/ k - Len(q) \in 1..Len(s) /\ (q \o s)[k] = s[k - Len(q)]
  BY <1>1
<1>3. Free(q \o s, t) <=> Free(q, t) /\ Free(s, t)
  <2>1. ASSUME Free(q \o s, t) PROVE Free(q, t) /\ Free(s, t)
    <3>1. \A k \in 1..Len(q) : k \in 1..Len(q \o s)
      BY <1>1
    <3>2. \A k \in 1..Len(s) : Len(q) + k \in 1..Len(q \o s)
      BY <1>1
    <3> QED
      BY <1>1, <2>1, <3>1, <3>2 DEF Free
  <2>2. ASSUME Free(q, t), Free(s, t) PROVE Free(q \o s, t)
    BY <1>1, <1>2, <2>2 DEF Free
  <2> QED
    BY <2>1, <2>2
<1>4. ASSUME Followed(q, t, u), Followed(s, t, u), NEW k \in 1..Len(q \o s), (q \o s)[k].type = t
      PROVE  \E l \in k+1..Len(q \o s) : (q \o s)[l].type = u
  <2>1. CASE k \in 1..Len(q)
    <3>1. PICK l \in k+1..Len(q) : q[l].type = u
      BY <1>1, <1>4, <2>1 DEF Followed
    <3> QED
      BY <1>1, <3>1
  <2>2. CASE k - Len(q) \in 1..Len(s) /\ (q \o s)[k] = s[k - Len(q)]
    <3>1. PICK l \in (k - Len(q))+1..Len(s) : s[l].type = u
      BY <1>4, <2>2 DEF Followed
    <3>2. Len(q) + l \in k+1..Len(q \o s) /\ (q \o s)[Len(q) + l].type = u
      BY <1>1, <2>2, <3>1
    <3> QED
      BY <3>2
  <2> QED
    BY <1>2, <2>1, <2>2
<1>5. ASSUME Free(s, t), ~Free(s, u), NEW k \in 1..Len(q \o s), (q \o s)[k].type = t
      PROVE  \E l \in k+1..Len(q \o s) : (q \o s)[l].type = u
  <2>1. k \in 1..Len(q)
    BY <1>2, <1>5 DEF Free
  <2>2. PICK l \in 1..Len(s) : s[l].type = u
    BY <1>5 DEF Free
  <2>3. Len(q) + l \in k+1..Len(q \o s) /\ (q \o s)[Len(q) + l].type = u
    BY <1>1, <2>1, <2>2
  <2> QED
    BY <2>3
<1> QED
  BY <1>3, <1>4, <1>5 DEF Followed

LEMMA TailLast ==
  ASSUME NEW M, NEW q \in Seq(M), q # <<>>, NEW offset, LastScroll(q, offset)
  PROVE  LastScroll(Tail(q), offset)
         \/ (q[1].type = "scroll" /\ q[1].offset = offset /\ Free(Tail(q), "scroll"))
<1>1. /\ Len(q) \in Nat /\ Len(q) > 0 /\ Len(Tail(q)) = Len(q) - 1
      /\ \A k \in 1..Len(Tail(q)) : Tail(q)[k] = q[k + 1]
  BY TailFacts
<1>2. PICK k \in 1..Len(q) : /\ q[k].type = "scroll" /\ q[k].offset = offset
                             /\ \A l \in k+1..Len(q) : q[l].type # "scroll"
  BY DEF LastScroll
<1>3. CASE k = 1
  BY <1>1, <1>2, <1>3 DEF Free
<1>4. CASE k # 1
  <2>1. /\ k - 1 \in 1..Len(Tail(q)) /\ Tail(q)[k - 1] = q[k]
        /\ \A l \in (k - 1)+1..Len(Tail(q)) : Tail(q)[l].type # "scroll"
    BY <1>1, <1>2, <1>4
  <2> QED
    BY <1>2, <2>1 DEF LastScroll
<1> QED
  BY <1>3, <1>4

LEMMA JoinLast ==
  ASSUME NEW M, NEW q \in Seq(M), NEW s \in Seq(M), NEW offset
  PROVE  /\ LastScroll(q, offset) /\ Free(s, "scroll") => LastScroll(q \o s, offset)
         /\ LastScroll(s, offset) => LastScroll(q \o s, offset)
<1>1. /\ Len(q) \in Nat /\ Len(s) \in Nat /\ Len(q \o s) = Len(q) + Len(s)
      /\ \A k \in 1..Len(q) : (q \o s)[k] = q[k]
      /\ \A k \in 1..Len(s) : (q \o s)[Len(q) + k] = s[k]
  BY JoinFacts
<1>2. \A k \in 1..Len(q \o s) : \/ k \in 1..Len(q)
                                \/ k - Len(q) \in 1..Len(s) /\ (q \o s)[k] = s[k - Len(q)]
  BY <1>1
<1>3. ASSUME LastScroll(q, offset), Free(s, "scroll") PROVE LastScroll(q \o s, offset)
  <2>1. PICK k \in 1..Len(q) : /\ q[k].type = "scroll" /\ q[k].offset = offset
                               /\ \A l \in k+1..Len(q) : q[l].type # "scroll"
    BY <1>3 DEF LastScroll
  <2>2. \A l \in k+1..Len(q \o s) : (q \o s)[l].type # "scroll"
    BY <1>1, <1>2, <1>3, <2>1 DEF Free
  <2> QED
    BY <1>1, <2>1, <2>2 DEF LastScroll
<1>4. ASSUME LastScroll(s, offset) PROVE LastScroll(q \o s, offset)
  <2>1. PICK k \in 1..Len(s) : /\ s[k].type = "scroll" /\ s[k].offset = offset
                               /\ \A l \in k+1..Len(s) : s[l].type # "scroll"
    BY <1>4 DEF LastScroll
  <2>2. Len(q) + k \in 1..Len(q \o s) /\ (q \o s)[Len(q) + k] = s[k]
    BY <1>1, <2>1
  <2>3. ASSUME NEW l \in (Len(q) + k)+1..Len(q \o s) PROVE (q \o s)[l].type # "scroll"
    <3>1. l - Len(q) \in k+1..Len(s) /\ (q \o s)[Len(q) + (l - Len(q))] = s[l - Len(q)]
      BY <1>1, <2>1, <2>3
    <3>2. Len(q) + (l - Len(q)) = l
      BY <1>1, <2>3
    <3> QED
      BY <2>1, <3>1, <3>2
  <2> QED
    BY <2>1, <2>2, <2>3 DEF LastScroll
<1> QED
  BY <1>3, <1>4

LEMMA TailClosing ==
  ASSUME NEW M, NEW q \in Seq(M), NEW k \in 1..Len(q), NEW bridged \in BOOLEAN,
         Closing(q, bridged, k), NEW next \in BOOLEAN,
         next => (bridged /\ q[1].type # "load") \/ q[1].type = "hello"
  PROVE  \/ q[1].type = "load" /\ ~bridged /\ Free(Tail(q), "applied")
         \/ k - 1 \in 1..Len(Tail(q)) /\ Closing(Tail(q), next, k - 1)
<1>1. /\ Len(q) \in Nat /\ Len(q) > 0 /\ Len(Tail(q)) = Len(q) - 1
      /\ \A l \in 1..Len(Tail(q)) : Tail(q)[l] = q[l + 1]
  BY TailFacts
<1>2. \A l \in 2..Len(q) : l - 1 \in 1..Len(Tail(q)) /\ Tail(q)[l - 1] = q[l]
  BY <1>1
<1>3. CASE k = 1
  BY <1>1, <1>3 DEF Closing, Free
<1>4. CASE k # 1
  <2>1. k - 1 \in 1..Len(Tail(q)) /\ Tail(q)[k - 1].type = "load"
    BY <1>1, <1>2, <1>4 DEF Closing
  <2>2. ASSUME NEW j \in 1..(k-1)-1, Tail(q)[j].type = "hello"
        PROVE  \E l \in j+1..(k-1)-1 : Tail(q)[l].type = "load"
    <3>1. j + 1 \in 1..k-1 /\ q[j + 1].type = "hello"
      BY <1>1, <2>2
    <3>2. PICK l \in (j+1)+1..k-1 : q[l].type = "load"
      BY <3>1 DEF Closing
    <3>3. l - 1 \in j+1..(k-1)-1 /\ Tail(q)[l - 1].type = "load"
      BY <1>2, <2>2, <3>2
    <3> QED
      BY <3>3
  <2>3. ASSUME next PROVE \E l \in 1..(k-1)-1 : Tail(q)[l].type = "load"
    <3>1. PICK l \in 2..k-1 : q[l].type = "load"
      <4>1. CASE q[1].type = "hello"
        <5>1. 1 \in 1..k-1
          BY <1>4
        <5> QED
          BY <4>1, <5>1 DEF Closing
      <4>2. CASE bridged /\ q[1].type # "load"
        <5>1. PICK l \in 1..k-1 : q[l].type = "load"
          BY <4>2 DEF Closing
        <5> QED
          BY <4>2, <5>1
      <4> QED
        BY <2>3, <4>1, <4>2
    <3>2. l - 1 \in 1..(k-1)-1 /\ Tail(q)[l - 1].type = "load"
      BY <1>2, <3>1
    <3> QED
      BY <3>2
  <2>4. ASSUME NEW l \in (k-1)+1..Len(Tail(q)) PROVE Tail(q)[l].type # "applied"
    <3>1. l + 1 \in k+1..Len(q) /\ Tail(q)[l] = q[l + 1]
      BY <1>1, <2>4
    <3> QED
      BY <3>1 DEF Closing
  <2> QED
    BY <2>1, <2>2, <2>3, <2>4 DEF Closing
<1> QED
  BY <1>3, <1>4

LEMMA JoinClosing ==
  ASSUME NEW M, NEW q \in Seq(M), NEW s \in Seq(M), NEW k \in 1..Len(q), NEW bridged \in BOOLEAN,
         Closing(q, bridged, k), Free(s, "applied")
  PROVE  k \in 1..Len(q \o s) /\ Closing(q \o s, bridged, k)
<1>1. /\ Len(q) \in Nat /\ Len(s) \in Nat /\ Len(q \o s) = Len(q) + Len(s)
      /\ \A l \in 1..Len(q) : (q \o s)[l] = q[l]
      /\ \A l \in 1..Len(s) : (q \o s)[Len(q) + l] = s[l]
  BY JoinFacts
<1>2. \A l \in 1..k : (q \o s)[l] = q[l]
  BY <1>1
<1>3. ASSUME NEW l \in k+1..Len(q \o s) PROVE (q \o s)[l].type # "applied"
  <2>1. CASE l <= Len(q)
    BY <1>1, <1>3, <2>1 DEF Closing
  <2>2. CASE l > Len(q)
    <3>1. l - Len(q) \in 1..Len(s) /\ Len(q) + (l - Len(q)) = l
      BY <1>1, <1>3, <2>2
    <3> QED
      BY <1>1, <3>1 DEF Free
  <2> QED
    BY <1>1, <1>3, <2>1, <2>2
<1> QED
  BY <1>1, <1>2, <1>3 DEF Closing

LEMMA LoadCloses ==
  ASSUME NEW M, NEW q \in Seq(M), NEW m \in M, m.type = "load", NEW bridged \in BOOLEAN,
         Followed(q, "hello", "load"), bridged => ~Free(q, "load")
  PROVE  Len(q) + 1 \in 1..Len(q \o <<m>>) /\ Closing(q \o <<m>>, bridged, Len(q) + 1)
<1>1. /\ Len(q) \in Nat /\ Len(q \o <<m>>) = Len(q) + 1
      /\ \A l \in 1..Len(q) : (q \o <<m>>)[l] = q[l]
      /\ (q \o <<m>>)[Len(q) + 1] = m
  OBVIOUS
<1>2. bridged => \E l \in 1..Len(q) : q[l].type = "load"
  BY DEF Free
<1>3. \A j \in 1..Len(q) : q[j].type = "hello" => \E l \in j+1..Len(q) : q[l].type = "load"
  BY DEF Followed
<1>4. (Len(q) + 1) - 1 = Len(q)
  BY <1>1
<1> QED
  BY <1>1, <1>2, <1>3, <1>4 DEF Closing

-----------------------------------------------------------------------------
(* The header over an artifact: types. *)

PageType == [overlay : BOOLEAN, shift : Nat, inset : Heights \cup {0}, bridged : BOOLEAN]
HeaderType == [height : Heights, seen : Heights]
DocType == [kind : {"bridge", "plain"}, clips : BOOLEAN,
            phase : {"parsing", "parsed", "loaded"}, waiting : Seq(Heights),
            inset : Heights \cup {-1}, visible : Nat, scroll : 0..MaxOffset, frame : BOOLEAN]
InsetType == [for : 1..MaxNavigations, top : Heights]
StepsType == [navigations : 1..MaxNavigations, resizes : 0..MaxResizes, scrolls : 0..MaxScrolls]

LEMMA Typed ==
  Bridge!TypeOK <=>
    /\ page \in PageType /\ header \in HeaderType /\ doc \in DocType
    /\ toPage \in Seq(Bridge!Messages) /\ toFrame \in Seq(InsetType)
    /\ steps \in StepsType /\ abandoned \in BOOLEAN /\ missed \in BOOLEAN
  BY DEF Bridge!TypeOK, Bridge!Unset, PageType, HeaderType, DocType, InsetType, StepsType

LEMMA TypedNext ==
  /\ page' \in PageType /\ header' \in HeaderType /\ doc' \in DocType
  /\ toPage' \in Seq(Bridge!Messages) /\ toFrame' \in Seq(InsetType)
  /\ steps' \in StepsType /\ abandoned' \in BOOLEAN /\ missed' \in BOOLEAN
  => Bridge!TypeOK'
  BY DEF Bridge!TypeOK, Bridge!Unset, PageType, HeaderType, DocType, InsetType, StepsType

LEMMA BridgeConstants ==
  /\ \A h \in Heights : h \in Nat
  /\ MaxInset \in Nat /\ MaxOffset \in Nat /\ MaxResizes \in Nat /\ MaxScrolls \in Nat
  /\ MaxNavigations \in Nat /\ MaxNavigations > 0
  BY PreviewAssumption

LEMMA Fields ==
  ASSUME Bridge!TypeOK
  PROVE  /\ page.overlay \in BOOLEAN /\ page.shift \in Nat /\ page.inset \in Heights \cup {0}
         /\ page.inset \in Nat /\ page.bridged \in BOOLEAN
         /\ header.height \in Heights /\ header.seen \in Heights
         /\ doc.kind \in {"bridge", "plain"} /\ doc.clips \in BOOLEAN
         /\ doc.phase \in {"parsing", "parsed", "loaded"} /\ doc.waiting \in Seq(Heights)
         /\ doc.inset \in Heights \cup {-1} /\ doc.visible \in Nat /\ doc.scroll \in 0..MaxOffset
         /\ doc.frame \in BOOLEAN
         /\ steps.navigations \in 1..MaxNavigations
<1>1. page \in PageType /\ header \in HeaderType /\ doc \in DocType /\ steps \in StepsType
  BY Typed
<1>2. /\ page.overlay \in BOOLEAN /\ page.shift \in Nat /\ page.inset \in Heights \cup {0}
      /\ page.bridged \in BOOLEAN
  BY <1>1 DEF PageType
<1>3. page.inset \in Nat
  BY <1>2, BridgeConstants
<1>4. header.height \in Heights /\ header.seen \in Heights
  BY <1>1 DEF HeaderType
<1>5. /\ doc.kind \in {"bridge", "plain"} /\ doc.clips \in BOOLEAN
      /\ doc.phase \in {"parsing", "parsed", "loaded"} /\ doc.waiting \in Seq(Heights)
      /\ doc.inset \in Heights \cup {-1} /\ doc.visible \in Nat /\ doc.scroll \in 0..MaxOffset
      /\ doc.frame \in BOOLEAN
  BY <1>1 DEF DocType
<1>6. steps.navigations \in 1..MaxNavigations
  BY <1>1 DEF StepsType
<1> QED
  BY <1>2, <1>3, <1>4, <1>5, <1>6

LEMMA MessageTypes ==
  /\ \A m \in Bridge!Messages :
        /\ m.type \in {"hello", "applied", "load", "scroll"}
        /\ m.type = "scroll" => m.offset \in 0..MaxOffset
  /\ Bridge!Hello \in Bridge!Messages /\ Bridge!Hello.type = "hello"
  /\ Bridge!Applied \in Bridge!Messages /\ Bridge!Applied.type = "applied"
  /\ Bridge!Load \in Bridge!Messages /\ Bridge!Load.type = "load"
  /\ \A offset \in 0..MaxOffset :
        /\ Bridge!Scroll(offset) \in Bridge!Messages
        /\ Bridge!Scroll(offset).type = "scroll" /\ Bridge!Scroll(offset).offset = offset
<1> USE DEF Bridge!Messages, Bridge!Hello, Bridge!Applied, Bridge!Load, Bridge!Scroll
<1>1. ASSUME NEW m \in Bridge!Messages
      PROVE  /\ m.type \in {"hello", "applied", "load", "scroll"}
             /\ m.type = "scroll" => m.offset \in 0..MaxOffset
  <2>1. CASE \E offset \in 0..MaxOffset : m = [type |-> "scroll", offset |-> offset]
    BY <2>1
  <2>2. CASE m \in {[type |-> "hello"], [type |-> "applied"], [type |-> "load"]}
    BY <2>2
  <2> QED
    BY <2>1, <2>2
<1>2. /\ Bridge!Hello \in Bridge!Messages /\ Bridge!Hello.type = "hello"
      /\ Bridge!Applied \in Bridge!Messages /\ Bridge!Applied.type = "applied"
      /\ Bridge!Load \in Bridge!Messages /\ Bridge!Load.type = "load"
  OBVIOUS
<1>3. ASSUME NEW offset \in 0..MaxOffset
      PROVE  /\ Bridge!Scroll(offset) \in Bridge!Messages
             /\ Bridge!Scroll(offset).type = "scroll" /\ Bridge!Scroll(offset).offset = offset
  OBVIOUS
<1> QED
  BY <1>1, <1>2, <1>3

LEMMA BridgeInit == Bridge!Init => BridgeInv
<1> SUFFICES ASSUME Bridge!Init PROVE BridgeInv
  OBVIOUS
<1>1. PICK h \in Heights : /\ header = [height |-> h, seen |-> h]
                           /\ page = [overlay |-> FALSE, shift |-> 0, inset |-> 0, bridged |-> FALSE]
  BY DEF Bridge!Init
<1>2. PICK kind \in {"bridge", "plain"}, clips \in BOOLEAN :
        /\ kind = "plain" => ~clips
        /\ doc = Bridge!Fresh(kind, clips)
        /\ toPage = Bridge!Greeting(kind)
  BY DEF Bridge!Init
<1>3. /\ toFrame = <<>> /\ steps = [navigations |-> 1, resizes |-> 0, scrolls |-> 0]
      /\ abandoned = FALSE /\ missed = FALSE
  BY DEF Bridge!Init
<1>4. page \in PageType /\ ~page.overlay /\ page.shift = 0 /\ ~page.bridged
  BY <1>1 DEF PageType
<1>5. header \in HeaderType
  BY <1>1 DEF HeaderType
<1>6. /\ doc \in DocType /\ doc.kind = kind /\ doc.inset = -1 /\ doc.phase = "parsing"
  BY <1>2, BridgeConstants DEF Bridge!Fresh, Bridge!Unset, DocType
<1>7. toFrame \in Seq(InsetType) /\ steps \in StepsType /\ abandoned \in BOOLEAN /\ missed \in BOOLEAN
  <2>1. steps \in StepsType
    BY <1>3, BridgeConstants DEF StepsType
  <2>2. toFrame \in Seq(InsetType)
    BY <1>3
  <2>3. abandoned \in BOOLEAN /\ missed \in BOOLEAN
    BY <1>3
  <2> QED
    BY <2>1, <2>2, <2>3
<1>8. CASE kind = "bridge"
  <2>1. toPage = <<Bridge!Hello>> /\ toPage \in Seq(Bridge!Messages) /\ Len(toPage) = 1
        /\ toPage[1].type = "hello"
    BY <1>2, <1>8, MessageTypes DEF Bridge!Greeting
  <2>2. Followed(toPage, "applied", "scroll") /\ Followed(toPage, "applied", "hello")
        /\ ~Free(toPage, "hello")
    BY <2>1 DEF Followed, Free
  <2> QED
    BY <1>4, <1>5, <1>6, <1>7, <1>8, <2>1, <2>2, Typed
       DEF BridgeInv, ConfirmInv, SentInv, KnownInv, OffsetInv, LoadInv, Greeted
<1>9. CASE kind = "plain"
  <2>1. toPage = <<>> /\ toPage \in Seq(Bridge!Messages) /\ Len(toPage) = 0
    BY <1>2, <1>9 DEF Bridge!Greeting
  <2>2. Followed(toPage, "applied", "scroll") /\ Followed(toPage, "hello", "load")
    BY <2>1 DEF Followed
  <2> QED
    BY <1>4, <1>5, <1>6, <1>7, <1>9, <2>1, <2>2, Typed
       DEF BridgeInv, ConfirmInv, SentInv, KnownInv, OffsetInv, LoadInv, Greeted
<1> QED
  BY <1>8, <1>9

-----------------------------------------------------------------------------
(* The header over an artifact: the page receives a message. *)

\* What receiving the first message leaves as it was.
Received ==
    /\ toPage # <<>> /\ toPage \in Seq(Bridge!Messages) /\ toPage' = Tail(toPage)
    /\ UNCHANGED <<header, doc, steps, abandoned>>

LEMMA ReceivedFacts ==
  ASSUME BridgeInv, Received
  PROVE  /\ toPage' \in Seq(Bridge!Messages) /\ toPage[1] \in Bridge!Messages
         /\ header' = header /\ doc' = doc /\ steps' = steps /\ abandoned' = abandoned
         /\ Followed(toPage', "applied", "scroll")
         /\ toPage[1].type # "hello" => (Greeted' <=> Greeted)
         /\ toPage[1].type = "applied" => ~Free(toPage', "scroll") /\ ~Free(toPage, "scroll")
         /\ doc.kind = "bridge" /\ doc.clips => Followed(toPage', "applied", "hello")
<1>1. toPage \in Seq(Bridge!Messages) /\ toPage # <<>> /\ toPage' = Tail(toPage) /\ doc' = doc
  BY DEF Received
<1>2. toPage' \in Seq(Bridge!Messages) /\ toPage[1] \in Bridge!Messages
  BY <1>1, TailFacts
<1>3. Followed(toPage, "applied", "scroll") => Followed(toPage', "applied", "scroll")
      /\ (toPage[1].type = "applied" => ~Free(toPage', "scroll"))
  BY <1>1, TailQueue
<1>4. Followed(toPage, "applied", "hello") => Followed(toPage', "applied", "hello")
  BY <1>1, TailQueue
<1>5. /\ Free(toPage, "hello") => Free(toPage', "hello")
      /\ toPage[1].type # "hello" /\ Free(toPage', "hello") => Free(toPage, "hello")
      /\ Free(toPage, "scroll") => Free(toPage', "scroll")
  BY <1>1, TailQueue
<1>6. toPage[1].type # "hello" => (Greeted' <=> Greeted)
  BY <1>1, <1>5 DEF Greeted
<1> QED
  BY <1>1, <1>2, <1>3, <1>4, <1>5, <1>6 DEF Received, BridgeInv, ConfirmInv

LEMMA ReceiveHello ==
  ASSUME BridgeInv, Received, toPage[1].type = "hello", Bridge!OnHello
  PROVE  BridgeInv'
<1> USE Fields, BridgeConstants
<1>1. Bridge!TypeOK
  BY DEF BridgeInv
<1>2. /\ page' \in PageType /\ ~page'.overlay /\ page'.shift = 0 /\ page'.bridged
      /\ page'.inset = header.height
  BY <1>1, Typed DEF Bridge!OnHello, Bridge!AboveFrame, PageType
<1>3. missed' = FALSE /\ toFrame' = Append(toFrame, [for |-> steps.navigations, top |-> header.height])
  BY DEF Bridge!OnHello, Bridge!SendInset
<1>4. /\ toFrame' \in Seq(InsetType) /\ toFrame' # <<>>
      /\ toFrame'[Len(toFrame')] = [for |-> steps.navigations, top |-> header.height]
  <2>1. [for |-> steps.navigations, top |-> header.height] \in InsetType
    BY <1>1 DEF InsetType
  <2>2. toFrame \in Seq(InsetType)
    BY <1>1, Typed
  <2> QED
    BY <1>3, <2>1, <2>2
<1>5. /\ header' = header /\ doc' = doc /\ steps' = steps /\ abandoned' = abandoned
      /\ toPage' \in Seq(Bridge!Messages) /\ Followed(toPage', "applied", "scroll")
      /\ doc.kind = "bridge" /\ doc.clips => Followed(toPage', "applied", "hello")
  BY ReceivedFacts
<1>6. Bridge!TypeOK'
  <2>1. missed' \in BOOLEAN
    BY <1>3
  <2> QED
    BY <1>1, <1>2, <1>4, <1>5, <2>1, Typed, TypedNext
<1>7. ConfirmInv' /\ SentInv' /\ KnownInv'
  BY <1>2, <1>4, <1>5 DEF ConfirmInv, SentInv, KnownInv
<1>8. OffsetInv'
  BY <1>4, <1>5 DEF OffsetInv, BridgeInv
<1>9. LoadInv'
  <2>1. toPage \in Seq(Bridge!Messages) /\ toPage # <<>> /\ toPage' = Tail(toPage)
    BY DEF Received
  <2>2. Followed(toPage, "hello", "load") =>
            Followed(toPage', "hello", "load") /\ ~Free(toPage', "load")
    BY <2>1, TailQueue
  <2>3. Free(toPage, "applied") => Free(toPage', "applied")
    BY <2>1, TailQueue
  <2>4. ASSUME NEW k \in 1..Len(toPage), Closing(toPage, page.bridged, k)
        PROVE  \E l \in 1..Len(toPage') : Closing(toPage', page'.bridged, l)
    <3>1. page.bridged \in BOOLEAN /\ page'.bridged \in BOOLEAN
      BY <1>1, <1>2 DEF PageType
    <3>2. k - 1 \in 1..Len(toPage') /\ Closing(toPage', page'.bridged, k - 1)
      BY <2>1, <2>4, <3>1, TailClosing
    <3> QED
      BY <3>2
  <2> QED
    BY <1>2, <1>5, <2>2, <2>3, <2>4 DEF LoadInv, BridgeInv
<1> QED
  BY <1>6, <1>7, <1>8, <1>9 DEF BridgeInv

\* A message that is no hello and no load: the page keeps its handshake, and a header
\* above the frame has not moved.
LEMMA ReceiveOther ==
  ASSUME BridgeInv, Received, toPage[1].type \notin {"hello", "load"},
         page' \in PageType, page'.bridged = page.bridged, page'.inset = page.inset,
         UNCHANGED <<toFrame, missed>>
  PROVE  /\ Bridge!TypeOK' /\ SentInv' /\ KnownInv'
         /\ Greeted' <=> Greeted
         /\ (page'.overlay = page.overlay \/ toPage[1].type = "applied") => LoadInv'
<1> USE Fields, BridgeConstants
<1>1. Bridge!TypeOK
  BY DEF BridgeInv
<1>2. /\ header' = header /\ doc' = doc /\ steps' = steps /\ abandoned' = abandoned
      /\ toFrame' = toFrame /\ missed' = missed
      /\ toPage' \in Seq(Bridge!Messages) /\ (Greeted' <=> Greeted)
  BY ReceivedFacts
<1>3. Bridge!TypeOK'
  BY <1>1, <1>2, Typed, TypedNext
<1>4. SentInv' /\ KnownInv'
  BY <1>2 DEF SentInv, KnownInv, BridgeInv
<1>5. ASSUME page'.overlay = page.overlay \/ toPage[1].type = "applied"
      PROVE  LoadInv'
  <2>1. toPage \in Seq(Bridge!Messages) /\ toPage # <<>> /\ toPage' = Tail(toPage)
    BY DEF Received
  <2>2. Followed(toPage, "hello", "load") => Followed(toPage', "hello", "load")
    BY <2>1, TailQueue
  <2>3. ~Free(toPage, "load") => ~Free(toPage', "load")
    BY <2>1, TailQueue
  <2>4. Free(toPage, "applied") => Free(toPage', "applied") /\ toPage[1].type # "applied"
    <3>1. Free(toPage, "applied") => Free(toPage', "applied")
      BY <2>1, TailQueue
    <3>2. 1 \in 1..Len(toPage)
      BY <2>1, TailFacts
    <3> QED
      BY <3>1, <3>2 DEF Free
  <2>5. ASSUME NEW k \in 1..Len(toPage), Closing(toPage, page.bridged, k)
        PROVE  \E l \in 1..Len(toPage') : Closing(toPage', page'.bridged, l)
    <3>1. page.bridged \in BOOLEAN /\ page'.bridged \in BOOLEAN
      BY <1>1 DEF PageType
    <3>2. k - 1 \in 1..Len(toPage') /\ Closing(toPage', page'.bridged, k - 1)
      BY <2>1, <2>5, <3>1, TailClosing
    <3> QED
      BY <3>2
  <2> QED
    BY <1>2, <1>5, <2>2, <2>3, <2>4, <2>5 DEF LoadInv, BridgeInv
<1> QED
  BY <1>2, <1>3, <1>4, <1>5

LEMMA ReceiveApplied ==
  ASSUME BridgeInv, Received, toPage[1].type = "applied", Bridge!OnApplied
  PROVE  BridgeInv'
<1> USE Fields, BridgeConstants
<1>1. Bridge!TypeOK
  BY DEF BridgeInv
<1>2. /\ page' \in PageType /\ page'.overlay /\ page'.shift = page.shift
      /\ page'.bridged = page.bridged /\ page'.inset = page.inset
      /\ toFrame' = toFrame /\ missed' = missed
  BY <1>1, Typed DEF Bridge!OnApplied, PageType
<1>3. Bridge!TypeOK' /\ SentInv' /\ KnownInv' /\ (Greeted' <=> Greeted) /\ LoadInv'
  BY <1>2, ReceiveOther
<1>4. /\ doc' = doc /\ Followed(toPage', "applied", "scroll")
      /\ ~Free(toPage, "scroll")
      /\ doc.kind = "bridge" /\ doc.clips => Followed(toPage', "applied", "hello")
  BY ReceivedFacts
<1>5. toPage \in Seq(Bridge!Messages) /\ toPage # <<>> /\ toPage' = Tail(toPage)
  BY DEF Received
<1>6. doc.kind = "bridge" /\ doc.clips => ~Greeted'
  <2>1. Followed(toPage, "applied", "hello") => ~Free(toPage', "hello")
    BY <1>5, TailQueue
  <2> QED
    BY <2>1 DEF Greeted, BridgeInv, ConfirmInv
<1>7. ConfirmInv'
  BY <1>2, <1>4, <1>6 DEF ConfirmInv
<1>8. OffsetInv'
  <2>1. LastScroll(toPage, doc.scroll) => LastScroll(toPage', doc.scroll)
    BY <1>5, TailLast
  <2> QED
    BY <1>2, <1>3, <1>4, <2>1 DEF OffsetInv, BridgeInv
<1> QED
  BY <1>3, <1>7, <1>8 DEF BridgeInv

LEMMA ReceiveScroll ==
  ASSUME BridgeInv, Received, toPage[1].type = "scroll", Bridge!OnScroll(toPage[1].offset)
  PROVE  BridgeInv'
<1> USE Fields, BridgeConstants
<1> DEFINE offset == toPage[1].offset
<1>1. Bridge!TypeOK /\ offset \in 0..MaxOffset
  BY ReceivedFacts, MessageTypes DEF BridgeInv
<1>2. /\ page' \in PageType /\ page'.overlay = page.overlay
      /\ page'.bridged = page.bridged /\ page'.inset = page.inset
      /\ page.overlay => page'.shift = Bridge!Smaller(offset, page.inset)
      /\ ~page.overlay => page'.shift = page.shift
      /\ toFrame' = toFrame /\ missed' = missed
  <2>1. Bridge!Smaller(offset, page.inset) \in Nat
    BY <1>1 DEF Bridge!Smaller
  <2> QED
    BY <1>1, <2>1, Typed DEF Bridge!OnScroll, PageType
<1>3. Bridge!TypeOK' /\ SentInv' /\ KnownInv' /\ (Greeted' <=> Greeted) /\ LoadInv'
  BY <1>2, ReceiveOther
<1>4. /\ doc' = doc /\ Followed(toPage', "applied", "scroll")
      /\ doc.kind = "bridge" /\ doc.clips => Followed(toPage', "applied", "hello")
  BY ReceivedFacts
<1>5. toPage \in Seq(Bridge!Messages) /\ toPage # <<>> /\ toPage' = Tail(toPage)
  BY DEF Received
<1>6. ConfirmInv'
  BY <1>2, <1>3, <1>4 DEF ConfirmInv, BridgeInv
<1>7. OffsetInv'
  <2>1. LastScroll(toPage, doc.scroll) =>
            \/ LastScroll(toPage', doc.scroll)
            \/ offset = doc.scroll /\ Free(toPage', "scroll")
    BY <1>5, TailLast
  <2>2. ~Free(toPage, "scroll")
    <3>1. 1 \in 1..Len(toPage)
      BY <1>5, TailFacts
    <3> QED
      BY <3>1 DEF Free
  <2> QED
    BY <1>2, <1>3, <1>4, <2>1, <2>2 DEF OffsetInv, BridgeInv
<1> QED
  BY <1>3, <1>6, <1>7 DEF BridgeInv

LEMMA ReceiveLoad ==
  ASSUME BridgeInv, Received, toPage[1].type = "load", Bridge!OnLoad
  PROVE  BridgeInv'
<1> USE Fields, BridgeConstants
<1>1. Bridge!TypeOK
  BY DEF BridgeInv
<1>2. /\ page' \in PageType /\ ~page'.bridged /\ page'.inset = page.inset
      /\ page.bridged => page'.overlay = page.overlay /\ page'.shift = page.shift
      /\ ~page.bridged => ~page'.overlay /\ page'.shift = 0
      /\ toFrame' = toFrame /\ missed' = missed
  BY <1>1, Typed DEF Bridge!OnLoad, Bridge!AboveFrame, PageType
<1>3. /\ header' = header /\ doc' = doc /\ steps' = steps /\ abandoned' = abandoned
      /\ toPage' \in Seq(Bridge!Messages) /\ (Greeted' <=> Greeted)
      /\ Followed(toPage', "applied", "scroll")
      /\ doc.kind = "bridge" /\ doc.clips => Followed(toPage', "applied", "hello")
  BY ReceivedFacts
<1>4. Bridge!TypeOK'
  BY <1>1, <1>2, <1>3, Typed, TypedNext
<1>5. ConfirmInv' /\ SentInv' /\ KnownInv'
  BY <1>2, <1>3 DEF ConfirmInv, SentInv, KnownInv, BridgeInv
<1>6. toPage \in Seq(Bridge!Messages) /\ toPage # <<>> /\ toPage' = Tail(toPage)
  BY DEF Received
<1>7. OffsetInv'
  <2>1. LastScroll(toPage, doc.scroll) => LastScroll(toPage', doc.scroll)
    BY <1>6, TailLast
  <2>2. Free(toPage, "scroll") => Free(toPage', "scroll")
    BY <1>6, TailQueue
  <2> QED
    BY <1>2, <1>3, <2>1, <2>2 DEF OffsetInv, BridgeInv
<1>8. LoadInv'
  <2>1. Followed(toPage, "hello", "load") => Followed(toPage', "hello", "load")
    BY <1>6, TailQueue
  <2>2. Free(toPage, "applied") => Free(toPage', "applied")
    BY <1>6, TailQueue
  <2>3. ASSUME NEW k \in 1..Len(toPage), Closing(toPage, page.bridged, k)
        PROVE  \/ ~page.bridged /\ Free(toPage', "applied")
               \/ \E l \in 1..Len(toPage') : Closing(toPage', FALSE, l)
    <3>1. \/ ~page.bridged /\ Free(toPage', "applied")
          \/ k - 1 \in 1..Len(toPage') /\ Closing(toPage', FALSE, k - 1)
      BY <1>1, <1>6, <2>3, TailClosing
    <3> QED
      BY <3>1
  <2>4. \A l : Closing(toPage', FALSE, l) <=> Closing(toPage', page'.bridged, l)
    BY <1>2 DEF Closing
  <2> QED
    BY <1>2, <1>3, <2>1, <2>2, <2>3, <2>4 DEF LoadInv, BridgeInv
<1> QED
  BY <1>4, <1>5, <1>7, <1>8 DEF BridgeInv

LEMMA PageReceivesInv ==
  ASSUME BridgeInv, Bridge!PageReceives
  PROVE  BridgeInv'
<1>1. Received
  BY Typed DEF BridgeInv, Bridge!PageReceives, Received
<1>2. Head(toPage) = toPage[1]
  BY <1>1, TailFacts DEF Received
<1> QED
  BY <1>1, <1>2, ReceiveHello, ReceiveApplied, ReceiveScroll, ReceiveLoad DEF Bridge!PageReceives

-----------------------------------------------------------------------------
(* The header over an artifact: the header is resized. *)

LEMMA ResizeInv ==
  ASSUME BridgeInv, NEW h \in Heights, Bridge!Resize(h)
  PROVE  BridgeInv'
<1> USE Fields, BridgeConstants
<1>1. Bridge!TypeOK
  BY DEF BridgeInv
<1>2. /\ page' = page /\ doc' = doc /\ toPage' = toPage /\ toFrame' = toFrame
      /\ abandoned' = abandoned
      /\ missed' = (missed \/ (h = header.seen /\ h # page.inset))
  BY DEF Bridge!Resize
<1>3. header' \in HeaderType /\ header'.height = h /\ header'.seen = header.seen
  BY <1>1, Typed DEF Bridge!Resize, HeaderType
<1>4. steps' \in StepsType /\ steps'.navigations = steps.navigations
  <2>1. /\ steps \in StepsType /\ steps.resizes < MaxResizes
        /\ steps' = [steps EXCEPT !.resizes = steps.resizes + 1]
    BY <1>1, Typed DEF Bridge!Resize
  <2>2. steps.resizes + 1 \in 0..MaxResizes
    BY <2>1 DEF StepsType
  <2> QED
    BY <2>1, <2>2 DEF StepsType
<1>5. Bridge!TypeOK'
  <2>1. missed' \in BOOLEAN
    BY <1>2
  <2> QED
    BY <1>1, <1>2, <1>3, <1>4, <2>1, Typed, TypedNext
<1>6. Greeted' <=> Greeted
  BY <1>2 DEF Greeted
<1>7. KnownInv'
  BY <1>2, <1>3, <1>6 DEF KnownInv
<1>8. ConfirmInv' /\ SentInv' /\ OffsetInv' /\ LoadInv'
  BY <1>2, <1>4, <1>6 DEF BridgeInv, ConfirmInv, SentInv, OffsetInv, LoadInv
<1> QED
  BY <1>5, <1>7, <1>8 DEF BridgeInv

LEMMA ObserveInv ==
  ASSUME BridgeInv, Bridge!Observe
  PROVE  BridgeInv'
<1> USE Fields, BridgeConstants
<1>1. Bridge!TypeOK
  BY DEF BridgeInv
<1>2. /\ doc' = doc /\ toPage' = toPage /\ steps' = steps /\ abandoned' = abandoned
      /\ Greeted' <=> Greeted
  BY DEF Bridge!Observe, Greeted
<1>3. header' \in HeaderType /\ header'.height = header.height /\ header'.seen = header.height
  BY <1>1, Typed DEF Bridge!Observe, HeaderType
<1>4. CASE page.overlay /\ header.height # page.inset
  <2>1. /\ page' = [page EXCEPT !.inset = header.height] /\ missed' = FALSE
        /\ toFrame' = Append(toFrame, [for |-> steps.navigations, top |-> header.height])
    BY <1>4 DEF Bridge!Observe, Bridge!SendInset
  <2>2. /\ page' \in PageType /\ page'.inset = header.height /\ page'.overlay = page.overlay
        /\ page'.shift = page.shift /\ page'.bridged = page.bridged
    BY <1>1, <2>1, Typed DEF PageType
  <2>3. /\ toFrame' \in Seq(InsetType) /\ toFrame' # <<>>
        /\ toFrame'[Len(toFrame')] = [for |-> steps.navigations, top |-> header.height]
    <3>1. [for |-> steps.navigations, top |-> header.height] \in InsetType
      BY <1>1 DEF InsetType
    <3>2. toFrame \in Seq(InsetType)
      BY <1>1, Typed
    <3> QED
      BY <2>1, <3>1, <3>2
  <2>4. Bridge!TypeOK'
    <3>1. missed' \in BOOLEAN
      BY <2>1
    <3> QED
      BY <1>1, <1>2, <1>3, <2>2, <2>3, <3>1, Typed, TypedNext
  <2>5. ConfirmInv' /\ SentInv' /\ KnownInv' /\ OffsetInv' /\ LoadInv'
    BY <1>2, <1>3, <2>2, <2>3 DEF BridgeInv, ConfirmInv, SentInv, KnownInv, OffsetInv, LoadInv
  <2> QED
    BY <2>4, <2>5 DEF BridgeInv
<1>5. CASE ~(page.overlay /\ header.height # page.inset)
  <2>1. page' = page /\ toFrame' = toFrame /\ missed' = (missed \/ header.height # page.inset)
    BY <1>5 DEF Bridge!Observe
  <2>2. Bridge!TypeOK'
    <3>1. missed' \in BOOLEAN
      BY <2>1
    <3> QED
      BY <1>1, <1>2, <1>3, <2>1, <3>1, Typed, TypedNext
  <2>3. KnownInv'
    BY <1>2, <1>3, <2>1 DEF KnownInv
  <2>4. ConfirmInv' /\ SentInv' /\ OffsetInv' /\ LoadInv'
    BY <1>2, <2>1 DEF BridgeInv, ConfirmInv, SentInv, OffsetInv, LoadInv
  <2> QED
    BY <2>2, <2>3, <2>4 DEF BridgeInv
<1> QED
  BY <1>4, <1>5

-----------------------------------------------------------------------------
(* The header over an artifact: the document sends, and goes on. *)

\* The document has sent s: it is none that clips its viewport if it has confirmed.
Sends(s) ==
    /\ s \in Seq(Bridge!Messages) /\ toPage' = toPage \o s
    /\ Free(s, "hello") /\ Followed(s, "applied", "scroll")
    /\ doc.clips => Free(s, "applied")
    /\ doc'.kind = doc.kind /\ doc'.clips = doc.clips
    /\ UNCHANGED <<page, abandoned>>

LEMMA SendsKeep ==
  ASSUME BridgeInv, NEW s, Sends(s)
  PROVE  /\ toPage' \in Seq(Bridge!Messages)
         /\ Greeted' <=> Greeted
         /\ ConfirmInv'
         /\ Followed(toPage, "hello", "load") => Followed(toPage', "hello", "load")
         /\ ~Free(toPage, "load") => ~Free(toPage', "load")
         /\ doc'.phase = doc.phase /\ (doc.kind = "plain" => Free(s, "applied")) => LoadInv'
         /\ LastScroll(s, doc.scroll) => LastScroll(toPage', doc.scroll)
<1>1. /\ toPage \in Seq(Bridge!Messages) /\ s \in Seq(Bridge!Messages) /\ toPage' = toPage \o s
      /\ page' = page /\ abandoned' = abandoned /\ doc'.kind = doc.kind /\ doc'.clips = doc.clips
  BY Typed DEF Sends, BridgeInv
<1>2. toPage' \in Seq(Bridge!Messages)
  BY <1>1, JoinFacts
<1>3. \A t : Free(toPage', t) <=> Free(toPage, t) /\ Free(s, t)
  BY <1>1, JoinQueue
<1>4. \A t, u : Followed(toPage, t, u) /\ Followed(s, t, u) => Followed(toPage', t, u)
  BY <1>1, JoinQueue
<1>5. Greeted' <=> Greeted
  BY <1>1, <1>3 DEF Greeted, Sends
<1>6. ConfirmInv'
  <2>1. doc.clips => Followed(s, "applied", "hello")
    BY DEF Sends, Free, Followed
  <2> QED
    BY <1>1, <1>4, <1>5, <2>1 DEF ConfirmInv, BridgeInv, Sends
<1>7. Followed(toPage, "hello", "load") => Followed(toPage', "hello", "load")
  <2>1. Followed(s, "hello", "load")
    BY DEF Sends, Free, Followed
  <2> QED
    BY <1>4, <2>1
<1>8. ASSUME doc'.phase = doc.phase, doc.kind = "plain" => Free(s, "applied") PROVE LoadInv'
  <2>1. ASSUME NEW k \in 1..Len(toPage), Closing(toPage, page.bridged, k), Free(s, "applied")
        PROVE  \E l \in 1..Len(toPage') : Closing(toPage', page.bridged, l)
    <3>1. page.bridged \in BOOLEAN
      BY Fields DEF BridgeInv
    <3> QED
      BY <1>1, <2>1, <3>1, JoinClosing
  <2> QED
    BY <1>1, <1>3, <1>7, <1>8, <2>1 DEF LoadInv, BridgeInv, Sends
<1>9. LastScroll(s, doc.scroll) => LastScroll(toPage', doc.scroll)
  BY <1>1, JoinLast
<1> QED
  BY <1>2, <1>3, <1>5, <1>6, <1>7, <1>8, <1>9

\* Nothing is sent.
LEMMA Silent ==
  ASSUME Bridge!TypeOK, toPage' = toPage, doc'.kind = doc.kind, doc'.clips = doc.clips,
         UNCHANGED <<page, abandoned>>
  PROVE  Sends(<<>>)
<1>1. toPage \in Seq(Bridge!Messages) /\ toPage \o <<>> = toPage
  BY Typed
<1>2. Free(<<>>, "hello") /\ Free(<<>>, "applied") /\ Followed(<<>>, "applied", "scroll")
  BY DEF Free, Followed
<1>3. <<>> \in Seq(Bridge!Messages)
  OBVIOUS
<1> QED
  BY <1>1, <1>2, <1>3 DEF Sends

\* A confirmation, or several, with the offset of the document.
Confirms(s, n, offset) ==
    /\ s \in Seq(Bridge!Messages) /\ Len(s) = 2 * n
    /\ \A k \in 1..2 * n : /\ s[k].type = IF k % 2 = 1 THEN "applied" ELSE "scroll"
                           /\ k % 2 = 0 => s[k].offset = offset

LEMMA ConfirmsFacts ==
  ASSUME NEW s, NEW n \in Nat \ {0}, NEW offset, Confirms(s, n, offset)
  PROVE  Free(s, "hello") /\ Followed(s, "applied", "scroll") /\ LastScroll(s, offset)
<1>1. Free(s, "hello")
  BY DEF Confirms, Free
<1>2. Followed(s, "applied", "scroll")
  <2> SUFFICES ASSUME NEW k \in 1..2 * n, s[k].type = "applied"
               PROVE  \E l \in k+1..2 * n : s[l].type = "scroll"
    BY DEF Confirms, Followed
  <2>1. k % 2 = 1
    BY DEF Confirms
  <2>2. k + 1 \in k+1..2 * n /\ (k + 1) % 2 = 0
    BY <2>1
  <2> QED
    BY <2>2 DEF Confirms
<1>3. LastScroll(s, offset)
  <2>1. 2 * n \in 1..Len(s) /\ (2 * n) % 2 = 0
    BY DEF Confirms
  <2>2. s[2 * n].type = "scroll" /\ s[2 * n].offset = offset
    BY <2>1 DEF Confirms
  <2>3. \A l \in 2 * n + 1..Len(s) : s[l].type # "scroll"
    BY DEF Confirms
  <2> QED
    BY <2>1, <2>2, <2>3 DEF LastScroll
<1> QED
  BY <1>1, <1>2, <1>3

\* A document that reserves a height: what it reserves and what is visible of it.
LEMMA AppliedFacts ==
  ASSUME NEW d \in DocType, NEW top \in Heights, ~d.clips
  PROVE  LET e == Bridge!AppliedTo(d, top) IN
         /\ e \in DocType /\ e.kind = d.kind /\ e.clips = d.clips /\ e.phase = d.phase
         /\ e.scroll = d.scroll /\ e.inset = top /\ ~e.frame
         /\ e.visible = Bridge!VisibleOf(top, d.scroll)
<1> USE BridgeConstants
<1>1. top \in Nat /\ d.scroll \in Nat /\ Bridge!VisibleOf(top, d.scroll) \in Nat
  BY DEF DocType, Bridge!VisibleOf
<1> DEFINE r == [d EXCEPT !.inset = top]
<1>2. r \in DocType /\ r.inset = top /\ top # -1 /\ r.scroll = d.scroll
      /\ r.kind = d.kind /\ r.clips = d.clips /\ r.phase = d.phase
  <2>1. r \in DocType
    BY DEF DocType
  <2>2. r.inset = top /\ r.scroll = d.scroll /\ r.kind = d.kind /\ r.clips = d.clips
        /\ r.phase = d.phase
    BY DEF DocType
  <2>3. top # -1
    BY <1>1
  <2> QED
    BY <2>1, <2>2, <2>3
<1>3. Bridge!AppliedTo(d, top) = Bridge!Reported(r)
  BY DEF Bridge!AppliedTo
<1> HIDE DEF r
<1>4. Bridge!Reported(r) = [r EXCEPT !.frame = FALSE, !.visible = Bridge!VisibleOf(top, d.scroll)]
  BY <1>2 DEF Bridge!Reported, Bridge!Unset
<1>5. [r EXCEPT !.frame = FALSE, !.visible = Bridge!VisibleOf(top, d.scroll)] \in DocType
  BY <1>1, <1>2 DEF DocType
<1>6. LET e == [r EXCEPT !.frame = FALSE, !.visible = Bridge!VisibleOf(top, d.scroll)] IN
      /\ e.kind = r.kind /\ e.clips = r.clips /\ e.phase = r.phase
      /\ e.scroll = r.scroll /\ e.inset = r.inset /\ ~e.frame
      /\ e.visible = Bridge!VisibleOf(top, d.scroll)
  BY <1>2 DEF DocType
<1> QED
  BY <1>2, <1>3, <1>4, <1>5, <1>6

\* The last inset on its way, when the first has been taken.
LEMMA TailInsets ==
  ASSUME Bridge!TypeOK, toFrame # <<>>, toFrame' = Tail(toFrame)
  PROVE  /\ toFrame' \in Seq(InsetType) /\ Head(toFrame) \in InsetType
         /\ toFrame' = <<>> => toFrame[Len(toFrame)] = Head(toFrame)
         /\ toFrame' # <<>> => toFrame'[Len(toFrame')] = toFrame[Len(toFrame)]
<1>1. toFrame \in Seq(InsetType)
  BY Typed
<1>2. /\ toFrame' \in Seq(InsetType) /\ Head(toFrame) = toFrame[1] /\ toFrame[1] \in InsetType
      /\ Len(toFrame) \in Nat /\ Len(toFrame) > 0 /\ Len(toFrame') = Len(toFrame) - 1
      /\ \A k \in 1..Len(toFrame') : toFrame'[k] = toFrame[k + 1]
  BY <1>1, TailFacts
<1>3. toFrame' = <<>> => Len(toFrame) = 1
  <2>1. toFrame' = <<>> => Len(toFrame') = 0
    OBVIOUS
  <2> QED
    BY <1>2, <2>1
<1>4. toFrame' # <<>> => Len(toFrame') \in 1..Len(toFrame')
  BY <1>2
<1> QED
  BY <1>2, <1>3, <1>4

\* One confirmation.
LEMMA OneConfirmation ==
  ASSUME NEW d \in DocType, ~d.clips
  PROVE  Confirms(Bridge!Confirmation(d), 1, d.scroll)
<1>1. d.scroll \in 0..MaxOffset
  BY DEF DocType
<1> DEFINE s == <<Bridge!Applied, Bridge!Scroll(d.scroll)>>
<1>2. Bridge!Confirmation(d) = s
  BY DEF Bridge!Confirmation
<1>3. /\ s \in Seq(Bridge!Messages) /\ Len(s) = 2
      /\ s[1].type = "applied" /\ s[2].type = "scroll" /\ s[2].offset = d.scroll
  BY <1>1, MessageTypes
<1> HIDE DEF s
<1>4. 1 % 2 = 1 /\ 2 % 2 = 0 /\ 2 * 1 = 2 /\ \A k \in 1..2 : k = 1 \/ k = 2
  OBVIOUS
<1> QED
  BY <1>2, <1>3, <1>4 DEF Confirms

LEMMA FrameReceivesInv ==
  ASSUME BridgeInv, Bridge!FrameReceives
  PROVE  BridgeInv'
<1> USE Fields, BridgeConstants
<1> DEFINE m == Head(toFrame)
           refused == m.for # steps.navigations \/ doc.kind = "plain" \/ m.top > MaxInset
<1>1. Bridge!TypeOK
  BY DEF BridgeInv
<1>2. /\ toFrame # <<>> /\ toFrame' = Tail(toFrame)
      /\ page' = page /\ header' = header /\ steps' = steps /\ abandoned' = abandoned
      /\ missed' = missed
  BY DEF Bridge!FrameReceives
<1>3. /\ toFrame' \in Seq(InsetType) /\ m \in InsetType
      /\ toFrame' = <<>> => toFrame[Len(toFrame)] = m
      /\ toFrame' # <<>> => toFrame'[Len(toFrame')] = toFrame[Len(toFrame)]
  BY <1>1, <1>2, TailInsets
<1>4. m.top \in Heights
  BY <1>3 DEF InsetType
<1>5. Greeted /\ page.inset <= MaxInset =>
        /\ toFrame[Len(toFrame)] = [for |-> steps.navigations, top |-> page.inset]
        /\ toFrame' = <<>> => m.top = page.inset /\ m.for = steps.navigations
  BY <1>2, <1>3 DEF SentInv, BridgeInv
<1>6. doc \in DocType
  BY <1>1, Typed
<1>7. CASE refused
  <2>1. doc' = doc /\ toPage' = toPage
    BY <1>7 DEF Bridge!FrameReceives
  <2>2. Bridge!TypeOK'
    BY <1>1, <1>2, <1>3, <2>1, Typed, TypedNext
  <2>3. (Greeted' <=> Greeted) /\ ConfirmInv' /\ KnownInv' /\ LoadInv'
    BY <1>2, <2>1 DEF Greeted, ConfirmInv, KnownInv, LoadInv, BridgeInv
  <2>4. Greeted /\ page.inset <= MaxInset => toFrame' # <<>>
    BY <1>1, <1>5, <1>7 DEF Greeted
  <2>5. SentInv'
    BY <1>2, <1>3, <1>5, <2>3, <2>4 DEF SentInv
  <2>6. OffsetInv'
    BY <1>2, <2>1, <2>3, <2>4 DEF OffsetInv, BridgeInv
  <2> QED
    BY <2>2, <2>3, <2>5, <2>6 DEF BridgeInv
<1>8. CASE ~refused /\ doc.phase = "parsing"
  <2>1. doc' = [doc EXCEPT !.waiting = Append(doc.waiting, m.top)] /\ toPage' = toPage
    BY <1>8 DEF Bridge!FrameReceives
  <2>2. /\ doc' \in DocType
        /\ doc'.kind = doc.kind /\ doc'.clips = doc.clips /\ doc'.phase = doc.phase
        /\ doc'.inset = doc.inset /\ doc'.visible = doc.visible /\ doc'.scroll = doc.scroll
        /\ doc'.frame = doc.frame /\ doc'.waiting = Append(doc.waiting, m.top)
    <3>1. Append(doc.waiting, m.top) \in Seq(Heights)
      BY <1>1, <1>4
    <3> HIDE DEF m
    <3> QED
      BY <1>6, <2>1, <3>1 DEF DocType
  <2>3. doc'.waiting # <<>> /\ doc'.waiting[Len(doc'.waiting)] = m.top
    <3>1. doc.waiting \in Seq(Heights)
      BY <1>1
    <3> QED
      BY <1>4, <2>2, <3>1
  <2>4. Bridge!TypeOK'
    BY <1>1, <1>2, <1>3, <2>1, <2>2, Typed, TypedNext
  <2>5. (Greeted' <=> Greeted) /\ ConfirmInv' /\ KnownInv' /\ LoadInv'
    BY <1>2, <2>1, <2>2 DEF Greeted, ConfirmInv, KnownInv, LoadInv, BridgeInv
  <2>6. SentInv'
    BY <1>2, <1>3, <1>5, <1>8, <2>2, <2>3, <2>5 DEF SentInv
  <2>7. OffsetInv'
    BY <1>8, <2>2 DEF OffsetInv, BridgeInv
  <2> QED
    BY <2>4, <2>5, <2>6, <2>7 DEF BridgeInv
<1>9. CASE ~refused /\ doc.phase # "parsing" /\ doc.clips
  <2>1. doc' = doc /\ toPage' = toPage
    <3>1. toPage \o <<>> = toPage
      BY <1>1, Typed
    <3> QED
      BY <1>9, <3>1 DEF Bridge!FrameReceives, Bridge!AppliedTo, Bridge!Confirmation
  <2>2. Bridge!TypeOK'
    BY <1>1, <1>2, <1>3, <2>1, Typed, TypedNext
  <2>3. (Greeted' <=> Greeted) /\ ConfirmInv' /\ KnownInv' /\ LoadInv'
    BY <1>2, <2>1 DEF Greeted, ConfirmInv, KnownInv, LoadInv, BridgeInv
  <2>4. SentInv'
    BY <1>2, <1>3, <1>5, <1>9, <2>1, <2>3 DEF SentInv
  <2>5. OffsetInv'
    BY <1>9, <2>1 DEF OffsetInv, BridgeInv
  <2> QED
    BY <2>2, <2>3, <2>4, <2>5 DEF BridgeInv
<1>10. CASE ~refused /\ doc.phase # "parsing" /\ ~doc.clips
  <2> DEFINE s == Bridge!Confirmation(doc)
  <2>1. doc' = Bridge!AppliedTo(doc, m.top) /\ toPage' = toPage \o s /\ doc.kind = "bridge"
    BY <1>1, <1>10 DEF Bridge!FrameReceives
  <2>2. Confirms(s, 1, doc.scroll)
    BY <1>6, <1>10, OneConfirmation
  <2> HIDE DEF s
  <2>3. /\ doc' \in DocType
        /\ doc'.kind = doc.kind /\ doc'.clips = doc.clips /\ doc'.phase = doc.phase
        /\ doc'.inset = m.top /\ doc'.scroll = doc.scroll /\ ~doc'.frame
        /\ doc'.visible = Bridge!VisibleOf(m.top, doc.scroll)
    BY <1>4, <1>6, <1>10, <2>1, AppliedFacts
  <2>4. Free(s, "hello") /\ Followed(s, "applied", "scroll") /\ LastScroll(s, doc.scroll)
    BY <2>2, ConfirmsFacts
  <2>5. Sends(s)
    BY <1>2, <1>10, <2>1, <2>2, <2>3, <2>4 DEF Sends, Confirms
  <2>6. /\ toPage' \in Seq(Bridge!Messages) /\ (Greeted' <=> Greeted) /\ ConfirmInv' /\ LoadInv'
        /\ LastScroll(toPage', doc.scroll)
    BY <2>1, <2>3, <2>4, <2>5, SendsKeep
  <2>7. Bridge!TypeOK'
    BY <1>1, <1>2, <1>3, <2>3, <2>6, Typed, TypedNext
  <2>8. SentInv'
    BY <1>2, <1>3, <1>5, <1>10, <2>3, <2>6 DEF SentInv
  <2>9. KnownInv' /\ OffsetInv'
    BY <1>2, <2>3, <2>6 DEF KnownInv, OffsetInv, BridgeInv
  <2> QED
    BY <2>6, <2>7, <2>8, <2>9 DEF BridgeInv
<1> QED
  BY <1>7, <1>8, <1>9, <1>10

\* Several confirmations at once.
LEMMA Confirmations ==
  ASSUME NEW d \in DocType, NEW n \in Nat
  PROVE  Confirms([k \in 1..(2 * n) |-> IF k % 2 = 1 THEN Bridge!Applied ELSE Bridge!Scroll(d.scroll)],
                  n, d.scroll)
<1> DEFINE s == [k \in 1..(2 * n) |-> IF k % 2 = 1 THEN Bridge!Applied ELSE Bridge!Scroll(d.scroll)]
<1>1. d.scroll \in 0..MaxOffset
  BY DEF DocType
<1>2. /\ Bridge!Applied \in Bridge!Messages /\ Bridge!Applied.type = "applied"
      /\ Bridge!Scroll(d.scroll) \in Bridge!Messages
      /\ Bridge!Scroll(d.scroll).type = "scroll" /\ Bridge!Scroll(d.scroll).offset = d.scroll
  BY <1>1, MessageTypes
<1>3. 2 * n \in Nat
  OBVIOUS
<1>4. s \in [1..(2 * n) -> Bridge!Messages]
  BY <1>2
<1>5. s \in Seq(Bridge!Messages) /\ Len(s) = 2 * n
  BY <1>3, <1>4
<1>6. \A k \in 1..2 * n : /\ s[k].type = IF k % 2 = 1 THEN "applied" ELSE "scroll"
                          /\ k % 2 = 0 => s[k].offset = d.scroll
  BY <1>2
<1> QED
  BY <1>5, <1>6 DEF Confirms

LEMMA ParsedInv ==
  ASSUME BridgeInv, Bridge!Parsed
  PROVE  BridgeInv'
<1> USE Fields, BridgeConstants
<1> DEFINE ready == [doc EXCEPT !.phase = "parsed", !.waiting = <<>>]
           n == Len(doc.waiting)
<1>1. Bridge!TypeOK /\ doc \in DocType
  BY Typed DEF BridgeInv
<1>2. /\ doc.phase = "parsing"
      /\ page' = page /\ header' = header /\ toFrame' = toFrame /\ steps' = steps
      /\ abandoned' = abandoned /\ missed' = missed
  BY DEF Bridge!Parsed
<1>3. n \in Nat /\ (n = 0 <=> doc.waiting = <<>>) /\ (n # 0 => doc.waiting[n] \in Heights)
  BY <1>1
<1>4. /\ ready \in DocType /\ ready.kind = doc.kind /\ ready.clips = doc.clips
      /\ ready.phase = "parsed" /\ ready.inset = doc.inset /\ ready.visible = doc.visible
      /\ ready.scroll = doc.scroll /\ ready.frame = doc.frame
  <2>1. <<>> \in Seq(Heights)
    OBVIOUS
  <2> QED
    BY <1>1, <2>1 DEF DocType
<1>5. n = 0 => doc' = ready /\ toPage' = toPage
  BY DEF Bridge!Parsed
<1>6. n # 0 /\ doc.clips => doc' = ready /\ toPage' = toPage
  <2>1. toPage \o <<>> = toPage
    BY <1>1, Typed
  <2> HIDE DEF n
  <2>2. n # 0 /\ doc.clips => doc' = Bridge!AppliedTo(ready, doc.waiting[n]) /\ toPage' = toPage \o <<>>
    BY DEF Bridge!Parsed, n
  <2> HIDE DEF ready
  <2> QED
    BY <1>4, <2>1, <2>2 DEF Bridge!AppliedTo
<1>7. Greeted /\ page.inset <= MaxInset /\ toFrame = <<>> =>
        n # 0 /\ doc.waiting[n] = page.inset
  BY <1>2, <1>3 DEF SentInv, BridgeInv
<1>8. CASE n = 0 \/ doc.clips
  <2>1. doc' = ready /\ toPage' = toPage
    BY <1>5, <1>6, <1>8
  <2> HIDE DEF ready, n
  <2>2. Bridge!TypeOK'
    BY <1>1, <1>2, <1>4, <2>1, Typed, TypedNext
  <2>3. (Greeted' <=> Greeted) /\ ConfirmInv' /\ KnownInv'
    BY <1>2, <1>4, <2>1 DEF Greeted, ConfirmInv, KnownInv, BridgeInv
  <2>4. SentInv' /\ OffsetInv'
    BY <1>2, <1>4, <1>7, <1>8, <2>1, <2>3 DEF SentInv, OffsetInv, BridgeInv
  <2>5. LoadInv'
    BY <1>2, <1>4, <2>1 DEF LoadInv, BridgeInv
  <2> QED
    BY <2>2, <2>3, <2>4, <2>5 DEF BridgeInv
<1>9. CASE n # 0 /\ ~doc.clips
  <2> DEFINE s == [k \in 1..(2 * n) |-> IF k % 2 = 1 THEN Bridge!Applied ELSE Bridge!Scroll(doc.scroll)]
             top == doc.waiting[n]
  <2>1. doc' = Bridge!AppliedTo(ready, top) /\ toPage' = toPage \o s
    BY <1>9 DEF Bridge!Parsed
  <2>2. Confirms(s, n, doc.scroll)
    BY <1>1, <1>3, Confirmations
  <2> HIDE DEF s, ready, n
  <2>3. top \in Heights
    BY <1>3, <1>9
  <2> HIDE DEF top
  <2>4. /\ doc' \in DocType /\ doc'.kind = doc.kind /\ doc'.clips = doc.clips
        /\ doc'.phase = "parsed" /\ doc'.scroll = doc.scroll /\ doc'.inset = top /\ ~doc'.frame
        /\ doc'.visible = Bridge!VisibleOf(top, doc.scroll)
    BY <1>4, <1>9, <2>1, <2>3, AppliedFacts
  <2>5. Free(s, "hello") /\ Followed(s, "applied", "scroll") /\ LastScroll(s, doc.scroll)
    BY <1>3, <1>9, <2>2, ConfirmsFacts
  <2>6. Sends(s)
    BY <1>2, <1>9, <2>1, <2>2, <2>4, <2>5 DEF Sends, Confirms
  <2>7. /\ toPage' \in Seq(Bridge!Messages) /\ (Greeted' <=> Greeted) /\ ConfirmInv'
        /\ LastScroll(toPage', doc.scroll)
        /\ Followed(toPage, "hello", "load") => Followed(toPage', "hello", "load")
        /\ ~Free(toPage, "load") => ~Free(toPage', "load")
    BY <2>5, <2>6, SendsKeep
  <2>8. Bridge!TypeOK'
    BY <1>1, <1>2, <2>4, <2>7, Typed, TypedNext
  <2>9. SentInv'
    BY <1>2, <1>7, <2>4, <2>7 DEF SentInv, BridgeInv, top
  <2>10. KnownInv' /\ OffsetInv'
    BY <1>2, <2>4, <2>7 DEF KnownInv, OffsetInv, BridgeInv
  <2>11. LoadInv'
    BY <1>2, <2>4, <2>7 DEF LoadInv, BridgeInv
  <2> QED
    BY <2>7, <2>8, <2>9, <2>10, <2>11 DEF BridgeInv
<1> QED
  BY <1>8, <1>9

LEMMA LoadedInv ==
  ASSUME BridgeInv, Bridge!Loaded
  PROVE  BridgeInv'
<1> USE Fields, BridgeConstants
<1> DEFINE s == <<Bridge!Load>>
<1>1. Bridge!TypeOK /\ doc \in DocType /\ toPage \in Seq(Bridge!Messages)
  BY Typed DEF BridgeInv
<1>2. /\ doc.phase = "parsed" /\ doc' = [doc EXCEPT !.phase = "loaded"]
      /\ page' = page /\ header' = header /\ toFrame' = toFrame /\ steps' = steps
      /\ abandoned' = abandoned /\ missed' = missed
      /\ toPage' = Append(toPage, Bridge!Load)
  BY DEF Bridge!Loaded
<1>3. /\ doc' \in DocType /\ doc'.kind = doc.kind /\ doc'.clips = doc.clips
      /\ doc'.phase = "loaded" /\ doc'.inset = doc.inset /\ doc'.visible = doc.visible
      /\ doc'.scroll = doc.scroll /\ doc'.frame = doc.frame
  BY <1>1, <1>2 DEF DocType
<1>4. toPage' = toPage \o s /\ s \in Seq(Bridge!Messages) /\ Len(s) = 1 /\ s[1].type = "load"
      /\ s[1] = Bridge!Load
  <2>1. Bridge!Load \in Bridge!Messages /\ Bridge!Load.type = "load"
    BY MessageTypes
  <2>2. s \in Seq(Bridge!Messages) /\ Len(s) = 1 /\ s[1] = Bridge!Load
    BY <2>1
  <2>3. Append(toPage, Bridge!Load) = toPage \o s
    <3>1. toPage \in Seq(Bridge!Messages)
      BY <1>1
    <3> QED
      BY ONLY <2>1, <3>1, AppendJoins
  <2> QED
    BY <1>2, <2>1, <2>2, <2>3
<1>5. Free(s, "hello") /\ Free(s, "applied") /\ Free(s, "scroll") /\ ~Free(s, "load")
      /\ Followed(s, "applied", "scroll")
  BY <1>4 DEF Free, Followed
<1>6. /\ Followed(toPage', "hello", "load") /\ ~Free(toPage', "load")
      /\ Free(toPage, "scroll") => Free(toPage', "scroll")
      /\ LastScroll(toPage, doc.scroll) => LastScroll(toPage', doc.scroll)
  <2>1. Followed(toPage', "hello", "load")
    BY <1>1, <1>4, <1>5, JoinQueue
  <2>2. ~Free(toPage', "load")
    BY <1>1, <1>4, <1>5, JoinQueue
  <2>3. Free(toPage, "scroll") => Free(toPage', "scroll")
    BY <1>1, <1>4, <1>5, JoinQueue
  <2>4. LastScroll(toPage, doc.scroll) => LastScroll(toPage', doc.scroll)
    BY <1>1, <1>4, <1>5, JoinLast
  <2> QED
    BY <2>1, <2>2, <2>3, <2>4
<1>7. doc.kind = "plain" /\ ~abandoned =>
        \E k \in 1..Len(toPage') : Closing(toPage', page.bridged, k)
  <2> SUFFICES ASSUME doc.kind = "plain", ~abandoned
               PROVE  \E k \in 1..Len(toPage') : Closing(toPage', page.bridged, k)
    OBVIOUS
  <2>1. page.bridged \in BOOLEAN
    BY <1>1
  <2>2. Followed(toPage, "hello", "load") /\ (page.bridged => ~Free(toPage, "load"))
    BY DEF LoadInv, BridgeInv
  <2>3. Len(toPage) + 1 \in 1..Len(toPage') /\ Closing(toPage', page.bridged, Len(toPage) + 1)
    BY <1>1, <1>4, <2>1, <2>2, LoadCloses, MessageTypes
  <2> QED
    BY <2>3
<1> HIDE DEF s
<1>8. Sends(s)
  BY <1>2, <1>3, <1>4, <1>5 DEF Sends
<1>9. toPage' \in Seq(Bridge!Messages) /\ (Greeted' <=> Greeted) /\ ConfirmInv'
  BY <1>8, SendsKeep
<1>10. Bridge!TypeOK'
  BY <1>1, <1>2, <1>3, <1>9, Typed, TypedNext
<1>11. SentInv' /\ KnownInv' /\ OffsetInv'
  BY <1>2, <1>3, <1>6, <1>9 DEF SentInv, KnownInv, OffsetInv, BridgeInv
<1>12. LoadInv'
  BY <1>2, <1>3, <1>6, <1>7 DEF LoadInv, BridgeInv
<1> QED
  BY <1>9, <1>10, <1>11, <1>12 DEF BridgeInv

LEMMA ScrollToInv ==
  ASSUME BridgeInv, NEW offset \in 0..MaxOffset, Bridge!ScrollTo(offset)
  PROVE  BridgeInv'
<1> USE Fields, BridgeConstants
<1>1. Bridge!TypeOK /\ doc \in DocType
  BY Typed DEF BridgeInv
<1>2. /\ doc' = [doc EXCEPT !.scroll = offset, !.frame = (doc.kind = "bridge")]
      /\ page' = page /\ header' = header /\ toPage' = toPage /\ toFrame' = toFrame
      /\ abandoned' = abandoned /\ missed' = missed
  BY DEF Bridge!ScrollTo
<1>3. steps' \in StepsType /\ steps'.navigations = steps.navigations
  <2>1. /\ steps \in StepsType /\ steps.scrolls < MaxScrolls
        /\ steps' = [steps EXCEPT !.scrolls = steps.scrolls + 1]
    BY <1>1, Typed DEF Bridge!ScrollTo
  <2>2. steps.scrolls + 1 \in 0..MaxScrolls
    BY <2>1 DEF StepsType
  <2> QED
    BY <2>1, <2>2 DEF StepsType
<1>4. /\ doc' \in DocType /\ doc'.kind = doc.kind /\ doc'.clips = doc.clips
      /\ doc'.phase = doc.phase /\ doc'.waiting = doc.waiting /\ doc'.inset = doc.inset
      /\ doc.kind = "bridge" => doc'.frame
  <2>1. (doc.kind = "bridge") \in BOOLEAN
    OBVIOUS
  <2> QED
    BY <1>1, <1>2, <2>1 DEF DocType
<1>5. Bridge!TypeOK'
  BY <1>1, <1>2, <1>3, <1>4, Typed, TypedNext
<1>6. (Greeted' <=> Greeted) /\ ConfirmInv' /\ KnownInv' /\ LoadInv'
  BY <1>2, <1>4 DEF Greeted, ConfirmInv, KnownInv, LoadInv, BridgeInv
<1>7. SentInv' /\ OffsetInv'
  BY <1>2, <1>3, <1>4, <1>6 DEF SentInv, OffsetInv, BridgeInv, Greeted
<1> QED
  BY <1>5, <1>6, <1>7 DEF BridgeInv

LEMMA AnimationFrameInv ==
  ASSUME BridgeInv, Bridge!AnimationFrame
  PROVE  BridgeInv'
<1> USE Fields, BridgeConstants
<1> DEFINE s == <<Bridge!Scroll(doc.scroll)>>
           seen == IF doc.inset = -1 THEN 0 ELSE Bridge!VisibleOf(doc.inset, doc.scroll)
<1>1. Bridge!TypeOK /\ doc \in DocType /\ toPage \in Seq(Bridge!Messages) /\ doc.scroll \in 0..MaxOffset
  BY Typed DEF BridgeInv
<1>2. /\ doc' = [doc EXCEPT !.frame = FALSE, !.visible = seen]
      /\ page' = page /\ header' = header /\ toFrame' = toFrame /\ steps' = steps
      /\ abandoned' = abandoned /\ missed' = missed
      /\ toPage' = Append(toPage, Bridge!Scroll(doc.scroll))
  BY DEF Bridge!AnimationFrame, Bridge!Reported, Bridge!Unset
<1>3. seen \in Nat
  BY <1>1 DEF Bridge!VisibleOf
<1>4. doc.inset # -1 => seen = Bridge!VisibleOf(doc.inset, doc.scroll)
  OBVIOUS
<1>5. /\ toPage' = toPage \o s /\ s \in Seq(Bridge!Messages) /\ Len(s) = 1
      /\ s[1].type = "scroll" /\ s[1].offset = doc.scroll
  <2>1. /\ Bridge!Scroll(doc.scroll) \in Bridge!Messages
        /\ Bridge!Scroll(doc.scroll).type = "scroll" /\ Bridge!Scroll(doc.scroll).offset = doc.scroll
    BY <1>1, MessageTypes
  <2> QED
    BY <1>1, <1>2, <2>1, AppendJoins
<1> HIDE DEF s, seen
<1>6. /\ doc' \in DocType /\ doc'.kind = doc.kind /\ doc'.clips = doc.clips
      /\ doc'.phase = doc.phase /\ doc'.waiting = doc.waiting /\ doc'.inset = doc.inset
      /\ doc'.scroll = doc.scroll /\ doc'.visible = seen
  BY <1>1, <1>2, <1>3 DEF DocType
<1>7. /\ Free(s, "hello") /\ Free(s, "applied") /\ Followed(s, "applied", "scroll")
      /\ LastScroll(s, doc.scroll)
  BY <1>5 DEF Free, Followed, LastScroll
<1>8. Sends(s)
  BY <1>2, <1>5, <1>6, <1>7 DEF Sends
<1>9. /\ toPage' \in Seq(Bridge!Messages) /\ (Greeted' <=> Greeted) /\ ConfirmInv' /\ LoadInv'
      /\ LastScroll(toPage', doc.scroll)
  BY <1>6, <1>7, <1>8, SendsKeep
<1>10. Bridge!TypeOK'
  BY <1>1, <1>2, <1>6, <1>9, Typed, TypedNext
<1>11. SentInv' /\ KnownInv'
  BY <1>2, <1>6, <1>9 DEF SentInv, KnownInv, BridgeInv
<1>12. OffsetInv'
  BY <1>4, <1>6, <1>9 DEF OffsetInv
<1> QED
  BY <1>9, <1>10, <1>11, <1>12 DEF BridgeInv

LEMMA NavigateInv ==
  ASSUME BridgeInv, NEW kind \in {"bridge", "plain"}, NEW clips \in BOOLEAN,
         Bridge!Navigate(kind, clips)
  PROVE  BridgeInv'
<1> USE Fields, BridgeConstants
<1> DEFINE s == Bridge!Greeting(kind)
<1>1. Bridge!TypeOK /\ toPage \in Seq(Bridge!Messages)
  BY Typed DEF BridgeInv
<1>2. /\ doc' = Bridge!Fresh(kind, clips) /\ toPage' = toPage \o s
      /\ abandoned' = (doc.phase # "loaded" /\ (doc.kind = "bridge" \/ abandoned))
      /\ page' = page /\ header' = header /\ toFrame' = toFrame /\ missed' = missed
      /\ kind = "plain" => ~clips
  BY DEF Bridge!Navigate
<1>3. steps' \in StepsType
  <2>1. /\ steps \in StepsType /\ steps.navigations < MaxNavigations
        /\ steps' = [steps EXCEPT !.navigations = steps.navigations + 1]
    BY <1>1, Typed DEF Bridge!Navigate
  <2>2. steps.navigations + 1 \in 1..MaxNavigations
    BY <2>1 DEF StepsType
  <2> QED
    BY <2>1, <2>2 DEF StepsType
<1>4. doc' \in DocType /\ doc'.kind = kind /\ doc'.clips = clips /\ doc'.phase = "parsing"
      /\ doc'.inset = -1
  BY <1>2 DEF Bridge!Fresh, Bridge!Unset, DocType
<1>5. abandoned' \in BOOLEAN /\ missed' \in BOOLEAN
  <2>1. missed \in BOOLEAN
    BY <1>1, Typed
  <2> QED
    BY <1>2, <2>1
<1>6. s \in Seq(Bridge!Messages) /\ Followed(s, "applied", "scroll")
      /\ (kind = "bridge" => ~Free(s, "hello") /\ Free(s, "applied"))
      /\ (kind = "plain" => s = <<>>)
  <2>1. CASE kind = "bridge"
    <3>1. s = <<Bridge!Hello>> /\ Bridge!Hello \in Bridge!Messages /\ Bridge!Hello.type = "hello"
      BY <2>1, MessageTypes DEF Bridge!Greeting
    <3>2. s \in Seq(Bridge!Messages) /\ Len(s) = 1 /\ s[1].type = "hello"
      BY <3>1
    <3> QED
      BY <2>1, <3>2 DEF Free, Followed
  <2>2. CASE kind = "plain"
    <3>1. s = <<>> /\ Len(s) = 0 /\ s \in Seq(Bridge!Messages)
      BY <2>2 DEF Bridge!Greeting
    <3> QED
      BY <2>2, <3>1 DEF Followed
  <2> QED
    BY <2>1, <2>2
<1> HIDE DEF s
<1>7. toPage' \in Seq(Bridge!Messages)
  BY <1>1, <1>2, <1>6, JoinFacts
<1>8. Bridge!TypeOK'
  BY <1>1, <1>2, <1>3, <1>4, <1>5, <1>7, Typed, TypedNext
<1>9. ~Greeted'
  <2>1. kind = "bridge" => ~Free(toPage', "hello")
    BY <1>1, <1>2, <1>6, JoinQueue
  <2> QED
    BY <1>4, <2>1 DEF Greeted
<1>10. ConfirmInv'
  <2>1. Followed(toPage', "applied", "scroll")
    BY <1>1, <1>2, <1>6, JoinQueue DEF BridgeInv, ConfirmInv
  <2>2. kind = "bridge" => Followed(toPage', "applied", "hello")
    BY <1>1, <1>2, <1>6, JoinQueue
  <2> QED
    BY <1>2, <1>4, <1>9, <2>1, <2>2 DEF ConfirmInv, BridgeInv
<1>11. SentInv' /\ KnownInv' /\ OffsetInv'
  BY <1>4, <1>9 DEF SentInv, KnownInv, OffsetInv
<1>12. LoadInv'
  <2>1. kind = "plain" => toPage' = toPage
    BY <1>1, <1>2, <1>6
  <2>2. kind = "plain" /\ ~abandoned' => doc.phase = "loaded" \/ (doc.kind = "plain" /\ ~abandoned)
    BY <1>1, <1>2
  <2> QED
    BY <1>2, <1>4, <2>1, <2>2 DEF LoadInv, BridgeInv
<1> QED
  BY <1>8, <1>10, <1>11, <1>12 DEF BridgeInv

LEMMA BridgeNext == BridgeInv /\ [Bridge!Next]_bridgeVars => BridgeInv'
<1> SUFFICES ASSUME BridgeInv, [Bridge!Next]_bridgeVars PROVE BridgeInv'
  OBVIOUS
<1>1. CASE UNCHANGED bridgeVars
  BY <1>1 DEF bridgeVars, BridgeInv, Bridge!TypeOK, Bridge!Messages, ConfirmInv, SentInv, KnownInv,
              OffsetInv, LoadInv, Greeted
<1>2. CASE Bridge!Next
  BY <1>2, PageReceivesInv, ObserveInv, FrameReceivesInv, ParsedInv, LoadedInv, AnimationFrameInv,
     ResizeInv, ScrollToInv, NavigateInv DEF Bridge!Next, Bridge!Tasks
<1> QED
  BY <1>1, <1>2

-----------------------------------------------------------------------------
(* The header over an artifact: theorems. *)

LEMMA BridgeShows ==
  ASSUME BridgeInv
  PROVE  Bridge!TypeOK /\ Bridge!OverlayReservedUnlessRaced /\ Bridge!MovesTogether
<1> USE Fields, BridgeConstants
<1>1. Bridge!TypeOK
  BY DEF BridgeInv
<1>2. ASSUME Bridge!AtRest
      PROVE  /\ toFrame = <<>> /\ doc.phase = "loaded" /\ ~doc.frame /\ header.seen = header.height
             /\ \A t : Free(toPage, t)
             /\ \A offset : ~LastScroll(toPage, offset)
             /\ ~\E k \in 1..Len(toPage) : Closing(toPage, page.bridged, k)
  <2>1. toPage = <<>> /\ Len(toPage) = 0
    BY <1>2 DEF Bridge!AtRest
  <2> QED
    BY <1>2, <2>1 DEF Bridge!AtRest, Free, LastScroll
<1>3. ASSUME Bridge!AtRest, doc.kind = "bridge", page.overlay, page.inset <= MaxInset
      PROVE  doc.inset = page.inset /\ ~doc.clips
  BY <1>2, <1>3 DEF BridgeInv, Greeted, SentInv, ConfirmInv
<1>4. Bridge!OverlayReservedUnlessRaced
  <2> SUFFICES ASSUME Bridge!AtRest, page.overlay, ~missed, header.height <= MaxInset,
                      ~(abandoned /\ doc.kind = "plain")
               PROVE  doc.kind = "bridge" /\ doc.inset = header.height
    BY <1>1 DEF Bridge!OverlayReservedUnlessRaced, Bridge!Reserves
  <2>1. doc.kind = "bridge"
    BY <1>1, <1>2 DEF BridgeInv, LoadInv
  <2>2. page.inset = header.height
    BY <1>2, <2>1 DEF BridgeInv, KnownInv, Greeted
  <2> QED
    BY <1>3, <2>1, <2>2
<1>5. Bridge!MovesTogether
  <2>1. ASSUME Bridge!AtRest, page.overlay, doc.kind = "bridge", page.inset <= MaxInset
        PROVE  /\ page.shift = Bridge!Smaller(doc.scroll, page.inset)
               /\ page.inset - page.shift = doc.visible
    <3>1. page.shift = Bridge!Smaller(doc.scroll, page.inset)
      BY <1>2, <1>3, <2>1 DEF BridgeInv, Greeted, OffsetInv
    <3>2. doc.visible = Bridge!VisibleOf(page.inset, doc.scroll)
      BY <1>1, <1>2, <1>3, <2>1 DEF BridgeInv, OffsetInv
    <3> QED
      BY <1>1, <3>1, <3>2 DEF Bridge!Smaller, Bridge!VisibleOf
  <2> QED
    BY <2>1 DEF Bridge!MovesTogether, BridgeInv, ConfirmInv
<1> QED
  BY <1>1, <1>4, <1>5

\* Page, header, document and both queues keep their types.
THEOREM BridgeTyped == Bridge!Spec => []Bridge!TypeOK
  BY BridgeInit, BridgeNext, BridgeShows, PTL DEF Bridge!Spec, Bridge!vars, bridgeVars

\* However loads, hellos, confirmations, navigations and resizes cross, a header at rest
\* over the frame lies over an artifact that has reserved its height, but for the races.
THEOREM HeaderReserved == Bridge!Spec => []Bridge!OverlayReservedUnlessRaced
  BY BridgeInit, BridgeNext, BridgeShows, PTL DEF Bridge!Spec, Bridge!vars, bridgeVars

\* At rest the header has moved as far as the artifact was scrolled.
THEOREM HeaderMoves == Bridge!Spec => []Bridge!MovesTogether
  BY BridgeInit, BridgeNext, BridgeShows, PTL DEF Bridge!Spec, Bridge!vars, bridgeVars

LEMMA BridgeStep ==
  [MCNext]_allVars => machine' = machine /\ (machine = "bridge" => [Bridge!Next]_bridgeVars)
  BY DEF MCNext, allVars, OnlyCopy, OnlyBridge, OnlyVisits, OnlyReader, OnlyDocument,
         OnlyButton, OnlyViewer

\* The same of the composition that TLC runs.
THEOREM HeaderShown ==
  MCSpec => [](BridgeTypeOK /\ OverlayReservedUnlessRaced /\ MovesTogether)
<1> DEFINE I == machine = "bridge" => BridgeInv
<1>1. MCInit => I
  BY BridgeInit DEF MCInit
<1>2. I /\ [MCNext]_allVars => I'
  BY BridgeStep, BridgeNext
<1>3. I => BridgeTypeOK /\ OverlayReservedUnlessRaced /\ MovesTogether
  BY BridgeShows DEF BridgeTypeOK, OverlayReservedUnlessRaced, MovesTogether
<1> QED
  BY <1>1, <1>2, <1>3, PTL DEF MCSpec

-----------------------------------------------------------------------------
(* The links of a share.  ShareLinksProofs has the invariants and proves that  *)
(* every step keeps them; here they are those of the disk that TLC runs.       *)

LEMMA VisitsInit == Visits!Init => Visits!Inv /\ Visits!LinkInv
  BY DiskAssumption, Visits!InitInv, Visits!InitLinks

LEMMA VisitsNext ==
  ASSUME Visits!Inv, [Visits!Next]_visitVars
  PROVE  Visits!Inv'
<1>1. Visits!Disk(Visits!Names \cup {Up})
  BY DiskAssumption, Visits!TidyDisk
<1>2. [Visits!Next]_Visits!vars
  BY DEF Visits!vars, visitVars
<1> QED
  BY <1>1, <1>2, Visits!NextInv

LEMMA VisitsLinksNext ==
  ASSUME Visits!LinkInv, [Visits!Next]_visitVars
  PROVE  Visits!LinkInv'
<1>1. [Visits!Next]_Visits!vars
  BY DEF Visits!vars, visitVars
<1> QED
  BY <1>1, DiskAssumption, Visits!NextLinks

LEMMA VisitsStep ==
  [MCNext]_allVars => machine' = machine
                      /\ (machine = "visits" => [Visits!Next]_visitVars)
  BY DEF MCNext, allVars, OnlyCopy, OnlyBridge, OnlyVisits, OnlyReader, OnlyDocument,
         OnlyButton, OnlyViewer

\* In the composition that TLC runs, no visit to a share shows what is not in it
\* (resolveTarget, ResolveScopedPath).
THEOREM InsideShown == MCSpec => []StaysInside
<1> DEFINE I == machine = "visits" => Visits!Inv
<1>1. MCInit => I
  BY VisitsInit DEF MCInit
<1>2. I /\ [MCNext]_allVars => I'
  BY VisitsStep, VisitsNext
<1>3. I => StaysInside
  BY DEF Visits!Inv, StaysInside
<1> QED
  BY <1>1, <1>2, <1>3, PTL DEF MCSpec

\* In the composition that TLC runs, a link opens what it names but for the cases that
\* the property lists (publish, renderDirectoryListing, rewriteMarkdownTarget).
THEOREM TargetShown == MCSpec => []LinkOpensUnlessNamed
<1> DEFINE I == machine = "visits" => Visits!LinkInv
<1>1. MCInit => I
  BY VisitsInit DEF MCInit
<1>2. I /\ [MCNext]_allVars => I'
  BY VisitsStep, VisitsLinksNext
<1>3. I => LinkOpensUnlessNamed
  BY DEF Visits!LinkInv, LinkOpensUnlessNamed
<1> QED
  BY <1>1, <1>2, <1>3, PTL DEF MCSpec

-----------------------------------------------------------------------------
(* The bytes of an artifact. *)

Tokens == {"bom", "ws", "<!", "<?", "</", "-", "!", ">", "doctype", "x"} \cup {"i", "j"}

\* All that is used of the contents: they and the script are sequences.
Contents == Sources \cup Rewrites \subseteq Seq(Tokens) /\ Script \in Seq(Tokens) /\ MaxPiece \in Nat

\* A byte of the page that was delivered for a position is the script's, or that of one
\* of the contents the file has had.
InPlace(p, byte) ==
    IF p \in insertAt + 1..insertAt + Len(Script)
    THEN byte = Script[p - insertAt]
    ELSE LET inFile == IF p <= insertAt THEN p ELSE p - Len(Script) IN
         \E h \in 1..Len(had) : inFile \in 1..Len(had[h]) /\ byte = had[h][inFile]

Scanning == {"bom", "prolog", "comment", "doctype"}

\* The reader holds the size of the file that was opened, and a place in it; what was sent
\* is in place, and is less than was asked for only if the file has changed.
ReaderInv ==
    /\ had \in Seq(Seq(Tokens)) /\ Len(had) \in {1, 2} /\ file = had[Len(had)]
    /\ sourceSize = Len(had[1]) /\ insertAt \in 0..sourceSize
    /\ asked.first \in Nat /\ asked.length \in Nat
    /\ sent \in Seq(Tokens) /\ Len(sent) <= asked.length
    /\ asked.first + asked.length <= sourceSize + Len(Script)
    /\ scan.mode \in Scanning \cup {"open"} => Len(had) = 1 /\ sent = <<>>
    /\ scan.mode \in Scanning => scan.offset \in 0..sourceSize
    /\ scan \in [mode : Scanning \cup {"open", "serve", "served", "cut"}, matched : 0..2, offset : Nat]
    /\ scan.mode = "served" => Len(sent) = asked.length
    /\ scan.mode = "cut" => Len(had) > 1
    /\ \A k \in 1..Len(sent) : InPlace(asked.first + k, sent[k])

LEMMA ReaderContents == Contents
<1>1. ASSUME NEW t \in SUBSET Tokens, NEW n \in Nat, NEW c \in Upto(n, t) PROVE c \in Seq(Tokens)
  <2>1. PICK k \in 0..n : c \in [1..k -> t]
    BY DEF Upto
  <2>2. \A j \in 1..k : c[j] \in Tokens
    BY <2>1
  <2> QED
    BY <2>1, <2>2, IsASeq
<1>2. MaxHead \in Nat /\ MaxComment \in Nat
  BY PreviewAssumption
<1>4. Sources \subseteq Seq(Tokens)
  <2>1. ASSUME NEW c \in Upto(MaxComment, {"-", "!", ">"})
        PROVE  <<"<!", "-", "-">> \o c \o <<">", "<!", "doctype", ">">> \in Seq(Tokens)
    <3>1. c \in Seq(Tokens)
      BY <1>1, <1>2 DEF Tokens
    <3>2. <<"<!", "-", "-">> \in Seq(Tokens) /\ <<">", "<!", "doctype", ">">> \in Seq(Tokens)
      BY DEF Tokens
    <3> QED
      BY <3>1, <3>2, ConcatProperties
  <2>2. \A c \in Upto(MaxHead, {"bom", "ws", "<!", "<?", "</", "-", "!", ">", "doctype", "x"}) :
           c \in Seq(Tokens)
    BY <1>1, <1>2 DEF Tokens
  <2>3. <<"bom", "ws", "<!", "-", "-", "-", "-", ">", "ws", "<!", "doctype", "x", ">", "x">> \in Seq(Tokens)
    BY DEF Tokens
  <2>4. ASSUME NEW opener \in {"<!", "<?", "</"}, NEW c \in Upto(1, {"-", ">", "x"})
        PROVE  <<opener>> \o c \o <<">", "<!", "doctype", ">">> \in Seq(Tokens)
    <3>1. c \in Seq(Tokens)
      BY <1>1 DEF Tokens
    <3>2. <<opener>> \in Seq(Tokens) /\ <<">", "<!", "doctype", ">">> \in Seq(Tokens)
      BY DEF Tokens
    <3> QED
      BY <3>1, <3>2, ConcatProperties
  <2> DEFINE heads == Upto(MaxHead, {"bom", "ws", "<!", "<?", "</", "-", "!", ">", "doctype", "x"})
             texts == Upto(MaxComment, {"-", "!", ">"})
             Comment(c) == <<"<!", "-", "-">> \o c \o <<">", "<!", "doctype", ">">>
             openers == {"<!", "<?", "</"}
             short == Upto(1, {"-", ">", "x"})
             Bogus(opener, c) == <<opener>> \o c \o <<">", "<!", "doctype", ">">>
             long == <<"bom", "ws", "<!", "-", "-", "-", "-", ">", "ws", "<!", "doctype", "x", ">", "x">>
             comments == {Comment(c) : c \in texts}
             bogus == {Bogus(opener, c) : opener \in openers, c \in short}
  <2>5. Sources = heads \cup comments \cup bogus \cup {long}
    BY DEF Sources
  <2>6. comments \subseteq Seq(Tokens)
    <3>1. \A c \in texts : Comment(c) \in Seq(Tokens)
      BY <2>1
    <3> HIDE DEF texts, Comment
    <3> QED
      BY <3>1
  <2>7. bogus \subseteq Seq(Tokens)
    <3>1. \A opener \in openers, c \in short : Bogus(opener, c) \in Seq(Tokens)
      BY <2>4
    <3> HIDE DEF openers, short, Bogus
    <3> QED
      BY <3>1
  <2>8. heads \subseteq Seq(Tokens) /\ long \in Seq(Tokens)
    BY <2>2, <2>3
  <2> HIDE DEF heads, comments, bogus, long
  <2> QED
    BY <2>5, <2>6, <2>7, <2>8
<1>5. Rewrites \subseteq Seq(Tokens) /\ Script \in Seq(Tokens)
  <2>1. [k \in 1..12 |-> "x"] \in Seq(Tokens)
    <3>1. \A k \in 1..12 : "x" \in Tokens
      BY DEF Tokens
    <3> QED
      BY <3>1, IsASeq
  <2>2. <<"x">> \in Seq(Tokens) /\ <<"i", "j">> \in Seq(Tokens)
    BY DEF Tokens
  <2> QED
    BY <2>1, <2>2 DEF Rewrites, Script
<1> QED
  BY <1>4, <1>5, PreviewAssumption DEF Contents

LEMMA ReaderFacts ==
  ASSUME Contents, ReaderInv
  PROVE  /\ had \in Seq(Seq(Tokens)) /\ Len(had) \in {1, 2} /\ file = had[Len(had)]
         /\ file \in Seq(Tokens) /\ Len(file) \in Nat
         /\ Script \in Seq(Tokens) /\ Len(Script) \in Nat
         /\ sourceSize \in Nat /\ insertAt \in Nat /\ insertAt <= sourceSize
         /\ sent \in Seq(Tokens) /\ Len(sent) \in Nat
         /\ asked.first \in Nat /\ asked.length \in Nat
         /\ Reader!Offset \in Nat /\ Reader!Left \in Nat
         /\ Reader!Offset + Reader!Left <= sourceSize + Len(Script)
         /\ Len(had) = 1 => sourceSize = Len(file)
<1>1. had \in Seq(Seq(Tokens)) /\ Len(had) \in {1, 2} /\ file = had[Len(had)]
  BY DEF ReaderInv
<1>2. had[1] \in Seq(Tokens) /\ file \in Seq(Tokens)
  BY <1>1
<1>3. Len(had[1]) \in Nat /\ Len(file) \in Nat /\ sourceSize = Len(had[1])
  BY <1>2, LenProperties DEF ReaderInv
<1>4. sourceSize \in Nat /\ insertAt \in Nat /\ insertAt <= sourceSize
  BY <1>3 DEF ReaderInv
<1>5. Script \in Seq(Tokens) /\ Len(Script) \in Nat
  BY LenProperties DEF Contents
<1>6. sent \in Seq(Tokens) /\ Len(sent) \in Nat
  BY LenProperties DEF ReaderInv
<1>7. asked.first \in Nat /\ asked.length \in Nat /\ Len(sent) <= asked.length
      /\ asked.first + asked.length <= sourceSize + Len(Script)
  BY DEF ReaderInv
<1>8. Reader!Offset \in Nat /\ Reader!Left \in Nat
      /\ Reader!Offset + Reader!Left <= sourceSize + Len(Script)
  BY <1>4, <1>5, <1>6, <1>7 DEF Reader!Offset, Reader!Left
<1> QED
  BY <1>1, <1>2, <1>3, <1>4, <1>5, <1>6, <1>7, <1>8

LEMMA ReaderHad ==
  ASSUME ReaderInv
  PROVE  Len(had) \in 1..Len(had) /\ had[Len(had)] = file /\ (Len(had) = 1 \/ Len(had) > 1)
<1>1. Len(had) \in {1, 2} /\ file = had[Len(had)]
  BY DEF ReaderInv
<1> QED
  BY <1>1

\* A part of a sequence.
LEMMA PartOf ==
  ASSUME NEW S, NEW s \in Seq(S), NEW first \in Nat, NEW last \in Nat,
         1 <= first, first <= last + 1, last <= Len(s)
  PROVE  /\ SubSeq(s, first, last) \in Seq(S) /\ Len(SubSeq(s, first, last)) = last - first + 1
         /\ \A j \in 1..(last - first + 1) : SubSeq(s, first, last)[j] = s[first + j - 1]
<1>1. \A j \in first..last : s[j] \in S
  OBVIOUS
<1> QED
  BY <1>1, SubSeqProperties

\* The page is the file with the script inserted.
LEMMA PageIs ==
  ASSUME file \in Seq(Tokens), Script \in Seq(Tokens), insertAt \in Nat, insertAt <= Len(file)
  PROVE  LET whole == Reader!PageOf(file) IN
         /\ whole \in Seq(Tokens) /\ Len(whole) = Len(file) + Len(Script)
         /\ \A p \in 1..(Len(file) + Len(Script)) :
              /\ p <= insertAt => whole[p] = file[p]
              /\ p > insertAt /\ p <= insertAt + Len(Script) => whole[p] = Script[p - insertAt]
              /\ p > insertAt + Len(Script) => whole[p] = file[p - Len(Script)]
<1> DEFINE before == SubSeq(file, 1, insertAt)
           after == SubSeq(file, insertAt + 1, Len(file))
           front == before \o Script
           whole == front \o after
<1>1. Len(file) \in Nat /\ Len(Script) \in Nat /\ insertAt + 1 \in Nat /\ insertAt + 1 <= Len(file) + 1
  BY LenProperties
<1>2. before \in Seq(Tokens) /\ Len(before) = insertAt /\ \A j \in 1..insertAt : before[j] = file[j]
  BY <1>1, PartOf
<1>3. after \in Seq(Tokens) /\ Len(after) = Len(file) - insertAt /\ \A j \in 1..(Len(file) - insertAt) : after[j] = file[insertAt + j]
  BY <1>1, PartOf
<1> HIDE DEF before, after
<1>4. front \in Seq(Tokens) /\ Len(front) = insertAt + Len(Script)
      /\ \A p \in 1..(insertAt + Len(Script)) : front[p] = IF p <= insertAt THEN before[p] ELSE Script[p - insertAt]
  BY <1>1, <1>2, ConcatProperties
<1> HIDE DEF front
<1>5. whole \in Seq(Tokens) /\ Len(whole) = Len(front) + Len(after)
      /\ \A p \in 1..(Len(front) + Len(after)) :
            whole[p] = IF p <= Len(front) THEN front[p] ELSE after[p - Len(front)]
  <2>1. front \in Seq(Tokens) /\ after \in Seq(Tokens)
    BY <1>3, <1>4
  <2> QED
    BY <2>1, ConcatProperties
<1> HIDE DEF whole
<1>6. Len(front) + Len(after) = Len(file) + Len(Script)
  BY <1>1, <1>3, <1>4
<1>7. ASSUME NEW p \in 1..(Len(file) + Len(Script))
      PROVE  /\ p <= insertAt => whole[p] = file[p]
             /\ p > insertAt /\ p <= insertAt + Len(Script) => whole[p] = Script[p - insertAt]
             /\ p > insertAt + Len(Script) => whole[p] = file[p - Len(Script)]
  <2>1. CASE p <= insertAt
    <3>1. p <= Len(front) /\ p \in 1..insertAt /\ p \in 1..(insertAt + Len(Script))
      BY <1>1, <1>4, <2>1
    <3>2. whole[p] = front[p]
      BY <1>5, <1>6, <3>1
    <3>3. front[p] = before[p]
      BY <1>4, <2>1, <3>1
    <3> QED
      BY <1>2, <2>1, <3>1, <3>2, <3>3
  <2>2. CASE p > insertAt /\ p <= insertAt + Len(Script)
    BY <1>1, <1>4, <1>5, <1>6, <2>2
  <2>3. CASE p > insertAt + Len(Script)
    <3>1. p - Len(front) \in 1..(Len(file) - insertAt) /\ insertAt + (p - Len(front)) = p - Len(Script)
      BY <1>1, <1>4, <2>3
    <3>2. whole[p] = after[p - Len(front)]
      <4>1. ~(p <= Len(front)) /\ p \in 1..(Len(front) + Len(after))
        BY <1>1, <1>4, <1>6, <2>3
      <4> QED
        BY <1>5, <4>1
    <3>3. after[p - Len(front)] = file[insertAt + (p - Len(front))]
      BY <1>3, <3>1
    <3>4. ~(p <= insertAt) /\ ~(p <= insertAt + Len(Script))
      BY <1>1, <2>3
    <3>5. whole[p] = file[p - Len(Script)]
      BY <3>1, <3>2, <3>3
    <3> QED
      BY <3>4, <3>5
  <2> QED
    BY <1>1, <2>1, <2>2, <2>3
<1> QED
  BY <1>5, <1>6, <1>7 DEF whole, front, before, after, Reader!PageOf

LEMMA ReaderInit == Contents /\ Reader!Init => ReaderInv
  BY DEF Reader!Init, ReaderInv, Contents, Scanning

\* A step of the scan moves it, or finds the place.
Scanned ==
    /\ UNCHANGED <<file, had, sourceSize, asked, sent>>
    /\ scan.mode \in Scanning
    /\ \/ scan'.mode \in Scanning /\ scan'.offset \in 0..sourceSize /\ insertAt' = insertAt
       \/ scan'.mode = "open" /\ insertAt' \in 0..sourceSize
    /\ scan' \in [mode : Scanning \cup {"open"}, matched : 0..2, offset : Nat]

LEMMA ReaderScanned ==
  ASSUME ReaderInv, Scanned
  PROVE  ReaderInv'
<1>1. sent' = <<>> /\ Len(had') = 1 /\ scan'.mode \in Scanning \cup {"open"}
  BY DEF ReaderInv, Scanned
<1>2. \A k \in 1..Len(sent') : InPlace(asked.first + k, sent[k])'
  BY <1>1
<1>3. scan'.mode \notin {"serve", "served", "cut"}
  BY <1>1 DEF Scanning
<1>4. scan'.mode \in Scanning => scan'.offset \in 0..sourceSize
  BY DEF Scanned, Scanning
<1>5. insertAt' \in 0..sourceSize'
  BY DEF ReaderInv, Scanned
<1>6. scan' \in [mode : Scanning \cup {"open", "serve", "served", "cut"}, matched : 0..2, offset : Nat]
  BY DEF Scanned
<1> QED
  BY <1>1, <1>2, <1>3, <1>4, <1>5, <1>6 DEF ReaderInv, Scanned

LEMMA ReaderScan ==
  ASSUME ReaderInv, Reader!SkipBOM \/ Reader!Prolog \/ Reader!Comment \/ Reader!Doctype
  PROVE  Scanned
<1>1. /\ scan.mode \in Scanning => scan.offset \in 0..Len(file) /\ sourceSize = Len(file) /\ Len(file) \in Nat
      /\ scan \in [mode : Scanning \cup {"open", "serve", "served", "cut"}, matched : 0..2, offset : Nat]
  BY DEF ReaderInv
<1>2. \A k \in 1..3 : scan.mode \in Scanning /\ Reader!Peek(k) # "eof" => scan.offset + k \in 0..sourceSize
  BY <1>1 DEF Reader!Peek
<1> USE DEF Scanned, Scanning, Reader!Reading
<1>3. CASE Reader!SkipBOM
  BY <1>1, <1>2, <1>3 DEF Reader!SkipBOM, Reader!Advance
<1>4. CASE Reader!Prolog
  BY <1>1, <1>2, <1>4 DEF Reader!Prolog, Reader!Advance, Reader!Settle
<1>5. CASE Reader!Comment
  <2>1. CASE Reader!Peek(1) = "eof"
    BY <1>1, <1>5, <2>1 DEF Reader!Comment, Reader!Settle
  <2>2. CASE Reader!Peek(1) # "eof"
    <3>1. Reader!Matched(Reader!Peek(1), scan.matched) \in 0..3
      BY <1>1 DEF Reader!Matched, Reader!Smaller
    <3>2. Reader!Matched(Reader!Peek(1), scan.matched) % 3 \in 0..2
      BY <3>1
    <3> QED
      BY <1>1, <1>2, <1>5, <2>2, <3>2 DEF Reader!Comment
  <2> QED
    BY <2>1, <2>2
<1>6. CASE Reader!Doctype
  <2>1. CASE Reader!Peek(1) = "eof"
    BY <1>1, <1>6, <2>1 DEF Reader!Doctype, Reader!Settle
  <2>2. CASE Reader!Peek(1) = ">"
    BY <1>1, <1>2, <1>6, <2>2 DEF Reader!Doctype, Reader!Settle
  <2>3. CASE Reader!Peek(1) \notin {">", "eof"}
    BY <1>1, <1>2, <1>6, <2>3 DEF Reader!Doctype, Reader!Advance
  <2> QED
    BY <2>1, <2>2, <2>3
<1> QED
  BY <1>3, <1>4, <1>5, <1>6

LEMMA ReaderServe ==
  ASSUME Contents, ReaderInv, NEW first \in 0..(Reader!TotalSize - 1),
         NEW length \in 1..Reader!TotalSize, Reader!Serve(first, length)
  PROVE  ReaderInv'
<1>1. Reader!TotalSize \in Nat /\ Reader!TotalSize = sourceSize + Len(Script)
  <2>1. sourceSize \in Nat /\ Len(Script) \in Nat
    BY ReaderFacts
  <2> QED
    BY <2>1 DEF Reader!TotalSize
<1>2. asked' = [first |-> first, length |-> length] /\ first + length <= Reader!TotalSize
      /\ first \in Nat /\ length \in Nat
  BY <1>1 DEF Reader!Serve
<1>3. sent' = <<>>
  BY DEF ReaderInv, Reader!Serve
<1>4. \A k \in 1..Len(sent') : InPlace(asked.first + k, sent[k])'
  BY <1>3
<1>5. scan' \in [mode : Scanning \cup {"open", "serve", "served", "cut"}, matched : 0..2, offset : Nat]
      /\ scan'.mode = "serve"
  BY DEF ReaderInv, Reader!Serve
<1>6. sent' \in Seq(Tokens) /\ Len(sent') <= asked'.length
  BY <1>2, <1>3
<1> QED
  BY <1>1, <1>2, <1>4, <1>5, <1>6 DEF ReaderInv, Reader!Serve, Scanning

LEMMA ReaderRewrite ==
  ASSUME Contents, ReaderInv, NEW content \in Rewrites, Reader!Rewrite(content)
  PROVE  ReaderInv'
<1>1. had' \in Seq(Seq(Tokens)) /\ Len(had') = 2 /\ had'[1] = had[1] /\ had'[2] = file' /\ Len(had) = 1
  <2>1. content \in Seq(Tokens) /\ had \in Seq(Seq(Tokens)) /\ Len(had) = 1 /\ had' = Append(had, content) /\ file' = content
    BY DEF ReaderInv, Reader!Rewrite, Contents
  <2>2. /\ Append(had, content) \in Seq(Seq(Tokens)) /\ Len(Append(had, content)) = Len(had) + 1
        /\ \A h \in 1..Len(had) : Append(had, content)[h] = had[h]
        /\ Append(had, content)[Len(had) + 1] = content
    <3> DEFINE T == Seq(Tokens)
    <3>1. had \in Seq(T) /\ content \in T
      BY <2>1
    <3> HIDE DEF T
    <3>2. /\ Append(had, content) \in Seq(T) /\ Len(Append(had, content)) = Len(had) + 1
          /\ \A h \in 1..Len(had) : Append(had, content)[h] = had[h]
          /\ Append(had, content)[Len(had) + 1] = content
      BY <3>1, AppendProperties
    <3> QED
      BY <3>2 DEF T
  <2> QED
    BY <2>1, <2>2
<1>2. \A k \in 1..Len(sent) : InPlace(asked.first + k, sent[k])'
  <2> TAKE k \in 1..Len(sent)
  <2>1. InPlace(asked.first + k, sent[k])
    BY DEF ReaderInv
  <2> QED
    BY <1>1, <2>1 DEF InPlace, Reader!Rewrite
<1> QED
  BY <1>1, <1>2 DEF ReaderInv, Reader!Rewrite, Scanning

LEMMA ReaderDeliver ==
  ASSUME Contents, ReaderInv, scan.mode = "serve",
         NEW bytes \in Seq(Tokens), NEW length \in Nat, length <= Reader!Left,
         Len(bytes) <= length, Len(had) = 1 => Len(bytes) = length,
         \A j \in 1..Len(bytes) : InPlace(Reader!Offset + j, bytes[j]),
         Reader!Deliver(bytes, length)
  PROVE  ReaderInv'
<1>0. sent \in Seq(Tokens) /\ Len(sent) \in Nat /\ Len(bytes) \in Nat /\ asked.first \in Nat
      /\ asked.length \in Nat /\ sent' = sent \o bytes
  <2>1. sent \in Seq(Tokens) /\ asked.first \in Nat /\ asked.length \in Nat
    BY DEF ReaderInv
  <2>2. sent' = sent \o bytes
    BY DEF Reader!Deliver
  <2> QED
    BY <2>1, <2>2, LenProperties
<1>1. sent' \in Seq(Tokens) /\ Len(sent') = Len(sent) + Len(bytes) /\ Len(sent') <= asked.length
  <2>1. sent' \in Seq(Tokens) /\ Len(sent') = Len(sent) + Len(bytes)
    BY <1>0, ConcatProperties
  <2> QED
    BY <1>0, <2>1 DEF Reader!Left
<1>2. \A k \in 1..Len(sent') : InPlace(asked.first + k, sent'[k])
  <2> TAKE k \in 1..Len(sent')
  <2>1. CASE k <= Len(sent)
    <3>1. k \in 1..Len(sent) /\ sent'[k] = sent[k]
      BY <2>1, <1>0, <1>1
    <3> QED
      BY <3>1 DEF ReaderInv
  <2>2. CASE k > Len(sent)
    <3>1. k - Len(sent) \in 1..Len(bytes) /\ sent'[k] = bytes[k - Len(sent)]
      BY <2>2, <1>0, <1>1
    <3>2. Reader!Offset + (k - Len(sent)) = asked.first + k
      BY <1>0, <1>1 DEF Reader!Offset
    <3> QED
      BY <3>1, <3>2
  <2> QED
    BY <2>1, <2>2, <1>0, <1>1
<1>3. \A k \in 1..Len(sent') : InPlace(asked.first + k, sent[k])'
  BY <1>2 DEF InPlace, Reader!Deliver
<1>4. scan'.mode = CASE Len(bytes) < length -> "cut"
                     [] Len(sent') = asked.length -> "served"
                     [] OTHER -> "serve"
  BY DEF Reader!Deliver, ReaderInv
<1>5. /\ scan' \in [mode : Scanning \cup {"open", "serve", "served", "cut"}, matched : 0..2, offset : Nat]
      /\ scan'.mode \in {"serve", "served", "cut"}
  BY <1>4 DEF ReaderInv, Reader!Deliver, Scanning
<1>6. scan'.mode = "served" => Len(sent') = asked.length
  BY <1>4
<1>7. scan'.mode = "cut" => Len(had) > 1
  <2>1. scan'.mode = "cut" => Len(bytes) < length
    BY <1>4
  <2>2. Len(had) = 1 \/ Len(had) > 1
    BY ReaderHad
  <2>3. Len(bytes) < length => Len(had) # 1
    BY <1>0
  <2> QED
    BY <2>1, <2>2, <2>3, Zenon
<1> QED
  BY <1>1, <1>3, <1>5, <1>6, <1>7 DEF ReaderInv, Reader!Deliver, Scanning

LEMMA FromFileIs ==
  ASSUME file \in Seq(Tokens), NEW position \in Nat, NEW n \in Nat
  PROVE  LET bytes == Reader!FromFile(position, n) IN
         /\ bytes \in Seq(Tokens) /\ Len(bytes) <= n
         /\ position + n <= Len(file) => Len(bytes) = n
         /\ \A j \in 1..Len(bytes) : position + j \in 1..Len(file) /\ bytes[j] = file[position + j]
<1> DEFINE last == Reader!Smaller(position + n, Len(file))
           bytes == SubSeq(file, position + 1, last)
<1>1. last \in Nat /\ last <= Len(file) /\ last <= position + n
      /\ (position + n <= Len(file) => last = position + n)
  BY DEF Reader!Smaller
<1> HIDE DEF last
<1>2. bytes \in Seq(Tokens)
      /\ Len(bytes) = (IF position + 1 <= last THEN last - position ELSE 0)
      /\ \A j \in 1..Len(bytes) : bytes[j] = file[position + j]
  BY <1>1, SubSeqProperties
<1> HIDE DEF bytes
<1>3. bytes = Reader!FromFile(position, n)
  BY DEF bytes, last, Reader!FromFile
<1> QED
  BY <1>1, <1>2, <1>3

LEMMA ReaderBefore ==
  ASSUME Contents, ReaderInv, NEW piece \in 1..MaxPiece, Reader!BeforeScript(piece)
  PROVE  ReaderInv'
<1> DEFINE n == Reader!Smaller(Reader!Smaller(piece, Reader!Left), insertAt - Reader!Offset)
           bytes == Reader!FromFile(Reader!Offset, n)
<1>1. /\ scan.mode = "serve" /\ Reader!Offset < insertAt /\ Reader!Deliver(bytes, n)
      /\ Reader!Offset \in Nat /\ Reader!Left \in Nat /\ insertAt \in Nat /\ insertAt <= sourceSize /\ piece \in Nat
      /\ file \in Seq(Tokens)
  <2>1. scan.mode = "serve" /\ Reader!Offset < insertAt /\ Reader!Deliver(bytes, n)
    BY DEF Reader!BeforeScript
  <2>2. Reader!Offset \in Nat /\ Reader!Left \in Nat /\ insertAt \in Nat /\ insertAt <= sourceSize
        /\ file \in Seq(Tokens)
    BY ReaderFacts
  <2>3. piece \in Nat
    BY DEF Contents
  <2> QED
    BY <2>1, <2>2, <2>3
<1>2. n \in Nat /\ n <= Reader!Left /\ Reader!Offset + n <= insertAt
  BY <1>1 DEF Reader!Smaller
<1> HIDE DEF n
<1>3. bytes \in Seq(Tokens) /\ Len(bytes) <= n /\ (Reader!Offset + n <= Len(file) => Len(bytes) = n)
      /\ \A j \in 1..Len(bytes) : Reader!Offset + j \in 1..Len(file) /\ bytes[j] = file[Reader!Offset + j]
  BY <1>1, <1>2, FromFileIs
<1> HIDE DEF bytes
<1>4. Len(had) = 1 => Len(bytes) = n
  BY <1>1, <1>2, <1>3, ReaderFacts
<1>5. \A j \in 1..Len(bytes) : InPlace(Reader!Offset + j, bytes[j])
  <2> TAKE j \in 1..Len(bytes)
  <2>1. j \in Nat /\ j >= 1 /\ j <= n
    BY <1>2, <1>3
  <2>2. Len(had) \in 1..Len(had) /\ had[Len(had)] = file
    BY ReaderHad
  <2>3. Len(Script) \in Nat /\ insertAt \in Nat /\ Reader!Offset \in Nat
    BY ReaderFacts
  <2>4. Reader!Offset + j <= insertAt /\ Reader!Offset + j \notin insertAt + 1..insertAt + Len(Script)
    BY <1>1, <1>2, <2>1, <2>3
  <2>5. Reader!Offset + j \in 1..Len(file) /\ bytes[j] = file[Reader!Offset + j]
    BY <1>3
  <2> QED
    BY <2>2, <2>4, <2>5 DEF InPlace
<1> QED
  BY <1>1, <1>2, <1>3, <1>4, <1>5, ReaderDeliver

LEMMA ReaderAfter ==
  ASSUME Contents, ReaderInv, NEW piece \in 1..MaxPiece, Reader!AfterScript(piece)
  PROVE  ReaderInv'
<1> DEFINE from == Reader!Offset - Len(Script)
           n == Reader!Smaller(Reader!Smaller(piece, Reader!Left), sourceSize - from)
           bytes == Reader!FromFile(from, n)
<1>1. /\ scan.mode = "serve" /\ Reader!Offset >= insertAt + Len(Script) /\ Reader!Deliver(bytes, n)
      /\ Reader!Offset \in Nat /\ Reader!Left \in Nat /\ insertAt \in Nat /\ piece \in Nat
      /\ file \in Seq(Tokens) /\ Len(Script) \in Nat /\ sourceSize \in Nat
      /\ Reader!Offset <= sourceSize + Len(Script)
  <2>1. scan.mode = "serve" /\ Reader!Offset >= insertAt + Len(Script) /\ Reader!Deliver(bytes, n)
    BY DEF Reader!AfterScript
  <2>2. Reader!Offset \in Nat /\ Reader!Left \in Nat /\ insertAt \in Nat
        /\ file \in Seq(Tokens) /\ Len(Script) \in Nat /\ sourceSize \in Nat
        /\ Reader!Offset <= sourceSize + Len(Script)
    BY ReaderFacts
  <2>3. piece \in Nat
    BY DEF Contents
  <2> QED
    BY <2>1, <2>2, <2>3
<1>2. from \in Nat /\ n \in Nat /\ n <= Reader!Left /\ from + n <= sourceSize
  BY <1>1 DEF Reader!Smaller
<1> HIDE DEF n
<1>3. bytes \in Seq(Tokens) /\ Len(bytes) <= n /\ (from + n <= Len(file) => Len(bytes) = n)
      /\ \A j \in 1..Len(bytes) : from + j \in 1..Len(file) /\ bytes[j] = file[from + j]
  BY <1>1, <1>2, FromFileIs
<1> HIDE DEF bytes
<1>4. Len(had) = 1 => Len(bytes) = n
  BY <1>1, <1>2, <1>3, ReaderFacts
<1>5. \A j \in 1..Len(bytes) : InPlace(Reader!Offset + j, bytes[j])
  <2> TAKE j \in 1..Len(bytes)
  <2>1. j \in Nat /\ j >= 1 /\ j <= n
    BY <1>2, <1>3
  <2>2. Len(had) \in 1..Len(had) /\ had[Len(had)] = file
    BY ReaderHad
  <2>3. Len(Script) \in Nat /\ insertAt \in Nat /\ Reader!Offset \in Nat
    BY ReaderFacts
  <2>4. /\ ~(Reader!Offset + j <= insertAt) /\ (Reader!Offset + j) - Len(Script) = from + j
        /\ Reader!Offset + j \notin insertAt + 1..insertAt + Len(Script)
    BY <1>1, <1>2, <2>1, <2>3
  <2>5. from + j \in 1..Len(file) /\ bytes[j] = file[from + j]
    BY <1>3
  <2> QED
    BY <2>2, <2>4, <2>5 DEF InPlace
<1> QED
  BY <1>1, <1>2, <1>3, <1>4, <1>5, ReaderDeliver

LEMMA ReaderIn ==
  ASSUME Contents, ReaderInv, NEW piece \in 1..MaxPiece, Reader!InScript(piece)
  PROVE  ReaderInv'
<1> DEFINE from == Reader!Offset - insertAt
           n == Reader!Smaller(Reader!Smaller(piece, Reader!Left), Len(Script) - from)
           bytes == SubSeq(Script, from + 1, from + n)
<1>1. /\ scan.mode = "serve" /\ Reader!Deliver(bytes, n)
      /\ Reader!Offset >= insertAt /\ Reader!Offset < insertAt + Len(Script)
      /\ Reader!Offset \in Nat /\ Reader!Left \in Nat /\ insertAt \in Nat /\ piece \in Nat
      /\ Script \in Seq(Tokens) /\ Len(Script) \in Nat
  <2>1. /\ scan.mode = "serve" /\ Reader!Deliver(bytes, n)
        /\ Reader!Offset >= insertAt /\ Reader!Offset < insertAt + Len(Script)
    BY DEF Reader!InScript
  <2>2. Reader!Offset \in Nat /\ Reader!Left \in Nat /\ insertAt \in Nat
        /\ Script \in Seq(Tokens) /\ Len(Script) \in Nat
    BY ReaderFacts
  <2>3. piece \in Nat
    BY DEF Contents
  <2> QED
    BY <2>1, <2>2, <2>3
<1>2. from \in Nat /\ n \in Nat /\ n <= Reader!Left /\ from + n <= Len(Script)
  BY <1>1 DEF Reader!Smaller
<1> HIDE DEF n
<1>3. bytes \in Seq(Tokens) /\ Len(bytes) = n /\ \A j \in 1..n : bytes[j] = Script[from + j]
  <2>1. from + 1 \in Nat /\ from + n \in Nat /\ 1 <= from + 1 /\ from + 1 <= from + n + 1
        /\ from + n <= Len(Script) /\ (from + n) - (from + 1) + 1 = n
    BY <1>2
  <2>2. \A j \in 1..n : (from + 1) + j - 1 = from + j
    BY <1>2
  <2> HIDE DEF from
  <2> QED
    BY <1>1, <2>1, <2>2, PartOf
<1> HIDE DEF bytes
<1>4. ASSUME NEW j \in 1..Len(bytes) PROVE InPlace(Reader!Offset + j, bytes[j])
  <2>1. /\ Reader!Offset + j \in insertAt + 1..insertAt + Len(Script)
        /\ (Reader!Offset + j) - insertAt = from + j
    <3> DEFINE top == Len(Script)
               here == Reader!Offset
    <3>1. /\ here = insertAt + from /\ insertAt \in Nat /\ from \in Nat /\ here \in Nat
          /\ n \in Nat /\ top \in Nat /\ from + n <= top /\ j \in 1..n
      BY <1>1, <1>2, <1>3
    <3> HIDE DEF from, top, here
    <3>2. here + j \in insertAt + 1..insertAt + top /\ (here + j) - insertAt = from + j
      BY <3>1
    <3> QED
      BY <3>2 DEF top, here
  <2>2. bytes[j] = Script[from + j]
    BY <1>3
  <2> QED
    BY <2>1, <2>2 DEF InPlace
<1>5. Len(bytes) <= n /\ (Len(had) = 1 => Len(bytes) = n)
  BY <1>2, <1>3
<1> QED
  BY <1>1, <1>2, <1>3, <1>4, <1>5, ReaderDeliver

LEMMA ReaderNext ==
  ASSUME Contents, ReaderInv, [Reader!Next]_readerVars
  PROVE  ReaderInv'
<1>1. ASSUME NEW first \in 0..(Reader!TotalSize - 1), NEW length \in 1..Reader!TotalSize,
             Reader!Serve(first, length)
      PROVE ReaderInv'
  BY <1>1, ReaderServe
<1>2. ASSUME NEW content \in Rewrites, Reader!Rewrite(content) PROVE ReaderInv'
  BY <1>2, ReaderRewrite
<1>3. ASSUME NEW piece \in 1..MaxPiece,
             Reader!BeforeScript(piece) \/ Reader!InScript(piece) \/ Reader!AfterScript(piece)
      PROVE ReaderInv'
  BY <1>3, ReaderBefore, ReaderIn, ReaderAfter
<1>4. CASE Reader!SkipBOM \/ Reader!Prolog \/ Reader!Comment \/ Reader!Doctype
  BY <1>4, ReaderScan, ReaderScanned
<1>5. CASE UNCHANGED readerVars
  BY <1>5 DEF readerVars, ReaderInv, InPlace, Scanning
<1> QED
  BY <1>1, <1>2, <1>3, <1>4, <1>5 DEF Reader!Next

LEMMA ReaderRange ==
  ASSUME Contents, ReaderInv
  PROVE  Reader!RangeIsInPlace
<1>1. ASSUME scan.mode = "served", Len(had) = 1
      PROVE  sent = SubSeq(Reader!PageOf(file), asked.first + 1, asked.first + asked.length)
  <2> DEFINE whole == Reader!PageOf(file)
             range == SubSeq(whole, asked.first + 1, asked.first + asked.length)
  <2>1. /\ file = had[1] /\ insertAt \in Nat /\ insertAt <= Len(file)
        /\ asked.first \in Nat /\ asked.length \in Nat /\ Len(file) \in Nat /\ Len(Script) \in Nat
        /\ sent \in Seq(Tokens) /\ file \in Seq(Tokens) /\ Script \in Seq(Tokens)
    BY <1>1, ReaderFacts
  <2>2. Len(sent) = asked.length /\ asked.first + asked.length <= Len(file) + Len(Script)
    BY <1>1, <2>1 DEF ReaderInv
  <2>3. /\ whole \in Seq(Tokens) /\ Len(whole) = Len(file) + Len(Script)
        /\ \A p \in 1..(Len(file) + Len(Script)) :
              /\ p <= insertAt => whole[p] = file[p]
              /\ p > insertAt /\ p <= insertAt + Len(Script) => whole[p] = Script[p - insertAt]
              /\ p > insertAt + Len(Script) => whole[p] = file[p - Len(Script)]
    BY <2>1, PageIs
  <2> HIDE DEF whole
  <2>4. ASSUME NEW p \in 1..(Len(file) + Len(Script)), NEW byte, InPlace(p, byte)
        PROVE  byte = whole[p]
    <3>1. CASE p <= insertAt
      BY <1>1, <2>1, <2>3, <2>4, <3>1 DEF InPlace
    <3>2. CASE p > insertAt /\ p <= insertAt + Len(Script)
      <4>1. p \in insertAt + 1..insertAt + Len(Script) /\ ~(p <= insertAt)
        BY <2>1, <3>2
      <4>2. whole[p] = Script[p - insertAt]
        BY <2>3, <3>2
      <4> QED
        BY <2>4, <4>1, <4>2 DEF InPlace
    <3>3. CASE p > insertAt + Len(Script)
      BY <1>1, <2>1, <2>3, <2>4, <3>3 DEF InPlace
    <3> QED
      BY <2>1, <3>1, <3>2, <3>3
  <2>5. ASSUME NEW k \in 1..asked.length PROVE sent[k] = whole[asked.first + k]
    <3>1. InPlace(asked.first + k, sent[k])
      BY <2>2, <2>5 DEF ReaderInv
    <3>2. asked.first + k \in 1..(Len(file) + Len(Script))
      BY <2>1, <2>2
    <3> QED
      BY <3>1, <3>2, <2>4
  <2>6. range \in Seq(Tokens) /\ Len(range) = asked.length
        /\ \A k \in 1..asked.length : range[k] = whole[asked.first + k]
    <3> DEFINE first == asked.first + 1
               last == asked.first + asked.length
    <3>1. first \in Nat /\ last \in Nat /\ 1 <= first /\ first <= last + 1 /\ last <= Len(whole)
          /\ last - first + 1 = asked.length
      <4>1. first \in Nat /\ last \in Nat /\ 1 <= first /\ first <= last + 1 /\ last - first + 1 = asked.length
        <5>1. asked.first \in Nat /\ asked.length \in Nat
          BY <2>1
        <5> QED
          BY <5>1
      <4>2. Len(whole) \in Nat /\ asked.first + asked.length <= Len(whole)
        BY <2>1, <2>2, <2>3
      <4> QED
        BY <4>1, <4>2
    <3>3. \A k \in 1..asked.length : first + k - 1 = asked.first + k
      BY <2>1
    <3> HIDE DEF first, last
    <3>2. SubSeq(whole, first, last) \in Seq(Tokens) /\ Len(SubSeq(whole, first, last)) = asked.length
          /\ \A k \in 1..asked.length : SubSeq(whole, first, last)[k] = whole[first + k - 1]
      BY <2>3, <3>1, PartOf
    <3> QED
      BY <3>1, <3>2, <3>3 DEF first, last
  <2> HIDE DEF range
  <2>7. \A k \in 1..Len(sent) : sent[k] = range[k]
    BY <2>2, <2>5, <2>6
  <2>8. sent = range
    BY <2>1, <2>2, <2>6, <2>7, SeqEqual
  <2> QED
    BY <2>8 DEF range, whole
<1>2. ASSUME NEW k \in 1..Len(sent)
      PROVE  LET position == asked.first + k
                 inFile == IF position <= insertAt THEN position ELSE position - Len(Script) IN
             IF position \in insertAt + 1..insertAt + Len(Script)
             THEN sent[k] = Script[position - insertAt]
             ELSE \E content \in Reader!ToSet(had) : inFile <= Len(content) /\ sent[k] = content[inFile]
  <2>1. InPlace(asked.first + k, sent[k])
    BY DEF ReaderInv
  <2>2. \A h \in 1..Len(had) : had[h] \in Reader!ToSet(had) /\ Len(had[h]) \in Nat
    <3>1. had \in Seq(Seq(Tokens))
      BY DEF ReaderInv
    <3> QED
      BY <3>1, LenProperties DEF Reader!ToSet
  <2> QED
    BY <2>1, <2>2 DEF InPlace
<1> QED
  BY <1>1, <1>2 DEF Reader!RangeIsInPlace, ReaderInv

LEMMA ReaderStep ==
  [MCNext]_allVars => machine' = machine
                      /\ (machine = "reader" => [Reader!Next]_readerVars)
  BY DEF MCNext, allVars, OnlyCopy, OnlyBridge, OnlyVisits, OnlyReader, OnlyDocument,
         OnlyButton, OnlyViewer

\* The range that is answered is the part of the page that was asked for, and while the
\* file is rewritten each of its bytes is at its place in one of the contents
\* (htmlArtifactReader.Read, serveHTMLArtifact).
THEOREM RangeServed == MCSpec => []RangeIsInPlace
<1> DEFINE I == machine = "reader" => ReaderInv
<1>1. MCInit => I
  BY ReaderContents, ReaderInit DEF MCInit
<1>2. I /\ [MCNext]_allVars => I'
  BY ReaderStep, ReaderContents, ReaderNext
<1>3. I => RangeIsInPlace
  BY ReaderContents, ReaderRange DEF RangeIsInPlace
<1> QED
  BY <1>1, <1>2, <1>3, PTL DEF MCSpec

-----------------------------------------------------------------------------
(* The place of the script. *)

\* The recursion of HeadFrom: its function, and one step of it.
HeadAt(h, s, k) ==
    IF k <= Len(s) /\ s[k] = "ws" THEN h[k + 1]
    ELSE IF Reader!Ends(s, k) # {} THEN h[Reader!Min(Reader!Ends(s, k)) + 1]
    ELSE k

Heads(s) == CHOOSE h : h = [k \in 1..(Len(s) + 1) |-> HeadAt(h, s, k)]

LEMMA HeadUnfold ==
  ASSUME NEW s
  PROVE  Reader!HeadFrom(s) = Heads(s)[IF Len(s) > 0 /\ s[1] = "bom" THEN 2 ELSE 1]
  BY DEF Reader!HeadFrom, Heads, HeadAt

LEMMA LeastIs ==
  ASSUME NEW E, NEW j \in E, E \subseteq Nat, \A y \in E : j <= y
  PROVE  Reader!Min(E) = j
<1> DEFINE m == CHOOSE x \in E : \A y \in E : x <= y
<1>1. m \in E /\ \A y \in E : m <= y
  OBVIOUS
<1> HIDE DEF m
<1>2. m = j
  BY <1>1
<1> QED
  BY <1>2 DEF Reader!Min, m

LEMMA LeastIn ==
  ASSUME NEW E, E \subseteq Nat, E # {}
  PROVE  Reader!Min(E) \in E
<1>1. PICK j \in E : \A y \in E : j <= y
  BY LeastExists
<1> QED
  BY <1>1, LeastIs

\* A comment is closed behind where it opens.
LEMMA EndsBehind ==
  ASSUME NEW s \in Seq(Tokens), NEW k \in Nat, Reader!Ends(s, k) # {}
  PROVE  /\ Reader!Min(Reader!Ends(s, k)) \in Reader!Ends(s, k)
         /\ Reader!Min(Reader!Ends(s, k)) \in k + 1..Len(s)
<1>1. Reader!Ends(s, k) \subseteq k + 1..Len(s) /\ Len(s) \in Nat
  BY DEF Reader!Ends
<1>2. Reader!Ends(s, k) \subseteq Nat
  BY <1>1
<1> QED
  BY <1>1, <1>2, LeastIn

\* The recursion is well-defined: each place looks behind itself.
LEMMA HeadExists ==
  ASSUME NEW s \in Seq(Tokens)
  PROVE  \E h : h = [k \in 1..(Len(s) + 1) |-> HeadAt(h, s, k)]
<1> DEFINE n == Len(s)
           D == 1..(n + 1)
           T == {m \in Nat : \E h \in [D -> Int] : \A k \in D : k >= n + 1 - m => h[k] = HeadAt(h, s, k)}
<1>0. n \in Nat
  OBVIOUS
<1> HIDE DEF n
<1>1. 0 \in T
  <2> DEFINE h == [k \in D |-> k]
  <2>1. HeadAt(h, s, n + 1) = n + 1
    <3>1. ~(n + 1 <= n) /\ ~(n + 1 + 2 <= n)
      BY <1>0
    <3>2. Reader!Ends(s, n + 1) = {}
      BY <3>1 DEF Reader!Opens, Reader!OpensBogus, Reader!Ends, n
    <3> QED
      BY <3>1, <3>2 DEF HeadAt, n
  <2>2. h \in [D -> Int] /\ \A k \in D : k >= n + 1 - 0 => h[k] = HeadAt(h, s, k)
    BY <1>0, <2>1
  <2> QED
    BY <2>2
<1>2. ASSUME NEW g, NEW h, NEW k \in D, \A p \in D : p > k => g[p] = h[p]
      PROVE  HeadAt(g, s, k) = HeadAt(h, s, k)
  <2>1. CASE k <= n /\ s[k] = "ws"
    <3>1. k + 1 \in D /\ k + 1 > k
      BY <1>0, <2>1
    <3> QED
      BY <1>2, <2>1, <3>1 DEF HeadAt, n
  <2>2. CASE ~(k <= n /\ s[k] = "ws") /\ Reader!Ends(s, k) # {}
    <3> DEFINE e == Reader!Min(Reader!Ends(s, k))
    <3>1. k \in Nat
      BY <1>0
    <3>2. e \in k + 1..n
      BY <2>2, <3>1, EndsBehind DEF n
    <3> HIDE DEF e
    <3>3. e + 1 \in D /\ e + 1 > k
      BY <1>0, <3>1, <3>2
    <3>4. g[e + 1] = h[e + 1]
      BY <1>2, <3>3
    <3> QED
      BY <2>2, <3>4 DEF HeadAt, n, e
  <2>3. CASE ~(k <= n /\ s[k] = "ws") /\ Reader!Ends(s, k) = {}
    BY <2>3 DEF HeadAt, n
  <2> QED
    BY <2>1, <2>2, <2>3
<1>3. ASSUME NEW h \in [D -> Int], NEW k \in D PROVE HeadAt(h, s, k) \in Int
  <2>1. CASE k <= n /\ s[k] = "ws"
    <3>1. k + 1 \in D
      BY <1>0, <2>1
    <3> QED
      BY <1>3, <2>1, <3>1 DEF HeadAt, n
  <2>2. CASE ~(k <= n /\ s[k] = "ws") /\ Reader!Ends(s, k) # {}
    <3> DEFINE e == Reader!Min(Reader!Ends(s, k))
    <3>1. k \in Nat
      BY <1>0
    <3>2. e \in k + 1..n
      BY <2>2, <3>1, EndsBehind DEF n
    <3> HIDE DEF e
    <3>3. e + 1 \in D
      BY <1>0, <3>1, <3>2
    <3>4. h[e + 1] \in Int
      BY <1>3, <3>3
    <3> QED
      BY <2>2, <3>4 DEF HeadAt, n, e
  <2>3. CASE ~(k <= n /\ s[k] = "ws") /\ Reader!Ends(s, k) = {}
    <3>1. k \in Int
      BY <1>0
    <3> QED
      BY <2>3, <3>1 DEF HeadAt, n
  <2> QED
    BY <2>1, <2>2, <2>3
<1>4. ASSUME NEW m \in Nat, m \in T PROVE m + 1 \in T
  <2>0. m + 1 \in Nat
    OBVIOUS
  <2>1. PICK h \in [D -> Int] : \A k \in D : k >= n + 1 - m => h[k] = HeadAt(h, s, k)
    BY <1>4
  <2>2. CASE n - m \in D
    <3> DEFINE g == [h EXCEPT ![n - m] = HeadAt(h, s, n - m)]
    <3>1. g \in [D -> Int]
      BY <1>3, <2>2
    <3>2. g[n - m] = HeadAt(h, s, n - m) /\ \A k \in D : k # n - m => g[k] = h[k]
      BY <2>2
    <3> HIDE DEF g
    <3>3. ASSUME NEW k \in D, k >= n - m PROVE g[k] = HeadAt(g, s, k)
      <4>1. \A p \in D : p > k => g[p] = h[p]
        BY <1>0, <3>2, <3>3
      <4>2. HeadAt(g, s, k) = HeadAt(h, s, k)
        BY <1>2, <4>1
      <4>3. CASE k = n - m
        BY <3>2, <4>2, <4>3
      <4>4. CASE k # n - m
        <5>1. k >= n + 1 - m
          BY <1>0, <3>3, <4>4
        <5> QED
          BY <2>1, <3>2, <4>2, <4>4, <5>1
      <4> QED
        BY <4>3, <4>4
    <3>4. \A k \in D : k >= n + 1 - (m + 1) => g[k] = HeadAt(g, s, k)
      BY <1>0, <3>3
    <3>5. \E f \in [D -> Int] : \A k \in D : k >= n + 1 - (m + 1) => f[k] = HeadAt(f, s, k)
      BY <3>1, <3>4, Zenon
    <3> QED
      BY <2>0, <3>5, Zenon
  <2>3. CASE n - m \notin D
    <3>1. \A k \in D : k >= n + 1 - (m + 1) => k >= n + 1 - m
      BY <1>0, <2>3
    <3>2. \A k \in D : k >= n + 1 - (m + 1) => h[k] = HeadAt(h, s, k)
      BY <2>1, <3>1
    <3>3. \E f \in [D -> Int] : \A k \in D : k >= n + 1 - (m + 1) => f[k] = HeadAt(f, s, k)
      BY <3>2, Zenon
    <3> QED
      BY <2>0, <3>3, Zenon
  <2> QED
    BY <2>2, <2>3
<1>5. n + 1 \in T
  <2> HIDE DEF T
  <2> QED
    BY <1>0, <1>1, <1>4, SetInduction
<1>6. PICK h \in [D -> Int] : \A k \in D : k >= n + 1 - (n + 1) => h[k] = HeadAt(h, s, k)
  BY <1>5
<1>7. \A k \in D : h[k] = HeadAt(h, s, k)
  BY <1>0, <1>6
<1>8. h = [k \in D |-> HeadAt(h, s, k)]
  BY <1>7
<1> QED
  BY <1>8 DEF n

LEMMA HeadIs ==
  ASSUME NEW s \in Seq(Tokens), NEW k \in 1..(Len(s) + 1)
  PROVE  Heads(s)[k] = HeadAt(Heads(s), s, k)
<1>1. Heads(s) = [p \in 1..(Len(s) + 1) |-> HeadAt(Heads(s), s, p)]
  BY HeadExists DEF Heads
<1> QED
  BY <1>1

\* The head is not before the place it is looked for from.
LEMMA HeadBehind ==
  ASSUME NEW s \in Seq(Tokens)
  PROVE  \A k \in 1..(Len(s) + 1) : Heads(s)[k] \in Int /\ k <= Heads(s)[k]
<1> DEFINE n == Len(s)
           h == Heads(s)
           T == {m \in Nat : \A k \in 1..(n + 1) : k >= n + 1 - m => h[k] \in Int /\ k <= h[k]}
<1>0. n \in Nat
  OBVIOUS
<1>1. ASSUME NEW k \in 1..(n + 1),
             \A p \in 1..(n + 1) : p > k => h[p] \in Int /\ p <= h[p]
      PROVE  h[k] \in Int /\ k <= h[k]
  <2>1. h[k] = HeadAt(h, s, k)
    BY HeadIs
  <2> HIDE DEF h
  <2>2. CASE k <= n /\ s[k] = "ws"
    <3>1. h[k] = h[k + 1] /\ k + 1 \in 1..(n + 1) /\ k + 1 > k
      BY <1>0, <2>1, <2>2 DEF HeadAt
    <3> QED
      BY <1>0, <1>1, <3>1
  <2>3. CASE ~(k <= n /\ s[k] = "ws") /\ Reader!Ends(s, k) # {}
    <3> DEFINE e == Reader!Min(Reader!Ends(s, k))
    <3>1. e \in k + 1..n /\ h[k] = h[e + 1]
      BY <1>0, <2>1, <2>3, EndsBehind DEF HeadAt
    <3> HIDE DEF e
    <3>2. e + 1 \in 1..(n + 1) /\ e + 1 > k
      BY <1>0, <3>1
    <3> QED
      BY <1>0, <1>1, <3>1, <3>2
  <2>4. CASE ~(k <= n /\ s[k] = "ws") /\ Reader!Ends(s, k) = {}
    BY <1>0, <2>1, <2>4 DEF HeadAt
  <2> QED
    BY <2>2, <2>3, <2>4
<1> HIDE DEF h, n
<1>2. 0 \in T
  BY <1>0, <1>1
<1>3. ASSUME NEW m \in Nat, m \in T PROVE m + 1 \in T
  <2>1. \A k \in 1..(n + 1) : k >= n + 1 - m => h[k] \in Int /\ k <= h[k]
    BY <1>3
  <2>2. ASSUME NEW k \in 1..(n + 1), k >= n + 1 - (m + 1) PROVE h[k] \in Int /\ k <= h[k]
    <3>1. \A p \in 1..(n + 1) : p > k => p >= n + 1 - m
      BY <1>0, <2>2
    <3> QED
      BY <1>1, <2>1, <3>1
  <2> QED
    BY <2>2
<1>4. n + 1 \in T
  <2> HIDE DEF T
  <2> QED
    BY <1>0, <1>2, <1>3, SetInduction
<1>5. \A k \in 1..(n + 1) : k >= n + 1 - (n + 1)
  BY <1>0
<1> QED
  BY <1>4, <1>5 DEF n, h

\* A comment that the scan does not know is in the head, if that is where it begins.
LEMMA OddInHead ==
  ASSUME NEW s \in Seq(Tokens), NEW k \in 1..Len(s), s[k] # "ws",
         Reader!HeadFrom(s) = Heads(s)[k], Reader!Ends(s, k) # {}, ~Reader!HasOddComment(s)
  PROVE  Reader!Plain(s, k, Reader!Min(Reader!Ends(s, k)))
<1> DEFINE e == Reader!Min(Reader!Ends(s, k))
<1>1. e \in k + 1..Len(s) /\ Len(s) \in Nat
  BY EndsBehind
<1>2. Heads(s)[k] = Heads(s)[e + 1]
  BY HeadIs DEF HeadAt
<1> HIDE DEF e
<1>3. e + 1 \in 1..(Len(s) + 1)
  BY <1>1
<1>4. Reader!HeadFrom(s) \in Int /\ e + 1 <= Reader!HeadFrom(s)
  BY <1>2, <1>3, HeadBehind
<1>5. k \in 1..(Reader!HeadFrom(s) - 1)
  BY <1>1, <1>4
<1> QED
  BY <1>5 DEF Reader!HasOddComment, e

\* How much of "-->" lies right before the place, in a comment that opens at k.
Dashes(s, k, place) ==
    IF place >= k + 4 /\ s[place] = "-" /\ s[place - 1] = "-" THEN 2
    ELSE IF place >= k + 3 /\ s[place] = "-" THEN 1 ELSE 0

\* Where the scan is: at the head of the page, in a comment before it that has not been
\* closed, or in its doctype; and afterwards the place that it found.
ScanInv ==
    LET s == had[1]
        place == scan.offset
        head == Reader!HeadFrom(s) IN
    /\ ReaderInv
    /\ scan.mode = "bom" => place = 0
    /\ scan.mode = "prolog" => head = Heads(s)[place + 1]
    /\ scan.mode = "comment" =>
          \E k \in 1..Len(s) :
              /\ Reader!Opens(s, k) /\ head = Heads(s)[k] /\ k + 2 <= place
              /\ \A j \in Reader!Ends(s, k) : j > place
              /\ scan.matched = Dashes(s, k, place)
    /\ scan.mode = "doctype" =>
          /\ head \in 1..Len(s) /\ head + 1 <= place
          /\ Reader!IsDoctype(s, head)
          /\ \A j \in head..place : s[j] # ">"
    /\ scan.mode \in {"open", "serve", "served", "cut"} => insertAt = Reader!AfterDoctype(s)

LEMMA ScanInit == Contents /\ Reader!Init => ScanInv
  BY ReaderInit DEF ScanInv, Reader!Init

\* What the steps of the scan read: the file that was opened.
LEMMA ScanReads ==
  ASSUME Contents, ScanInv, scan.mode \in Scanning
  PROVE  /\ file = had[1] /\ file \in Seq(Tokens) /\ Len(file) \in Nat
         /\ scan.offset \in 0..Len(file)
         /\ \A k \in 1..3 : \/ scan.offset + k <= Len(file) /\ Reader!Peek(k) = file[scan.offset + k]
                            \/ scan.offset + k > Len(file) /\ Reader!Peek(k) = "eof"
         /\ scan \in [mode : Scanning \cup {"open", "serve", "served", "cut"}, matched : 0..2, offset : Nat]
<1>1. ReaderInv /\ Len(had) = 1
  BY DEF ScanInv, ReaderInv
<1>2. file = had[1] /\ file \in Seq(Tokens) /\ Len(file) \in Nat /\ sourceSize = Len(file)
  BY <1>1, ReaderFacts
<1>3. scan.offset \in 0..Len(file)
      /\ scan \in [mode : Scanning \cup {"open", "serve", "served", "cut"}, matched : 0..2, offset : Nat]
  BY <1>1, <1>2 DEF ReaderInv
<1>4. ASSUME NEW k \in 1..3
      PROVE  \/ scan.offset + k <= Len(file) /\ Reader!Peek(k) = file[scan.offset + k]
             \/ scan.offset + k > Len(file) /\ Reader!Peek(k) = "eof"
  <2>1. CASE scan.offset + k <= Len(file)
    <3>1. Reader!Peek(k) = file[scan.offset + k]
      BY <2>1 DEF Reader!Peek
    <3> QED
      BY <2>1, <3>1
  <2>2. CASE ~(scan.offset + k <= Len(file))
    <3>1. scan.offset + k > Len(file)
      BY <1>2, <1>3, <2>2
    <3> QED
      BY <2>2, <3>1 DEF Reader!Peek
  <2> QED
    BY <2>1, <2>2
<1> QED
  BY <1>2, <1>3, <1>4

\* No doctype: the script goes to the beginning.
LEMMA NoDoctype ==
  ASSUME NEW s \in Seq(Tokens), NEW k \in Nat, Reader!HeadFrom(s) = k,
         ~Reader!IsDoctype(s, k) \/ \A j \in k..Len(s) : s[j] # ">"
  PROVE  Reader!AfterDoctype(s) = 0
<1>1. {j \in k..Len(s) : s[j] = ">"} = {} \/ ~Reader!IsDoctype(s, k)
  OBVIOUS
<1> QED
  BY <1>1 DEF Reader!AfterDoctype

LEMMA DoctypeCloses ==
  ASSUME NEW s \in Seq(Tokens), NEW k \in Nat, Reader!HeadFrom(s) = k,
         Reader!IsDoctype(s, k),
         NEW p \in k..Len(s), s[p] = ">", \A j \in k..(p - 1) : s[j] # ">"
  PROVE  Reader!AfterDoctype(s) = p
<1> DEFINE closes == {j \in k..Len(s) : s[j] = ">"}
<1>1. p \in closes /\ closes \subseteq Nat
  OBVIOUS
<1>2. \A j \in closes : p <= j
  OBVIOUS
<1> HIDE DEF closes
<1>3. Reader!Min(closes) = p
  BY <1>1, <1>2, LeastIs
<1>4. closes # {}
  BY <1>1
<1> QED
  BY <1>3, <1>4 DEF Reader!AfterDoctype, closes

LEMMA HeadStep ==
  ASSUME NEW s \in Seq(Tokens), NEW k \in 1..(Len(s) + 1)
  PROVE  /\ k <= Len(s) /\ s[k] = "ws" => Heads(s)[k] = Heads(s)[k + 1]
         /\ ~(k <= Len(s) /\ s[k] = "ws") /\ Reader!Ends(s, k) = {} => Heads(s)[k] = k
  BY HeadIs DEF HeadAt

LEMMA HeadOver ==
  ASSUME NEW s \in Seq(Tokens), NEW k \in 1..Len(s), Reader!Opens(s, k),
         NEW j \in Reader!Ends(s, k), \A e \in Reader!Ends(s, k) : j <= e
  PROVE  Heads(s)[k] = Heads(s)[j + 1]
<1>1. Reader!Ends(s, k) \subseteq Nat /\ Reader!Ends(s, k) # {} /\ k \in 1..(Len(s) + 1)
  BY DEF Reader!Ends
<1>2. Reader!Min(Reader!Ends(s, k)) = j
  BY <1>1, LeastIs
<1>3. s[k] # "ws"
  BY DEF Reader!Opens
<1> QED
  BY <1>1, <1>2, <1>3, HeadIs DEF HeadAt

\* The scan is still at the head, at the place it is at now.
LEMMA ScanBOM ==
  ASSUME Contents, ScanInv, Reader!SkipBOM
  PROVE  ScanInv'
<1> DEFINE s == had[1]
<1>1. scan.mode = "bom" /\ ReaderInv'
  BY ReaderScan, ReaderScanned DEF ScanInv, Reader!SkipBOM
<1>2. /\ file = s /\ s \in Seq(Tokens) /\ scan.offset = 0 /\ had' = had
      /\ \/ 1 <= Len(s) /\ Reader!Peek(1) = s[1]
         \/ ~(1 <= Len(s)) /\ Reader!Peek(1) = "eof"
  BY <1>1, ScanReads DEF ScanInv, Scanning, Reader!SkipBOM, Reader!Reading
<1>3. scan' = [mode |-> "prolog", matched |-> 0, offset |-> IF Reader!Peek(1) = "bom" THEN 1 ELSE 0]
  BY <1>2 DEF Reader!SkipBOM, Reader!Advance
<1>4. Reader!Peek(1) = "bom" <=> Len(s) > 0 /\ s[1] = "bom"
  BY <1>2
<1>5. Reader!HeadFrom(s) = Heads(s)[scan'.offset + 1]
  BY <1>3, <1>4, HeadUnfold
<1> QED
  BY <1>1, <1>2, <1>3, <1>5 DEF ScanInv

\* From the head on: a space, a comment, the doctype, or neither.
LEMMA ScanProlog ==
  ASSUME Contents, ScanInv, ~Reader!HasOddComment(had[1]), Reader!Prolog
  PROVE  ScanInv'
<1> DEFINE s == had[1]
           k == scan.offset + 1
           head == Reader!HeadFrom(s)
<1>1. scan.mode = "prolog" /\ ReaderInv' /\ had' = had
  BY ReaderScan, ReaderScanned DEF ScanInv, Reader!Prolog, Reader!Reading
<1>2. /\ file = s /\ s \in Seq(Tokens) /\ Len(s) \in Nat /\ scan.offset \in 0..Len(s)
      /\ head = Heads(s)[k] /\ k \in 1..(Len(s) + 1)
  BY <1>1, ScanReads DEF ScanInv, Scanning
<1>3. /\ \/ k <= Len(s) /\ Reader!Peek(1) = s[k]
         \/ k > Len(s) /\ Reader!Peek(1) = "eof"
      /\ \/ k + 1 <= Len(s) /\ Reader!Peek(2) = s[k + 1]
         \/ k + 1 > Len(s) /\ Reader!Peek(2) = "eof"
      /\ \/ k + 2 <= Len(s) /\ Reader!Peek(3) = s[k + 2]
         \/ k + 2 > Len(s) /\ Reader!Peek(3) = "eof"
  <2>1. scan.offset + 1 = k /\ scan.offset + 2 = k + 1 /\ scan.offset + 3 = k + 2
    BY <1>2
  <2> QED
    BY <1>1, <1>2, <2>1, ScanReads DEF Scanning
<1> HIDE DEF s, k, head
<1>4. CASE Reader!Peek(1) = "ws" /\ Reader!Advance("prolog", 1)
  <2>1. scan' = [mode |-> "prolog", matched |-> 0, offset |-> scan.offset + 1]
    BY <1>4 DEF Reader!Advance
  <2>2. head = Heads(s)[k + 1]
    BY <1>2, <1>3, <1>4, HeadStep
  <2>3. head = Heads(s)[scan'.offset + 1]
    BY <2>1, <2>2 DEF k
  <2> QED
    BY <1>1, <2>1, <2>3 DEF ScanInv, s, head
<1>5. CASE /\ Reader!Peek(1) = "<!" /\ Reader!Peek(2) = "-" /\ Reader!Peek(3) = "-"
           /\ Reader!Advance("comment", 3)
  <2>1. scan' = [mode |-> "comment", matched |-> 0, offset |-> k + 2]
    BY <1>2, <1>5 DEF Reader!Advance, k
  <2>2. Reader!Opens(s, k) /\ k \in 1..Len(s)
    BY <1>2, <1>3, <1>5 DEF Reader!Opens
  <2>3. \A j \in Reader!Ends(s, k) : j > k + 2
    BY <1>2, <2>2 DEF Reader!Ends
  <2>4. Dashes(s, k, k + 2) = 0 /\ k + 2 <= k + 2
    BY <1>2 DEF Dashes
  <2> QED
    BY <1>1, <1>2, <2>1, <2>2, <2>3, <2>4 DEF ScanInv, s, head
<1>6. CASE Reader!Peek(1) = "<!" /\ Reader!Peek(2) = "doctype" /\ Reader!Advance("doctype", 2)
  <2>1. scan' = [mode |-> "doctype", matched |-> 0, offset |-> k + 1]
    BY <1>2, <1>6 DEF Reader!Advance, k
  <2>2. k + 1 <= Len(s) /\ s[k] = "<!" /\ s[k + 1] = "doctype" /\ k \in 1..Len(s)
    BY <1>2, <1>3, <1>6
  <2>5. Reader!IsDoctype(s, k) /\ Reader!Ends(s, k) = {}
    BY <2>2 DEF Reader!IsDoctype, Reader!Ends, Reader!Opens, Reader!OpensBogus
  <2>3. head = k
    BY <1>2, <2>2, <2>5, HeadStep
  <2>4. \A j \in k..(k + 1) : s[j] # ">"
    BY <1>2, <2>2
  <2> QED
    BY <1>1, <1>2, <2>1, <2>2, <2>3, <2>4, <2>5 DEF ScanInv, s, head
<1>7. CASE /\ Reader!Peek(1) # "ws"
           /\ Reader!Peek(1) = "<!" => Reader!Peek(2) # "doctype" /\ ~(Reader!Peek(2) = "-" /\ Reader!Peek(3) = "-")
           /\ Reader!Settle(0)
  <2>1. scan'.mode = "open" /\ insertAt' = 0
    BY <1>1, <1>7, ScanReads DEF Reader!Settle, Scanning
  <2>2. ~(k <= Len(s) /\ s[k] = "ws") /\ ~Reader!Opens(s, k)
    BY <1>2, <1>3, <1>7 DEF Reader!Opens
  <2>6. Reader!Ends(s, k) = {}
    <3>1. CASE k <= Len(s)
      <4>1. k \in 1..Len(s) /\ s[k] # "ws" /\ Reader!HeadFrom(s) = Heads(s)[k]
            /\ ~Reader!HasOddComment(s)
        BY <1>2, <2>2, <3>1 DEF head, s
      <4>2. ASSUME Reader!Ends(s, k) # {} PROVE FALSE
        BY <1>2, <2>2, <4>1, <4>2, OddInHead DEF Reader!Plain
      <4> QED
        BY <4>2
    <3>2. CASE k > Len(s)
      BY <1>2, <2>2, <3>2 DEF Reader!Ends, Reader!OpensBogus
    <3> QED
      BY <1>2, <3>1, <3>2
  <2>3. head = k /\ k \in Nat
    BY <1>2, <2>2, <2>6, HeadStep
  <2>4. ~Reader!IsDoctype(s, k)
    BY <1>2, <1>3, <1>7 DEF Reader!IsDoctype
  <2>5. Reader!AfterDoctype(s) = 0
    BY <1>2, <2>3, <2>4, NoDoctype DEF head
  <2> QED
    BY <1>1, <2>1, <2>5 DEF ScanInv, s
<1> QED
  BY <1>4, <1>5, <1>6, <1>7 DEF Reader!Prolog

\* In a comment the scan knows how much of "-->" it has passed.
LEMMA ScanComment ==
  ASSUME Contents, ScanInv, ~Reader!HasOddComment(had[1]), Reader!Comment
  PROVE  ScanInv'
<1> DEFINE s == had[1]
           o == scan.offset
           head == Reader!HeadFrom(s)
<1>1. scan.mode = "comment" /\ ReaderInv' /\ had' = had
  BY ReaderScan, ReaderScanned DEF ScanInv, Reader!Comment, Reader!Reading
<1>2. /\ file = s /\ s \in Seq(Tokens) /\ Len(s) \in Nat /\ o \in 0..Len(s)
      /\ \/ o + 1 <= Len(s) /\ Reader!Peek(1) = s[o + 1]
         \/ o + 1 > Len(s) /\ Reader!Peek(1) = "eof"
      /\ scan.matched \in 0..2
  BY <1>1, ScanReads DEF Scanning
<1>3. PICK k \in 1..Len(s) :
        /\ Reader!Opens(s, k) /\ head = Heads(s)[k] /\ k + 2 <= o
        /\ \A j \in Reader!Ends(s, k) : j > o
        /\ scan.matched = Dashes(s, k, o)
  BY <1>1 DEF ScanInv
<1> HIDE DEF s, o, head
<1>4. CASE Reader!Peek(1) = "eof"
  <2>1. scan'.mode = "open" /\ insertAt' = 0
    BY <1>1, <1>4, ScanReads DEF Reader!Comment, Reader!Settle, Scanning
  <2>2. o = Len(s)
    <3>1. \A p \in 1..Len(s) : s[p] # "eof"
      BY <1>2 DEF Tokens
    <3> QED
      BY <1>2, <1>4, <3>1
  <2>3. Reader!Ends(s, k) = {}
    BY <1>2, <1>3, <2>2 DEF Reader!Ends
  <2>4. head = k /\ k \in Nat
    BY <1>2, <1>3, <2>3, HeadStep DEF Reader!Opens
  <2>5. ~Reader!IsDoctype(s, k)
    BY <1>3 DEF Reader!Opens, Reader!IsDoctype
  <2>6. Reader!AfterDoctype(s) = 0
    BY <1>2, <2>4, <2>5, NoDoctype DEF head
  <2> QED
    BY <1>1, <2>1, <2>6 DEF ScanInv, s
<1>5. CASE Reader!Peek(1) # "eof"
  <2> DEFINE t == s[o + 1]
             m == Reader!Matched(Reader!Peek(1), scan.matched)
  <2>1. /\ scan' = [mode |-> IF m = 3 THEN "prolog" ELSE "comment", matched |-> m % 3, offset |-> o + 1]
        /\ insertAt' = insertAt
    BY <1>5 DEF Reader!Comment, o
  <2>2. o + 1 <= Len(s) /\ Reader!Peek(1) = t
    BY <1>2, <1>5
  <2>3. k \in Nat /\ o \in Nat
    BY <1>2
  <2>4. m = 3 <=> t = ">" /\ scan.matched = 2
    BY <1>2, <2>2 DEF Reader!Matched, Reader!Smaller
  <2>5. m = 3 <=> o + 1 \in Reader!Ends(s, k)
    <3>1. ASSUME o + 1 \in Reader!Ends(s, k)
          PROVE  o + 1 >= k + 5 /\ s[o + 1] = ">" /\ s[o] = "-" /\ s[o - 1] = "-"
      <4>1. k \in 1..Len(s) /\ Reader!Opens(s, k) /\ ~Reader!HasOddComment(s)
            /\ Reader!HeadFrom(s) = Heads(s)[k] /\ s[k] # "ws"
        BY <1>3 DEF s, head, Reader!Opens
      <4>2. Reader!Ends(s, k) \subseteq Nat /\ \A j \in Reader!Ends(s, k) : o + 1 <= j
        BY <1>3, <2>3 DEF Reader!Ends
      <4>3. Reader!Min(Reader!Ends(s, k)) = o + 1
        BY <3>1, <4>2, LeastIs
      <4>4. Reader!Plain(s, k, o + 1)
        BY <1>2, <3>1, <4>1, <4>3, OddInHead
      <4>5. (o + 1) - 1 = o /\ (o + 1) - 2 = o - 1
        BY <2>3
      <4>6. s[o + 1] = ">"
        BY <3>1, <4>1 DEF Reader!Ends
      <4> QED
        BY <4>4, <4>5, <4>6 DEF Reader!Plain
    <3>2. ASSUME m = 3 PROVE o + 1 \in Reader!Ends(s, k)
      <4>1. t = ">" /\ o >= k + 4 /\ s[o] = "-" /\ s[o - 1] = "-"
        BY <1>3, <2>3, <2>4, <3>2 DEF Dashes
      <4>2. (o + 1) - 1 = o /\ (o + 1) - 2 = o - 1 /\ o + 1 \in k + 3..Len(s)
        BY <1>2, <2>2, <2>3, <4>1
      <4> QED
        BY <1>3, <4>1, <4>2 DEF Reader!Ends
    <3>3. ASSUME o + 1 \in Reader!Ends(s, k) PROVE m = 3
      <4>1. t = ">" /\ o >= k + 4 /\ s[o] = "-" /\ s[o - 1] = "-"
        BY <2>3, <3>1, <3>3
      <4>2. scan.matched = 2
        BY <1>3, <4>1 DEF Dashes
      <4> QED
        BY <2>4, <4>1, <4>2
    <3> QED
      BY <3>2, <3>3
  <2>6. CASE m = 3
    <3>1. \A e \in Reader!Ends(s, k) : o + 1 <= e
      BY <1>3, <2>3 DEF Reader!Ends
    <3>2. head = Heads(s)[(o + 1) + 1]
      BY <1>2, <1>3, <2>5, <2>6, <3>1, HeadOver
    <3>3. scan'.mode = "prolog" /\ scan'.offset = o + 1
      BY <2>1, <2>6
    <3> QED
      BY <1>1, <3>2, <3>3 DEF ScanInv, s, head
  <2>7. CASE m # 3
    <3>1. \A j \in Reader!Ends(s, k) : j > o + 1
      BY <1>3, <2>3, <2>5, <2>7 DEF Reader!Ends
    <3>2. m = Dashes(s, k, o + 1)
      <4>1. m = IF t = "-" THEN (IF scan.matched = 0 THEN 1 ELSE 2) ELSE 0
        BY <1>2, <2>2, <2>4, <2>7 DEF Reader!Matched, Reader!Smaller
      <4>2. scan.matched = 0 <=> ~(o >= k + 3 /\ s[o] = "-")
        BY <1>3, <2>3 DEF Dashes
      <4>3. (o + 1) - 1 = o /\ (o + 1 >= k + 4 <=> o >= k + 3) /\ o + 1 >= k + 3
        BY <1>3, <2>3
      <4> HIDE DEF m
      <4> QED
        BY <4>1, <4>2, <4>3 DEF Dashes
    <3>3. m \in 0..2
      BY <3>2 DEF Dashes
    <3>4. scan'.mode = "comment" /\ scan'.offset = o + 1 /\ scan'.matched = m
      BY <2>1, <2>7, <3>3
    <3>5. k + 2 <= o + 1
      BY <1>3, <2>3
    <3> HIDE DEF m
    <3> QED
      BY <1>1, <1>3, <3>1, <3>2, <3>4, <3>5 DEF ScanInv, s, head
  <2> QED
    BY <2>6, <2>7
<1> QED
  BY <1>4, <1>5

LEMMA ScanDoctype ==
  ASSUME Contents, ScanInv, Reader!Doctype
  PROVE  ScanInv'
<1> DEFINE s == had[1]
           o == scan.offset
           head == Reader!HeadFrom(s)
<1>1. scan.mode = "doctype" /\ ReaderInv' /\ had' = had
  BY ReaderScan, ReaderScanned DEF ScanInv, Reader!Doctype, Reader!Reading
<1>2. /\ file = s /\ s \in Seq(Tokens) /\ Len(s) \in Nat /\ o \in 0..Len(s)
      /\ \/ o + 1 <= Len(s) /\ Reader!Peek(1) = s[o + 1]
         \/ o + 1 > Len(s) /\ Reader!Peek(1) = "eof"
  BY <1>1, ScanReads DEF Scanning
<1>3. /\ head \in 1..Len(s) /\ head + 1 <= o
      /\ Reader!IsDoctype(s, head)
      /\ \A j \in head..o : s[j] # ">"
  BY <1>1 DEF ScanInv
<1>4. head \in Nat /\ o \in Nat
  BY <1>2, <1>3
<1> HIDE DEF s, o, head
<1>5. CASE Reader!Peek(1) = "eof"
  <2>1. scan'.mode = "open" /\ insertAt' = 0
    BY <1>1, <1>5, ScanReads DEF Reader!Doctype, Reader!Settle, Scanning
  <2>2. o = Len(s)
    <3>1. \A p \in 1..Len(s) : s[p] # "eof"
      BY <1>2 DEF Tokens
    <3> QED
      BY <1>2, <1>5, <3>1
  <2>3. Reader!AfterDoctype(s) = 0
    BY <1>2, <1>3, <1>4, <2>2, NoDoctype DEF head
  <2> QED
    BY <1>1, <2>1, <2>3 DEF ScanInv, s
<1>6. CASE Reader!Peek(1) = ">"
  <2>1. scan'.mode = "open" /\ insertAt' = o + 1
    BY <1>1, <1>6, ScanReads DEF Reader!Doctype, Reader!Settle, Scanning, o
  <2>2. o + 1 \in head..Len(s) /\ s[o + 1] = ">" /\ head + 1 <= Len(s)
    BY <1>2, <1>3, <1>4, <1>6
  <2>3. \A j \in head..((o + 1) - 1) : s[j] # ">"
    BY <1>3, <1>4
  <2>4. Reader!AfterDoctype(s) = o + 1
    BY <1>2, <1>3, <1>4, <2>2, <2>3, DoctypeCloses DEF head
  <2> QED
    BY <1>1, <2>1, <2>4 DEF ScanInv, s
<1>7. CASE Reader!Peek(1) \notin {"eof", ">"}
  <2>1. scan' = [mode |-> "doctype", matched |-> 0, offset |-> o + 1]
    BY <1>7 DEF Reader!Doctype, Reader!Advance, o
  <2>2. s[o + 1] # ">"
    BY <1>2, <1>7
  <2>3. \A j \in head..(o + 1) : s[j] # ">"
    BY <1>3, <1>4, <2>2
  <2>4. head + 1 <= o + 1
    BY <1>3, <1>4
  <2> QED
    BY <1>1, <1>3, <2>1, <2>3, <2>4 DEF ScanInv, s, head
<1> QED
  BY <1>5, <1>6, <1>7

\* What is served, and what is saved meanwhile, leaves the place alone.
LEMMA ScanStays ==
  ASSUME ScanInv, ReaderInv', had'[1] = had[1], insertAt' = insertAt,
         scan.mode \in {"open", "serve"}, scan'.mode \in {"serve", "served", "cut"}
  PROVE  ScanInv'
  BY DEF ScanInv

LEMMA ScanNext ==
  ASSUME Contents, ScanInv, ~Reader!HasOddComment(had[1]), [Reader!Next]_readerVars
  PROVE  ScanInv'
<1>1. ReaderInv /\ ReaderInv'
  BY ReaderNext DEF ScanInv
<1>2. ASSUME NEW first \in 0..(Reader!TotalSize - 1), NEW length \in 1..Reader!TotalSize,
             Reader!Serve(first, length)
      PROVE ScanInv'
  BY <1>1, <1>2, ScanStays DEF Reader!Serve, ReaderInv
<1>3. ASSUME NEW content \in Rewrites, Reader!Rewrite(content) PROVE ScanInv'
  <2>1. had'[1] = had[1]
    BY <1>1, <1>3 DEF Reader!Rewrite, ReaderInv
  <2> QED
    BY <1>1, <1>3, <2>1, ScanStays DEF Reader!Rewrite
<1>4. ASSUME NEW piece \in 1..MaxPiece,
             Reader!BeforeScript(piece) \/ Reader!InScript(piece) \/ Reader!AfterScript(piece)
      PROVE ScanInv'
  <2>1. PICK bytes, length : Reader!Deliver(bytes, length) /\ scan.mode = "serve"
    BY <1>4 DEF Reader!BeforeScript, Reader!InScript, Reader!AfterScript
  <2>2. scan'.mode \in {"serve", "served", "cut"}
    BY <1>1, <2>1 DEF Reader!Deliver, ReaderInv
  <2> QED
    BY <1>1, <2>1, <2>2, ScanStays DEF Reader!Deliver
<1>5. CASE Reader!SkipBOM \/ Reader!Prolog \/ Reader!Comment \/ Reader!Doctype
  BY <1>5, ScanBOM, ScanProlog, ScanComment, ScanDoctype
<1>6. CASE UNCHANGED readerVars
  BY <1>1, <1>6 DEF readerVars, ScanInv
<1> QED
  BY <1>2, <1>3, <1>4, <1>5, <1>6 DEF Reader!Next

LEMMA FirstStays ==
  ASSUME ReaderInv, [Reader!Next]_readerVars
  PROVE  had'[1] = had[1]
<1>1. ASSUME NEW content \in Rewrites, Reader!Rewrite(content) PROVE had'[1] = had[1]
  BY <1>1 DEF Reader!Rewrite, ReaderInv
<1>2. CASE Reader!SkipBOM \/ Reader!Prolog \/ Reader!Comment \/ Reader!Doctype
  BY <1>2, ReaderScan DEF Scanned
<1>3. CASE UNCHANGED had
  BY <1>3
<1> QED
  BY <1>1, <1>2, <1>3 DEF Reader!Next, Reader!Serve, Reader!BeforeScript, Reader!InScript,
     Reader!AfterScript, Reader!Deliver, readerVars

\* However the head of a page is made up of a byte order mark, spaces and comments, the
\* script is put right behind the doctype that a browser reads, unless there is a
\* comment in the head that begins or ends in a way the scan does not know
\* (htmlViewportGuardOffsetReader).
THEOREM ScriptPlaced == MCSpec => []AfterDoctypeUnlessOdd
<1> DEFINE I == machine = "reader" =>
                  ReaderInv /\ \A s : s = had[1] => Reader!HasOddComment(s) \/ ScanInv
<1>1. MCInit => I
  BY ReaderContents, ReaderInit, ScanInit DEF MCInit
<1>2. I /\ [MCNext]_allVars => I'
  <2> SUFFICES ASSUME ReaderInv, \A s : s = had[1] => Reader!HasOddComment(s) \/ ScanInv,
                      [Reader!Next]_readerVars
               PROVE  ReaderInv' /\ \A s : s = had'[1] => Reader!HasOddComment(s) \/ ScanInv'
    BY ReaderStep
  <2>1. ReaderInv' /\ had'[1] = had[1]
    BY ReaderContents, ReaderNext, FirstStays
  <2>2. CASE Reader!HasOddComment(had[1])
    BY <2>1, <2>2
  <2>3. CASE ~Reader!HasOddComment(had[1])
    BY <2>1, <2>3, ReaderContents, ScanNext
  <2> QED
    BY <2>2, <2>3
<1>3. I => AfterDoctypeUnlessOdd
  BY DEF ScanInv, AfterDoctypeUnlessOdd, Reader!AfterDoctypeUnlessOdd
<1> QED
  BY <1>1, <1>2, <1>3, PTL DEF MCSpec

-----------------------------------------------------------------------------
(* The text of a document. *)

FenceAt(f, s, k) ==
    IF k = 0 THEN Document!NoFence
    ELSE IF f[k - 1] = Document!NoFence
         THEN (IF Document!OpensFence(s[k]) THEN s[k] ELSE Document!NoFence)
         ELSE (IF Document!ClosesFence(s[k], f[k - 1]) THEN Document!NoFence ELSE f[k - 1])

LEMMA FenceUnfold ==
  ASSUME NEW s
  PROVE  Document!FenceAfter(s) = CHOOSE f : f = [k \in 0..Len(s) |-> FenceAt(f, s, k)]
  BY DEF Document!FenceAfter, FenceAt

LEMMA FenceIs ==
  ASSUME NEW M, NEW s \in Seq(M)
  PROVE  /\ Document!FenceAfter(s)[0] = Document!NoFence
         /\ \A k \in 1..Len(s) : Document!FenceAfter(s)[k] = FenceAt(Document!FenceAfter(s), s, k)
<1> DEFINE n == Len(s)
           V == M \cup {Document!NoFence}
           h == [k \in 1..n |-> [v \in V |->
                    IF v = Document!NoFence
                    THEN (IF Document!OpensFence(s[k]) THEN s[k] ELSE Document!NoFence)
                    ELSE (IF Document!ClosesFence(s[k], v) THEN Document!NoFence ELSE v)]]
<1>1. n \in Nat
  BY LenProperties
<1>2. ASSUME NEW k \in 1..n, NEW v \in V
      PROVE  /\ h[k][v] = IF v = Document!NoFence
                    THEN (IF Document!OpensFence(s[k]) THEN s[k] ELSE Document!NoFence)
                    ELSE (IF Document!ClosesFence(s[k], v) THEN Document!NoFence ELSE v)
             /\ h[k][v] \in V
  <2>1. s[k] \in M
    OBVIOUS
  <2>3. h[k][v] = IF v = Document!NoFence
                    THEN (IF Document!OpensFence(s[k]) THEN s[k] ELSE Document!NoFence)
                    ELSE (IF Document!ClosesFence(s[k], v) THEN Document!NoFence ELSE v)
    OBVIOUS
  <2> QED
    BY <2>1, <2>3
<1> HIDE DEF h
<1>3. PICK f \in [0..n -> V] : Steps(f, n, Document!NoFence, h)
  <2>1. Document!NoFence \in V
    OBVIOUS
  <2>2. h \in [1..n -> [V -> V]]
    BY <1>2 DEF h
  <2> HIDE DEF V, n
  <2> QED
    BY <1>1, <2>1, <2>2, StepsExist
<1>4. \A k \in 0..n : f[k] = FenceAt(f, s, k)
  <2> TAKE k \in 0..n
  <2>1. CASE k = 0
    BY <1>3, <2>1 DEF Steps, FenceAt
  <2>2. CASE k # 0
    <3>1. k \in 1..n /\ k - 1 \in 0..n
      BY <1>1, <2>2
    <3>2. f[k - 1] \in V
      BY <1>3, <3>1
    <3> HIDE DEF V
    <3> QED
      BY <1>2, <1>3, <2>2, <3>1, <3>2 DEF Steps, FenceAt
  <2> QED
    BY <2>1, <2>2
<1>5. f = [k \in 0..n |-> FenceAt(f, s, k)]
  BY <1>3, <1>4
<1>6. Document!FenceAfter(s) = [k \in 0..n |-> FenceAt(Document!FenceAfter(s), s, k)]
  BY <1>5, FenceUnfold
<1>7. \A k \in 0..n : Document!FenceAfter(s)[k] = FenceAt(Document!FenceAfter(s), s, k)
  BY <1>6
<1> QED
  BY <1>1, <1>7 DEF FenceAt

KeptAt(f, s, k) ==
    IF k = 0 THEN <<>>
    ELSE IF s[k] = Document!Blank THEN f[k - 1] ELSE Append(f[k - 1], s[k])

LEMMA KeptUnfold ==
  ASSUME NEW s
  PROVE  Document!KeptAfter(s) = CHOOSE f : f = [k \in 0..Len(s) |-> KeptAt(f, s, k)]
  BY DEF Document!KeptAfter, KeptAt

LEMMA KeptIs ==
  ASSUME NEW M, NEW s \in Seq(M)
  PROVE  /\ Document!KeptAfter(s)[0] = <<>>
         /\ \A k \in 1..Len(s) :
              Document!KeptAfter(s)[k] = IF s[k] = Document!Blank THEN Document!KeptAfter(s)[k - 1]
                                         ELSE Append(Document!KeptAfter(s)[k - 1], s[k])
<1> DEFINE n == Len(s)
           V == Seq(M)
           h == [k \in 1..n |-> [v \in V |-> IF s[k] = Document!Blank THEN v ELSE Append(v, s[k])]]
<1>1. n \in Nat
  BY LenProperties
<1>2. ASSUME NEW k \in 1..n, NEW v \in V
      PROVE  /\ h[k][v] = IF s[k] = Document!Blank THEN v ELSE Append(v, s[k])
             /\ h[k][v] \in V
  <2>1. Append(v, s[k]) \in V
    <3>1. s[k] \in M
      OBVIOUS
    <3> QED
      BY <3>1, AppendProperties
  <2> HIDE DEF V
  <2>3. h[k][v] = IF s[k] = Document!Blank THEN v ELSE Append(v, s[k])
    OBVIOUS
  <2> QED
    BY <2>1, <2>3
<1> HIDE DEF h
<1>3. PICK f \in [0..n -> V] : Steps(f, n, <<>>, h)
  <2>1. <<>> \in V
    OBVIOUS
  <2>2. h \in [1..n -> [V -> V]]
    BY <1>2 DEF h
  <2> HIDE DEF V, n
  <2> QED
    BY <1>1, <2>1, <2>2, StepsExist
<1> HIDE DEF V
<1>4. \A k \in 0..n : f[k] = KeptAt(f, s, k)
  <2> TAKE k \in 0..n
  <2>1. CASE k = 0
    BY <1>3, <2>1 DEF Steps, KeptAt
  <2>2. CASE k # 0
    <3>1. k \in 1..n /\ k - 1 \in 0..n
      BY <1>1, <2>2
    <3>2. f[k - 1] \in V
      BY <1>3, <3>1
    <3> QED
      BY <1>2, <1>3, <2>2, <3>1, <3>2 DEF Steps, KeptAt
  <2> QED
    BY <2>1, <2>2
<1>5. f = [k \in 0..n |-> KeptAt(f, s, k)]
  BY <1>3, <1>4
<1>6. Document!KeptAfter(s) = [k \in 0..n |-> KeptAt(Document!KeptAfter(s), s, k)]
  BY <1>5, KeptUnfold
<1>7. \A k \in 0..n : Document!KeptAfter(s)[k] = KeptAt(Document!KeptAfter(s), s, k)
  BY <1>6
<1> QED
  BY <1>1, <1>7 DEF KeptAt

\* What is appended is kept unless it is blank.
LEMMA KeptAppend ==
  ASSUME NEW M, NEW s \in Seq(M), NEW e \in M
  PROVE  Document!KeptAfter(Append(s, e))[Len(Append(s, e))] =
           IF e = Document!Blank THEN Document!KeptAfter(s)[Len(s)]
           ELSE Append(Document!KeptAfter(s)[Len(s)], e)
<1> DEFINE n == Len(s)
           t == Append(s, e)
           T == {m \in Nat : m <= n => Document!KeptAfter(t)[m] = Document!KeptAfter(s)[m]}
<1>1. n \in Nat /\ t \in Seq(M) /\ Len(t) = n + 1 /\ t[n + 1] = e /\ \A k \in 1..n : t[k] = s[k]
  BY LenProperties, AppendProperties
<1> HIDE DEF n, t
<1>2. /\ Document!KeptAfter(t)[0] = <<>>
      /\ \A k \in 1..(n + 1) :
           Document!KeptAfter(t)[k] = IF t[k] = Document!Blank THEN Document!KeptAfter(t)[k - 1]
                                      ELSE Append(Document!KeptAfter(t)[k - 1], t[k])
  BY <1>1, KeptIs
<1>3. /\ Document!KeptAfter(s)[0] = <<>>
      /\ \A k \in 1..n :
           Document!KeptAfter(s)[k] = IF s[k] = Document!Blank THEN Document!KeptAfter(s)[k - 1]
                                      ELSE Append(Document!KeptAfter(s)[k - 1], s[k])
  BY KeptIs DEF n
<1>4. 0 \in T
  BY <1>2, <1>3
<1>5. ASSUME NEW m \in Nat, m \in T PROVE m + 1 \in T
  <2>1. CASE m + 1 <= n
    <3>1. m + 1 \in 1..n /\ m + 1 \in 1..(n + 1) /\ (m + 1) - 1 = m /\ m <= n
      BY <1>1, <2>1
    <3>2. Document!KeptAfter(t)[m] = Document!KeptAfter(s)[m]
      BY <1>5, <3>1
    <3>3. t[m + 1] = s[m + 1]
      BY <1>1, <3>1
    <3>4. Document!KeptAfter(t)[m + 1] = IF t[m + 1] = Document!Blank THEN Document!KeptAfter(t)[m]
                                         ELSE Append(Document!KeptAfter(t)[m], t[m + 1])
      BY <1>2, <3>1
    <3>5. Document!KeptAfter(s)[m + 1] = IF s[m + 1] = Document!Blank THEN Document!KeptAfter(s)[m]
                                         ELSE Append(Document!KeptAfter(s)[m], s[m + 1])
      BY <1>3, <3>1
    <3>6. Document!KeptAfter(t)[m + 1] = Document!KeptAfter(s)[m + 1]
      BY <3>2, <3>3, <3>4, <3>5
    <3> QED
      BY <3>6
  <2>2. CASE ~(m + 1 <= n)
    BY <2>2
  <2> QED
    BY <2>1, <2>2
<1>6. n \in T
  <2> HIDE DEF T
  <2> QED
    BY <1>1, <1>4, <1>5, SetInduction
<1>7. Document!KeptAfter(t)[n] = Document!KeptAfter(s)[n]
  BY <1>1, <1>6
<1>8. Document!KeptAfter(t)[n + 1] = IF t[n + 1] = Document!Blank THEN Document!KeptAfter(t)[n]
                                     ELSE Append(Document!KeptAfter(t)[n], t[n + 1])
  <2>1. n + 1 \in 1..(n + 1) /\ (n + 1) - 1 = n
    BY <1>1
  <2> QED
    BY <1>2, <2>1
<1> QED
  BY <1>1, <1>7, <1>8 DEF n, t

\* The lines that are written for a tag.
Quotes == [kind : {"quoted"}, deep : BOOLEAN]
Shown == Lines \cup Quotes

\* All that is used of the lines of a document.
LEMMA LinesAre ==
  /\ \A x \in Lines :
       /\ x.kind \in {"blank", "text", "dashes", "tag", "fence"}
       /\ x.kind = "blank" <=> x = Document!Blank
       /\ x.kind = "tag" => x.deep \in BOOLEAN
       /\ x # Document!NoFence
  /\ Document!Blank \in Lines
  BY DEF Lines, Fence, Document!Blank, Document!NoFence

LEMMA ShownAre ==
  /\ \A x \in Lines : x.kind = "tag" => Document!Quoted(x) \in Quotes
  /\ \A x \in Quotes : x.kind = "quoted" /\ x # Document!Blank
  /\ \A x \in Lines : x.kind # "quoted"
<1>1. \A x \in Lines : x.kind = "tag" => Document!Quoted(x) \in Quotes
  BY LinesAre DEF Document!Quoted, Quotes
<1>2. ASSUME NEW x \in Quotes PROVE x.kind = "quoted" /\ x # Document!Blank
  <2>1. x.kind = "quoted"
    BY DEF Quotes
  <2>2. Document!Blank.kind = "blank"
    BY DEF Document!Blank
  <2> QED
    BY <2>1, <2>2
<1>3. \A x \in Lines : x.kind # "quoted"
  BY LinesAre
<1> QED
  BY <1>1, <1>2, <1>3

\* The lines that are shown are quoted between blank ones.
Spaced(s) ==
    \A k \in 1..Len(s) :
        s[k].kind = "quoted" => /\ k > 1 => s[k - 1] = Document!Blank
                                /\ k < Len(s) => s[k + 1] = Document!Blank

Loose(s) == Len(s) > 0 => s[Len(s)].kind # "quoted"

LEMMA SpacedAppend ==
  ASSUME NEW s \in Seq(Shown), NEW e \in Shown, Spaced(s), Loose(s), e.kind # "quoted"
  PROVE  Spaced(Append(s, e)) /\ Loose(Append(s, e))
<1> DEFINE n == Len(s)
           t == Append(s, e)
<1>1. n \in Nat /\ Len(t) = n + 1 /\ t[n + 1] = e /\ \A k \in 1..n : t[k] = s[k]
  BY LenProperties, AppendProperties
<1> HIDE DEF n, t
<1>2. ASSUME NEW k \in 1..(n + 1), t[k].kind = "quoted"
      PROVE  /\ k > 1 => t[k - 1] = Document!Blank
             /\ k < n + 1 => t[k + 1] = Document!Blank
  <2>1. k # n + 1 /\ k \in 1..n /\ t[k] = s[k]
    BY <1>1, <1>2
  <2>2. k # n
    BY <1>1, <1>2, <2>1 DEF Loose, n
  <2>3. k + 1 \in 1..n /\ (k > 1 => k - 1 \in 1..n)
    BY <1>1, <2>1, <2>2
  <2>4. t[k + 1] = s[k + 1] /\ (k > 1 => t[k - 1] = s[k - 1])
    BY <1>1, <2>3
  <2>5. s[k].kind = "quoted" /\ k < n
    BY <1>1, <1>2, <2>1, <2>2
  <2>6. s[k + 1] = Document!Blank /\ (k > 1 => s[k - 1] = Document!Blank)
    BY <2>1, <2>5 DEF Spaced, n
  <2> QED
    BY <2>4, <2>6
<1> QED
  BY <1>1, <1>2 DEF Spaced, Loose, t

LEMMA SpacedQuote ==
  ASSUME NEW s \in Seq(Shown), NEW e \in Quotes, Spaced(s), Loose(s),
         Len(s) > 0 => s[Len(s)] = Document!Blank
  PROVE  LET t == Append(Append(s, e), Document!Blank) IN Spaced(t) /\ Loose(t)
<1> DEFINE n == Len(s)
           u == Append(s, e)
           t == Append(u, Document!Blank)
<1>1. e \in Shown /\ Document!Blank \in Shown /\ Document!Blank.kind = "blank"
  BY LinesAre DEF Shown, Document!Blank
<1>2. n \in Nat /\ u \in Seq(Shown) /\ Len(u) = n + 1 /\ u[n + 1] = e /\ \A k \in 1..n : u[k] = s[k]
  BY <1>1, LenProperties, AppendProperties
<1> HIDE DEF u
<1>3. Len(t) = n + 2 /\ t[n + 2] = Document!Blank /\ \A k \in 1..(n + 1) : t[k] = u[k]
  BY <1>1, <1>2, AppendProperties
<1> HIDE DEF n, t
<1>4. ASSUME NEW k \in 1..(n + 2), t[k].kind = "quoted"
      PROVE  /\ k > 1 => t[k - 1] = Document!Blank
             /\ k < n + 2 => t[k + 1] = Document!Blank
  <2>1. k # n + 2 /\ k \in 1..(n + 1) /\ t[k] = u[k]
    BY <1>1, <1>2, <1>3, <1>4
  <2>2. CASE k = n + 1
    <3>1. t[k + 1] = Document!Blank
      BY <1>2, <1>3, <2>2
    <3>2. ASSUME k > 1 PROVE t[k - 1] = Document!Blank
      <4>1. k - 1 = n /\ n \in 1..n /\ n \in 1..(n + 1) /\ n > 0
        BY <1>2, <2>2, <3>2
      <4>2. t[n] = s[n]
        BY <1>2, <1>3, <4>1
      <4> QED
        BY <4>1, <4>2 DEF n
    <3> QED
      BY <3>1, <3>2
  <2>3. CASE k # n + 1
    <3>1. k \in 1..n /\ t[k] = s[k]
      BY <1>2, <2>1, <2>3
    <3>2. k # n
      BY <1>2, <1>4, <3>1 DEF Loose, n
    <3>3. k + 1 \in 1..n /\ (k > 1 => k - 1 \in 1..n)
      BY <1>2, <3>1, <3>2
    <3>4. t[k + 1] = s[k + 1] /\ (k > 1 => t[k - 1] = s[k - 1])
      <4>1. \A j \in 1..n : j \in 1..(n + 1)
        BY <1>2
      <4> QED
        BY <1>2, <1>3, <3>3, <4>1
    <3>5. s[k].kind = "quoted" /\ k < n
      BY <1>2, <1>4, <3>1, <3>2
    <3>6. s[k + 1] = Document!Blank /\ (k > 1 => s[k - 1] = Document!Blank)
      BY <3>1, <3>5 DEF Spaced, n
    <3> QED
      BY <3>4, <3>6
  <2> QED
    BY <2>2, <2>3
<1>5. Spaced(t)
  BY <1>3, <1>4 DEF Spaced
<1>6. Loose(t)
  BY <1>1, <1>2, <1>3 DEF Loose
<1> QED
  BY <1>5, <1>6 DEF t, u

\* What was read of the body was written as it is to be shown, and the fence that the scan
\* knows is the one the renderer is in.
Kept(s) == Document!KeptAfter(s)[Len(s)]

WrittenInv ==
    /\ fence = Document!FenceAfter(body)[read]
    /\ output \in Seq(Shown) /\ Spaced(output) /\ Loose(output)
    /\ Kept(output) = Document!KeptAfter(Document!Reference(body))[read]

DocumentInv ==
    /\ phase \in {"front", "scan", "done", "error"}
    /\ lines \in Seq(Lines) /\ body \in Seq(Lines) /\ read \in 0..Len(body)
    /\ phase = "front" => body = <<>> /\ read = 0 /\ fence = Document!NoFence /\ output = <<>>
    /\ phase \in {"scan", "done"} /\ ~Document!Odd(body) => WrittenInv
    /\ phase = "done" => read = Len(body)

\* The reading of the renderer, line by line.
LEMMA ReferenceIs ==
  ASSUME NEW s \in Seq(Lines)
  PROVE  LET R == Document!Reference(s) IN
         /\ R \in Seq(Shown) /\ Len(R) = Len(s)
         /\ Document!KeptAfter(R)[0] = <<>>
         /\ \A k \in 1..Len(s) :
              /\ R[k] = IF s[k].kind = "tag" /\ ~s[k].deep /\ Document!FenceAfter(s)[k] = Document!NoFence
                        THEN Document!Quoted(s[k]) ELSE s[k]
              /\ Document!KeptAfter(R)[k] = IF R[k] = Document!Blank THEN Document!KeptAfter(R)[k - 1]
                                            ELSE Append(Document!KeptAfter(R)[k - 1], R[k])
<1> DEFINE R == Document!Reference(s)
<1>1. DOMAIN s = 1..Len(s) /\ Len(s) \in Nat /\ \A k \in 1..Len(s) : s[k] \in Lines
  BY LenProperties
<1>2. R = [k \in 1..Len(s) |->
             IF s[k].kind = "tag" /\ ~s[k].deep /\ Document!FenceAfter(s)[k] = Document!NoFence
             THEN Document!Quoted(s[k]) ELSE s[k]]
  BY <1>1 DEF Document!Reference
<1> HIDE DEF R
<1>3. ASSUME NEW k \in 1..Len(s)
      PROVE  /\ R[k] = IF s[k].kind = "tag" /\ ~s[k].deep /\ Document!FenceAfter(s)[k] = Document!NoFence
                       THEN Document!Quoted(s[k]) ELSE s[k]
             /\ R[k] \in Shown
  <2>1. R[k] = IF s[k].kind = "tag" /\ ~s[k].deep /\ Document!FenceAfter(s)[k] = Document!NoFence
               THEN Document!Quoted(s[k]) ELSE s[k]
    BY <1>2
  <2> QED
    BY <1>1, <2>1, ShownAre DEF Shown
<1>4. R \in Seq(Shown) /\ Len(R) = Len(s)
  <2>1. R \in [1..Len(s) -> Shown]
    BY <1>2, <1>3
  <2>2. R \in Seq(Shown)
    BY <1>1, <1>3, <2>1, IsASeq
  <2> QED
    BY <1>1, <2>1, <2>2, LenProperties
<1>5. /\ Document!KeptAfter(R)[0] = <<>>
      /\ \A k \in 1..Len(R) :
           Document!KeptAfter(R)[k] = IF R[k] = Document!Blank THEN Document!KeptAfter(R)[k - 1]
                                      ELSE Append(Document!KeptAfter(R)[k - 1], R[k])
  BY <1>4, KeptIs
<1> QED
  BY <1>3, <1>4, <1>5 DEF R

LEMMA DocumentInit == Document!Init => DocumentInv
<1> SUFFICES ASSUME Document!Init PROVE DocumentInv
  OBVIOUS
<1>1. lines \in Seq(Lines)
  <2>1. PICK n \in 1..MaxLines : lines \in [1..n -> Lines]
    BY DEF Document!Init, Written
  <2>2. n \in Nat /\ \A k \in 1..n : lines[k] \in Lines
    BY <2>1
  <2> HIDE DEF Lines
  <2> QED
    BY <2>1, <2>2, IsASeq
<1>2. body = <<>> /\ read = 0 /\ phase = "front" /\ fence = Document!NoFence /\ output = <<>>
  BY DEF Document!Init
<1>3. body \in Seq(Lines) /\ read \in 0..Len(body)
  BY <1>2
<1> QED
  BY <1>1, <1>2, <1>3 DEF DocumentInv

LEMMA DocumentFront ==
  ASSUME DocumentInv, Document!Frontless
  PROVE  DocumentInv'
<1>1. phase' = "scan" /\ read' = 0 /\ lines' = lines /\ lines \in Seq(Lines) /\ Len(lines) \in Nat
      /\ fence' = Document!NoFence /\ output' = <<>>
  BY LenProperties DEF DocumentInv, Document!Frontless
<1>2. body' \in Seq(Lines)
  <2>1. CASE Document!HasFrontmatter
    <3> DEFINE m == Document!Min(Document!Closings)
    <3>1. Document!Closings \subseteq 2..Len(lines) /\ Document!Closings # {}
      BY <2>1 DEF Document!HasFrontmatter, Document!Closings
    <3>2. PICK j \in Document!Closings : \A y \in Document!Closings : j <= y
      <4>1. Document!Closings \subseteq Nat
        BY <3>1
      <4> QED
        BY <3>1, <4>1, LeastExists
    <3>3. m \in Document!Closings
      BY <3>2 DEF Document!Min
    <3>5. body' = SubSeq(lines, m + 1, Len(lines))
      BY <2>1 DEF Document!Frontless
    <3> HIDE DEF m
    <3>4. m + 1 \in Nat /\ 1 <= m + 1 /\ m + 1 <= Len(lines) + 1
      BY <1>1, <3>1, <3>3
    <3> QED
      BY <1>1, <3>4, <3>5, PartOf
  <2>2. CASE ~Document!HasFrontmatter
    BY <1>1, <2>2 DEF Document!Frontless
  <2> QED
    BY <2>1, <2>2
<1>3. Len(body') \in Nat
  BY <1>2, LenProperties
<1>4. fence' = Document!FenceAfter(body')[0]
  BY <1>1, <1>2, FenceIs
<1>5. output' \in Seq(Shown) /\ Len(output') = 0
  BY <1>1
<1>6. Spaced(output') /\ Loose(output')
  BY <1>5 DEF Spaced, Loose
<1>7. Kept(output') = <<>>
  BY <1>5, KeptIs DEF Kept
<1>8. Document!KeptAfter(Document!Reference(body'))[0] = <<>>
  BY <1>2, ReferenceIs
<1>9. WrittenInv'
  BY <1>1, <1>4, <1>5, <1>6, <1>7, <1>8 DEF WrittenInv
<1> QED
  BY <1>1, <1>2, <1>3, <1>9 DEF DocumentInv

\* The two scans of fences agree on a line that is not odd.
LEMMA FenceAgrees ==
  ASSUME NEW s \in Seq(Lines), ~Document!Odd(s), NEW k \in 1..Len(s)
  PROVE  LET open == Document!FenceAfter(s)[k - 1] IN
         /\ s[k].kind # "fence" => Document!FenceAfter(s)[k] = open
         /\ s[k].kind = "fence" /\ open = Document!NoFence => Document!FenceAfter(s)[k] = s[k]
         /\ s[k].kind = "fence" /\ open # Document!NoFence =>
              Document!FenceAfter(s)[k] =
                IF s[k].char = open.char /\ s[k].run >= open.run THEN Document!NoFence ELSE open
         /\ s[k].kind = "tag" => ~s[k].deep
<1> DEFINE open == Document!FenceAfter(s)[k - 1]
<1>1. DOMAIN s = 1..Len(s) /\ k # 0
  BY LenProperties
<1>2. /\ s[k].kind \in {"fence", "tag"} => ~s[k].deep
      /\ s[k].kind = "fence" => s[k].info # "ticks"
      /\ s[k].kind = "fence" /\ open # Document!NoFence => s[k].info = "none"
  BY <1>1 DEF Document!Odd
<1>3. Document!FenceAfter(s)[k] = FenceAt(Document!FenceAfter(s), s, k)
  BY FenceIs
<1>4. Document!FenceAfter(s)[k] =
        IF open = Document!NoFence
        THEN (IF Document!OpensFence(s[k]) THEN s[k] ELSE Document!NoFence)
        ELSE (IF Document!ClosesFence(s[k], open) THEN Document!NoFence ELSE open)
  BY <1>1, <1>3 DEF FenceAt
<1> HIDE DEF open
<1>5. s[k].kind # "fence" => Document!FenceAfter(s)[k] = open
  BY <1>4 DEF Document!OpensFence, Document!ClosesFence
<1>6. s[k].kind = "fence" /\ open = Document!NoFence => Document!FenceAfter(s)[k] = s[k]
  BY <1>2, <1>4 DEF Document!OpensFence
<1>7. s[k].kind = "fence" /\ open # Document!NoFence =>
        Document!FenceAfter(s)[k] =
          IF s[k].char = open.char /\ s[k].run >= open.run THEN Document!NoFence ELSE open
  BY <1>2, <1>4 DEF Document!ClosesFence
<1> QED
  BY <1>2, <1>5, <1>6, <1>7 DEF open

LEMMA PairOf == ASSUME NEW a, NEW b PROVE <<a>> \o <<b>> = <<a, b>>
<1> DEFINE s == <<a>> \o <<b>>
<1>1. <<a>> \in Seq({a, b}) /\ <<b>> \in Seq({a, b}) /\ Len(<<a>>) = 1 /\ Len(<<b>>) = 1
  OBVIOUS
<1>2. /\ s \in Seq({a, b}) /\ Len(s) = 2
      /\ \A k \in 1..2 : s[k] = IF k <= 1 THEN <<a>>[k] ELSE <<b>>[k - 1]
  BY <1>1, ConcatProperties
<1> HIDE DEF s
<1>3. s[1] = a /\ s[2] = b
  BY <1>2
<1>4. <<a, b>> \in Seq({a, b}) /\ Len(<<a, b>>) = 2 /\ <<a, b>>[1] = a /\ <<a, b>>[2] = b
  OBVIOUS
<1>5. s = <<a, b>>
  BY <1>2, <1>3, <1>4, SeqEqual
<1> QED
  BY <1>5 DEF s

LEMMA Appended ==
  ASSUME NEW s \in Seq(Shown), NEW e \in Shown
  PROVE  /\ s \o <<e>> = Append(s, e) /\ Append(s, e) \in Seq(Shown)
         /\ Len(s) \in Nat /\ Len(Append(s, e)) = Len(s) + 1 /\ Append(s, e)[Len(s) + 1] = e
         /\ e # Document!Blank => Kept(Append(s, e)) = Append(Kept(s), e)
         /\ e = Document!Blank => Kept(Append(s, e)) = Kept(s)
<1>1. /\ Append(s, e) \in Seq(Shown) /\ Append(s, e) = s \o <<e>>
      /\ Len(Append(s, e)) = Len(s) + 1 /\ Append(s, e)[Len(s) + 1] = e
  BY AppendProperties, AppendIsConcat
<1>2. Kept(Append(s, e)) = IF e = Document!Blank THEN Kept(s) ELSE Append(Kept(s), e)
  BY KeptAppend DEF Kept
<1>3. Len(s) \in Nat
  BY LenProperties
<1> QED
  BY <1>1, <1>2, <1>3

\* A line that is no tag to quote is written as it is.
LEMMA DocumentKeeps ==
  ASSUME DocumentInv, phase = "scan", read < Len(body), ~Document!Odd(body),
         Document!Line.kind = "tag" => fence # Document!NoFence,
         fence' = Document!FenceAfter(body)[read + 1],
         Document!Advance(fence', <<Document!Line>>)
  PROVE  WrittenInv'
<1> DEFINE k == read + 1
           R == Document!Reference(body)
           e == Document!Line
<1>1. /\ body \in Seq(Lines) /\ k \in 1..Len(body) /\ k - 1 = read /\ WrittenInv
      /\ body' = body /\ read' = k /\ output' = output \o <<e>>
  BY LenProperties DEF DocumentInv, Document!Advance
<1>2. e = body[k] /\ e \in Lines /\ e \in Shown /\ e.kind # "quoted"
  BY <1>1, ShownAre DEF Document!Line, Shown
<1>3. e.kind = "tag" => Document!FenceAfter(body)[k] # Document!NoFence
  BY <1>1, <1>2, FenceAgrees DEF WrittenInv
<1>4. R[k] = e
  BY <1>1, <1>2, <1>3, ReferenceIs
<1>5. Document!KeptAfter(R)[k] = IF R[k] = Document!Blank THEN Document!KeptAfter(R)[k - 1]
                                 ELSE Append(Document!KeptAfter(R)[k - 1], R[k])
  BY <1>1, ReferenceIs
<1>6. output \in Seq(Shown) /\ Spaced(output) /\ Loose(output)
      /\ Kept(output) = Document!KeptAfter(R)[read]
  BY <1>1 DEF WrittenInv
<1> HIDE DEF e, R
<1>7. /\ output' = Append(output, e) /\ output' \in Seq(Shown)
      /\ e # Document!Blank => Kept(output') = Append(Kept(output), e)
      /\ e = Document!Blank => Kept(output') = Kept(output)
  <2>1. /\ output \o <<e>> = Append(output, e) /\ Append(output, e) \in Seq(Shown)
        /\ e # Document!Blank => Kept(Append(output, e)) = Append(Kept(output), e)
        /\ e = Document!Blank => Kept(Append(output, e)) = Kept(output)
    BY <1>2, <1>6, Appended
  <2>2. output' = Append(output, e)
    BY <1>1, <2>1
  <2> QED
    BY <2>1, <2>2
<1>8. Spaced(output') /\ Loose(output')
  BY <1>2, <1>6, <1>7, SpacedAppend
<1>9. Kept(output') = Document!KeptAfter(R)[k]
  BY <1>1, <1>4, <1>5, <1>6, <1>7
<1> QED
  BY <1>1, <1>7, <1>8, <1>9 DEF WrittenInv, R

\* A tag outside of a fence is quoted, between blank lines.
LEMMA DocumentQuotes ==
  ASSUME DocumentInv, ~Document!Odd(body), Document!QuoteTag
  PROVE  WrittenInv'
<1> DEFINE k == read + 1
           R == Document!Reference(body)
           q == Document!Quoted(Document!Line)
           gap == IF output # <<>> /\ Document!Last(output) # Document!Blank
                  THEN <<Document!Blank>> ELSE <<>>
           before == output \o gap
<1>1. /\ body \in Seq(Lines) /\ k \in 1..Len(body) /\ k - 1 = read /\ WrittenInv
      /\ body' = body /\ read' = k /\ output' = output \o (gap \o <<q, Document!Blank>>)
      /\ fence = Document!NoFence /\ fence' = fence /\ Document!Line.kind = "tag"
  BY LenProperties DEF DocumentInv, Document!Advance, Document!QuoteTag, Document!Scanning
<1>2. Document!Line = body[k] /\ Document!Line \in Lines /\ ~Document!Line.deep
      /\ q \in Quotes /\ q \in Shown /\ q # Document!Blank
  <2>1. Document!Line = body[k] /\ Document!Line \in Lines
    BY <1>1 DEF Document!Line
  <2>2. ~Document!Line.deep
    BY <1>1, <2>1, FenceAgrees
  <2>3. q \in Quotes
    BY <1>1, <2>1, ShownAre
  <2> HIDE DEF q
  <2> QED
    BY <2>1, <2>2, <2>3, ShownAre DEF Shown
<1>3. Document!FenceAfter(body)[k] = Document!NoFence
  BY <1>1, <1>2, FenceAgrees DEF WrittenInv
<1>4. R[k] = q
  BY <1>1, <1>2, <1>3, ReferenceIs
<1>5. Document!KeptAfter(R)[k] = IF R[k] = Document!Blank THEN Document!KeptAfter(R)[k - 1]
                                 ELSE Append(Document!KeptAfter(R)[k - 1], R[k])
  BY <1>1, ReferenceIs
<1>6. output \in Seq(Shown) /\ Spaced(output) /\ Loose(output)
      /\ Kept(output) = Document!KeptAfter(R)[read] /\ Len(output) \in Nat
  BY <1>1, LenProperties DEF WrittenInv
<1>7. Document!Blank \in Shown /\ Document!Blank.kind # "quoted"
  BY LinesAre DEF Shown, Document!Blank
<1> HIDE DEF q, R
<1>8. /\ before \in Seq(Shown) /\ Spaced(before) /\ Loose(before) /\ Kept(before) = Kept(output)
      /\ Len(before) > 0 => before[Len(before)] = Document!Blank
  <2>1. CASE output # <<>> /\ Document!Last(output) # Document!Blank
    <3>1. before = Append(output, Document!Blank)
      BY <1>6, <1>7, <2>1, Appended
    <3> HIDE DEF before
    <3>2. Spaced(before) /\ Loose(before)
      BY <1>6, <1>7, <3>1, SpacedAppend
    <3> QED
      BY <1>6, <1>7, <3>1, <3>2, Appended
  <2>2. CASE ~(output # <<>> /\ Document!Last(output) # Document!Blank)
    <3>1. before = output
      BY <1>6, <2>2, ConcatEmptySeq
    <3>2. Len(output) > 0 => output[Len(output)] = Document!Blank
      BY <1>6, <2>2 DEF Document!Last
    <3> HIDE DEF before
    <3> QED
      BY <1>6, <3>1, <3>2
  <2> QED
    BY <2>1, <2>2
<1>9. output' = Append(Append(before, q), Document!Blank)
  <2>1. gap \in Seq(Shown)
    BY <1>7
  <2>2. <<q, Document!Blank>> \in Seq(Shown)
    BY <1>2, <1>7
  <2>3. output' = before \o <<q, Document!Blank>>
    <3>1. (output \o gap) \o <<q, Document!Blank>> = output \o (gap \o <<q, Document!Blank>>)
      <4> HIDE DEF gap
      <4> QED
        BY <1>6, <2>1, <2>2, ConcatAssociative
    <3> QED
      BY <1>1, <3>1
  <2> HIDE DEF before
  <2>4. Append(before, q) = before \o <<q>> /\ Append(before, q) \in Seq(Shown)
    BY <1>2, <1>8, Appended
  <2>5. Append(Append(before, q), Document!Blank) = (before \o <<q>>) \o <<Document!Blank>>
    BY <1>7, <2>4, Appended
  <2>6. (before \o <<q>>) \o <<Document!Blank>> = before \o (<<q>> \o <<Document!Blank>>)
    <3>1. <<q>> \in Seq(Shown) /\ <<Document!Blank>> \in Seq(Shown)
      BY <1>2, <1>7
    <3> QED
      BY <1>8, <3>1, ConcatAssociative
  <2>7. <<q>> \o <<Document!Blank>> = <<q, Document!Blank>>
    BY PairOf
  <2> QED
    BY <2>3, <2>5, <2>6, <2>7
<1> HIDE DEF before
<1>10. /\ Append(before, q) \in Seq(Shown) /\ output' \in Seq(Shown)
       /\ Kept(output') = Append(Kept(before), q)
  <2>1. Append(before, q) \in Seq(Shown) /\ Kept(Append(before, q)) = Append(Kept(before), q)
    BY <1>2, <1>8, Appended
  <2> DEFINE u == Append(before, q)
  <2>2. u \in Seq(Shown)
    BY <2>1
  <2> HIDE DEF u
  <2>3. Append(u, Document!Blank) \in Seq(Shown) /\ Kept(Append(u, Document!Blank)) = Kept(u)
    BY <1>7, <2>2, Appended
  <2> QED
    BY <1>9, <2>1, <2>3 DEF u
<1>11. Spaced(output') /\ Loose(output')
  BY <1>2, <1>8, <1>9, SpacedQuote
<1>12. Kept(output') = Document!KeptAfter(R)[k]
  BY <1>1, <1>2, <1>4, <1>5, <1>6, <1>8, <1>10
<1> QED
  BY <1>1, <1>3, <1>10, <1>11, <1>12 DEF WrittenInv, R

LEMMA DocumentEnds ==
  ASSUME DocumentInv, ~Document!Odd(body), Document!Finish
  PROVE  WrittenInv'
<1>1. /\ output \in Seq(Shown) /\ Spaced(output) /\ Loose(output) /\ WrittenInv
      /\ UNCHANGED <<body, read, fence>>
  BY DEF DocumentInv, WrittenInv, Document!Finish
<1>2. CASE Len(body) > 1 /\ Document!Last(body) = Document!Blank
  <2>1. output' = output \o <<Document!Blank>>
    BY <1>2 DEF Document!Finish
  <2>2. Document!Blank \in Shown /\ Document!Blank.kind # "quoted"
    BY LinesAre DEF Shown, Document!Blank
  <2>3. output' = Append(output, Document!Blank) /\ output' \in Seq(Shown)
        /\ Kept(output') = Kept(output)
    <3>1. /\ output \o <<Document!Blank>> = Append(output, Document!Blank)
          /\ Append(output, Document!Blank) \in Seq(Shown)
          /\ Kept(Append(output, Document!Blank)) = Kept(output)
      BY <1>1, <2>2, Appended
    <3> QED
      BY <2>1, <3>1
  <2>4. Spaced(output') /\ Loose(output')
    BY <1>1, <2>2, <2>3, SpacedAppend
  <2> QED
    BY <1>1, <2>3, <2>4 DEF WrittenInv
<1>3. CASE ~(Len(body) > 1 /\ Document!Last(body) = Document!Blank)
  <2>1. output' = output
    BY <1>1, <1>3, ConcatEmptySeq DEF Document!Finish
  <2> QED
    BY <1>1, <2>1 DEF WrittenInv
<1> QED
  BY <1>2, <1>3

LEMMA DocumentNext ==
  ASSUME DocumentInv, [Document!Next]_documentVars
  PROVE  DocumentInv'
<1>1. CASE Document!Frontless
  BY <1>1, DocumentFront
<1>2. CASE Document!ParseFails
  BY <1>2 DEF DocumentInv, Document!ParseFails
<1>3. ASSUME phase = "scan", read < Len(body), phase' = phase, lines' = lines, body' = body,
             read' = read + 1, ~Document!Odd(body) => WrittenInv'
      PROVE  DocumentInv'
  <2>1. Len(body) \in Nat /\ body \in Seq(Lines)
    BY LenProperties DEF DocumentInv
  <2>2. read' \in 0..Len(body')
    BY <1>3, <2>1 DEF DocumentInv
  <2> QED
    BY <1>3, <2>1, <2>2 DEF DocumentInv
<1>4. CASE Document!FenceLine
  <2>1. Document!Line.kind = "fence" /\ phase = "scan" /\ read < Len(body)
    BY <1>4 DEF Document!FenceLine, Document!Scanning
  <2>2. ASSUME ~Document!Odd(body) PROVE WrittenInv'
    <3>1. body \in Seq(Lines) /\ read + 1 \in 1..Len(body) /\ (read + 1) - 1 = read
      BY <2>1, LenProperties DEF DocumentInv
    <3>2. Document!Line = body[read + 1] /\ fence = Document!FenceAfter(body)[read]
      BY <2>1, <2>2 DEF DocumentInv, WrittenInv, Document!Line
    <3>3. fence' = IF fence = Document!NoFence THEN Document!Line
                   ELSE IF Document!Closes(Document!Line) THEN Document!NoFence ELSE fence
      BY <1>4 DEF Document!FenceLine, Document!Advance
    <3>4. fence' = Document!FenceAfter(body)[read + 1]
      BY <2>1, <2>2, <3>1, <3>2, <3>3, FenceAgrees DEF Document!Closes
    <3>5. Document!Advance(fence', <<Document!Line>>)
      BY <1>4, <3>3 DEF Document!FenceLine, Document!Advance
    <3> QED
      BY <2>1, <2>2, <3>4, <3>5, DocumentKeeps
  <2> QED
    BY <1>3, <1>4, <2>1, <2>2 DEF Document!FenceLine, Document!Advance
<1>5. CASE Document!QuoteTag
  BY <1>3, <1>5, DocumentQuotes DEF Document!QuoteTag, Document!Scanning, Document!Advance
<1>6. CASE Document!OtherLine
  <2>1. /\ phase = "scan" /\ read < Len(body) /\ Document!Line.kind # "fence" /\ fence' = fence
        /\ Document!Line.kind = "tag" => fence # Document!NoFence
    BY <1>6 DEF Document!OtherLine, Document!Scanning, Document!Advance
  <2>2. ASSUME ~Document!Odd(body) PROVE WrittenInv'
    <3>1. body \in Seq(Lines) /\ read + 1 \in 1..Len(body) /\ (read + 1) - 1 = read
      BY <2>1, LenProperties DEF DocumentInv
    <3>2. Document!Line = body[read + 1] /\ fence = Document!FenceAfter(body)[read]
      BY <2>1, <2>2 DEF DocumentInv, WrittenInv, Document!Line
    <3>3. fence' = Document!FenceAfter(body)[read + 1]
      BY <2>1, <2>2, <3>1, <3>2, FenceAgrees
    <3>4. Document!Advance(fence', <<Document!Line>>)
      BY <1>6, <2>1 DEF Document!OtherLine
    <3> QED
      BY <2>1, <2>2, <3>3, <3>4, DocumentKeeps
  <2> QED
    BY <1>3, <1>6, <2>1, <2>2 DEF Document!OtherLine, Document!Advance
<1>7. CASE Document!Finish
  BY <1>7, DocumentEnds DEF DocumentInv, Document!Finish
<1>8. CASE UNCHANGED documentVars
  BY <1>8 DEF DocumentInv, WrittenInv, documentVars
<1> QED
  BY <1>1, <1>2, <1>4, <1>5, <1>6, <1>7, <1>8 DEF Document!Next

LEMMA DocumentShows == DocumentInv => Document!TagsShownUnlessOdd
<1> SUFFICES ASSUME DocumentInv, phase = "done", ~Document!Odd(body)
             PROVE  /\ Document!KeptAfter(output)[Len(output)] =
                         Document!KeptAfter(Document!Reference(body))[Len(body)]
                    /\ \A k \in DOMAIN output :
                          output[k].kind = "quoted" =>
                              /\ k > 1 => output[k - 1] = Document!Blank
                              /\ k < Len(output) => output[k + 1] = Document!Blank
  BY DEF Document!TagsShownUnlessOdd
<1>1. WrittenInv /\ read = Len(body)
  BY DEF DocumentInv
<1>2. output \in Seq(Shown) /\ DOMAIN output = 1..Len(output)
  BY <1>1, LenProperties DEF WrittenInv
<1> QED
  BY <1>1, <1>2 DEF WrittenInv, Kept, Spaced

LEMMA DocumentStep ==
  [MCNext]_allVars => machine' = machine
                      /\ (machine = "document" => [Document!Next]_documentVars)
  BY DEF MCNext, allVars, OnlyCopy, OnlyBridge, OnlyVisits, OnlyReader, OnlyDocument,
         OnlyButton, OnlyViewer

\* In a document of any length, whatever is a directive tag to the renderer is quoted,
\* between blank lines, and everything else is as it was written, unless a line is odd
\* (rewriteMarkdownDirectiveTags).
THEOREM TagsShown == MCSpec => []TagsShownUnlessOdd
<1> DEFINE I == machine = "document" => DocumentInv
<1>1. MCInit => I
  BY DocumentInit DEF MCInit
<1>2. I /\ [MCNext]_allVars => I'
  BY DocumentStep, DocumentNext
<1>3. I => TagsShownUnlessOdd
  BY DocumentShows DEF TagsShownUnlessOdd
<1> QED
  BY <1>1, <1>2, <1>3, PTL DEF MCSpec
=============================================================================
