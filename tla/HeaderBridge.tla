---------------------------- MODULE HeaderBridge ----------------------------
(***************************************************************************)
(* The header of an HTML preview page and the artifact in its frame.       *)
(*                                                                         *)
(* The page (share/render.go) and the script that is injected in the       *)
(* artifact (share/server_public.go) are two programs that only exchange   *)
(* messages.  The artifact says hello, the page answers with the height of *)
(* its header, the artifact reserves that height and confirms, and the     *)
(* page lays its header over the frame and moves it with the offsets that  *)
(* the artifact reports.  Meanwhile the frame navigates, the header is     *)
(* resized and the artifact scrolls.                                       *)
(*                                                                         *)
(* Heights and offsets are small numbers that stand for pixels.            *)
(***************************************************************************)
EXTENDS Integers, Sequences, FiniteSets

CONSTANTS
    Heights,         \* heights the header takes
    MaxInset,        \* the artifact refuses an inset above it (400 pixels)
    MaxOffset,       \* how far an artifact scrolls
    MaxNavigations,  \* bound: navigations of the frame, the first one included
    MaxResizes,      \* bound: resizes of the header
    MaxScrolls       \* bound: changes of the scroll offset

VARIABLES
    page,       \* the preview page: class, transform, headerInset, bridged
    header,     \* height of the header, and the height its observer last saw
    doc,        \* the document in the frame
    toPage,     \* messages and load events on their way to the page
    toFrame,    \* insets on their way to a document of the frame
    steps,      \* navigations, resizes and scrolls so far
    abandoned,  \* history: a document that said hello was replaced before it loaded
    missed      \* history: the observer saw a height that was not sent, or never will

vars == <<page, header, doc, toPage, toFrame, steps, abandoned, missed>>

Smaller(a, b) == IF a < b THEN a ELSE b

Unset == -1

\* A document as it is committed.  Only a bridged one runs the injected script:
\* an error page, or a file that is no HTML, is plain.
Fresh(kind, clips) ==
    [kind |-> kind, clips |-> clips, phase |-> "parsing", waiting |-> <<>>,
     inset |-> Unset, visible |-> 0, scroll |-> 0, frame |-> FALSE]

Hello == [type |-> "hello"]
Applied == [type |-> "applied"]
Load == [type |-> "load"]
Scroll(offset) == [type |-> "scroll", offset |-> offset]

Greeting(kind) == IF kind = "bridge" THEN <<Hello>> ELSE <<>>

\* The page has set the address of its frame; a document has arrived.
Init ==
    /\ \E h \in Heights :
        /\ header = [height |-> h, seen |-> h]
        /\ page = [overlay |-> FALSE, shift |-> 0, inset |-> 0, bridged |-> FALSE]
    /\ \E kind \in {"bridge", "plain"}, clips \in BOOLEAN :
        /\ kind = "plain" => ~clips
        /\ doc = Fresh(kind, clips)
        /\ toPage = Greeting(kind)
    /\ toFrame = <<>>
    /\ steps = [navigations |-> 1, resizes |-> 0, scrolls |-> 0]
    /\ abandoned = FALSE
    /\ missed = FALSE

-----------------------------------------------------------------------------
(* The preview page. *)

\* sendInset measures the header; the message is for the document that is in the
\* frame now, and is dropped if another one has replaced it.
SendInset ==
    /\ toFrame' = Append(toFrame, [for |-> steps.navigations, top |-> header.height])
    /\ missed' = FALSE

AboveFrame(p) == [p EXCEPT !.overlay = FALSE, !.shift = 0]

OnHello ==
    /\ page' = [AboveFrame(page) EXCEPT !.bridged = TRUE, !.inset = header.height]
    /\ SendInset

OnApplied ==
    /\ page' = [page EXCEPT !.overlay = TRUE]
    /\ UNCHANGED <<toFrame, missed>>

\* Slip: offsets are believed whether the header is over the frame or not.
ScrollAlways(offset) ==
    /\ page' = [page EXCEPT !.shift = Smaller(offset, page.inset)]
    /\ UNCHANGED <<toFrame, missed>>

OnScroll(offset) ==
    /\ page' = IF page.overlay
               THEN [page EXCEPT !.shift = Smaller(offset, page.inset)]
               ELSE page
    /\ UNCHANGED <<toFrame, missed>>

\* Slip: the frame's load forgets to reset the handshake.
LoadKeepsBridged ==
    /\ page' = IF page.bridged THEN page ELSE AboveFrame(page)
    /\ UNCHANGED <<toFrame, missed>>

\* A load without a hello since the load before takes the header off the frame.
OnLoad ==
    /\ page' = [(IF page.bridged THEN page ELSE AboveFrame(page)) EXCEPT !.bridged = FALSE]
    /\ UNCHANGED <<toFrame, missed>>

PageReceives ==
    /\ toPage # <<>>
    /\ toPage' = Tail(toPage)
    /\ LET m == Head(toPage) IN
        \/ m.type = "hello" /\ OnHello
        \/ m.type = "applied" /\ OnApplied
        \/ m.type = "scroll" /\ OnScroll(m.offset)
        \/ m.type = "load" /\ OnLoad
    /\ UNCHANGED <<header, doc, steps, abandoned>>

\* Fonts, a rotated phone or a narrow window change the height of the header.  The
\* observer is not called for a height it has seen last, whatever was sent between.
Resize(h) ==
    /\ steps.resizes < MaxResizes
    /\ h # header.height
    /\ header' = [header EXCEPT !.height = h]
    /\ missed' = (missed \/ (h = header.seen /\ h # page.inset))
    /\ steps' = [steps EXCEPT !.resizes = @ + 1]
    /\ UNCHANGED <<page, doc, toPage, toFrame, abandoned>>

\* The resize observer is called some time after the size has changed.
Observe ==
    /\ header.seen # header.height
    /\ header' = [header EXCEPT !.seen = header.height]
    /\ IF page.overlay /\ header.height # page.inset
       THEN page' = [page EXCEPT !.inset = header.height] /\ SendInset
       ELSE /\ missed' = (missed \/ header.height # page.inset)
            /\ UNCHANGED <<page, toFrame>>
    /\ UNCHANGED <<doc, toPage, steps, abandoned>>

-----------------------------------------------------------------------------
(* The document in the frame. *)

\* Slip: what is left of the header is not cut off at zero.
VisibleUnclamped(inset, scroll) == inset - scroll

VisibleOf(inset, scroll) == IF scroll > inset THEN 0 ELSE inset - scroll

\* sync and report: the custom properties of the artifact, and the offset.
Reported(d) == [d EXCEPT !.frame = FALSE,
                         !.visible = IF d.inset = Unset THEN 0 ELSE VisibleOf(d.inset, d.scroll)]

\* apply for one inset: nothing for an artifact that clips its viewport.
AppliedTo(d, top) ==
    IF d.clips
    THEN d
    ELSE Reported([d EXCEPT !.inset = top])

Confirmation(d) == IF d.clips THEN <<>> ELSE <<Applied, Scroll(d.scroll)>>

\* An inset arrives; one that is too high is ignored, and one that comes while
\* the document is parsed waits for DOMContentLoaded.
FrameReceives ==
    /\ toFrame # <<>>
    /\ toFrame' = Tail(toFrame)
    /\ LET m == Head(toFrame) IN
        IF m.for # steps.navigations \/ doc.kind = "plain" \/ m.top > MaxInset
        THEN UNCHANGED <<doc, toPage>>
        ELSE IF doc.phase = "parsing"
             THEN doc' = [doc EXCEPT !.waiting = Append(@, m.top)] /\ UNCHANGED toPage
             ELSE doc' = AppliedTo(doc, m.top) /\ toPage' = toPage \o Confirmation(doc)
    /\ UNCHANGED <<page, header, steps, abandoned, missed>>

\* Slip: what came while the document was parsed is lost.
ParsedForgets ==
    /\ doc.phase = "parsing"
    /\ doc' = [doc EXCEPT !.phase = "parsed", !.waiting = <<>>]
    /\ UNCHANGED <<page, header, toPage, toFrame, steps, abandoned, missed>>

\* DOMContentLoaded: the insets that waited are applied in the order they came.
\* The last one counts, and each of them is confirmed.
Parsed ==
    /\ doc.phase = "parsing"
    /\ LET ready == [doc EXCEPT !.phase = "parsed", !.waiting = <<>>]
           n == Len(doc.waiting) IN
        IF n = 0 THEN doc' = ready /\ UNCHANGED toPage
        ELSE /\ doc' = AppliedTo(ready, doc.waiting[n])
             /\ toPage' = toPage \o
                  (IF doc.clips THEN <<>>
                   ELSE [i \in 1..(2 * n) |-> IF i % 2 = 1 THEN Applied ELSE Scroll(doc.scroll)])
    /\ UNCHANGED <<page, header, toFrame, steps, abandoned, missed>>

\* Images and scripts have come in: the frame element's load event is queued.
Loaded ==
    /\ doc.phase = "parsed"
    /\ doc' = [doc EXCEPT !.phase = "loaded"]
    /\ toPage' = Append(toPage, Load)
    /\ UNCHANGED <<page, header, toFrame, steps, abandoned, missed>>

\* The reader scrolls the artifact; a bridged one asks for an animation frame.
ScrollTo(offset) ==
    /\ steps.scrolls < MaxScrolls
    /\ offset # doc.scroll
    /\ ~doc.clips
    /\ doc' = [doc EXCEPT !.scroll = offset, !.frame = (doc.kind = "bridge")]
    /\ steps' = [steps EXCEPT !.scrolls = @ + 1]
    /\ UNCHANGED <<page, header, toPage, toFrame, abandoned, missed>>

AnimationFrame ==
    /\ doc.frame
    /\ doc' = Reported(doc)
    /\ toPage' = Append(toPage, Scroll(doc.scroll))
    /\ UNCHANGED <<page, header, toFrame, steps, abandoned, missed>>

\* A link in the artifact, or a reload, replaces the document at any time; its load
\* event never comes if it has not come yet.
Navigate(kind, clips) ==
    /\ steps.navigations < MaxNavigations
    /\ kind = "plain" => ~clips
    /\ doc' = Fresh(kind, clips)
    /\ toPage' = toPage \o Greeting(kind)
    /\ steps' = [steps EXCEPT !.navigations = @ + 1]
    /\ abandoned' = (doc.phase # "loaded" /\ (doc.kind = "bridge" \/ abandoned))
    /\ UNCHANGED <<page, header, toFrame, missed>>

-----------------------------------------------------------------------------
\* What the two event loops have to do: as long as there is some of it, some of it is
\* done.  Nobody has to scroll, resize or navigate.
Tasks == PageReceives \/ Observe \/ FrameReceives \/ Parsed \/ Loaded \/ AnimationFrame

Next ==
    \/ Tasks
    \/ \E h \in Heights : Resize(h)
    \/ \E offset \in 0..MaxOffset : ScrollTo(offset)
    \/ \E kind \in {"bridge", "plain"}, clips \in BOOLEAN : Navigate(kind, clips)

Spec == Init /\ [][Next]_vars

FairSpec == Spec /\ WF_vars(Tasks)

-----------------------------------------------------------------------------
(* Properties. *)

Messages == {Hello, Applied, Load} \cup {Scroll(offset) : offset \in 0..MaxOffset}

TypeOK ==
    /\ page \in [overlay : BOOLEAN, shift : Nat, inset : Heights \cup {0}, bridged : BOOLEAN]
    /\ header \in [height : Heights, seen : Heights]
    /\ doc \in [kind : {"bridge", "plain"}, clips : BOOLEAN,
                phase : {"parsing", "parsed", "loaded"}, waiting : Seq(Heights),
                inset : Heights \cup {Unset}, visible : Nat, scroll : 0..MaxOffset,
                frame : BOOLEAN]
    /\ toPage \in Seq(Messages)
    /\ toFrame \in Seq([for : 1..MaxNavigations, top : Heights])
    /\ steps \in [navigations : 1..MaxNavigations, resizes : 0..MaxResizes,
                  scrolls : 0..MaxScrolls]
    /\ abandoned \in BOOLEAN
    /\ missed \in BOOLEAN

\* Nothing is on its way and nobody has anything left to do.
AtRest ==
    /\ toPage = <<>> /\ toFrame = <<>>
    /\ doc.phase = "loaded" /\ ~doc.frame
    /\ header.seen = header.height

\* The artifact makes room for the header that lies over it.
Reserves ==
    /\ doc.kind = "bridge"
    /\ doc.inset = header.height

\* What the comments of both scripts promise: a header over the frame lies over an
\* artifact that has reserved its height.
OverlayReserved == AtRest /\ page.overlay => Reserves

\* The header never lies over content for good, but for three races: the document
\* came after one that said hello and never loaded, the header was resized while a
\* handshake was under way, or the header has grown beyond what artifacts take.
OverlayReservedUnlessRaced ==
    AtRest /\ page.overlay =>
        \/ Reserves
        \/ abandoned /\ doc.kind = "plain"
        \/ missed
        \/ header.height > MaxInset

\* Header and artifact move together: at rest, when the height that was sent last is
\* one that artifacts take, the header has gone up as far as the artifact has
\* scrolled, what is left of it is the part that the artifact was told of for its
\* pinned elements, and a header above the frame has not moved.
MovesTogether ==
    AtRest =>
        /\ page.overlay /\ doc.kind = "bridge" /\ page.inset <= MaxInset =>
              /\ page.shift = Smaller(doc.scroll, page.inset)
              /\ page.inset - page.shift = doc.visible
        /\ ~page.overlay => page.shift = 0

\* An artifact that can take the header gets it in the end, unless the frame goes
\* to another document or the header is resized during the handshake.
CanOverlay ==
    /\ doc.kind = "bridge" /\ ~doc.clips
    /\ steps.resizes = MaxResizes /\ header.height <= MaxInset

OverlaidInTheEnd ==
    \A n \in 1..MaxNavigations :
        (CanOverlay /\ steps.navigations = n)
            ~> (page.overlay \/ steps.navigations > n \/ missed)

=============================================================================
