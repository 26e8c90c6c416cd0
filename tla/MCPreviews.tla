----------------------------- MODULE MCPreviews -----------------------------
(* Small instances, for TLC, of the modules about what a visitor is shown.     *)
(* The modules share no state: a behaviour of this one is a behaviour of one   *)
(* of them, chosen in the initial state.  SnapshotCopy is extended, since it   *)
(* has assumptions; the others are instances, that of ShareLinks with its      *)
(* theorems, for PreviewProofs to cite.                                        *)
EXTENDS SnapshotCopy, TLC, Sequences

CONSTANTS
    Machines,                                            \* the modules to run
    Heights, MaxInset, MaxOffset, MaxNavigations, MaxScrolls,   \* HeaderBridge
    MaxResizes,                                          \* HeaderBridge, ImageViewer
    MaxEdits,                                            \* ShareLinks
    MaxPiece, MaxHead, MaxComment,                       \* ArtifactReader
    MaxLines,                                            \* MarkdownSource
    Delay, MaxClicks,                                    \* CopyButton
    Widths, NaturalWidths                                \* ImageViewer

ASSUME PreviewAssumption ==
    /\ Heights \subseteq Nat
    /\ {MaxInset, MaxOffset, MaxResizes, MaxScrolls, MaxPiece, MaxHead, MaxComment,
        Delay, MaxClicks} \subseteq Nat
    /\ MaxNavigations \in Nat \ {0}

VARIABLES
    machine,
    page, header, doc, toPage, toFrame, steps, abandoned, missed,
    text, edits, share, printed, at,
    file, had, scan, sourceSize, insertAt, asked, sent,
    lines, phase, body, read, fence, output,
    label, disabled, clicks, timers, registered, stood,
    viewport, image, scaleIndex, fitWidth, frame, width, enabled, resizes

-----------------------------------------------------------------------------
(* Files and documents of ShareLinks: the directory /home/d, with directories  *)
(* a and s, names with a space, blanks, "#" and a colon, a template, and        *)
(* symbolic links: to a file and a directory outside, to a directory inside,    *)
(* and to /home/d itself.                                                       *)

Name(stem, ext) == [stem |-> stem, ext |-> ext, template |-> FALSE]
Directory(stem) == Name(stem, "none")
Up == Directory("..")

Notes == Name("notes", "md")
My == Name("my notes", "md")
Paper == [stem |-> "paper", ext |-> "md", template |-> TRUE]
Clip == Name("clip", "mp4")
Blank == Name(" x", "txt")
Index == Name("index", "html")

Home(p) == <<Directory("home")>> \o p
Below(p) == <<Directory("home"), Directory("d")>> \o p

Links ==
    Below(<<Name("linked", "mp4")>>) :> Home(<<Clip>>)
    @@ Below(<<Directory("out")>>) :> Home(<<Directory("e")>>)
    @@ Below(<<Directory("in")>>) :> Below(<<Directory("s")>>)
    @@ Home(<<Directory("l")>>) :> Below(<<>>)

Tree ==
    {Below(p) : p \in {<<Notes>>, <<My>>, <<Blank>>, <<Clip>>, <<Directory("y ")>>,
                       <<Directory("a"), Paper>>, <<Directory("a"), Name("x#", "html")>>,
                       <<Directory("a"), Name("doc", "pdf")>>,
                       <<Directory("a"), Index>>, <<Directory("a"), Name("a:b", "html")>>,
                       <<Directory("a"), Name(" x", "html")>>,
                       <<Directory("s"), Name("page", "html")>>}}
    \cup {Home(<<Clip>>), Home(<<Directory("e"), Index>>)}
    \cup DOMAIN Links

Places ==
    {Below(<<>>), Below(<<Notes>>), Below(<<My>>), Below(<<Directory("a"), Name("doc", "pdf")>>),
     Below(<<Name("linked", "mp4")>>), Below(<<Directory("in")>>),
     Home(<<Directory("l")>>), Home(<<Directory("l"), Notes>>)}

To(el, path) == [el |-> el, abs |-> FALSE, path |-> path]

Texts ==
    {{To("a", <<Directory("a"), Up, My>>), To("a", <<Blank>>), To("img", <<Up, Clip>>)},
     {To("img", <<Clip>>), To("media", <<Clip>>), To("img", <<Name("linked", "mp4")>>),
      [el |-> "img", abs |-> TRUE, path |-> <<Clip>>]},
     {To("a", <<Up, Notes>>), To("a", <<Directory("a"), Name("doc", "pdf")>>),
      To("a", <<Up, Clip>>), To("a", <<Up, Up, Directory("d"), Notes>>)}}

-----------------------------------------------------------------------------
(* Contents and the script of ArtifactReader: every short head of a page, and  *)
(* comments of each kind with every short content before a doctype.            *)

Upto(n, tokens) == UNION {[1..k -> tokens] : k \in 0..n}

Sources ==
    Upto(MaxHead, {"bom", "ws", "<!", "<?", "</", "-", "!", ">", "doctype", "x"})
    \cup {<<"<!", "-", "-">> \o c \o <<">", "<!", "doctype", ">">> :
             c \in Upto(MaxComment, {"-", "!", ">"})}
    \cup {<<opener>> \o c \o <<">", "<!", "doctype", ">">> :
             opener \in {"<!", "<?", "</"}, c \in Upto(1, {"-", ">", "x"})}
    \cup {<<"bom", "ws", "<!", "-", "-", "-", "-", ">", "ws", "<!", "doctype", "x", ">", "x">>}

Rewrites == {<<"x">>, [k \in 1..12 |-> "x"]}
Script == <<"i", "j">>

-----------------------------------------------------------------------------
(* Documents of MarkdownSource: all of a few lines.                            *)

Fence(char, run, info, deep) ==
    [kind |-> "fence", char |-> char, run |-> run, info |-> info, deep |-> deep]

Lines ==
    {[kind |-> "blank"], [kind |-> "text"], [kind |-> "dashes"],
     [kind |-> "tag", deep |-> FALSE], [kind |-> "tag", deep |-> TRUE],
     Fence("tick", 3, "none", FALSE), Fence("tick", 4, "none", FALSE),
     Fence("tick", 3, "word", FALSE), Fence("tick", 3, "ticks", FALSE),
     Fence("tick", 3, "none", TRUE), Fence("tilde", 3, "none", FALSE)}

Written == UNION {[1..k -> Lines] : k \in 1..MaxLines}

-----------------------------------------------------------------------------
Bridge == INSTANCE HeaderBridge
Visits == INSTANCE ShareLinksProofs WITH
            Spaced <- {"my notes"}, Padded <- {" x"}, Trailing <- {"y "},
            Trimmed <- (" x" :> "x") @@ ("y " :> "y"), Odd <- {"x#"}, Schemed <- {"a:b"},
            DirS <- Directory("s"), DirH <- Directory("h"), NoName <- Directory("no")
Reader == INSTANCE ArtifactReader
Document == INSTANCE MarkdownSource WITH Sources <- Written
Button == INSTANCE CopyButton
Viewer == INSTANCE ImageViewer

\* The files and documents above are as ShareLinks takes them to be.
ASSUME DiskAssumption == Visits!Tidy(Visits!Names \cup {Up})

copyVars == vars
bridgeVars == <<page, header, doc, toPage, toFrame, steps, abandoned, missed>>
visitVars == <<text, edits, share, printed, at>>
readerVars == <<file, had, scan, sourceSize, insertAt, asked, sent>>
documentVars == <<lines, phase, body, read, fence, output>>
buttonVars == <<label, disabled, clicks, timers, registered, stood>>
viewerVars == <<viewport, image, scaleIndex, fitWidth, frame, width, enabled, resizes>>
allVars == <<machine, copyVars, bridgeVars, visitVars, readerVars, documentVars, buttonVars, viewerVars>>

\* The modules with liveness properties are off in states of their own.
BridgeOff ==
    /\ page = [overlay |-> FALSE, shift |-> 0, inset |-> 0, bridged |-> FALSE]
    /\ header = [height |-> 1, seen |-> 1]
    /\ doc = [Bridge!Fresh("plain", FALSE) EXCEPT !.phase = "loaded"]
    /\ toPage = <<>> /\ toFrame = <<>>
    /\ steps = [navigations |-> 1, resizes |-> 0, scrolls |-> 0]
    /\ abandoned = FALSE /\ missed = FALSE

CopyOff ==
    /\ source = [f \in Files |-> [kind |-> "link", size |-> 0]]
    /\ low = [f \in Files |-> 0] /\ high = low /\ changes = 0
    /\ isDir = TRUE /\ limit = MaxInt /\ pc = "failed" /\ i = 1 /\ listed = {}
    /\ total = 0 /\ remaining = 0 /\ copied = 0
    /\ dst = [f \in Files |-> None] /\ written = 0

MCInit ==
    /\ machine \in Machines
    /\ IF machine = "copy" THEN Init ELSE CopyOff
    /\ IF machine = "bridge" THEN Bridge!Init ELSE BridgeOff
    /\ IF machine = "visits" THEN Visits!Init
       ELSE text = "off" /\ edits = "off" /\ share = "off" /\ printed = "off" /\ at = "off"
    /\ IF machine = "reader" THEN Reader!Init
       ELSE /\ file = "off" /\ had = "off" /\ scan = "off" /\ sourceSize = "off"
            /\ insertAt = "off" /\ asked = "off" /\ sent = "off"
    /\ IF machine = "document" THEN Document!Init
       ELSE /\ lines = "off" /\ phase = "off" /\ body = "off" /\ read = "off"
            /\ fence = "off" /\ output = "off"
    /\ IF machine = "button" THEN Button!Init
       ELSE /\ label = "off" /\ disabled = "off" /\ clicks = "off" /\ timers = "off"
            /\ registered = "off" /\ stood = "off"
    /\ IF machine = "viewer" THEN Viewer!Init
       ELSE /\ viewport = "off" /\ image = "off" /\ scaleIndex = "off" /\ fitWidth = "off"
            /\ frame = "off" /\ width = "off" /\ enabled = "off" /\ resizes = "off"

OnlyCopy == machine = "copy" /\ UNCHANGED <<machine, bridgeVars, visitVars, readerVars, documentVars, buttonVars, viewerVars>>
OnlyBridge == machine = "bridge" /\ UNCHANGED <<machine, copyVars, visitVars, readerVars, documentVars, buttonVars, viewerVars>>
OnlyVisits == machine = "visits" /\ UNCHANGED <<machine, copyVars, bridgeVars, readerVars, documentVars, buttonVars, viewerVars>>
OnlyReader == machine = "reader" /\ UNCHANGED <<machine, copyVars, bridgeVars, visitVars, documentVars, buttonVars, viewerVars>>
OnlyDocument == machine = "document" /\ UNCHANGED <<machine, copyVars, bridgeVars, visitVars, readerVars, buttonVars, viewerVars>>
OnlyButton == machine = "button" /\ UNCHANGED <<machine, copyVars, bridgeVars, visitVars, readerVars, documentVars, viewerVars>>
OnlyViewer == machine = "viewer" /\ UNCHANGED <<machine, copyVars, bridgeVars, visitVars, readerVars, documentVars, buttonVars>>

MCNext ==
    \/ OnlyCopy /\ Next
    \/ OnlyBridge /\ Bridge!Next
    \/ OnlyVisits /\ Visits!Next
    \/ OnlyReader /\ Reader!Next
    \/ OnlyDocument /\ Document!Next
    \/ OnlyButton /\ Button!Next
    \/ OnlyViewer /\ Viewer!Next

MCSpec == MCInit /\ [][MCNext]_allVars

MCFairSpec ==
    /\ MCSpec
    /\ WF_allVars(OnlyCopy /\ Step)
    /\ WF_allVars(OnlyBridge /\ Bridge!Tasks)

-----------------------------------------------------------------------------
(* The properties of the instances, by their names.                            *)

\* The variables of the page, its header and the document in its frame keep their types.
BridgeTypeOK == machine = "bridge" => Bridge!TypeOK

\* A header at rest over a frame lies over an artifact that made room for it, but for
\* three named races.
OverlayReservedUnlessRaced == machine = "bridge" => Bridge!OverlayReservedUnlessRaced

\* At rest the header has moved as far as the artifact has scrolled.
MovesTogether == machine = "bridge" => Bridge!MovesTogether

\* An artifact that can take the header gets it in the end.
OverlaidInTheEnd == Bridge!OverlaidInTheEnd

\* The link that publish prints opens what was published.
PrintedLinkOpens == machine = "visits" => Visits!PrintedLinkOpens

\* Nothing outside of the published file or directory is ever shown.
StaysInside == machine = "visits" => Visits!StaysInside

\* Every link of the program opens the file it names, but for the named exceptions.
LinkOpensUnlessNamed == machine = "visits" => Visits!LinkOpensUnlessNamed

\* Every range of an artifact is that range of the file with the script in it.
RangeIsInPlace == machine = "reader" => Reader!RangeIsInPlace

\* The script is inserted behind the doctype that a browser sees, but for odd comments.
AfterDoctypeUnlessOdd == machine = "reader" => Reader!AfterDoctypeUnlessOdd

\* Directive tags are quoted outside of code, and nothing else of a document changes.
TagsShownUnlessOdd == machine = "document" => Document!TagsShownUnlessOdd

\* The timer of an earlier copy never takes away what a copy button says.
OutcomeStands == Button!OutcomeStands

\* The width of an image is that of its viewport and scale, its buttons those that work.
ImageFits == machine = "viewer" => Viewer!ImageFits

=============================================================================
