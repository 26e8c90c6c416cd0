----------------------------- MODULE ShareLinks -----------------------------
(***************************************************************************)
(* From a command line to the file a visitor sees: what publish shares     *)
(* (ops/publish.go), the links it prints, the links of the pages           *)
(* (share/server_public.go, share/render_markdown.go, the script of an     *)
(* HTML preview in share/render.go), and how the daemon resolves a request *)
(* to a file (share/paths.go).                                             *)
(*                                                                         *)
(* A file name is a stem, an extension and perhaps a template suffix.  Of  *)
(* a stem only what the code is sensitive to is told: whether it needs     *)
(* escaping in a URL, begins or ends with a blank, or breaks a URL it is   *)
(* put in as it is.  A segment of a URL is a name with the number of times *)
(* it has been escaped; the daemon undoes one.  Tokens are valid here,     *)
(* shares active: ShareDaemon is about those.  The disk keeps its files    *)
(* and links while it is shared; documents are edited.                     *)
(***************************************************************************)
EXTENDS Integers, Sequences, FiniteSets, SequencesExt

CONSTANTS
    Tree,       \* what is no directory, as sequences of names from the root
    Links,      \* the symbolic links in it, to files and directories: a function
                \* to the path, without links, where the chain of each ends
    Places,     \* bound: the paths that are published
    Spaced,     \* stems with characters that a URL escapes
    Padded,     \* stems that begin with a blank
    Trailing,   \* stems that end with one, of names without an extension
    Trimmed,    \* the stem without its blanks
    Odd,        \* stems with '#', '?', '%', '\' or a control character
    Schemed,    \* stems like "a:b", which a URL takes for a scheme
    DirS, DirH, \* the directory names "s" and "h"
    Index,      \* the name "index.html"
    NoName,     \* a name no file has
    Up,         \* the path segment ".."
    Texts,      \* what a Markdown document may contain: sets of targets
    MaxEdits    \* bound: edits of documents

VARIABLES
    text,    \* what each document contains
    edits,   \* edits so far
    share,   \* the published share, or NoShare
    printed, \* the URL that publish printed
    at       \* what the visitor sees: the step that led there, the file it
             \* named, and the file and page that came

vars == <<text, edits, share, printed, at>>

-----------------------------------------------------------------------------
(* The disk. *)

Parent(p) == SubSeq(p, 1, Len(p) - 1)
Dirs == UNION {{SubSeq(p, 1, k) : k \in 0..(Len(p) - 1)} : p \in Tree}
Files == Tree \ DOMAIN Links
Within(root, p) == IsPrefix(root, p)

\* Where a path leads when the links on its way and at its end are followed.
Follow(p) == IF p \in DOMAIN Links THEN Links[p] ELSE p
Real(p) == FoldLeft(LAMBDA done, n : Follow(Append(done, n)), <<>>, p)

IsFile(p) == Real(p) \in Files
IsDir(p) == Real(p) \in Dirs
IsLink(p) == p # <<>> /\ Append(Real(Parent(p)), Last(p)) \in DOMAIN Links

-----------------------------------------------------------------------------
(* Names. *)

MarkdownExtensions == {"md"}
KindOfExtension ==
    [md |-> "markdown", html |-> "html", pdf |-> "pdf", png |-> "image",
     mp4 |-> "video", mp3 |-> "audio", txt |-> "code", none |-> "code"]

\* A template suffix (notes.md.tmpl) is taken off, and leaves Markdown or code.
ClassifyPreviewKind(name) ==
    IF name.template
    THEN IF name.ext \in MarkdownExtensions THEN "markdown" ELSE "code"
    ELSE KindOfExtension[name.ext]

IsMarkdownPreviewName(name) == name.ext \in MarkdownExtensions

\* Files that are read as Markdown under their own name or that of a link.
Documents == Files \cap {Follow(p) : p \in {q \in Tree : IsMarkdownPreviewName(Last(q))}}

-----------------------------------------------------------------------------
(* Targets in a document. *)

IsMedia(name) == ClassifyPreviewKind(name) \in {"video", "audio"}

\* decorateMarkdownHTML turns an image with the name of a video or an audio file
\* into that element, before anybody looks at the links.
Element(t) == IF t.el = "img" /\ IsMedia(Last(t.path)) THEN "media" ELSE t.el

\* A relative target leaves its directory when some prefix of it goes up more often
\* than down.
EscapesRoot(path) ==
    \E k \in 1..Len(path) : 2 * Cardinality({i \in 1..k : path[i] = Up}) > k

Counted(t) == Element(t) \in {"a", "img"} /\ ~t.abs

AnalyzeMarkdown(targets) ==
    [needsDirectory |-> \E t \in targets : Counted(t),
     escapes |-> \E t \in targets : Counted(t) /\ EscapesRoot(t.path)]

\* cleanMarkdownPath: ".." at the root is dropped.
Clean(path) ==
    FoldLeft(LAMBDA done, n : IF n # Up THEN Append(done, n)
                              ELSE IF done = <<>> THEN <<>> ELSE Parent(done),
             <<>>, path)

-----------------------------------------------------------------------------
(* URLs. *)

NeedsEscape(name) == name.stem \in Spaced \cup Padded \cup Trailing \cup Odd

Escape(path) ==
    [i \in DOMAIN path |-> [name |-> path[i], esc |-> IF NeedsEscape(path[i]) THEN 1 ELSE 0]]

\* What the daemon reads: one escape is undone.
Decode(segments) ==
    [i \in DOMAIN segments |-> IF segments[i].esc > 1 THEN NoName ELSE segments[i].name]

\* Slip: names are put in a URL as they are.
EscapeNothing(rel) == [i \in DOMAIN rel |-> [name |-> IF NeedsEscape(rel[i]) THEN NoName ELSE rel[i], esc |-> 0]]

\* escapeRel trims the whole path before it escapes its parts.
Trim(rel) ==
    [i \in DOMAIN rel |->
        IF (i = 1 /\ rel[i].stem \in Padded) \/ (i = Len(rel) /\ rel[i].stem \in Trailing)
        THEN [rel[i] EXCEPT !.stem = Trimmed[@]] ELSE rel[i]]

EscapeRel(rel) == Escape(Trim(rel))

BuildPreviewPath(rel) == [route |-> "s", segments |-> EscapeRel(rel)]
BuildRawPath(rel) == [route |-> "r", segments |-> EscapeRel(rel)]

\* The link of a share, and of a document in the share of its directory: the name is
\* escaped, then the URL that has it as its path is escaped again.
ToResponse == [route |-> "s", segments |-> <<>>]

ResolvePublishURL(url, entry) ==
    IF entry = <<>> THEN url
    ELSE [url EXCEPT !.segments =
            @ \o [i \in DOMAIN entry |->
                    [name |-> entry[i], esc |-> IF NeedsEscape(entry[i]) THEN 2 ELSE 0]]]

\* The script of an HTML preview takes the last "/s/" of its own path for the route.
ArtifactURL(url) ==
    LET markers == {i \in 1..(Len(url.segments) - 1) : url.segments[i].name = DirS} IN
    IF markers = {} THEN [url EXCEPT !.route = "h"]
    ELSE [url EXCEPT !.segments[Max(markers)].name = DirH]

\* The artifact's route answers the token with a redirection to the last segment, not
\* escaped: a browser reads it as a relative URL, without a blank before it.
Redirected(url) ==
    LET n == Len(url.segments)
        last == url.segments[n].name IN
    IF url.route # "h" \/ n = 0 \/ last.stem \notin Odd \cup Schemed \cup Padded THEN url
    ELSE [url EXCEPT !.segments[n].name =
            IF last.stem \in Odd \cup Schemed THEN NoName ELSE [last EXCEPT !.stem = Trimmed[@]]]

-----------------------------------------------------------------------------
(* Requests. *)

\* A snapshot has no links and keeps the text it was made from; the directory that it
\* is made of is walked like those below it, and left out if it is a link itself.
Kept(s, p) == s.snapshot /\ p # s.root => \A k \in Len(s.root)..Len(p) : ~IsLink(SubSeq(p, 1, k))
Has(s, p) == (IsFile(p) \/ IsDir(p)) /\ Kept(s, p)
TextOf(s, p) == (IF s.snapshot THEN s.text ELSE text)[Real(p)]

Nowhere == <<NoName>>

\* Slip: where links lead is not looked at.
ResolveLexically(s, rel) ==
    LET p == s.root \o rel IN
    IF ~s.isDir THEN (IF rel = <<>> THEN s.root ELSE Nowhere)
    ELSE IF (\E i \in DOMAIN rel : rel[i] = Up) \/ ~Has(s, p) THEN Nowhere ELSE p

\* resolveTarget and ResolveScopedPath: no ".." in a path, and where it leads is not
\* outside of where the root leads.
ResolveTarget(s, rel) ==
    LET p == s.root \o rel IN
    IF ~s.isDir THEN (IF rel = <<>> THEN s.root ELSE Nowhere)
    ELSE IF \/ \E i \in DOMAIN rel : rel[i] = Up
            \/ ~Has(s, p)
            \/ ~Within(Real(s.root), Real(p))
    THEN Nowhere ELSE p

Page(as, p, rel, url) == [as |-> as, path |-> p, rel |-> rel, url |-> url]
NoPage(url) == Page("error", Nowhere, <<>>, url)

\* http.ServeFile redirects a path that ends in index.html to its directory, which the
\* raw route refuses.
HandleRaw(s, url) ==
    LET rel == Decode(url.segments)
        p == ResolveTarget(s, rel) IN
    IF p = Nowhere \/ IsDir(p) \/ (rel # <<>> /\ Last(rel) = Index)
    THEN NoPage(url) ELSE Page("raw", p, rel, url)

\* A PDF is redirected to its bytes.
HandlePreview(s, url) ==
    LET rel == Decode(url.segments)
        p == ResolveTarget(s, rel)
        kind == ClassifyPreviewKind(Last(p)) IN
    IF p = Nowhere THEN NoPage(url)
    ELSE IF s.isDir /\ IsDir(p) THEN Page("listing", p, rel, url)
    ELSE IF kind = "pdf" THEN HandleRaw(s, BuildRawPath(rel))
    ELSE Page(IF kind \in {"markdown", "html"} THEN kind ELSE "preview", p, rel, url)

HandleHTMLArtifact(s, url) ==
    LET rel == Decode(url.segments)
        p == ResolveTarget(s, rel) IN
    IF p = Nowhere \/ IsDir(p) THEN NoPage(url)
    ELSE IF ClassifyPreviewKind(Last(p)) # "html" THEN NoPage(url)
    ELSE Page("artifact", p, rel, url)

Request(s, url) ==
    CASE url.route = "s" -> HandlePreview(s, url)
      [] url.route = "r" -> HandleRaw(s, url)
      [] OTHER -> HandleHTMLArtifact(s, url)

-----------------------------------------------------------------------------
NoShare == [root |-> <<>>, isDir |-> FALSE, snapshot |-> FALSE, text |-> <<>>]
Outside == [via |-> "none", want |-> <<>>, bytes |-> FALSE,
            page |-> NoPage(ToResponse)]

\* Documents are empty before they are edited.
Init ==
    /\ text = [p \in Files |-> {}]
    /\ edits = 0
    /\ share = NoShare
    /\ printed = [url |-> ToResponse, want |-> <<>>]
    /\ at = Outside

\* The owner changes a document, before or after it is published.
Edit(p, targets) ==
    /\ edits < MaxEdits
    /\ targets # text[p]
    /\ text' = [text EXCEPT ![p] = targets]
    /\ edits' = edits + 1
    /\ at' = Outside
    /\ UNCHANGED <<share, printed>>

\* resolvePublishPlan: a document with local targets becomes the entry of its
\* directory, and is refused if one of them leaves it.
Plan(p) ==
    LET analysis == AnalyzeMarkdown(text[Real(p)]) IN
    IF IsDir(p) \/ ~IsMarkdownPreviewName(Last(p))
    THEN [root |-> p, isDir |-> IsDir(p), entry |-> <<>>, refused |-> FALSE]
    ELSE IF ~analysis.needsDirectory
    THEN [root |-> p, isDir |-> FALSE, entry |-> <<>>, refused |-> FALSE]
    ELSE [root |-> Parent(p), isDir |-> TRUE, entry |-> <<Last(p)>>, refused |-> analysis.escapes]

Publish(p, snapshot) ==
    LET plan == Plan(p) IN
    /\ share = NoShare
    /\ IsFile(p) \/ IsDir(p)
    /\ ~plan.refused
    /\ share' = [root |-> plan.root, isDir |-> plan.isDir, snapshot |-> snapshot,
                 text |-> text]
    /\ printed' = [url |-> ResolvePublishURL(ToResponse, plan.entry), want |-> p]
    /\ UNCHANGED <<text, edits, at>>

Visit(via, want, bytes, url) ==
    /\ at' = [via |-> via, want |-> want, bytes |-> bytes, page |-> Request(share, url)]
    /\ UNCHANGED <<text, edits, share, printed>>

OpenPrinted ==
    /\ share # NoShare
    /\ Visit("printed", printed.want,
             IsFile(printed.want) /\ ClassifyPreviewKind(Last(printed.want)) = "pdf", printed.url)

\* renderDirectoryListing: the entries of a directory, linked to their preview or raw.
\* A broken link is left out, a link that leads outside is not.
OpenEntry(name, raw) ==
    LET rel == Append(at.page.rel, name)
        p == share.root \o rel IN
    /\ at.page.as = "listing"
    /\ Has(share, p) /\ (raw => IsFile(p))
    /\ Visit("entry", p, raw \/ (IsFile(p) /\ ClassifyPreviewKind(name) = "pdf"),
             IF raw THEN BuildRawPath(rel) ELSE BuildPreviewPath(rel))

\* buildBreadcrumbs: one link for each directory above the page.
OpenBreadcrumb(k) ==
    /\ share.isDir /\ at.page.as \in {"listing", "markdown", "html", "preview"}
    /\ k \in 0..(Len(at.page.rel) - 1)
    /\ Visit("crumb", share.root \o SubSeq(at.page.rel, 1, k), FALSE,
             BuildPreviewPath(SubSeq(at.page.rel, 1, k)))

\* Every page of a file links its bytes.
OpenRaw ==
    /\ at.page.as \in {"markdown", "html", "preview"}
    /\ Visit("raw", at.page.path, TRUE, BuildRawPath(at.page.rel))

\* The page of an HTML file sets the source of its frame.
LoadFrame ==
    /\ at.page.as = "html"
    /\ Visit("frame", at.page.path, FALSE, Redirected(ArtifactURL(at.page.url)))

\* rewriteMarkdownTarget: from the directory of the document; media get bytes.
RewriteMarkdownTarget(rel, t) ==
    LET target == Clean(Parent(rel) \o t.path) IN
    IF t.el = "a" THEN BuildPreviewPath(target) ELSE BuildRawPath(target)

\* RewriteServePreviewImageSources: a link to a preview, as a source of media.
RewriteServePreviewPath(t) ==
    [route |-> IF t.el = "a" THEN "s" ELSE "r", segments |-> Escape(t.path)]

\* The file that a relative target names, as every other reader of Markdown reads it.
Named(t) == IF t.abs THEN share.root \o t.path ELSE Clean(Parent(at.page.path) \o t.path)

\* A relative target that nobody rewrites is looked for beside the share's own link.
\* One that leaves the share on its way back into it is a detour: the daemon drops the
\* ".." that would leave, so what follows starts at the root of the share.
FollowTarget(t) ==
    LET want == Named(t)
        detour == ~t.abs /\ EscapesRoot(Parent(at.page.rel) \o t.path) IN
    /\ at.page.as = "markdown"
    /\ t \in TextOf(share, at.page.path)
    /\ IsFile(want)
    /\ IF t.abs \/ share.isDir
       THEN Visit(IF detour THEN "detour" ELSE "target", want,
                  t.el # "a" \/ ClassifyPreviewKind(Last(want)) = "pdf",
                  IF t.abs THEN RewriteServePreviewPath(t)
                  ELSE RewriteMarkdownTarget(at.page.rel, t))
       ELSE /\ at' = [via |-> "unwritten", want |-> want, bytes |-> FALSE,
                      page |-> NoPage(ToResponse)]
            /\ UNCHANGED <<text, edits, share, printed>>

-----------------------------------------------------------------------------
Names == UNION {ToSet(p) : p \in Tree}
Targets == UNION Texts

Next ==
    \/ \E p \in Documents, targets \in Texts : Edit(p, targets)
    \/ \E p \in Places, snapshot \in BOOLEAN : Publish(p, snapshot)
    \/ OpenPrinted
    \/ \E name \in Names, raw \in BOOLEAN : OpenEntry(name, raw)
    \/ \E k \in 0..Len(at.page.rel) : OpenBreadcrumb(k)
    \/ OpenRaw
    \/ LoadFrame
    \/ \E t \in Targets : FollowTarget(t)

Spec == Init /\ [][Next]_vars

-----------------------------------------------------------------------------
(* What the constants stand for. *)

\* Paths are sequences of names, and what is no directory has nothing below it; a
\* link ends at a file or a directory.  ".." and the name that stands for none are no
\* names of files; the extension of each file is one of the model, that of index.html
\* too; targets name something.
Tidy(S) ==
    /\ Tree \subseteq Seq(S) /\ Places \subseteq Seq(S)
    /\ \A p \in Tree : \A k \in 1..Len(p) : p[k] \notin {Up, NoName}
    /\ \A p \in Tree : p # <<>> /\ Last(p).ext \in DOMAIN KindOfExtension
    /\ Index.ext = "html" /\ ~Index.template
    /\ Tree \cap Dirs = {}
    /\ DOMAIN Links \subseteq Tree
    /\ \A p \in DOMAIN Links : Links[p] \in Files \cup Dirs
    /\ \A targets \in Texts : \A t \in targets :
          t.path \in Seq(S) /\ t.path # <<>> /\ t.el \in {"a", "img", "media"}

-----------------------------------------------------------------------------
(* Properties. *)

\* The visitor sees the file that the link named, as a page or as bytes.
Opened == at.page.path = at.want /\ (at.page.as = "raw" <=> at.bytes)

\* The link that publish prints opens what was published ("the URL gains the file
\* name", docs/compatibility.md).
PrintedLinkOpens == at.via = "printed" => Opened

\* Nothing outside of the published file or directory is ever shown.
StaysInside == at.page.path # Nowhere => Within(Real(share.root), Real(at.page.path))

RelOf(p) == SubSeq(p, Len(share.root) + 1, Len(p))

Blank(rel) == rel # <<>> /\ (rel[1].stem \in Padded \/ Last(rel).stem \in Trailing)

\* The links and images of the document were none of its directory's when it was
\* published: those of sound and film are not looked at.
PublishedAlone ==
    /\ ~share.isDir
    /\ \A t \in share.text[Real(share.root)] :
         t.abs \/ t.el = "media" \/ (t.el = "img" /\ IsMedia(Last(t.path)))

\* Every link of the program opens the file it names, but for these: the printed
\* link of an entry that needs escaping; the frame of an artifact below a directory
\* "s" or with a name that a redirection changes; the bytes of an index.html in a
\* directory; whatever leads out of the share; a path that begins or ends with a
\* blank; a symbolic link, or a file behind one, that a snapshot left out; the targets
\* of a document that was published alone; and a target that leaves the share and
\* comes back.
LinkOpensUnlessNamed ==
    \/ at.via = "none" \/ Opened
    \/ at.via = "printed" /\ at.want # share.root /\ NeedsEscape(Last(at.want))
    \/ /\ at.via = "frame" /\ share.isDir
       /\ \/ DirS \in ToSet(Parent(RelOf(at.want)))
          \/ Last(at.want).stem \in Odd \cup Schemed \cup Padded
    \/ at.bytes /\ share.isDir /\ Last(at.want) = Index
    \/ ~Within(Real(share.root), Real(at.want))
    \/ share.isDir /\ Blank(RelOf(at.want))
    \/ ~Kept(share, at.want)
    \/ at.via = "unwritten" /\ PublishedAlone
    \/ at.via = "detour"

=============================================================================
