--------------------------- MODULE MarkdownSource ---------------------------
(***************************************************************************)
(* What is done to the text of a Markdown document before it is rendered   *)
(* (share/render_markdown.go): its front matter is taken off, and a        *)
(* directive tag on a line of its own is quoted, unless it is in a fenced  *)
(* code block, where it is code.  Line by line, with a scan of fences of   *)
(* its own, which has to agree with the renderer's.                        *)
(*                                                                         *)
(* A line is what the scan and the renderer are sensitive to.              *)
(***************************************************************************)
EXTENDS Integers, Sequences, SequencesExt

CONSTANT Sources    \* documents, as sequences of lines

VARIABLES
    lines,     \* the document
    phase,     \* front (matter), scan, done or error
    body,      \* the lines behind the front matter
    read,      \* lines of the body read so far
    fence,     \* fenceMarker: the open fence, or NoFence
    output

vars == <<lines, phase, body, read, fence, output>>

Blank == [kind |-> "blank"]
Dashes == [kind |-> "dashes"]
Text == [kind |-> "text"]

\* A tag, a quoted tag, and a fence: three or more of one character and an info string,
\* which may have backticks in it.  Deep lines are indented by four or more.
Tag(deep) == [kind |-> "tag", deep |-> deep]
Quoted(tag) == [kind |-> "quoted", deep |-> tag.deep]
Fence(char, run, info, deep) ==
    [kind |-> "fence", char |-> char, run |-> run, info |-> info, deep |-> deep]
NoFence == [kind |-> "none"]

Init ==
    /\ lines \in Sources
    /\ phase = "front" /\ body = <<>> /\ read = 0
    /\ fence = NoFence /\ output = <<>>

\* stripMarkdownFrontmatter: the lines after the first up to the next "---".
Closings == {j \in 2..Len(lines) : lines[j] = Dashes}
HasFrontmatter == lines[1] = Dashes /\ Closings # {}
Frontmatter == SubSeq(lines, 2, Min(Closings) - 1)

Frontless ==
    /\ phase = "front"
    /\ phase' = "scan"
    /\ body' = IF HasFrontmatter THEN SubSeq(lines, Min(Closings) + 1, Len(lines)) ELSE lines
    /\ UNCHANGED <<lines, read, fence, output>>

\* The front matter is no YAML: the page is an error.
ParseFails ==
    /\ phase = "front" /\ HasFrontmatter
    /\ ToSet(Frontmatter) \ {Blank} # {}
    /\ phase' = "error"
    /\ UNCHANGED <<lines, body, read, fence, output>>

Line == body[read + 1]
Scanning(kinds) == phase = "scan" /\ read < Len(body) /\ Line.kind \in kinds
Advance(open, more) ==
    /\ read' = read + 1
    /\ fence' = open
    /\ output' = output \o more
    /\ UNCHANGED <<lines, phase, body>>

\* Slip: any fence of the character closes.
ClosesByChar(line) == fence # NoFence /\ line.char = fence.char

Closes(line) == fence # NoFence /\ line.char = fence.char /\ line.run >= fence.run

\* An open fence ignores the fences that do not close it.
FenceLine ==
    /\ Scanning({"fence"})
    /\ Advance(IF fence = NoFence THEN Line ELSE IF Closes(Line) THEN NoFence ELSE fence,
               <<Line>>)

\* rewriteMarkdownDirectiveTagLine: a paragraph of its own.
QuoteTag ==
    /\ Scanning({"tag"}) /\ fence = NoFence
    /\ Advance(fence, (IF output # <<>> /\ Last(output) # Blank THEN <<Blank>> ELSE <<>>)
                      \o <<Quoted(Line), Blank>>)

OtherLine ==
    /\ Scanning({"blank", "dashes", "text", "tag"})
    /\ Line.kind = "tag" => fence # NoFence
    /\ Advance(fence, <<Line>>)

\* A text that ends with a line feed ends with one more.
Finish ==
    /\ phase = "scan" /\ read = Len(body)
    /\ phase' = "done"
    /\ output' = output \o (IF Len(body) > 1 /\ Last(body) = Blank THEN <<Blank>> ELSE <<>>)
    /\ UNCHANGED <<lines, body, read, fence>>

Next == Frontless \/ ParseFails \/ FenceLine \/ QuoteTag \/ OtherLine \/ Finish

Spec == Init /\ [][Next]_vars

-----------------------------------------------------------------------------
(* The renderer's reading (CommonMark), of a text without lists and quotes.   *)

OpensFence(line) ==
    /\ line.kind = "fence" /\ ~line.deep
    /\ line.char = "tick" => line.info # "ticks"

ClosesFence(line, open) ==
    /\ line.kind = "fence" /\ ~line.deep
    /\ line.char = open.char /\ line.run >= open.run /\ line.info = "none"

\* The fence that is open behind each line of a text.
FenceAfter(text) ==
    LET open[k \in 0..Len(text)] ==
          IF k = 0 THEN NoFence
          ELSE IF open[k - 1] = NoFence
               THEN (IF OpensFence(text[k]) THEN text[k] ELSE NoFence)
               ELSE (IF ClosesFence(text[k], open[k - 1]) THEN NoFence ELSE open[k - 1])
    IN open

\* The tags that are no code, quoted.
Reference(text) ==
    [k \in DOMAIN text |->
        IF text[k].kind = "tag" /\ ~text[k].deep /\ FenceAfter(text)[k] = NoFence
        THEN Quoted(text[k]) ELSE text[k]]

\* The lines up to each line of a text that are not blank.
KeptAfter(text) ==
    LET kept[k \in 0..Len(text)] ==
          IF k = 0 THEN <<>>
          ELSE IF text[k] = Blank THEN kept[k - 1] ELSE Append(kept[k - 1], text[k])
    IN kept

\* Lines that the two scans take for different things: a deep fence or tag, a fence
\* with backticks in its info string, and one with an info string in an open fence.
Odd(text) ==
    \E k \in DOMAIN text :
        \/ text[k].kind \in {"fence", "tag"} /\ text[k].deep
        \/ text[k].kind = "fence" /\ text[k].info = "ticks"
        \/ text[k].kind = "fence" /\ text[k].info # "none" /\ FenceAfter(text)[k - 1] # NoFence

\* A visitor sees every directive tag as it was written, and code is never changed:
\* tags outside of fences are quoted, each between blank lines, and nothing else is
\* added, lost or moved; unless the document has an odd line.
TagsShownUnlessOdd ==
    phase = "done" =>
        \/ Odd(body)
        \/ /\ KeptAfter(output)[Len(output)] = KeptAfter(Reference(body))[Len(body)]
           /\ \A i \in DOMAIN output :
                 output[i].kind = "quoted" =>
                     /\ i > 1 => output[i - 1] = Blank
                     /\ i < Len(output) => output[i + 1] = Blank

=============================================================================
