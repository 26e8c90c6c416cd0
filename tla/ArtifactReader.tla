--------------------------- MODULE ArtifactReader ---------------------------
(***************************************************************************)
(* The reader of an HTML artifact (share/server_public.go): a scan finds   *)
(* the place after the doctype, and a reader presents the file with a      *)
(* script inserted there to http.ServeContent, which reads any range of    *)
(* it in pieces while the owner may rewrite the file.                      *)
(*                                                                         *)
(* The source is a sequence of tokens, each of which stands for a byte as  *)
(* far as positions go: "bom", "ws", "<!", "<?", "</", "-", "!", ">",      *)
(* "doctype" and "x" for a letter.  Files are in UTF-8.  Positions count   *)
(* from zero, as in the code.                                              *)
(***************************************************************************)
EXTENDS Integers, Sequences, SequencesExt

CONSTANTS
    Sources,    \* contents of the file when it is opened
    Rewrites,   \* contents it may be given while it is read
    Script,  \* the inserted script
    MaxPiece    \* the largest piece that is read at once

VARIABLES
    file,      \* the content of the file now
    had,       \* history: the contents since it was opened
    scan,      \* the scan: mode, matched part of "-->", offset
    sourceSize, insertAt,  \* what the reader holds
    asked,     \* the range that is served: first position, length
    sent       \* the bytes so far

vars == <<file, had, scan, sourceSize, insertAt, asked, sent>>

Smaller(a, b) == IF a < b THEN a ELSE b

Init ==
    /\ file \in Sources
    /\ had = <<file>>
    /\ scan = [mode |-> "bom", matched |-> 0, offset |-> 0]
    /\ sourceSize = Len(file)
    /\ insertAt = 0
    /\ asked = [first |-> 0, length |-> 0]
    /\ sent = <<>>

-----------------------------------------------------------------------------
(* htmlViewportGuardOffsetReader.  The buffered reader has the head of the *)
(* file before the owner changes it.                                       *)

Peek(k) == IF scan.offset + k <= Len(file) THEN file[scan.offset + k] ELSE "eof"
Reading == UNCHANGED <<file, had, sourceSize, asked, sent>>

Advance(mode, k) == scan' = [mode |-> mode, matched |-> 0, offset |-> scan.offset + k]
Settle(position) ==
    /\ scan' = [scan EXCEPT !.mode = "open"]
    /\ insertAt' = position

SkipBOM ==
    /\ scan.mode = "bom"
    /\ Advance("prolog", IF Peek(1) = "bom" THEN 1 ELSE 0)
    /\ UNCHANGED insertAt /\ Reading

\* Before the doctype: white space and comments are passed over.  A file that has no
\* doctype there gets the script at its very beginning.
Prolog ==
    /\ scan.mode = "prolog"
    /\ \/ Peek(1) = "ws" /\ Advance("prolog", 1) /\ UNCHANGED insertAt
       \/ /\ Peek(1) = "<!" /\ Peek(2) = "-" /\ Peek(3) = "-"
          /\ Advance("comment", 3) /\ UNCHANGED insertAt
       \/ /\ Peek(1) = "<!" /\ Peek(2) = "doctype"
          /\ Advance("doctype", 2) /\ UNCHANGED insertAt
       \/ /\ Peek(1) # "ws"
          /\ Peek(1) = "<!" => Peek(2) # "doctype" /\ ~(Peek(2) = "-" /\ Peek(3) = "-")
          /\ Settle(0)
    /\ Reading

\* Slip: the third dash of "--->" begins the match anew.
MatchedOf3(token, matched) ==
    CASE token = "-" -> IF matched < 2 THEN matched + 1 ELSE 0
      [] token = ">" /\ matched = 2 -> 3
      [] OTHER -> 0

\* How much of "-->" has been read.
Matched(token, matched) ==
    CASE token = "-" -> Smaller(matched + 1, 2)
      [] token = ">" /\ matched = 2 -> 3
      [] OTHER -> 0

Comment ==
    /\ scan.mode = "comment"
    /\ IF Peek(1) = "eof" THEN Settle(0)
       ELSE LET m == Matched(Peek(1), scan.matched) IN
            /\ scan' = [mode |-> IF m = 3 THEN "prolog" ELSE "comment",
                        matched |-> m % 3, offset |-> scan.offset + 1]
            /\ UNCHANGED insertAt
    /\ Reading

Doctype ==
    /\ scan.mode = "doctype"
    /\ CASE Peek(1) = "eof" -> Settle(0)
         [] Peek(1) = ">" -> Settle(scan.offset + 1)
         [] OTHER -> Advance("doctype", 1) /\ UNCHANGED insertAt
    /\ Reading

-----------------------------------------------------------------------------
(* injectedReaderAt, as ServeContent uses it. *)

TotalSize == sourceSize + Len(Script)

Serve(first, length) ==
    /\ scan.mode = "open"
    /\ first + length <= TotalSize
    /\ scan' = [scan EXCEPT !.mode = "serve"]
    /\ asked' = [first |-> first, length |-> length]
    /\ UNCHANGED <<file, had, sourceSize, insertAt, sent>>

\* The owner saves the file in place, once.
Rewrite(content) ==
    /\ scan.mode = "serve" /\ Len(had) = 1
    /\ file' = content
    /\ had' = Append(had, content)
    /\ UNCHANGED <<scan, sourceSize, insertAt, asked, sent>>

Offset == asked.first + Len(sent)
Left == asked.length - Len(sent)

\* What the file gives from a position: less than was asked for, with an error, if it
\* is shorter now.
FromFile(position, length) == SubSeq(file, position + 1, Smaller(position + length, Len(file)))

Deliver(bytes, length) ==
    /\ sent' = sent \o bytes
    /\ scan' = [scan EXCEPT !.mode = CASE Len(bytes) < length -> "cut"
                                       [] Len(sent') = asked.length -> "served"
                                       [] OTHER -> "serve"]
    /\ UNCHANGED <<file, had, sourceSize, insertAt, asked>>

BeforeScript(piece) ==
    /\ scan.mode = "serve" /\ Offset < insertAt
    /\ LET available == Smaller(Smaller(piece, Left), insertAt - Offset) IN
        Deliver(FromFile(Offset, available), available)

InScript(piece) ==
    /\ scan.mode = "serve" /\ Offset >= insertAt /\ Offset < insertAt + Len(Script)
    /\ LET from == Offset - insertAt
           available == Smaller(Smaller(piece, Left), Len(Script) - from) IN
        Deliver(SubSeq(Script, from + 1, from + available), available)

\* Slip: the positions behind the script are not moved back by its length.
AfterScriptUnshifted(piece) ==
    /\ scan.mode = "serve" /\ Offset >= insertAt + Len(Script)
    /\ LET available == Smaller(Smaller(piece, Left), TotalSize - Offset) IN
        Deliver(FromFile(Offset, available), available)

AfterScript(piece) ==
    /\ scan.mode = "serve" /\ Offset >= insertAt + Len(Script)
    /\ LET position == Offset - Len(Script)
           available == Smaller(Smaller(piece, Left), sourceSize - position) IN
        Deliver(FromFile(position, available), available)

Next ==
    \/ SkipBOM \/ Prolog \/ Comment \/ Doctype
    \/ \E first \in 0..(TotalSize - 1), length \in 1..TotalSize : Serve(first, length)
    \/ \E content \in Rewrites : Rewrite(content)
    \/ \E piece \in 1..MaxPiece : BeforeScript(piece) \/ InScript(piece) \/ AfterScript(piece)

Spec == Init /\ [][Next]_vars

-----------------------------------------------------------------------------
(* Properties. *)

\* The page for a content: the script between the two parts of the file.
PageOf(content) ==
    SubSeq(content, 1, insertAt) \o Script \o SubSeq(content, insertAt + 1, Len(content))

\* A range of an artifact is that range of the page, whatever the pieces it is read in;
\* one that is cut short was rewritten meanwhile; and even then each byte comes from
\* its own place, and the script stays whole.
RangeIsInPlace ==
    /\ scan.mode = "served" /\ Len(had) = 1 =>
          sent = SubSeq(PageOf(file), asked.first + 1, asked.first + asked.length)
    /\ scan.mode = "served" => Len(sent) = asked.length
    /\ scan.mode = "cut" => Len(had) > 1
    /\ \A k \in 1..Len(sent) :
          LET position == asked.first + k
              inFile == IF position <= insertAt THEN position ELSE position - Len(Script) IN
          IF position \in insertAt + 1..insertAt + Len(Script)
          THEN sent[k] = Script[position - insertAt]
          ELSE \E content \in ToSet(had) : inFile <= Len(content) /\ sent[k] = content[inFile]

\* A browser's reading of the head of a page (the tokenizer of the HTML standard).  A
\* comment ends at the first ">" behind two dashes, and those of its "<!--" count:
\* "<!-->" and "<!--->" are whole comments.  It ends at "--!>", too, where they do not.
\* Any other "<!", a "<?", and a "</" that no letter follows begin a comment as well,
\* which ends at the first ">".
Opens(s, k) == k + 2 <= Len(s) /\ s[k] = "<!" /\ s[k + 1] = "-" /\ s[k + 2] = "-"
IsDoctype(s, k) == k + 1 <= Len(s) /\ s[k] = "<!" /\ s[k + 1] = "doctype"

OpensBogus(s, k) ==
    /\ k <= Len(s)
    /\ \/ s[k] = "<?"
       \/ s[k] = "<!" /\ ~Opens(s, k) /\ ~IsDoctype(s, k)
       \/ s[k] = "</" /\ k + 1 <= Len(s) /\ s[k + 1] \notin {"x", "doctype"}

Ends(s, k) ==
    IF Opens(s, k)
    THEN {j \in k + 3..Len(s) :
            /\ s[j] = ">"
            /\ \/ s[j - 1] = "-" /\ s[j - 2] = "-"
               \/ j >= k + 6 /\ s[j - 1] = "!" /\ s[j - 2] = "-" /\ s[j - 3] = "-"}
    ELSE IF OpensBogus(s, k) THEN {j \in k + 1..Len(s) : s[j] = ">"}
    ELSE {}

\* Where the first thing that is no space and no comment begins, from each position.
HeadFrom(s) ==
    LET head[k \in 1..(Len(s) + 1)] ==
          IF k <= Len(s) /\ s[k] = "ws" THEN head[k + 1]
          ELSE IF Ends(s, k) # {} THEN head[Min(Ends(s, k)) + 1]
          ELSE k
    IN head[IF Len(s) > 0 /\ s[1] = "bom" THEN 2 ELSE 1]

AfterDoctype(s) ==
    LET k == HeadFrom(s)
        closes == {j \in k..Len(s) : s[j] = ">"} IN
    IF IsDoctype(s, k) /\ closes # {} THEN Min(closes) ELSE 0

\* The comments that the scan knows are closed by the first "-->" behind their "<!--".
Plain(s, k, j) == Opens(s, k) /\ j >= k + 5 /\ s[j - 1] = "-" /\ s[j - 2] = "-"

HasOddComment(s) ==
    \E k \in 1..(HeadFrom(s) - 1) : Ends(s, k) # {} /\ ~Plain(s, k, Min(Ends(s, k)))

\* The script goes right behind the doctype that a browser sees, so that the page
\* does not fall into quirks mode, and to the beginning if there is none; unless the
\* head of the page has a comment that the scan does not know: one that begins
\* otherwise than with "<!--", or ends otherwise than with two dashes of its own
\* and ">".
AfterDoctypeUnlessOdd ==
    scan.mode \in {"open", "serve", "served", "cut"} =>
        HasOddComment(had[1]) \/ insertAt = AfterDoctype(had[1])

=============================================================================
