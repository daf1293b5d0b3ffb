---------------------------- MODULE Description ----------------------------
(***************************************************************************)
(* SanitizeDescription: the HTML of a posting becomes plain text with a      *)
(* bullet for every list item (internal/normalizer/sanitize.go).             *)
(*                                                                          *)
(* HTML is the sequence of what the tokenizer reports, tags and the atoms of *)
(* the text between them; a text node is a maximal run of atoms.  A blank    *)
(* stands for any run of white space in the source, its line breaks and      *)
(* non-breaking spaces included; b stands for every tag the code does not    *)
(* name, and p for the six headings too.                                     *)
(***************************************************************************)
EXTENDS Text

RawTextStart == {"<script>", "<style>"}
RawTextEnd == {"</script>", "</style>"}

Tags ==
    RawTextStart \cup RawTextEnd \cup
    {"<b>", "</b>", "<p>", "</p>", "<div>", "</div>", "<br>", "<li>", "</li>",
     "<ul>", "</ul>", "<ol>", "</ol>"}

\* The tags that start a new line of the output.
BreakingTags ==
    {"<p>", "</p>", "<div>", "</div>", "<br>", "<li>", "<ul>", "<ol>"}

\* Mutant of Shown: a blank at the edge of a text node is trimmed away.
ShownTrimmed(html, i) ==
    /\ html[i] \notin Tags
    /\ html[i] = Blank =>
          i > 1 /\ i < Len(html) /\ html[i - 1] \notin Tags /\ html[i + 1] \notin Tags

\* Atom i is text of a node that is more than white space.
Shown(html, i) ==
    /\ html[i] \notin Tags
    /\ \E j \in DOMAIN html :
          /\ html[j] # Blank
          /\ \A k \in DOMAIN html :
                (i <= k /\ k <= j) \/ (j <= k /\ k <= i) => html[k] \notin Tags

\* What is written so far: the lines, and how many script or style elements
\* are open.
WriteAtom(out, html, i) ==
    LET tag == html[i]
        line == Len(out.lines)
    IN  CASE tag \in RawTextStart -> [out EXCEPT !.skipDepth = @ + 1]
          [] tag \in RawTextEnd /\ out.skipDepth > 0 -> [out EXCEPT !.skipDepth = @ - 1]
          [] tag \in BreakingTags ->
                [out EXCEPT !.lines =
                    Append(@, IF tag = "<li>" THEN <<"-", Blank>> ELSE <<>>)]
          [] Shown(html, i) /\ out.skipDepth = 0 ->
                [out EXCEPT !.lines[line] = Append(@, html[i])]
          [] OTHER -> out

\* Each line without superfluous blanks, and no blank line at either end or
\* next to another one.
CollapseWhitespace(lines) ==
    Collapse([n \in DOMAIN lines |-> Collapse(lines[n], Blank)], <<>>)

Joined(lines) == Spaced(lines, <<LineBreak>>)

\* What is written when the loop has seen the first i atoms.
WrittenUpTo(html) ==
    LET out[i \in 0 .. Len(html)] ==
            IF i = 0 THEN [lines |-> <<<<>>>>, skipDepth |-> 0]
            ELSE WriteAtom(out[i - 1], html, i)
    IN  out

SanitizeDescription(html) ==
    Joined(CollapseWhitespace(WrittenUpTo(html)[Len(html)].lines))
=============================================================================
