---------------------------- MODULE MCDocuments ----------------------------
(* Headings of three ranks, a paragraph that fits a chunk with its comment   *)
(* but not with another paragraph, a code block too long for a chunk; a body *)
(* with a section before another, and one of a section alone.  A paragraph   *)
(* may be emptied.                                                           *)
EXTENDS Documents

P(kind, lvl, tokens) == [kind |-> kind, level |-> lvl, tokens |-> tokens]

H1   == P("heading", 1, 1)
H2   == P("heading", 2, 1)
H3   == P("heading", 3, 1)
Text == P("text", 0, 5)
Code == P("code", 0, 9)
Empty == P("text", 0, 0)

MCPayloads == {H1, H2, H3, Text, Code, Empty}
MCAnswers  == {H1, H2, Text}
MCBodies   == {<<H1, Text, H1>>, <<H2, Text>>}
=============================================================================
