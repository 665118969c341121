---------------------------- MODULE MCGuiWindow ----------------------------
(* GuiWindow for TLC: ints up to 7, sizes up to 255, megabytes of 2 bytes. *)
EXTENDS GuiWindow

CONSTANTS home, deep

\* The default, one with a comment behind it, and one too long for the form,
\* which is cut to another folder.
MCTexts == {[body |-> home, extra |-> FALSE], [body |-> home, extra |-> TRUE],
            [body |-> deep, extra |-> FALSE]}
MCCut == [t \in [body : {home, deep}, extra : BOOLEAN] |-> [t EXCEPT !.body = home]]

\* Negative, the largest int, which is no whole megabyte, and one more.
MCNumbers == {-1, 7, 8}
MCMegabytes == {2}
=============================================================================
