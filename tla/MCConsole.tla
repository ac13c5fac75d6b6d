----------------------------- MODULE MCConsole -----------------------------
\* Texts for Console: a letter, a line end, a Backspace, and more letters than a line has.
EXTENDS Console
MCTexts == {<<"x">>, <<"nl">>, <<"bs">>, <<"x", "x", "x">>}
=============================================================================
