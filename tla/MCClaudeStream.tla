--------------------------- MODULE MCClaudeStream ---------------------------
(* Small instances of ClaudeStream: constants for the .cfg files.          *)
EXTENDS ClaudeStream

C(tag, x, close, y) == [tag |-> tag, x |-> x, close |-> close, y |-> y]

\* Tags that arrive whole, opening and closing in different deltas.
WholeTags == {C("none", TRUE, FALSE, FALSE), C("full", FALSE, FALSE, FALSE),
              C("full", TRUE, FALSE, FALSE), C("none", FALSE, TRUE, FALSE),
              C("none", TRUE, TRUE, TRUE)}
PlainText == {C("none", TRUE, FALSE, FALSE)}

T(idx, known, args) == [idx |-> idx, known |-> known, args |-> args]
SomeTools == {<<>>, <<T("t0", TRUE, TRUE)>>, <<T("t0", FALSE, TRUE)>>, <<T("t1", TRUE, FALSE)>>,
              <<T("t0", TRUE, FALSE), T("t1", FALSE, TRUE)>>}
===========================================================================
