-------------------------- MODULE MCResponsesStream --------------------------
(* A small instance of ResponsesStream: constants for the .cfg file.       *)
EXTENDS ResponsesStream

C(tag, x, close, y) == [tag |-> tag, x |-> x, close |-> close, y |-> y]

\* Tags in every position, whole and cut in two.
AllTags == {C("none", TRUE, FALSE, FALSE), C("full", FALSE, FALSE, FALSE),
            C("full", TRUE, TRUE, TRUE), C("half", FALSE, FALSE, FALSE),
            C("rest", TRUE, FALSE, FALSE), C("none", FALSE, TRUE, FALSE),
            C("none", TRUE, TRUE, TRUE)}

T(idx, known, args) == [idx |-> idx, known |-> known, args |-> args]
SomeTools == {<<>>, <<T("t0", TRUE, TRUE)>>, <<T("t0", FALSE, TRUE)>>, <<T("t1", TRUE, FALSE)>>,
              <<T("t0", TRUE, FALSE), T("t1", FALSE, TRUE)>>}
===========================================================================
