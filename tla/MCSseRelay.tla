------------------------------ MODULE MCSseRelay ------------------------------
(* Messages for checking HttpFraming and SseRelay: one for each framing,       *)
(* followed by another message on the connection, the same cut short anywhere, *)
(* and event streams with events of two lines, of a comment and one, and of    *)
(* one line, the last perhaps without its end; two streams have characters of  *)
(* two bytes, one has lines that end with CR LF.                               *)
EXTENDS SseRelay

MCSizeOf == [t \in {"0", "1", "2"} |-> IF t = "0" THEN 0 ELSE IF t = "1" THEN 1 ELSE 2]

MCHead == <<"get", Eol, Eol>>

MCMessage(framing, length, body) ==
    [framing |-> framing, length |-> length, wire |-> MCHead \o body]

\* The first n tokens of a message.
MCCut(m, n) == [m EXCEPT !.wire = SubSeq(@, 1, n)]

MCLength  == MCMessage("length", 2, <<"a", "b", "get">>)
MCChunks  == MCMessage("chunked", 0, <<"2", Eol, "a", "b", Eol, "1", Eol, "c", Eol,
                                       "0", Eol, "t", Eol, Eol, "get">>)
MCClose   == MCMessage("close", 0, <<"a", "b", "c", "get">>)
MCNothing == MCMessage("none", 0, <<"get">>)
MCNoHead  == {MCCut(MCLength, 1), [MCLength EXCEPT !.wire = <<"get", "get", "get", "get", "get">>]}

MCStream(lines) == MCMessage("events", 0, lines)

MCStreams ==
    {MCStream(<<"a", LF, "b", LF, LF, Comment, LF, "c", LF, LF, "d", LF, LF>>),
     MCStream(<<"a", LF, LF, Comment, LF, LF, "b", LF, LF, "c", LF, "d">>),
     MCStream(<<"a", LF, LF, "b", LF, LF, "c", LF, LF, "d", LF, LF, HI, LO, LF, LF>>),
     MCStream(<<"a", CR, CR, "b", CR, "c", CR, CR>>),
     MCStream(<<"a", HI, LO, LF, LF, HI, LO, "b", LF, LF, HI, LO>>),
     MCStream(<<"a", CR, LF, CR, LF, "b", CR, LF, "c", CR, LF, CR, LF>>)}

\* The messages with a body, where it ends and what it says.
MCBodies ==
    {<<MCLength, 5, <<"a", "b">>>>, <<MCCut(MCLength, 4), 4, <<"a">>>>,
     <<MCClose, 7, <<"a", "b", "c", "get">>>>,
     <<MCChunks, 17, <<"a", "b", "c">>>>,
     <<MCCut(MCChunks, 4), 4, <<>>>>, <<MCCut(MCChunks, 6), 6, <<"a">>>>,
     <<MCCut(MCChunks, 9), 9, <<"a", "b">>>>, <<MCCut(MCChunks, 13), 13, <<"a", "b", "c">>>>,
     <<MCCut(MCChunks, 15), 15, <<"a", "b", "c">>>>}

ASSUME MCMeant == \A b \in MCBodies : Meant(b[1]) = [end |-> b[2], data |-> b[3]]

MCMessages == {b[1] : b \in MCBodies} \cup {MCNothing} \cup MCNoHead \cup MCStreams
=============================================================================
