---------------------------- MODULE MCWebSocket ----------------------------
(* WebSocket for TLC: what a server may send by itself. *)
EXTENDS WebSocket

Text(fin, wrong) == Frame("text", fin, FALSE, wrong)
Packed(fin, wrong) == Frame("text", fin, TRUE, wrong)
More(fin) == Frame("continuation", fin, FALSE, "")
Ping(wrong) == Frame("ping", TRUE, FALSE, wrong)
Close(wrong) == Frame("close", TRUE, FALSE, wrong)

\* Messages, whole and in fragments, a ping between them, and one too many.
Plain == {
  <<>>,
  <<Text(TRUE, ""), Text(TRUE, "")>>,
  <<Text(FALSE, ""), Ping(""), More(TRUE)>>,
  <<Text(FALSE, ""), More(FALSE), More(TRUE)>>,
  <<Text(FALSE, ""), Text(TRUE, "")>>,
  <<Text(TRUE, ""), More(TRUE)>>,
  <<Text(TRUE, "utf8")>>,
  <<Ping("opcode")>>, <<Ping("reserved")>> }

Deflated == {
  <<Packed(TRUE, ""), Text(TRUE, "")>>,
  <<Packed(FALSE, ""), Ping(""), More(TRUE)>>,
  <<Packed(FALSE, ""), More(FALSE), More(TRUE)>>,
  <<Packed(TRUE, ""), More(TRUE)>>,
  <<Packed(TRUE, "deflate")>>,
  <<Packed(TRUE, "utf8")>>,
  <<Packed(TRUE, ""), Ping("opcode")>> }

\* The server closes after its messages, or waits for a Close frame.  Behind
\* what is wrong there is a Close frame, a message before it, or nothing.
Sound(s) == \A i \in DOMAIN s : s[i].wrong = ""
Ends(s) == {<<>>, <<Close("")>>, IF Sound(s) THEN <<Close("body")>> ELSE <<Text(TRUE, ""), Close("")>>}

Scripts(messages) == UNION {{s \o end : end \in Ends(s)} : s \in messages}

MCKinds ==
  [stream : BOOLEAN, deflate : {FALSE}, script : Scripts(Plain)]
    \cup [stream : BOOLEAN, deflate : {TRUE}, script : Scripts(Deflated)]
=============================================================================
