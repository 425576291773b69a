--------------------------- MODULE MCEventSource ---------------------------
(***************************************************************************)
(* Servers for TLC: streams whose lines end in each of the three ways,     *)
(* with and without ids, and streams beyond the limit of an event.         *)
(***************************************************************************)
EXTENDS EventSource

MCTimeOf(value) == CASE value = "5" -> 5 [] value = "huge" -> 99 [] OTHER -> 0

\* A BOM, and ids a broken connection resumes from.
WithIds ==
  [bom |-> TRUE, max |-> 0, blocks |->
    << <<"data", "a", "LF", "id", "1", "LF", "LF">>,
       <<"id", "2", "LF", "data", "b", "LF", "data", "LF", "LF">> >>]

\* CR LF, a comment, a reconnection time setTimeout cannot wait for.
WithRetry ==
  [bom |-> FALSE, max |-> 0, blocks |->
    << <<"comment", "x", "CR", "LF", "retry", "huge", "CR", "LF",
         "data", "a", "CR", "LF", "CR", "LF">>,
       <<"retry", "5", "CR", "LF", "event", "e", "CR", "LF", "data", "CR", "LF", "CR", "LF">> >>]

\* CR alone, an id that is ignored, one without data, one no header can carry.
WithOddIds ==
  [bom |-> FALSE, max |-> 0, blocks |->
    << <<"id", "NUL", "CR", "data", "a", "CR", "CR">>,
       <<"id", "7", "CR", "CR">>,
       <<"other", "y", "CR", "data", "b", "CR", "retry", "x", "CR", "CR">>,
       <<"id", "ctl", "CR", "CR">> >>]

\* The second event is one symbol too big, lines joined.
TooMuchData ==
  [bom |-> FALSE, max |-> 2, blocks |->
    << <<"data", "a", "b", "LF", "LF">>,
       <<"data", "a", "LF", "data", "b", "LF", "LF">> >>]

\* A line that fits no event, in a stream that begins like a BOM.
TooLong ==
  [bom |-> FALSE, max |-> 1, blocks |->
    << <<"EF", "LF", "data", "a", "LF", "LF">>, <<"EF", "BB", "x", "y", "LF", "LF">> >>]

MCScripts == {WithIds, WithRetry, WithOddIds, TooMuchData, TooLong}
MCUnsendable == {"ctl"}

=============================================================================
