----------------------------- MODULE HttpParser -----------------------------
(***************************************************************************)
(* lightnet::HttpParser as operators on a parser and buf, what is readable *)
(* in its input buffer: units <<what, id, n>>, of a line its text (one unit,*)
(* without the line's end), a CRLF, or one byte of a body.  id is that of  *)
(* the request the unit belongs to, n the value of a Content-Length line,  *)
(* NoNumber for one that std::stoul rejects.                               *)
(***************************************************************************)
EXTENDS Integers, Sequences, FiniteSetsExt, Functions

CRLF     == <<"crlf", 0, 0>>
NoNumber == -2

\* Of request_ the id, the Content-Length header (-1 if there is none) and the body.
NewParser == [state_ |-> "kStartLine", id |-> 0, length |-> -1, body |-> << >>,
              keep_alive_ |-> TRUE]

\* Mutant: the state of the last request is kept.
reset_m(p) == [NewParser EXCEPT !.state_ = p.state_, !.id = p.id]

reset(p) == NewParser

\* find_crlf: where the first line ends, 0 if its end has not arrived.
find_crlf(buf) ==
    LET found == {i \in DOMAIN buf : buf[i] = CRLF} IN IF found = {} THEN 0 ELSE Min(found)

\* The parser after the line that is the units `line'; one that does not parse
\* is an error.
parse_line(p, line) ==
    CASE p.state_ = "kStartLine" /\ line # << >> /\ line[1][1] = "start" ->
            [p EXCEPT !.state_ = "kHeaders", !.id = line[1][2]]
      [] p.state_ = "kHeaders" /\ line = << >> ->
            [p EXCEPT !.state_ = IF p.length >= 0 THEN "kBody" ELSE "kComplete"]
      [] p.state_ = "kHeaders" /\ line # << >> /\ line[1][1] = "length" ->
            [p EXCEPT !.length = line[1][3]]
      [] p.state_ = "kHeaders" /\ line # << >> /\ line[1][1] = "close" ->
            [p EXCEPT !.keep_alive_ = FALSE]
      [] OTHER -> [p EXCEPT !.state_ = "kError"]

\* parse returns: the request is complete or wrong, or waits for more units.
Returns(p, buf) ==
    CASE p.state_ \in {"kComplete", "kError"}     -> TRUE
      [] p.state_ \in {"kStartLine", "kHeaders"}  -> find_crlf(buf) = 0
      [] p.state_ = "kBody"                       -> Len(buf) < p.length

\* Otherwise its loop goes round: the parser after an iteration.  A line in error
\* stays in the buffer.
Line(buf) == SubSeq(buf, 1, find_crlf(buf) - 1)

parse(p, buf) ==
    IF p.state_ = "kBody"
    THEN [p EXCEPT !.state_ = "kComplete", !.body = SubSeq(buf, 1, p.length)]
    ELSE parse_line(p, Line(buf))

\* At the empty line std::stoul throws; the empty line has been retrieved.
Throws(p, buf) ==
    /\ p.state_ = "kHeaders" /\ p.length = NoNumber
    /\ find_crlf(buf) # 0 /\ Line(buf) = << >>

\* How many units the iteration retrieves.
Taken(p, buf) ==
    IF p.state_ = "kBody" THEN p.length
    ELSE IF parse_line(p, Line(buf)).state_ = "kError" THEN 0
    ELSE find_crlf(buf)
=============================================================================
