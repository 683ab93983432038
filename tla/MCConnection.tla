--------------------------- MODULE MCConnection ---------------------------
(***************************************************************************)
(* A connection with small limits: at most two arguments of at most two    *)
(* bytes each.                                                             *)
(***************************************************************************)
EXTENDS OneClient

MCArgsMax == 2
MCLenMax  == 2

\* Commands alone, as the client script sends them.
Plain(commands) == [lead |-> <<>>, commands |-> commands, end |-> CRLF, rest |-> <<>>]

\* No command, only what the parser refuses.
Garbage(rest) == [lead |-> <<>>, commands |-> <<>>, end |-> CRLF, rest |-> rest]

\* One and two arguments, two commands; then line ends before a command, an
\* argument that ends in other characters, and text after a command; then the
\* mistakes, one for each test of the parser; then marks without a number.
MCScripts == {
  Plain(<< <<1>> >>),
  Plain(<< <<0, 1>> >>),
  Plain(<< <<0>>, <<1>> >>),
  [Plain(<< <<0>> >>) EXCEPT !.lead = CRLF],
  [Plain(<< <<2>> >>) EXCEPT !.end = <<Byte, Byte>>],
  [Plain(<< <<0>> >>) EXCEPT !.rest = <<Byte, Byte, Byte, Byte>>],
  Garbage(<<Byte>>),
  Garbage(Header("*", 0)),
  Garbage(<<Character("*"), CR, Byte>>),
  Garbage(Header("*", 2) \o Header("$", 0) \o CRLF \o <<Byte>>),
  Garbage(Header("*", 1) \o Header("$", 3)),
  Garbage(<<Character("*")>> \o CRLF \o <<Character("$")>>),
  Garbage(Header("*", 1) \o <<Character("$")>> \o CRLF \o CRLF) }

\* Two commands, and one.
MCTwo  == {Plain(<< <<1>>, <<1>> >>)}
MCOne  == {Plain(<< <<0>> >>)}

Anything == {"sent", "queued", "failed"}
SentOrQueued == {"sent", "queued"}
OnlySent     == {"sent"}
=============================================================================
