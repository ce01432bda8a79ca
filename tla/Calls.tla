-------------------------------- MODULE Calls --------------------------------
(***************************************************************************)
(* What the TCP programs send and the calls they make, of which Scripts    *)
(* makes the programs and which Streams runs; and what a server computes   *)
(* from a request before its next calls are known.  A text is two units,   *)
(* of which the second ends the line; an int is two as well, its low byte  *)
(* and the rest, which a read may separate.                                *)
(***************************************************************************)
EXTENDS Turns

CONSTANTS Clients,    \* the client processes
          BUF_SIZE,   \* units one read can take
          Lines,      \* lines a user types before Q
          Rounds,     \* iterations of a server's for loop over accept
          Word        \* values of an int: 0..Word-1, as the sum wraps around

ASSUME ScriptConstants == /\ BUF_SIZE \in Nat \ {0} /\ Lines \in Nat
                          /\ Rounds \in Nat \ {0} /\ Word \in Nat \ {0}

\* What is sent: lines of text, ints, numbers of one byte, and the name of a file,
\* of which the whole array goes out.
Text(c, k) == << <<"text", c, k>>, <<"nl", c, k>> >>
Number(v)  == << <<"int", v>>, <<"rest", v>> >>
Byte(n)    == << <<"byte", n>> >>
Name(c)    == << <<"name", c>>, <<"end", c>>, <<"fill", c>> >>
file_contents == Text("file", 1)
other_file    == Text("other", 1)   \* of the file a part of the name names
Ends(m)    == \E i \in DOMAIN m : m[i][1] = "nl"
Whole(m)   == m[Len(m)][1] \notin {"text", "int", "name"}   \* m stops at the end of an item

\* What one read leaves in an int that held one of kept: the int that was sent; a
\* new low byte, of the int or of another's rest, in front of what was there; or
\* characters, which make a number that is more than ever comes.
Many == 100
Anything == {-Many, 0, Many}   \* in an int that was not set
Above(v) == IF v \in {-Many, Many} THEN v ELSE 0   \* v without its low byte
IntRead(piece, kept) ==
    CASE piece[1][1] = "int"  -> IF Len(piece) = 2 THEN {piece[1][2]}
                                 ELSE {piece[1][2] + Above(v) : v \in kept}
      [] piece[1][1] = "rest" -> IF Len(piece) = 1 THEN {Above(v) : v \in kept} ELSE {Many}
      [] OTHER                -> {Many}
Garbage == Word                \* an int nobody has computed

\* The calls; chk says whether the code tests the result for -1.
Check == TRUE
Call(name) == [op |-> name]
Listen == Call("listen")     Connect == Call("connect")
Accept == [op |-> "accept", chk |-> Check]
AcceptAnyway == [Accept EXCEPT !.chk = FALSE]
Close  == Call("close")      CloseW == Call("closew")     CloseL  == Call("closel")
Dup    == Call("dup")        Shut   == Call("shut")       Exit    == Call("exit")
Lock   == Call("lock")       Unlock == Call("unlock")     Copy    == Call("copy")
Spawn  == Call("spawn")      \* a thread for the accepted socket
Peek   == Call("peek")       \* MSG_PEEK | MSG_DONTWAIT until something is there
Arm    == Call("arm")        \* WSARecv with a completion routine: its result is not tested
Calculate == Call("calculate") \* write the result of the request just read
Route  == Call("route")      \* look at the request line and answer
Write(m)         == [op |-> "write", m |-> m]
Input(name, n, chk) == [op |-> name, n |-> n, chk |-> chk, left |-> 0, size |-> 0]
Read(n, chk)     == Input("read", n, chk)           \* one read
Gets             == Input("gets", BUF_SIZE, FALSE)  \* fgets on the socket's stream
Count(k, chk)    == [Input("count", BUF_SIZE, chk) EXCEPT !.left = k]  \* read k units
UntilEof(n, chk) == Input("eof", n, chk)            \* read until 0
Echo             == Input("echo", BUF_SIZE, FALSE)  \* ... writing back each piece
EchoLine         == Input("echoline", BUF_SIZE, FALSE)  \* fgets, fputs, fflush
\* A number of one byte, then size * number + left units.
Sized(size, left) == [Input("sized", 1, FALSE) EXCEPT !.left = left, !.size = size]
\* A count into an int that was not set, then a read for each operand.
Operands == [op |-> "operands", n |-> 2, chk |-> Check, kept |-> Anything]
Open             == Call("open")   \* open the file that was asked for and send it

\* A letter: one read of its length into an int that held one of kept, then reads
\* until as much has come, each to the start of the buffer; behind what is stored
\* the buffer goes on as one of tails, and all of it is printed.
Cleared == {<<>>}
Unset   == {<<>>, << <<"garbage">> >>}
ReadLetter(kept, tails) ==
    [op |-> "length", n |-> 2, chk |-> FALSE, kept |-> kept, tails |-> tails]
Show(m, tails) == [op |-> "show", m |-> m, tails |-> tails]
\* In a changed program: the last unit is not waited for.
OneShort(left, m, tails) ==
    IF left <= 1 THEN Show(m, tails)
    ELSE [op |-> "letter", n |-> BUF_SIZE, chk |-> FALSE, left |-> left, m |-> m, tails |-> tails]
MoreOf(left, m, tails) ==
    IF left <= 0 THEN Show(m, tails)
    ELSE [op |-> "letter", n |-> BUF_SIZE, chk |-> FALSE, left |-> left, m |-> m, tails |-> tails]

-----------------------------------------------------------------------------
(* Chapter 5: the calculator's results.                                    *)

Apply(x, op, y) == CASE op = "+" -> (x + y) % Word
                     [] op = "-" -> (x - y) % Word
                     [] op = "*" -> (x * y) % Word
calculate(opnum, opnds, op) ==
    LET value[k \in 1..opnum] ==
            IF k = 1 THEN opnds[1] ELSE Apply(value[k - 1], op, opnds[k])
    IN  value[opnum]

(* Chapter 24: the requests of a browser and their answers.                *)

\* A browser sends its request line and its headers, and reads Page or Error
\* until the connection closes.
Requests == {"get", "missing", "post", "junk"}
Request(c, kind) == << <<"text", c, kind>>, <<"nl", c, kind>>, <<"headers", c>> >>
Page(c)  == << <<"page", c>> >>
Error(c) == << <<"error", c>> >>
browser(c, kind) == <<Connect, Write(Request(c, kind)), UntilEof(BUF_SIZE, Check), Close, Exit>>

\* In a changed program the method is not looked at.
NoMethodTest(kind, c) == IF kind \in {"get", "post"} THEN <<Close, Write(Page(c)), CloseW>>
                         ELSE <<Write(Error(c)), Close, CloseW>>

\* What the handlers do once they know the request.
Answer(kind, c) == CASE kind = "get"                 -> <<Close, Write(Page(c)), CloseW>>
                     [] kind = "missing"             -> <<Close, Write(Error(c))>>
                     [] kind \in {"post", "junk"}    -> <<Write(Error(c)), Close, CloseW>>
\* In a changed program every answer is the error, and the socket is closed twice.
ClosesMissingTwice(kind, c) == <<Write(Error(c)), Close, Close>>
AnswerWin(kind, c) == CASE kind = "get"     -> <<Write(Page(c)), Close>>
                        [] kind = "missing" -> <<Write(Error(c)), Close>>
                        [] kind = "post"    -> <<Write(Error(c)), Close, Write(Page(c)), Close>>
                        [] kind = "junk"    -> <<Write(Error(c)), Close, Close>>
=============================================================================
