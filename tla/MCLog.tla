------------------------------- MODULE MCLog -------------------------------
(***************************************************************************)
(* Instances of BinaryLog for TLC: the strings of a program as it changes  *)
(* from build to build, and its log calls.                                 *)
(***************************************************************************)
EXTENDS BinaryLog, TLC

CONSTANTS c1, c2, uart, ram, uart_t, ram_t

String(text, args, tags, id) == [text |-> text, args |-> args, tags |-> tags, id |-> id]
Type(size, signed, kind) == [size |-> size, signed |-> signed, kind |-> kind]

int8   == Type(1, TRUE, "number")
int16  == Type(2, TRUE, "number")
uint32 == Type(4, FALSE, "number")
int64  == Type(8, TRUE, "number")
class8 == Type(1, TRUE, "class")
plain8 == Type(1, FALSE, "enum")

hello   == String(2, <<>>, {}, -1)
started == String(1, <<>>, {}, 1)        \* asks for the reserved ID 1
value   == String(3, <<int16, int64>>, {}, -1)
state   == String(3, <<class8, plain8>>, {}, -1)
tagged  == String(3, <<class8, plain8>>, {"t"}, -1)

default == String(1, <<>>, {}, -1)
driver  == String(0, <<>>, {}, -1)
tracing == String(2, <<>>, {}, -1)

Program(messages, modules) == [messages |-> messages, modules |-> modules]

\* Strings come and go, change their order, are named twice or with other tags;
\* one program does not link, and has a module too many.
Releases ==
  {Program(<<value, hello>>, <<default>>),
   Program(<<state, hello, value, hello>>, <<default, driver>>),
   Program(<<started, tagged>>, <<driver>>),
   Program(<<tagged, state>>, <<driver, tracing>>)}

Site(level, message, module, args) ==
  [level |-> level, message |-> message, module |-> module, args |-> args]

Sites ==
  {Site(4, hello, default, <<>>), Site(1, started, driver, <<>>)}
    \cup {Site(1, value, default, <<-2, 100>>), Site(4, value, default, <<1, -5>>),
          Site(4, state, driver, <<-1, 1>>), Site(3, tagged, driver, <<0, 1>>)}

BuildIds == {[width |-> 23, named |-> FALSE]}

TwoDestinations == <<uart, ram>>
SectionOf == uart :> uart_t @@ ram :> ram_t

\* What the properties ask of programs, and what the decoding of logs needs.
ASSUME StringsAskWell == AskedAreReserved /\ AskedAlike /\ NoneForgotten
ASSUME ValuesAndIdsFit == CallsFit /\ IdsFit
=============================================================================
