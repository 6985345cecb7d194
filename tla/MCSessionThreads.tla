-------------------------- MODULE MCSessionThreads --------------------------
\* Output that is hard to take apart, keys with a Ctrl+C among them, and a
\* terminal that is resized twice.
EXTENDS SessionThreads

Marker == << Formatted("S"), <<"x">> >>
Behind == << <<"x", "e">>, Formatted("C") >>                 \* a start before one
Spoilt == << <<"e", "o", "k", "x">>, Formatted("N") >>       \* one spoilt by it
Capped == << <<"e", "o", "k">>, <<"x", "x", "x">>, <<"t">> >>

Scenario(out, in, times) == [writes |-> out, keys |-> in, resizes |-> times]
MCScenarios ==
    { Scenario(Marker, <<"1", "^", "2">>, 0), Scenario(Behind, <<"1">>, 0),
      Scenario(Spoilt, <<"1">>, 0), Scenario(Capped, <<"1">>, 0),
      Scenario(Marker, <<>>, 2) }
=============================================================================
