------------------------ MODULE MCTerminalController ------------------------
EXTENDS TerminalController

CONSTANTS a, b, t, u

\* A terminal with two tokens, another one with another runtime, and none at all.
MCViews == {[terminal |-> a, token |-> t, runtime |-> 1],
            [terminal |-> a, token |-> u, runtime |-> 1],
            [terminal |-> b, token |-> t, runtime |-> 2],
            [terminal |-> NoTerminal, token |-> t, runtime |-> 1]}
=============================================================================
