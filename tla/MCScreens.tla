----------------------------- MODULE MCScreens ------------------------------
EXTENDS Screens

Pass(text, len, classes) == [text |-> text, len |-> len, classes |-> classes, run |-> 1, personal |-> FALSE]

MCChosen == { Pass("own", 8, 3), Pass("other", 10, 2) }
=============================================================================
