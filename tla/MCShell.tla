------------------------------ MODULE MCShell -------------------------------
(* A small console for TLC. *)
EXTENDS Shell

SmallKeys == {<<"7", "&", "7", "&">>, <<"5", "%", "5", "%">>,
              <<Backspace, Backspace, Backspace, Backspace>>, <<"\n", "\n", "\n", "\n">>}
Buttons(l, r, dx, dy) == [left |-> l, right |-> r, dx |-> dx, dy |-> dy]
SmallPackets ==
    {Buttons(TRUE, FALSE, 1, -1), Buttons(TRUE, FALSE, -1, 0), Buttons(FALSE, TRUE, 0, 0),
     Buttons(FALSE, FALSE, 0, 0)}
=============================================================================
