--------------------------- MODULE MCCommandPalette ---------------------------
(* The instance of CommandPalette that MCSteps has, with lists that change.    *)
EXTENDS CommandPalette, TLC

TwoListings == {[chats |-> <<"c1", "c2">>, models |-> <<"m1">>],
                [chats |-> <<"c2">>, models |-> <<>>]}
SomeMatches == "" :> {} @@ "zz" :> {}
               @@ "s" :> {"settings", "search", "c1", "m1", "cheatsheet"}
=============================================================================
