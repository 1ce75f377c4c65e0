----------------------------- MODULE MCSharing -----------------------------
(* Instances of Sharing for model checking.                                *)
EXTENDS Sharing, TLC

CONSTANTS a, b, c, d, n1

\* a creates the folder and n1 in it.
Four == {a, b, c, d}
Notes == {n1}
Creators == n1 :> a

\* a shares the folder with b and with c, and n1 itself with c as well; b shares
\* it on with d.  a meets b and c, and b meets d.
NoteAsked == {<<a, n1, c>>, <<b, n1, d>>}
FromFounder == {<<a, b>>, <<a, c>>}
Line == {<<c, a>>, <<a, b>>, <<b, d>>}
Neighbours == (a :> {b, c}) @@ (b :> {a, d}) @@ (c :> {a}) @@ (d :> {b})

\* Three who all meet.  a shares n1 with b and c, and b with c as well; a shares
\* it with b alone, and b with c; a shares the folder with b, and b with c.
Three == {a, b, c}
Triangle == {<<a, b>>, <<b, c>>, <<a, c>>}
Acquainted == [u \in Three |-> Three]
Twice == {<<a, n1, b>>, <<a, n1, c>>, <<b, n1, c>>}
Relayed == {<<a, n1, b>>, <<b, n1, c>>}
PassedOn == {<<a, b>>, <<b, c>>}
=============================================================================
