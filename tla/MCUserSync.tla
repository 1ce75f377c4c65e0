----------------------------- MODULE MCUserSync -----------------------------
\* Instances of UserSync for TLC.
EXTENDS UserSync

CONSTANTS r1, r2, f1, f2

Two == {r1, r2}
OneFolder == {f1}
TwoFolders == {f1, f2}

Together == r1 :> f1 @@ r2 :> f1
Apart == r1 :> f1 @@ r2 :> f2
=============================================================================
