------------------------------ MODULE MCSessions ------------------------------
(***************************************************************************)
(* An instance of Sessions for TLC: two registrations of one address in    *)
(* two spellings, one of another address, and a login to the first.        *)
(***************************************************************************)
EXTENDS Sessions, TLC

CONSTANTS r1, r2, r3, login, ada, Ada, bola, p, q, n1, n2, n3

MCSpelling == (r1 :> ada) @@ (r2 :> Ada) @@ (r3 :> bola) @@ (login :> Ada)
MCPassword == (r1 :> p) @@ (r2 :> q) @@ (r3 :> p) @@ (login :> p)
MCLower == (ada :> ada) @@ (Ada :> ada) @@ (bola :> bola)
=============================================================================
