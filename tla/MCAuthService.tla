--------------------------- MODULE MCAuthService ---------------------------
(***************************************************************************)
(* Instances of AuthService for TLC.                                       *)
(***************************************************************************)
EXTENDS AuthService, TLC

CONSTANTS h1, h2, pw1, pw2, pwBlank, pwLong, blank, p1, p2, t1, t2

(* One hash per password; pwLong, longer than bcrypt takes, has none. *)
OneHash == h1 :> pw1
TwoHashes == h1 :> pw1 @@ h2 :> pw2

(* Goroutines are interchangeable, and so are random session tokens. *)
Symmetry == Permutations({p1, p2}) \cup Permutations({t1, t2})
=============================================================================
