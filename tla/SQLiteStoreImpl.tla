-------------------------- MODULE SQLiteStoreImpl --------------------------
(***************************************************************************)
(* SQLiteStore implements StoreAPI with a precision of one second: the     *)
(* stored times are read back as whole seconds, and the ids given out are  *)
(* those up to the table's AUTOINCREMENT sequence.                         *)
(***************************************************************************)
EXTENDS SQLiteStore

ReadUser(row) == [row EXCEPT !.createdAt = Parse(row.createdAt)]

ReadSession(row) ==
    [row EXCEPT !.createdAt = Parse(row.createdAt), !.expiresAt = Parse(row.expiresAt)]

API == INSTANCE StoreAPI WITH
    IDs             <- (1..MaxUserID) \cup (1..MaxSessionID),
    Precision       <- SecondTicks,
    users           <- [id \in DOMAIN users |-> ReadUser(users[id])],
    sessions        <- [id \in DOMAIN sessions |-> ReadSession(sessions[id])],
    spentUserIDs    <- 1..userSeq,
    spentSessionIDs <- 1..sessionSeq

(* The store keeps every promise of the interface, whatever methods are    *)
(* called in whatever order: ids are never reused, times lose less than a  *)
(* second, the sweep takes no session before its time                      *)
(* (sqlite.go:85-591).                                                     *)
ImplementsStoreAPI == API!Spec

(* The listing, which compares the stored texts, shows exactly the         *)
(* sessions whose expiry, read back, lies ahead of the present moment      *)
(* (sqlite.go:525, :528), at every point within a second.                  *)
ListingAgrees ==
    \A uid \in 1..MaxUserID : ListSessionsByUserID(uid) = API!ListSessionsByUserID(uid)
=============================================================================
