-------------------------- MODULE InMemoryReaders --------------------------
(***************************************************************************)
(* One row of the in-memory store under its RWMutex (auth-service,         *)
(* internal/store/store.go).  GetUser and GetUserByUsername look the row   *)
(* up under RLock and return a pointer to it; their callers read its       *)
(* fields after RUnlock.  UpdateUser assigns the fields one by one under   *)
(* Lock.  A field is a version number: call n of UpdateUser writes n into  *)
(* every field, so a row is whole iff its fields agree.                    *)
(***************************************************************************)
EXTENDS Integers, Sequences, SequencesExt

CONSTANTS
    Readers, Writers,
    MaxVersion      \* bound on the calls of UpdateUser

NoOne == "no one"

VARIABLES
    row,        \* the fields of the *User in the map
    rlocked,    \* who holds the RWMutex for reading
    wlocked,    \* who holds it for writing, NoOne if nobody does
    version,    \* the number of the latest call of UpdateUser
    todo,       \* the fields the call that holds the lock has yet to assign
    ptr,        \* the readers that were given the pointer
    copy        \* what each reader has read through it

vars == <<row, rlocked, wlocked, version, todo, ptr, copy>>

Fields == <<"Username", "PasswordHash", "Role">>
Field == ToSet(Fields)

Unread == -1
Torn == -2      \* what a string field read during its assignment may give
IsWhole(values) == \A f, g \in Field : values[f] = values[g]

-----------------------------------------------------------------------------
RLock(p) ==
    /\ wlocked = NoOne /\ p \notin rlocked \cup ptr
    /\ rlocked' = rlocked \cup {p}
    /\ UNCHANGED <<row, wlocked, version, todo, ptr, copy>>

(* The row is found, and RUnlock runs as the method returns its address. *)
ReturnUser(p) ==
    /\ p \in rlocked
    /\ rlocked' = rlocked \ {p}
    /\ ptr' = ptr \cup {p}
    /\ copy' = [copy EXCEPT ![p] = [f \in Field |-> Unread]]
    /\ UNCHANGED <<row, wlocked, version, todo>>

(* The caller reads a field; a race with its assignment may tear it. *)
ReadField(p, f) ==
    /\ p \in ptr /\ copy[p][f] = Unread
    /\ \E v \in {row[f]} \cup (IF todo # <<>> /\ Head(todo) = f THEN {Torn} ELSE {}) :
           copy' = [copy EXCEPT ![p][f] = v]
    /\ UNCHANGED <<row, rlocked, wlocked, version, todo, ptr>>

Forget(p) ==
    /\ p \in ptr /\ \A f \in Field : copy[p][f] # Unread
    /\ ptr' = ptr \ {p}
    /\ UNCHANGED <<row, rlocked, wlocked, version, todo, copy>>

Lock(w) ==
    /\ wlocked = NoOne /\ rlocked = {} /\ version < MaxVersion
    /\ wlocked' = w /\ version' = version + 1 /\ todo' = Fields
    /\ UNCHANGED <<row, rlocked, ptr, copy>>

AssignField(w) ==
    /\ wlocked = w /\ todo # <<>>
    /\ row' = [row EXCEPT ![Head(todo)] = version]
    /\ todo' = Tail(todo)
    /\ UNCHANGED <<rlocked, wlocked, version, ptr, copy>>

Unlock(w) ==
    /\ wlocked = w /\ todo = <<>>
    /\ wlocked' = NoOne
    /\ UNCHANGED <<row, rlocked, version, todo, ptr, copy>>

-----------------------------------------------------------------------------
Init ==
    /\ row = [f \in Field |-> 0]
    /\ rlocked = {} /\ wlocked = NoOne /\ version = 0 /\ todo = <<>>
    /\ ptr = {} /\ copy = [p \in Readers |-> [f \in Field |-> Unread]]

Next ==
    \/ \E p \in Readers : \/ RLock(p) \/ ReturnUser(p) \/ Forget(p)
                          \/ \E f \in Field : ReadField(p, f)
    \/ \E w \in Writers : Lock(w) \/ AssignField(w) \/ Unlock(w)

Spec == Init /\ [][Next]_vars

-----------------------------------------------------------------------------
(* Reads may run in parallel and writes one after the other, so what a     *)
(* caller reads of a user is one version of it (store.go:82, :92).         *)
ReadsAreWhole ==
    \A p \in ptr : (\A f \in Field : copy[p][f] # Unread) => IsWhole(copy[p])
=============================================================================
