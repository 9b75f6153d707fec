------------------------------ MODULE Keystore ------------------------------
(***************************************************************************)
(* The keystore table and the operations of core/keystore.cpp on it.  Each *)
(* opens the database, runs one statement and closes it, so each is one    *)
(* atomic step; a program that needs two of them has others in between.    *)
(*                                                                         *)
(* Every one of them may also fail (a lock held for longer than the busy   *)
(* timeout, an unreadable file), and then changes nothing: where that      *)
(* matters, the callers have a disjunct for it.                            *)
(***************************************************************************)

CONSTANTS
    Id,             \* well-formed device IDs, provisioned or not
    Key,            \* keys ever generated, all different
    Label

VARIABLE keystore   \* keystore[id]: the row of id

Nothing == "nothing"
NoRow == [status |-> Nothing, key |-> Nothing, note |-> Nothing]
Row == [status : {"active", "revoked"}, key : Key, note : Label]

\* find_device() returns Found.
Found(id) == keystore[id] # NoRow
Active(id) == keystore[id].status = "active"

Occupied(id) == FALSE               \* mutation: ID is no primary key
Conflict(id) == Found(id)

\* add_device(): an INSERT, which the primary key makes fail for a taken ID.
AddDevice(id, key, label) ==
    /\ ~Conflict(id)
    /\ keystore' = [keystore EXCEPT ![id] = [status |-> "active", key |-> key, note |-> label]]

\* set_device_status() and set_device_note(): an UPDATE, which matches no row
\* when the ID is unknown.
SetDeviceStatus(id, status) ==
    keystore' = [keystore EXCEPT ![id] = IF Found(id) THEN [@ EXCEPT !.status = status] ELSE @]

SetDeviceNote(id, label) ==
    keystore' = [keystore EXCEPT ![id] = IF Found(id) THEN [@ EXCEPT !.note = label] ELSE @]

KeystoreOK == keystore \in [Id -> Row \cup {NoRow}]
=============================================================================
