------------------------------ MODULE UserStore ------------------------------
(***************************************************************************)
(* The user service (cmd/user) over the simulated database and cache       *)
(* (internal/platform): a read goes to the cache first and fills it on a   *)
(* miss; an update reads the row, writes the merged row and then drops the *)
(* cached copy; a creation writes a row under an identifier drawn at       *)
(* random and touches no cache.  Each access sleeps before it takes the    *)
(* store's lock, so other requests come between any two accesses of one.   *)
(*                                                                         *)
(* A row is its fields.  What changes nothing is left out: simulated       *)
(* errors, bad bodies, listings and cache hits.  CreatedAt never changes.  *)
(***************************************************************************)
EXTENDS Naturals

CONSTANTS
    Seeded,     \* identifiers of the seeded users
    Drawn,      \* identifiers createUser may draw
    Fields,     \* name and email
    Values,     \* values of a field that clients send
    OldValue,   \* that of the seeded rows
    Callers,    \* requests in progress
    MaxWrites   \* bound: rows written

VARIABLES
    rows,    \* db.data["users"]
    cached,  \* cache.store
    call,    \* requests, and what each has read
    writes,  \* rows written so far
    meant,   \* history: rows as the writes answered describe them
    misfit,  \* history: ids cached by a fill that a write overtook, or before a creation
    raced    \* history: ids written by an update another write overtook

history == <<meant, misfit, raced>>
vars == <<rows, cached, call, writes, history>>

-----------------------------------------------------------------------------
Ids == Seeded \cup Drawn

Users == [Fields -> Values]

(* overtaken: the row was written since this request read it.              *)
Idle == [at |-> "idle", id |-> "", user |-> <<>>, overtaken |-> FALSE]

Init ==
    /\ rows = [id \in Seeded |-> [f \in Fields |-> OldValue]]
    /\ cached = <<>>
    /\ call = [c \in Callers |-> Idle]
    /\ writes = 0
    /\ meant = rows /\ misfit = {} /\ raced = {}

(* An entry of a map, new or overwritten.                                  *)
Put(map, id, user) == [k \in DOMAIN map \cup {id} |-> IF k = id THEN user ELSE map[k]]

(* A write: DB.Insert or DB.Update.                                        *)
Write(id, user) ==
    /\ writes < MaxWrites
    /\ writes' = writes + 1
    /\ rows' = Put(rows, id, user)

Overtake(id) ==
    [d \in Callers |-> IF call[d].id = id /\ call[d].at \in {"fill", "merge"}
                       THEN [call[d] EXCEPT !.overtaken = TRUE] ELSE call[d]]

-----------------------------------------------------------------------------
(* getUser, when Cache.Get misses: the key is absent, or a stampede hides  *)
(* it without removing it.                                                 *)
Miss(c, id) ==
    /\ call[c].at = "idle"
    /\ call' = [call EXCEPT ![c] = [Idle EXCEPT !.at = "miss", !.id = id]]
    /\ UNCHANGED <<rows, cached, writes, history>>

(* DB.Get; without a row the answer is 404.                                *)
ReadRow(c, from, to) ==
    /\ call[c].at = from
    /\ call' = [call EXCEPT ![c] =
          IF @.id \in DOMAIN rows
          THEN [at |-> to, id |-> @.id, user |-> rows[@.id], overtaken |-> FALSE] ELSE Idle]
    /\ UNCHANGED <<rows, cached, writes, history>>

Fill(c) ==
    LET id == call[c].id
    IN  /\ call[c].at = "fill"
        /\ cached' = Put(cached, id, call[c].user)
        /\ misfit' = IF call[c].overtaken THEN misfit \cup {id} ELSE misfit \ {id}
        /\ call' = [call EXCEPT ![c] = Idle]
        /\ UNCHANGED <<rows, writes, meant, raced>>

(* createUser.                                                             *)
Create(c, id, user) ==
    /\ call[c].at = "idle"
    /\ Write(id, user)
    /\ call' = Overtake(id)
    /\ meant' = Put(meant, id, user)
    /\ misfit' = misfit \cup ({id} \cap DOMAIN cached)
    /\ raced' = raced \ {id}
    /\ UNCHANGED cached

(* updateUser.                                                             *)
BeginUpdate(c, id) ==
    /\ call[c].at = "idle"
    /\ call' = [call EXCEPT ![c] = [Idle EXCEPT !.at = "read", !.id = id]]
    /\ UNCHANGED <<rows, cached, writes, history>>

(* What a client sends: a value for one field, for both, or for neither.   *)
Bodies == UNION {[sent -> Values] : sent \in SUBSET Fields}

Merged(user, body) == [f \in Fields |-> IF f \in DOMAIN body THEN body[f] ELSE user[f]]

(* The merge of what was sent into what was read, and DB.Update, which     *)
(* writes back what it read if nothing was sent.                           *)
Update(c, body) ==
    LET id == call[c].id
    IN  /\ call[c].at = "merge"
        /\ Write(id, Merged(call[c].user, body))
        /\ call' = [Overtake(id) EXCEPT ![c] = [Idle EXCEPT !.at = "drop", !.id = id]]
        /\ meant' = [meant EXCEPT ![id] = Merged(@, body)]
        /\ raced' = IF call[c].overtaken THEN raced \cup {id} ELSE raced
        /\ UNCHANGED <<cached, misfit>>

MutDropCached(c) ==
    /\ call[c].at = "drop"
    /\ call' = [call EXCEPT ![c] = Idle]
    /\ UNCHANGED <<rows, cached, writes, history>>

(* Cache.Delete.                                                           *)
DropCached(c) ==
    LET id == call[c].id
    IN  /\ call[c].at = "drop"
        /\ cached' = [k \in DOMAIN cached \ {id} |-> cached[k]]
        /\ misfit' = misfit \ {id}
        /\ call' = [call EXCEPT ![c] = Idle]
        /\ UNCHANGED <<rows, writes, meant, raced>>

Next == \E c \in Callers :
    \/ \E id \in Ids : Miss(c, id) \/ BeginUpdate(c, id)
    \/ ReadRow(c, "miss", "fill") \/ ReadRow(c, "read", "merge")
    \/ Fill(c)
    \/ \E id \in Drawn, user \in Users : Create(c, id, user)
    \/ \E body \in Bodies : Update(c, body)
    \/ DropCached(c)

Spec == Init /\ [][Next]_vars

-----------------------------------------------------------------------------
(* Two windows, and no other way to go wrong.  The cache disagrees with    *)
(* the database only while the update that made it so has yet to drop the  *)
(* copy, or after a fill that a write overtook, or after a creation drew   *)
(* the identifier of a cached user; and the next update mends it.  A field *)
(* somebody sent is lost only to an update that read its row before it was *)
(* sent.                                                                   *)
UsersConsistent ==
    /\ \A id \in DOMAIN cached : cached[id] # rows[id] =>
          id \in misfit \/ \E c \in Callers : call[c].at = "drop" /\ call[c].id = id
    /\ \A id \in DOMAIN rows : rows[id] # meant[id] => id \in raced
=============================================================================
