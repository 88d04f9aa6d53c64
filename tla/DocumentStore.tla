--------------------------- MODULE DocumentStore ---------------------------
(***************************************************************************)
(* What a document store promises its callers about one document           *)
(* (apps/server/src/persistence/store.ts): append makes a batch readable,  *)
(* nothing ever stops being readable, and compact changes nothing a reader *)
(* can see.                                                                *)
(***************************************************************************)
CONSTANT Batches   \* merged Yjs updates handed to append()

VARIABLES saved,   \* the batches load() would return
          acked    \* the batches whose append() resolved

vars == <<saved, acked>>

Init == saved = {} /\ acked = {}

(* append() takes effect and resolves. *)
Append(b) ==
    /\ saved' = saved \cup {b}
    /\ acked' = acked \cup {b}

(* append() takes effect, but its caller is told that it failed. *)
AppendUnacknowledged(b) ==
    /\ saved' = saved \cup {b}
    /\ UNCHANGED acked

Next == \E b \in Batches : Append(b) \/ AppendUnacknowledged(b)

Spec == Init /\ [][Next]_vars

=============================================================================
