------------------------------ MODULE Addresses ------------------------------
(***************************************************************************)
(* AddressListCreateView and AddressDetailView.                            *)
(***************************************************************************)
EXTENDS CustomerDB

Default == {a \in Ids : address[a] = "default"}
Exists(a) == address[a] \in {"plain", "default"}

others == <<cart, catalogue, synced, checkout>>

\* POST: a default address first takes the flag from the others.
AddressPost(w) ==
    /\ \E a \in Ids, flag \in {"plain", "default"} :
          /\ address[a] = "new" /\ \A v \in Workers : req[v].id # a
          /\ Begin(w, [Idle EXCEPT !.pc = IF flag = "default" THEN "clear" ELSE "insert",
                                   !.id = a, !.flag = flag])
    /\ UNCHANGED <<address, others>>

\* Faulty variant: the flag of the others is left.
KeepDefaults(w) == /\ req[w].pc = "clear"
                   /\ Goto(w, "insert")
                   /\ UNCHANGED <<address, others, counted>>

ClearDefaults(w) ==
    /\ req[w].pc = "clear"
    /\ address' = [a \in Ids |-> IF a \in Default THEN "plain" ELSE address[a]]
    /\ Goto(w, "insert")
    /\ UNCHANGED <<others, counted>>

\* Faulty variant: the row is looked for among the deleted ones too.
AddressPutAny(w) ==
    /\ \E a \in Ids, flag \in {"plain", "default"} :
          /\ address[a] # "new"
          /\ Begin(w, [Idle EXCEPT !.pc = IF flag = "default" THEN "clearOthers" ELSE "save",
                                   !.id = a, !.flag = flag])
    /\ UNCHANGED <<address, others>>

\* PUT: the row is read; an address that is gone is not found.
AddressPut(w) ==
    /\ \E a \in Ids, flag \in {"plain", "default"} :
          /\ Exists(a)
          /\ Begin(w, [Idle EXCEPT !.pc = IF flag = "default" THEN "clearOthers" ELSE "save",
                                   !.id = a, !.flag = flag])
    /\ UNCHANGED <<address, others>>

ClearOthers(w) ==
    /\ req[w].pc = "clearOthers"
    /\ address' = [a \in Ids |-> IF a \in Default \ {req[w].id} THEN "plain" ELSE address[a]]
    /\ Goto(w, "save")
    /\ UNCHANGED <<others, counted>>

\* The row is inserted, or saved with every column; save() inserts a row that
\* has been deleted in the meantime.
SaveAddress(w) ==
    /\ req[w].pc \in {"insert", "save"}
    /\ address' = [address EXCEPT ![req[w].id] = req[w].flag]
    /\ Answer(w)
    /\ UNCHANGED <<others, counted>>

\* DELETE: read, then deleted, also by somebody else.
AddressDelete(w) ==
    /\ \E a \in Ids : Exists(a) /\ Begin(w, [Idle EXCEPT !.pc = "delete", !.id = a])
    /\ UNCHANGED <<address, others>>

DeleteAddress(w) ==
    /\ req[w].pc = "delete"
    /\ address' = [address EXCEPT ![req[w].id] = "gone"]
    /\ Answer(w)
    /\ UNCHANGED <<others, counted>>

-----------------------------------------------------------------------------
\* The addresses that are about to be written as the default one.
Chosen(w) == req[w].pc \in {"insert", "save"} /\ req[w].flag = "default"
Pending   == {req[w].id : w \in {v \in Workers : Chosen(v)}}

\* A customer has no more default addresses than requests run at a time, those
\* about to become it included, although each clears the others in one
\* statement and writes its own in another.  One by one: no more than one.
DefaultsBounded == Cardinality(Default \cup Pending) <= Cardinality(Workers)

\* A deleted address stays deleted, as long as requests are served one by one.
AddressStaysGone ==
    [][~overlapped => \A a \in Ids : address[a] = "gone" => address'[a] = "gone"]_vars
=============================================================================
