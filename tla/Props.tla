------------------------------- MODULE Props -------------------------------
(***************************************************************************)
(* struct props: a partial function from property names to values, whose   *)
(* domain is the mask of the properties that are set, when a component may *)
(* have them, and what an edit spec does to them.  An edit spec has the    *)
(* properties to be set, in the field p, and the names of those to be      *)
(* removed, in the field rem.                                              *)
(***************************************************************************)
EXTENDS Integers

DateKeys == {"start", "end", "due"}

NoProps == [k \in {} |-> 0]

(***************************************************************************)
(* Copies                                                                  *)
(***************************************************************************)
\* free_vec_default leaves a vector of struct str behind, whatever it was a
\* vector of: relations that are copied into it are cut off, and what is read
\* of the copy is not what was written.
Torn == "torn"

Copied(k, v) == IF k = "related_to" THEN Torn ELSE v

props_union(p, q) ==
    [k \in DOMAIN p \cup DOMAIN q |-> IF k \in DOMAIN q THEN Copied(k, q[k]) ELSE p[k]]

Copy(p) == props_union(NoProps, p)

props_apply_mask(p, rem) == [k \in DOMAIN p \ rem |-> p[k]]

assign_props(p, es) == props_apply_mask(props_union(p, es.p), es.rem)

\* What an edit does to the properties in a file.
apply_props_to_icalcomponent(p, es) ==
    [k \in (DOMAIN p \cup DOMAIN es.p) \ es.rem |->
        IF k \in DOMAIN es.p THEN es.p[k] ELSE p[k]]

IsTorn(p) == "related_to" \in DOMAIN p /\ p.related_to = Torn

\* edit_spec_is_identity and can_apply_to_memory make copies of p, and of the
\* properties of the edit into them.  They read the relations of a copy when they
\* free it, if not before.
ReadsTorn(es, p) == "related_to" \in DOMAIN p \cup DOMAIN es.p

\* The answers that edit_spec_is_identity may come to: relations are compared
\* with those of a copy.
Identity(es, p) ==
    LET named == DOMAIN es.p \ es.rem
    IN  IF \/ es.rem \cap DOMAIN p # {}
           \/ \E k \in named : k \notin DOMAIN p
           \/ \E k \in named \ {"related_to"} : p[k] # es.p[k]
        THEN {FALSE}
        ELSE IF "related_to" \in named THEN BOOLEAN ELSE {TRUE}

(***************************************************************************)
(* props_valid_for_type                                                    *)
(***************************************************************************)
StatusesOf(type) ==
    IF type = "event" THEN {"tentative", "confirmed", "cancelled"}
    ELSE {"needsaction", "completed", "inprocess", "cancelled"}

TodoKeys == {"due", "perc", "est"}

\* The properties are those of an event or of a todo,
WellFormed(p, type) ==
    /\ type \in {"event", "todo"}
    /\ type = "event" <=> "end" \in DOMAIN p
    /\ "end" \in DOMAIN p => "start" \in DOMAIN p
    /\ type = "event" => TodoKeys \cap DOMAIN p = {}
    /\ "status" \in DOMAIN p => p.status \in StatusesOf(type)

\* and it ends, or is due, after it has started.
Forwards(p) ==
    "start" \in DOMAIN p => \A k \in {"end", "due"} \cap DOMAIN p : p.start < p[k]

props_valid_for_type(p, type) == WellFormed(p, type) /\ Forwards(p)
=============================================================================
