------------------------------- MODULE Console ------------------------------
(***************************************************************************)
(* The server as its operators meet it: the schema is brought up to date   *)
(* (Startup), the first administrator is made by the script, and then the  *)
(* server answers requests about accounts, files and runs (Access) and the *)
(* training desk (Desk), until it is killed or another release installed.  *)
(* Tables outlive the server, the requests in flight do not, and what is   *)
(* on an administrator's screen does.                                      *)
(***************************************************************************)
EXTENDS Startup, Desk

CONSTANT MaxWork    \* bound on the rows stored and the processes killed

vars == <<schemaVars, accessVars, deskVars>>

Init == \E old \in BOOLEAN : SchemaInit(old) /\ AccessInit(old) /\ DeskInit

(* The server dies with its requests; the script has none.                  *)
Die(p) ==
    /\ Kill(p)
    /\ IF p = "server" THEN DropCalls ELSE UNCHANGED accessVars
    /\ UNCHANGED deskVars

Prepare ==
    /\ \/ StartServer \/ StartScript \/ Deploy
       \/ \E p \in Process : SchemaStep(p)
    /\ UNCHANGED <<accessVars, deskVars>>

FirstAdmin ==
    /\ proc["script"].at = "prompt"
    /\ CreateByScript
    /\ Refuse("script")
    /\ UNCHANGED deskVars

Serve ==
    /\ Serving
    /\ \E u \in User : \/ AccessStep(u) /\ UNCHANGED deskVars
                       \/ DeskStep(u)
    /\ UNCHANGED schemaVars

Work == Cardinality(DOMAIN accounts) + Len(runs) + Len(examples) + kills
        + Cardinality(UNION {{f} \X {i \in DOMAIN uploads[f] : uploads[f][i] # NoOne} : f \in File})

Next ==
    /\ Prepare \/ FirstAdmin \/ Serve \/ \E p \in Process : Die(p)
    /\ Work' <= MaxWork

Spec == Init /\ [][Next]_vars

=============================================================================
