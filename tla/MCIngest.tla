------------------------------ MODULE MCIngest ------------------------------
(***************************************************************************)
(* The two programs by which risk events come in, each a process of its    *)
(* own: the server that takes webhooks and the import of a merchant's      *)
(* export.  They share nothing that changes, so an instance runs one or    *)
(* the other while the variables of the other rest.                        *)
(***************************************************************************)
EXTENDS MCIntake, MCImport

VARIABLE program

ingestVars == <<program, vars, importVars>>

IngestInit ==
    /\ Init /\ ImportInit
    /\ \/ program = "webhooks" /\ file.kind = "absent" /\ ~file.major
       \/ program = "import" /\ ~configured

IngestNext ==
    \/ program = "webhooks" /\ Next /\ UNCHANGED <<program, importVars>>
    \/ program = "import" /\ ImportNext /\ UNCHANGED <<program, vars>>

IngestSpec == IngestInit /\ [][IngestNext]_ingestVars
=============================================================================
