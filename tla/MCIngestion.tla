---------------------------- MODULE MCIngestion ----------------------------
(* The files of the README pipeline for TLC.                                 *)
EXTENDS Ingestion

ListedRow(place, id, closed) ==
    [role |-> CHOOSE r \in Role : TRUE, place |-> place, id |-> id, closed |-> closed]
ListedRows ==
    {ListedRow(1, 0, FALSE), ListedRow(1, 0, TRUE), ListedRow(2, 1, FALSE), ListedRow(2, 1, TRUE),
     ListedRow(2, 2, FALSE)}

IngestionSpec == IngestionInit /\ [][IngestionNext]_ingestion
=============================================================================
