------------------------------- MODULE Backend -------------------------------
(***************************************************************************)
(* The tables behind the API: inspections, photos and branches             *)
(* (InspectionPhotos), the dashboard over them (Dashboard), users and      *)
(* sessions (Accounts).  Requests of all of these interleave; a restart    *)
(* loses all those in flight.                                              *)
(***************************************************************************)
EXTENDS Dashboard, Accounts

backendVars == <<dashboardVars, accountVars>>

BackendInit == DashboardInit /\ AccountsInit

RecordsStep ==
    /\ DashboardNext
    /\ ReleasesBranches
    /\ UNCHANGED <<tokens, blacklist, registered, admitted>>

AccountsStep == (\E r \in Request : AccountStep(r)) /\ UNCHANGED <<photoVars, queryVars, moved>>

BackendNext == RecordsStep \/ AccountsStep

\* What RecordsTypeOK and AccountsTypeOK say holds although both kinds of
\* requests interleave: types, unique columns and foreign keys of all tables.
BackendTypeOK == RecordsTypeOK /\ AccountsTypeOK

BackendSpec == BackendInit /\ [][BackendNext]_backendVars
=============================================================================
