----------------------------- MODULE MCBackend -------------------------------
(* A small instance of Backend and the modules it extends, for TLC.        *)
EXTENDS Backend, TLC

CONSTANTS r1, r2, r3,   \* requests
          c1, c2, c3,   \* cities: two share their first letters
          b1, b2,       \* branches: c1 and c3
          i0,           \* an old inspection
          d1,           \* a day
          s, m, i,      \* users: a superadmin, an admin, an inspector
          x, y, z,      \* their addresses
          a, ad,        \* two ways to write another one
          g             \* a Google account

MCPrefix == (c1 :> "YOG" @@ c2 :> "YOG" @@ c3 :> "SOL")
MCFirstCity == (b1 :> c1 @@ b2 :> c3)
\* The first creation takes number 1; the second meets this id.
MCOldPretty == (i0 :> <<<<"YOG", d1>>, 2>>)
MCOldBranch == (i0 :> b1)
MCOldPeriod == (i0 :> "previous")
MCOldStatus == (i0 :> "ARCHIVED")
\* Nothing (the default of the viewer's role), or one of two statuses.
MCAskedStatuses == {{}, {"NEED_REVIEW"}, {"NEED_REVIEW", "APPROVED"}}

RecordOps == {"create", "createBranch", "updateBranch", "removeBranch", "toggleActive",
              "addPhotos", "updatePhoto", "deletePhoto", "deleteInspection", "distribution"}

\* Who is there and under which address; who is signed in and may do what.
IdentityOps == {"register", "google", "createInspector", "createAdmin", "updateUser",
                "deleteUser", "removeBranch"}
SessionOps == {"google", "login", "refresh", "logout", "createAdmin", "updateRole",
               "generatePin", "deleteUser"}

\* Reads, and the writes that others may put between their queries: every
\* move of a status is one of those three.
ReadingOps == {"pages", "latest", "find", "publicFind", "search", "counters"}
WriteOps == {"create", "approve", "archive", "deactivate", "addPhotos", "deletePhoto",
             "deleteInspection"}

\* One request for o, all others for one of S.
OneAmong(o, S) == {w \in [Request -> {o} \cup S] : Cardinality({r \in Request : w[r] = o}) = 1}

\* Any three requests for users, or for sessions; an update of an inspector,
\* which is one of a user with a branch, next to two requests that meet it; a
\* request for records at the guards, one for each set of roles that a
\* route may ask for, while users and sessions change.
MCAtDoor ==
    [Request -> IdentityOps] \cup [Request -> SessionOps]
    \cup OneAmong("updateInspector", {"register", "createInspector", "deleteUser", "removeBranch"})
    \cup UNION {OneAmong(o, {"updateRole", "deleteUser", "logout"}) :
                    o \in {"create", "addPhotos", "search", "find", "toggleActive", "rollback"}}

\* Any three requests for records, or a distribution and what moves between its
\* counts, or one read and any two writes, or a trend alone, all of which have
\* passed the guards.
MCWorkloads ==
    MCAtDoor
    \cup [Request -> RecordOps]
    \cup OneAmong("distribution", {"approve", "updateBranch", "removeBranch", "deleteInspection"})
    \cup UNION {OneAmong(o, WriteOps) : o \in ReadingOps}
    \cup OneAmong("trend", {"none"})

MCNorm == [e \in Address |-> IF e = ad THEN a ELSE e]
MCFirstEmail == (s :> x @@ m :> y @@ i :> z)
MCFirstRole == (s :> "SUPERADMIN" @@ m :> "ADMIN" @@ i :> "INSPECTOR")

Requests == Permutations(Request)

\* Three months of 3 days (5 to begin and end with); trends over up to 5 days.
MCFirstDays == {-10, -5, 0, 3, 6, 9, 14, 19}
MCCalendar == 1..8
MCTimezones == {-5, 0, 7, 8}
=============================================================================
