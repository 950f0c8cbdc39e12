------------------------------- MODULE Access -------------------------------
(***************************************************************************)
(* Which role carries which route (apps/api/src/personas/access.ts, ADR-   *)
(* 0023).  A route declares the roles that carry it, or that it is public; *)
(* the persona who asks is named by a signed cookie.                       *)
(***************************************************************************)
CONSTANTS
    Personas,   \* the personas of the catalogue
    RoleOf,     \* the role of each
    Forged,     \* a cookie whose signature does not match its key
    Unknown,    \* a signed cookie of a key the catalogue does not hold
    None

Roles == {"consultant", "manager", "billing"}

ASSUME PersonasAssumption ==
    /\ RoleOf \in [ Personas -> Roles ]
    /\ Forged \notin Personas /\ Unknown \notin Personas /\ None \notin Personas

Cookies == Personas \cup {Forged, Unknown, None}

\* unsignPersonaKey answers a key for these, and null for the others.
Signed == Personas \cup {Unknown}

PUBLIC == {"public"}
ManagerAndBilling == {"manager", "billing"}

(* The Access of the routes, by what they do, file by file.                *)

SessionRoutes ==
    [ session |-> PUBLIC, personas |-> PUBLIC, choose |-> PUBLIC, clear |-> PUBLIC ]

OpsRoutes == [ healthz |-> PUBLIC, readyz |-> PUBLIC ]

CraRoutes ==
    [ cras     |-> Roles,          roster      |-> {"manager"},
      cra      |-> Roles,          calendar    |-> Roles,
      grid     |-> {"consultant"}, managerGrid |-> {"manager"},
      save     |-> {"consultant"}, validate    |-> {"manager"},
      refuse   |-> {"manager"} ]

InvoiceRoutes ==
    [ invoices |-> ManagerAndBilling, invoice |-> ManagerAndBilling,
      history  |-> ManagerAndBilling, issue   |-> {"billing"} ]

AssignmentRoutes ==
    [ assignments      |-> {"manager"}, createAssignment |-> {"manager"},
      updateAssignment |-> {"manager"} ]

DashboardRoutes == [ orgChart |-> {"consultant", "manager"}, dashboard |-> Roles ]

PreFacturierRoutes == [ preFacturier |-> ManagerAndBilling ]

EconomicsRoutes == [ economics |-> {"manager"} ]

WebRoutes == [ stylesheet |-> PUBLIC, craPage |-> Roles, invoicePage |-> ManagerAndBilling ]

SpaRoutes == [ spa |-> PUBLIC ]

\* The routes of two files; none is declared in both.
f ++ g == [ route \in DOMAIN f \cup DOMAIN g |->
              IF route \in DOMAIN f THEN f[route] ELSE g[route] ]

Access ==
    SessionRoutes ++ OpsRoutes ++ CraRoutes ++ InvoiceRoutes ++ AssignmentRoutes
    ++ DashboardRoutes ++ PreFacturierRoutes ++ EconomicsRoutes ++ WebRoutes ++ SpaRoutes

Routes == DOMAIN Access

\* What registerOriginCheck asks an Origin of.
StateChanging ==
    {"choose", "clear", "save", "validate", "refuse", "createAssignment", "updateAssignment",
     "issue"}

isPublic(route)       == Access[route] = PUBLIC
carries(route, role)  == isPublic(route) \/ role \in Access[route]

Refusals == {"noPersona", "unknownPersona", "insufficientRole"}

ASSUME AnswerAssumption == None \notin {"ok", "refused", "failed"} \cup Refusals

\* The preHandler: a public route refuses nobody, whatever the cookie.
Decision(route, cookie) ==
    IF isPublic(route) THEN "admitted"
    ELSE IF cookie = None THEN "noPersona"
    ELSE IF cookie \notin Personas THEN "unknownPersona"
    ELSE IF carries(route, RoleOf[cookie]) THEN "admitted" ELSE "insufficientRole"

=============================================================================
