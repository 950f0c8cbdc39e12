------------------------------ MODULE Screens -------------------------------
(***************************************************************************)
(* The screens of the application (apps/web/src/features, config/          *)
(* navigation.ts): which queries each one mounts, where its links lead and *)
(* which commands it offers, to the role of the shell's persona and from   *)
(* the answer it shows; and what a command's hook invalidates.             *)
(*                                                                         *)
(* role is the role of the shell's persona, and shown that of the persona  *)
(* who asked for the answer on the screen, "none" while there is none.     *)
(***************************************************************************)

\* The paths of the routes; "error" is the boundary of __root.tsx.
Paths ==
    {"selector", "dashboard", "cras", "grid", "managerGrid", "preFacturier", "marge",
     "invoices", "invoice", "assignments", "error"}

\* The queries of the shell's screens.  The calendar's and the selector's answer everyone
\* alike, and no screen mounts the history of the invoices.
Keys ==
    {"dashboard", "orgChart", "cras", "roster", "grid", "managerGrid", "preFacturier",
     "marge", "invoices", "invoice", "assignments"}

\* The route a query asks.
RouteOfKey(key) == IF key = "marge" THEN "economics" ELSE key

-----------------------------------------------------------------------------
(* The queries of a screen.                                                *)

DashboardReads(shown) ==
    {"dashboard"} \cup { key \in {"orgChart"} : shown \in {"consultant", "manager"} }

CraListReads(role, shown) ==
    {"cras"} \cup { key \in {"roster"} : role = "manager" /\ shown # "none" }

Reads(path, role, shown) ==
    CASE path = "dashboard" -> DashboardReads(shown)
      [] path = "cras"      -> CraListReads(role, shown)
      [] OTHER              -> {path} \cap Keys

-----------------------------------------------------------------------------
(* The links.                                                              *)

navigationForRole(role) ==
    {"dashboard"}
    \cup { path \in {"preFacturier", "invoices"} : role \in {"manager", "billing"} }
    \cup { path \in {"cras"} : role \in {"manager", "consultant"} }
    \cup { path \in {"assignments"} : role = "manager" }

ConsultantCards(shown) == { path \in {"grid"} : shown = "consultant" }
ManagerCards(shown)    == { path \in {"cras"} : shown = "manager" }
StaffingPanel(shown)   == { path \in {"assignments"} : shown = "manager" }

\* What to do now, and what happened last.
WorkQueue(shown) ==
    { path \in {"grid"} : shown = "consultant" }
    \cup { path \in {"managerGrid"} : shown = "manager" }
    \cup { path \in {"invoice", "invoices"} : shown = "billing" }

DashboardLeads(shown) ==
    WorkQueue(shown) \cup ConsultantCards(shown) \cup ManagerCards(shown)
    \cup StaffingPanel(shown)

\* A loose variant: a row of the list opens the consultant's own grid for every role.
CraListLeads_EveryRole(role, shown) == { path \in {"grid"} : shown # "none" }

\* A row of billing opens nothing.
CraListLeads(role, shown) ==
    { path \in {"grid"} : role = "consultant" /\ shown # "none" }
    \cup { path \in {"managerGrid"} : role = "manager" /\ shown # "none" }

\* The column of the actions is dropped for billing, that of the margin but for a manager.
PreFacturierLeads(role, shown) ==
    { path \in {"invoice"} : shown # "none" }
    \cup { path \in {"managerGrid"} : role # "billing" /\ shown # "none" }
    \cup { path \in {"marge"} : role = "manager" /\ shown # "none" }

MonthNav(shown)         == { path \in {"grid"} : shown # "none" }
ManagerGridLeads(shown) == { path \in {"cras", "preFacturier"} : shown # "none" }
MargeLeads(shown)       == { path \in {"preFacturier"} : shown # "none" }
InvoiceListLeads(shown) == { path \in {"invoice"} : shown # "none" }

Leads(path, role, shown) ==
    CASE path = "dashboard"    -> DashboardLeads(shown)
      [] path = "cras"         -> CraListLeads(role, shown)
      [] path = "preFacturier" -> PreFacturierLeads(role, shown)
      [] path = "grid"         -> MonthNav(shown)
      [] path = "managerGrid"  -> ManagerGridLeads(shown)
      [] path = "marge"        -> MargeLeads(shown)
      [] path = "invoices"     -> InvoiceListLeads(shown)
      [] OTHER                 -> {}

-----------------------------------------------------------------------------
(* The commands.                                                           *)

GridCommands(shown) == { command \in {"save"} : shown # "none" }

ManagerGridCommands(role, shown) ==
    { command \in {"validate", "refuse"} : role = "manager" /\ shown # "none" }

\* decidable is the server's, and the column it fills the screen's.
PreFacturierCommands(role, shown) ==
    { command \in {"validate", "refuse"} : shown = "manager" /\ role # "billing" }

InvoiceCommands(role, shown) ==
    { command \in {"issue"} : role = "billing" /\ shown # "none" }

AssignmentCommands(shown) ==
    { command \in {"createAssignment", "updateAssignment"} : shown # "none" }

Commands(path, role, shown) ==
    CASE path = "grid"         -> GridCommands(shown)
      [] path = "managerGrid"  -> ManagerGridCommands(role, shown)
      [] path = "preFacturier" -> PreFacturierCommands(role, shown)
      [] path = "invoice"      -> InvoiceCommands(role, shown)
      [] path = "assignments"  -> AssignmentCommands(shown)
      [] OTHER                 -> {}

-----------------------------------------------------------------------------
(* What a command's hook invalidates.                                      *)

AfterSave       == {"grid", "cras", "dashboard"}
AfterDecision   == {"preFacturier", "cras", "managerGrid", "dashboard"}
AfterIssue      == {"invoices", "invoice", "dashboard"}
AfterAssignment == {"assignments", "dashboard"}

\* The dashboard forgotten, as it was before ADR-0113.
Invalidates_NoDashboard(command) ==
    CASE command = "save"                 -> AfterSave \ {"dashboard"}
      [] command \in {"validate", "refuse"} -> AfterDecision \ {"dashboard"}
      [] command = "issue"                -> AfterIssue \ {"dashboard"}
      [] OTHER                            -> AfterAssignment \ {"dashboard"}

Invalidates(command) ==
    CASE command = "save"                 -> AfterSave
      [] command \in {"validate", "refuse"} -> AfterDecision
      [] command = "issue"                -> AfterIssue
      [] OTHER                            -> AfterAssignment

\* The projections ADR-0113 lists, read off the server: both of its columns.
Listed(command) ==
    {"dashboard"}
    \cup (CASE command = "save"                 -> {"grid", "cras"}
            [] command \in {"validate", "refuse"} -> {"preFacturier", "cras", "managerGrid"}
            [] command = "issue"                -> {"invoices", "invoice"}
            [] OTHER                            -> {"assignments"})

=============================================================================
