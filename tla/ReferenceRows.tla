--------------------------- MODULE ReferenceRows ----------------------------
(***************************************************************************)
(* The reference data as the API reads it back from public.* for every     *)
(* request (reference-reader.ts), and what the timesheet asks of it        *)
(* (reference.ts, hierarchy.ts).  A row keeps the columns a rule reads;    *)
(* rows is one record of the tables, each a set.                           *)
(***************************************************************************)
EXTENDS Drafting

NoRows ==
    [ legal_entities |-> {}, consultants |-> {}, clients |-> {}, missions |-> {},
      mission_habilitations |-> {}, mission_tjm |-> {}, assignments |-> {},
      consultant_habilitations |-> {}, manager_attachments |-> {} ]

RowWithId(table, id) == CHOOSE row \in table : row.id = id

Ids(table) == { row.id : row \in table }

Bounds(row) == [ from |-> row.from_date, to |-> row.to_date ]

-----------------------------------------------------------------------------
(* What the timesheet's rules read.                                        *)

TimesheetReference(rows) ==
    [ missions |-> [ id \in Ids(rows.missions) |->
          LET row == RowWithId(rows.missions, id)
          IN [ from |-> row.start_date, to |-> row.end_date,
               requiredHabilitations |->
                   { r.habilitation_id : r \in { r \in rows.mission_habilitations :
                                                   r.mission_id = id } } ] ],
      assignments |-> { [ who |-> row.consultant_id, mission |-> row.mission_id ] @@ Bounds(row)
                        : row \in rows.assignments },
      held |-> { [ who |-> row.consultant_id, habilitation |-> row.habilitation_id,
                   from |-> row.obtained_at, to |-> row.expires_at ]
                 : row \in rows.consultant_habilitations } ]

RunsOn(reference, mission, day) ==
    mission \in DOMAIN reference.missions /\ Holds(reference.missions[mission], day)

IsAssigned(reference, who, mission, day) ==
    \E a \in reference.assignments : a.who = who /\ a.mission = mission /\ Holds(a, day)

MissingHabilitations(reference, who, mission, day) ==
    IF mission \notin DOMAIN reference.missions THEN {}
    ELSE { h \in reference.missions[mission].requiredHabilitations :
             \A held \in reference.held :
                 ~ (held.who = who /\ held.habilitation = h /\ Holds(held, day)) }

\* The attachments of a consultant, as a timeline.
AttachmentsOf(rows, who) ==
    SetToSortSeq({ Bounds(row) @@ [ value |-> row.manager_id ]
                   : row \in { row \in rows.manager_attachments : row.consultant_id = who } },
                 LAMBDA one, two : Digits(one.from) < Digits(two.from))

\* hierarchy: nobody has two managers on one day, but many may have one each.
IsHierarchy(rows) ==
    \A who \in { row.consultant_id : row \in rows.manager_attachments } :
        IsTimeline(AttachmentsOf(rows, who))

\* The manager of the last day of the month.
ManagerOf(rows, who, period) == At(AttachmentsOf(rows, who), LastDayOf(period))

-----------------------------------------------------------------------------
(* What billing's rules read.                                              *)

\* Luhn: read from the right, every second digit doubled; of nine, those are the even ones.
IsValidSiren(digits) ==
    LET Doubled(n)  == IF n % 2 = 0 THEN 2 * digits[n] ELSE digits[n]
        Weighted(n) == IF Doubled(n) > 9 THEN Doubled(n) - 9 ELSE Doubled(n)
    IN /\ Len(digits) = 9
       /\ MapThenSumSet(Weighted, 1 .. 9) % 10 = 0

IsFrench(territoriality) ==
    territoriality \in {"metropolitanFrance", "overseasWithVat", "overseasOutsideVatScope"}

\* What client() lets through; of the intra-community number only the presence is kept.
IsClient(row) ==
    /\ row.siren # None => IsValidSiren(row.siren)
    /\ IsFrench(row.territoriality) => row.siren # None

\* toClient, of a row it does not refuse.
ClientOf(row) ==
    [ territoriality |-> row.territoriality, vatNumber |-> row.intra_community_vat_number # None ]

\* One row that is refused leaves nothing to draft from, for any client.
BuildsBilling(rows) == \A row \in rows.clients : IsClient(row)

BillingReference(rows) ==
    [ missions |-> [ id \in Ids(rows.missions) |->
          LET row == RowWithId(rows.missions, id)
          IN [ client |-> row.client_id, regie |-> row.billing_model = "Regie",
               tjmCents |-> SetToSortSeq(
                   { Bounds(rate) @@ [ value |-> rate.tjm_cents ]
                     : rate \in { rate \in rows.mission_tjm : rate.mission_id = id } },
                   LAMBDA one, two : Digits(one.from) < Digits(two.from)) ] ],
      clients |-> [ id \in Ids(rows.clients) |->
          ClientOf(RowWithId(rows.clients, id)) ] ]

\* What legalEntity() lets through.
IsLegalEntity(row) == IsValidSiren(row.siren) /\ row.share_capital_cents > 0

\* None where an empty table, or a firm that could not print its mentions, is answered by a
\* failure.  There is one.
SellerOf(rows) ==
    IF \E row \in rows.legal_entities : IsLegalEntity(row)
    THEN CHOOSE row \in rows.legal_entities : TRUE
    ELSE None

\* The consultants a manager may filter by: those of the office who have not left.
ConsultantsOfOffice(rows, office) ==
    { row.id : row \in { row \in rows.consultants :
        row.office_id = office /\ row.role = "consultant" /\ row.departure_date = None } }

=============================================================================
