------------------------------ MODULE Dataset -------------------------------
(***************************************************************************)
(* The literal dataset of seed-data.ts: who works where and for whom, on   *)
(* what, at which rates, and which months are seeded.  A person is a name, *)
(* or the office and number of one of the generated consultants; amounts   *)
(* are cents.  Names, addresses and identifiers are left out, except that  *)
(* identifiers are minted in the order things are listed in.               *)
(***************************************************************************)
EXTENDS Calendar

Offices == { "Paris", "Lyon", "Rennes", "Bordeaux" }

-----------------------------------------------------------------------------
(* Consultants, in the order of their identifiers.                         *)

Named(name)       == << name, 0 >>
Filler(office, n) == << office, n >>

Employee(who, office, role) ==
    [ who |-> who, office |-> office, role |-> role, departure |-> None ]

OriginalConsultants ==
    << Employee(Named("alice"),     "Paris",    "consultant"),
       Employee(Named("bruno"),     "Paris",    "manager"),
       Employee(Named("claire"),    "Paris",    "consultant"),
       Employee(Named("david"),     "Lyon",     "consultant"),
       Employee(Named("emma"),      "Lyon",     "manager"),
       Employee(Named("francois"),  "Rennes",   "consultant"),
       Employee(Named("gabrielle"), "Bordeaux", "consultant"),
       Employee(Named("henri"),     "Paris",    "director"),
       Employee(Named("ines"),      "Lyon",     "consultant") >>

MarineLeaves == Date(2022, 12, 31)

\* The four veterans, one of whom left, and the two managers nobody can be.
NamedRoster ==
    << Employee(Named("julien"), "Paris", "consultant"),
       [ Employee(Named("marine"), "Paris", "consultant") EXCEPT !.departure = MarineLeaves ],
       Employee(Named("camille"), "Lyon", "consultant"),
       Employee(Named("theo"), "Bordeaux", "consultant"),
       Employee(Named("karim"), "Bordeaux", "manager"),
       Employee(Named("thomas"), "Rennes", "manager") >>

FillerCount == [ Paris |-> 16, Lyon |-> 16, Bordeaux |-> 2 ]

FillerRoster(office) ==
    [ n \in 1 .. FillerCount[office] |-> Employee(Filler(office, n), office, "consultant") ]

RosterConsultants ==
    NamedRoster \o FillerRoster("Paris") \o FillerRoster("Lyon") \o FillerRoster("Bordeaux")

SeededConsultants == OriginalConsultants \o RosterConsultants

\* What a day of each costs, and since when: the Cjm of the consultant's grade.
OriginalCosts ==
    << [ from |-> Date(2024, 1, 1), value |-> 25000 ], [ from |-> Date(2023, 1, 1), value |-> 40000 ],
       [ from |-> Date(2025, 1, 1), value |-> 20000 ], [ from |-> Date(2024, 1, 1), value |-> 27000 ],
       [ from |-> Date(2023, 6, 1), value |-> 38000 ], [ from |-> Date(2023, 1, 1), value |-> 32000 ],
       [ from |-> Date(2024, 6, 1), value |-> 28000 ], [ from |-> Date(2020, 1, 1), value |-> 45000 ],
       [ from |-> Date(2026, 1, 1), value |-> 19000 ] >>

\* Three grades in turn, and five costs within a grade; the index starts at zero.
RosterCost(index) ==
    LET manager == RosterConsultants[index + 1].role = "manager"
        base    == IF manager THEN 39000 ELSE << 21000, 26000, 31000 >>[(index % 3) + 1]
    IN [ from  |-> IF index < 4 \/ manager THEN Date(2016, 1, 1) ELSE Date(2025, 1, 1),
         value |-> base + (index % 5) * 500 ]

SeededCosts ==
    OriginalCosts \o [ n \in 1 .. Len(RosterConsultants) |-> RosterCost(n - 1) ]

-----------------------------------------------------------------------------
(* Clients, missions and their rates.                                      *)

SeededClients ==
    [ banque  |-> [ territoriality |-> "metropolitanFrance",      vatNumber |-> TRUE ],
      reunion |-> [ territoriality |-> "overseasWithVat",         vatNumber |-> FALSE ],
      guyane  |-> [ territoriality |-> "overseasOutsideVatScope", vatNumber |-> FALSE ],
      eu      |-> [ territoriality |-> "europeanUnion",           vatNumber |-> TRUE ],
      interne |-> [ territoriality |-> "metropolitanFrance",      vatNumber |-> TRUE ] ]

SeededSirens ==
    [ banque  |-> << 4, 4, 3, 0, 6, 1, 8, 4, 1 >>,
      reunion |-> << 5, 1, 7, 4, 0, 3, 5, 7, 2 >>,
      guyane  |-> << 8, 2, 3, 4, 7, 6, 1, 4, 8 >>,
      eu      |-> None,
      interne |-> << 7, 3, 2, 8, 2, 9, 3, 2, 0 >> ]

SeededFirm == [ siren |-> SeededSirens.interne, share_capital_cents |-> 10000000 ]

SeededMissions ==
    << "auditDora", "socReunion", "grcGuyane", "iamEurosecure", "auditPassi",
       "pentestForfait", "intercontrat" >>

SeededCommercial ==
    [ auditDora      |-> [ client |-> "banque",  regie |-> TRUE ],
      socReunion     |-> [ client |-> "reunion", regie |-> TRUE ],
      grcGuyane      |-> [ client |-> "guyane",  regie |-> TRUE ],
      iamEurosecure  |-> [ client |-> "eu",      regie |-> TRUE ],
      auditPassi     |-> [ client |-> "banque",  regie |-> TRUE ],
      pentestForfait |-> [ client |-> "banque",  regie |-> FALSE ],
      intercontrat   |-> [ client |-> "interne", regie |-> FALSE ] ]

Since(date)        == [ from |-> date, to |-> None ]
Until(first, last) == [ from |-> first, to |-> last ]

SeededSpans ==
    [ auditDora      |-> Since(Date(2016, 1, 1)),
      socReunion     |-> Since(Date(2016, 1, 1)),
      grcGuyane      |-> Since(Date(2016, 1, 1)),
      iamEurosecure  |-> Since(Date(2026, 4, 1)),
      auditPassi     |-> Since(Date(2026, 5, 1)),
      pentestForfait |-> Since(Date(2026, 1, 15)),
      intercontrat   |-> Since(Date(2026, 1, 1)) ]

SeededRequirements == { << "auditPassi", "passi" >> }

\* Bound: rates are counted in tenths of a euro, so that TLC can multiply an amount by a rate
\* of VAT; all of them are whole tens of euros.
Agreed(span, euros) == [ from |-> span.from, to |-> span.to, value |-> 10 * euros ]

\* The rate of 2026, and the one a veteran's months are billed at, up to the day before.
SeededRates ==
    [ auditDora      |-> << Agreed(Since(Date(2026, 1, 5)), 800),
                            Agreed(Until(Date(2016, 1, 1), Date(2026, 1, 4)), 720) >>,
      socReunion     |-> << Agreed(Since(Date(2026, 3, 1)), 700),
                            Agreed(Until(Date(2016, 1, 1), Date(2026, 2, 28)), 630) >>,
      grcGuyane      |-> << Agreed(Since(Date(2026, 2, 1)), 750),
                            Agreed(Until(Date(2016, 1, 1), Date(2026, 1, 31)), 680) >>,
      iamEurosecure  |-> << Agreed(Since(Date(2026, 4, 1)), 850) >>,
      auditPassi     |-> << Agreed(Since(Date(2026, 5, 1)), 950) >>,
      pentestForfait |-> << >>,
      intercontrat   |-> << >> ]

-----------------------------------------------------------------------------
(* Who works on what, for whom, and holds what.                            *)

Assigned(who, mission, span) ==
    [ who |-> who, mission |-> mission, from |-> span.from, to |-> span.to ]

\* Most of a roster is on the bench: each month of a regie consultant drafts an invoice.
FillerMission(office, n) ==
    IF n > [ Paris |-> 4, Lyon |-> 4, Bordeaux |-> 1 ][office] THEN "intercontrat"
    ELSE CASE office = "Paris"    -> "auditDora"
           [] office = "Lyon"     -> IF n % 2 = 1 THEN "grcGuyane" ELSE "iamEurosecure"
           [] office = "Bordeaux" -> "socReunion"

FillerAssignments(office) ==
    [ n \in 1 .. FillerCount[office] |->
        Assigned(Filler(office, n), FillerMission(office, n), Since(Date(2025, 1, 1))) ]

SeededAssignments ==
    << Assigned(Named("alice"),     "auditDora",      Since(Date(2026, 1, 5))),
       Assigned(Named("alice"),     "auditPassi",     Since(Date(2026, 5, 1))),
       Assigned(Named("claire"),    "socReunion",     Since(Date(2026, 3, 1))),
       Assigned(Named("david"),     "grcGuyane",      Since(Date(2026, 2, 1))),
       Assigned(Named("francois"),  "iamEurosecure",  Since(Date(2026, 4, 1))),
       Assigned(Named("gabrielle"), "pentestForfait", Since(Date(2026, 1, 15))),
       Assigned(Named("ines"),      "intercontrat",   Since(Date(2026, 1, 1))),
       Assigned(Named("julien"),    "auditDora",      Since(Date(2016, 1, 1))),
       Assigned(Named("marine"),    "auditDora",      Until(Date(2016, 1, 1), MarineLeaves)),
       Assigned(Named("camille"),   "socReunion",     Since(Date(2016, 1, 1))),
       Assigned(Named("theo"),      "grcGuyane",      Since(Date(2016, 1, 1))) >>
    \o FillerAssignments("Paris") \o FillerAssignments("Lyon") \o FillerAssignments("Bordeaux")

Attached(name, manager, span) ==
    [ who |-> Named(name), from |-> span.from, to |-> span.to, value |-> Named(manager) ]

FillerAttachments(office, manager) ==
    [ n \in 1 .. FillerCount[office] |->
        [ Attached("", manager, Since(Date(2025, 1, 1))) EXCEPT !.who = Filler(office, n) ] ]

\* Everybody's manager is of their office, except that managers report to the director.
SeededAttachments ==
    << Attached("alice",     "bruno",  Since(Date(2024, 1, 1))),
       Attached("claire",    "bruno",  Since(Date(2025, 1, 1))),
       Attached("david",     "emma",   Since(Date(2024, 1, 1))),
       Attached("francois",  "thomas", Since(Date(2023, 6, 1))),
       Attached("gabrielle", "karim",  Since(Date(2024, 6, 1))),
       Attached("ines",      "emma",   Since(Date(2026, 1, 1))),
       Attached("bruno",     "henri",  Since(Date(2023, 1, 1))),
       Attached("emma",      "henri",  Since(Date(2023, 6, 1))),
       Attached("karim",     "henri",  Since(Date(2016, 1, 1))),
       Attached("thomas",    "henri",  Since(Date(2016, 1, 1))),
       Attached("julien",    "bruno",  Since(Date(2016, 1, 1))),
       Attached("marine",    "bruno",  Until(Date(2016, 1, 1), MarineLeaves)),
       Attached("camille",   "emma",   Since(Date(2016, 1, 1))),
       Attached("theo",      "karim",  Since(Date(2016, 1, 1))) >>
    \o FillerAttachments("Paris", "bruno") \o FillerAttachments("Lyon", "emma")
    \o FillerAttachments("Bordeaux", "karim")

SeededHoldings ==
    { [ who |-> Named("alice"), habilitation |-> "passi",
        from |-> Date(2025, 3, 15), to |-> None ] }

-----------------------------------------------------------------------------
(* The months, and who can be.                                             *)

Month(year, month) == [ year |-> year, month |-> month ]

CraPeriod == Month(2026, 6)

SeededPeriods == << CraPeriod, Month(2026, 7), Month(2026, 8) >>

VeteranPeriods == << Month(2016, 6), Month(2018, 6), Month(2020, 6), Month(2022, 6), Month(2024, 6) >>

Veteran(name, periods) == [ who |-> Named(name), periods |-> periods ]

\* Marine's months go on after she left.
HistoricalVeterans_Unfiltered ==
    << Veteran("julien", VeteranPeriods), Veteran("marine", VeteranPeriods),
       Veteran("camille", VeteranPeriods), Veteran("theo", VeteranPeriods) >>

HistoricalVeterans ==
    << Veteran("julien", VeteranPeriods),
       Veteran("marine", SelectSeq(VeteranPeriods,
                           LAMBDA p : NotAfter(Date(p.year, p.month, 1), MarineLeaves))),
       Veteran("camille", VeteranPeriods),
       Veteran("theo", VeteranPeriods) >>

SeededIssuer   == Named("henri")
SeededWithheld == Named("claire")

\* The month that is not uniform.
VariedMonth ==
    [ who |-> Named("alice"), splitDay |-> Date(2026, 6, 11), absenceDay |-> Date(2026, 6, 18),
      flaggedSaturday |-> Date(2026, 6, 13), quarterProofDay |-> Date(2026, 6, 12) ]

SeededPersonas ==
    { [ who |-> Named("alice"), role |-> "consultant" ], [ who |-> Named("bruno"), role |-> "manager" ],
      [ who |-> Named("emma"),  role |-> "manager" ],    [ who |-> Named("henri"), role |-> "billing" ] }

\* Offices, practices, grades, the habilitation, the firm, and the default rate of each grade.
SeededUnreadRows == 4 + 5 + 4 + 1 + 1 + 4

\* The fifteenth of June 2026.
SeedTimestamp == << 1, 158, 200, 147, 244, 0 >>

=============================================================================
