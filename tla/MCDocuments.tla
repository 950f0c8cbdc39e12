---------------------------- MODULE MCDocuments -----------------------------
(***************************************************************************)
(* A small instance of Documents for TLC: the years of the holiday table   *)
(* and the turns of four centuries walked day by day, and the months of    *)
(* December 2019 and January 2020 drafted, issued and cancelled up to the  *)
(* leap day that follows.                                                  *)
(***************************************************************************)
EXTENDS Documents

CONSTANTS bank, island, union, private, audit, review, soc, iam, kyc, grc, gone, henri, claire

Window(from, number, day, days) ==
    [ from |-> from, dayNumber |-> number, weekday |-> day, days |-> days ]

Walks == { Window(Date(2016, 1, 1), 16801, 5, 4382),
           Window(Date(1899, 12, 25), -25574, 1, 80),
           Window(Date(2000, 2, 20), 11007, 7, 20),
           Window(Date(2100, 2, 20), 47532, 6, 20),
           Window(Date(2400, 2, 20), 157104, 7, 20) }

Days == { Date(2019, 12, 31), Date(2020, 1, 1), Date(2020, 1, 31), Date(2020, 2, 29) }

Client(territoriality, vatNumber) ==
    [ territoriality |-> territoriality, vatNumber |-> vatNumber ]

FourClients == bank    :> Client("overseasWithVat", FALSE)
            @@ island  :> Client("overseasOutsideVatScope", FALSE)
            @@ union   :> Client("europeanUnion", TRUE)
            @@ private :> Client("europeanUnion", FALSE)

Mission(client, regie) == [ client |-> client, regie |-> regie ]

\* Two missions for one client, one for each of the others, and one sold as a whole.
SixMissions == audit  :> Mission(bank, TRUE)
            @@ review :> Mission(bank, TRUE)
            @@ soc    :> Mission(island, TRUE)
            @@ iam    :> Mission(union, TRUE)
            @@ kyc    :> Mission(private, TRUE)
            @@ grc    :> Mission(union, FALSE)

Rate(from, to, value) == [ from |-> from, to |-> to, value |-> value ]

Steady == << Rate(Date(2019, 1, 1), None, 40400) >>

\* Renegotiated on the last day of January.
Renegotiated == << Rate(Date(2020, 1, 31), None, 40400),
                   Rate(Date(2019, 1, 1), Date(2020, 1, 30), 40100) >>

Agreed(auditRates) ==
    [ mission \in DOMAIN SixMissions |-> IF mission = audit THEN auditRates ELSE Steady ]

Work(mission, quarterDays) == [ mission |-> mission, quarterDays |-> quarterDays ]

December == [ year |-> 2019, month |-> 12 ]
January  == [ year |-> 2020, month |-> 1 ]

Month(period, worked, terms, rates) ==
    [ period |-> period, worked |-> worked, terms |-> terms, rates |-> Agreed(rates),
      earlyPayment |-> IF terms.kind = "net" THEN [ kind |-> "rate", basisPoints |-> 50 ]
                       ELSE [ kind |-> "none" ],
      validatedBy |-> claire ]

Net(days)        == [ kind |-> "net", days |-> days ]
EndOfMonthIn(days) == [ kind |-> "endOfMonth", days |-> days ]

\* Two lines that each tie at 8.5 %, one client the tax does not reach, and work declined.
FullMonth == << Work(audit, 1), Work(grc, 2), Work(review, 1), Work(soc, 3), Work(gone, 1) >>

Abroad == << Work(iam, 3), Work(kyc, 1) >>

Bounds == { Date(2019, 12, 30), Date(2020, 1, 15), Date(2020, 1, 31) }

\* Every history of two agreed rates on these bounds, and one of three.
Histories ==
    { << Rate(from1, to1, 40000), Rate(from2, to2, 50000) >> :
        from1 \in Bounds, from2 \in Bounds, to1 \in Bounds \cup {None}, to2 \in Bounds \cup {None} }
    \cup { << Rate(Date(2020, 1, 31), None, 40400), Rate(Date(2019, 1, 1), Date(2019, 12, 30), 40100),
              Rate(Date(2019, 12, 31), Date(2020, 1, 30), 40200) >>,
           << Rate(Date(2019, 1, 1), None, 40150) >>, << >> }

SomeEvents ==
    { Month(period, FullMonth, terms, Renegotiated) :
        period \in {December, January},
        terms \in {Net(0), Net(60), EndOfMonthIn(30), EndOfMonthIn(45)} }
    \cup { Month(January, Abroad, EndOfMonthIn(30), Renegotiated) }
    \cup { Month(period, << Work(audit, 5) >>, Net(30), history) :
             period \in {December, January}, history \in Histories }

=============================================================================
