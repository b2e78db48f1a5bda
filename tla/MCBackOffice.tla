---------------------------- MODULE MCBackOffice ----------------------------
(* A store with one flagged printer, an operator signed in, and a second     *)
(* tenant to be made or deleted; each budget is a different mix of calls.    *)
EXTENDS BackOffice, TLC

Empty == [tenants |-> << >>, locs |-> << >>, printers |-> << >>, channels |-> << >>, ops |-> << >>, tokens |-> << >>,
          opLocs |-> {}, ipLog |-> << >>, next |-> 1]

(* Tenant 1 with location 2 and printer 3, operator 4 with sign-in 5.        *)
MCOpening ==
    AddOperatorLocations(
        CreateOperatorToken(
            CreateOperator(
                SetPrinterReceipt(CreatePrinter(CreateLocation(CreateTenant(Empty, "ann", 7), 1), 2, 1, "ip1", NONE), 3),
                "bob"),
            4, TRUE, 1),
        4, {2})

Symmetry == Permutations(Callers)

None == [printer |-> 0, location |-> 0, backfill |-> 0, tenant |-> 0, access |-> 0, ask |-> 0, login |-> 0, session |-> 0, tick |-> 0]

MCLogins == {<<"store", "ann">>, <<"token", "bob">>, <<"channel", "bob">>, <<"channel", "cy">>}

MCBudgets ==
    {[None EXCEPT !.printer = 3],
     [None EXCEPT !.printer = 1, !.location = 1],
     [None EXCEPT !.location = 2, !.backfill = 1],
     [None EXCEPT !.printer = 1, !.tenant = 2, !.session = 1, !.tick = 2],
     [None EXCEPT !.ask = 3, !.tenant = 1],
     [None EXCEPT !.access = 2, !.ask = 1, !.tick = 2],
     [None EXCEPT !.login = 4, !.tick = 2]}

=============================================================================
