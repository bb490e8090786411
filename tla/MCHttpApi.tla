----------------------------- MODULE MCHttpApi -----------------------------
(* Instance of HttpApi for TLC: each scenario puts two admin calls against *)
(* two clients, so that the races of one component are met at a time.      *)
EXTENDS HttpApi

CONSTANTS r1, r2, a1, a2, base1, base2, lora1, lora2, cheap, dear

Nothing == [s \in Stages |-> NoRow]
PlainRow(base, adapter, enabled, percent) ==
    [base |-> base, adapter |-> adapter, enabled |-> enabled, canary |-> percent]

Duties(d1, d2) == [a \in Admins |-> IF a = a1 THEN d1 ELSE d2]
Rest == [kind |-> "rest"]
Revoke == [kind |-> "revoke"]
Upsert(stage, row) == [kind |-> "upsert", stage |-> stage, row |-> row]

Asking(endpoints, credentials) == [endpoint : endpoints, credential : credentials]

Plain ==
    [authRequired |-> TRUE, clients |-> Requests, principal |-> [status |-> "active", scopes |-> {"*"}],
     keyRow |-> "active", routes |-> Nothing, preferences |-> {},
     tariff |-> {}, day |-> MaxDay, asks |-> Asking({"other"}, {"key"}), duties |-> Duties(Rest, Rest)]

Both(p, s) == [Nothing EXCEPT !["Production"] = p, !["Staging"] = s]

P1 == PlainRow(base1, lora1, TRUE, 0)
P2 == PlainRow(base1, lora2, TRUE, 0)
P3 == PlainRow(base2, lora1, TRUE, 0)
S1 == PlainRow(base2, lora2, TRUE, 50)
S0 == PlainRow(base2, lora2, TRUE, 0)

KeyScenarios ==
    {[Plain EXCEPT !.duties = Duties(Revoke, Revoke)],
     [Plain EXCEPT !.keyRow = "absent", !.duties = Duties([kind |-> "create"], Revoke)]}
    \union
    {[Plain EXCEPT !.principal = [status |-> "active", scopes |-> {"admin:read"}],
          !.asks = Asking({"health", "admin_read", "admin_write"},
                          {"none", "malformed", "key"})],
     [Plain EXCEPT !.principal = [status |-> "suspended", scopes |-> {"*"}],
          !.asks = Asking({"chat", "embeddings"}, {"key"})]}

RouteScenario(rows, d1, d2) ==
    [Plain EXCEPT !.authRequired = FALSE, !.clients = {r1}, !.routes = rows,
                  !.duties = Duties(d1, d2),
                  !.preferences = {"any", "Staging"}, !.asks = Asking({"chat"}, {"none"})]

RouteScenarios ==
    {RouteScenario(Both(P1, S1), Upsert("Production", P2), Upsert("Production", P3)),
     RouteScenario(Both(Disabled(P1), S0), Upsert("Production", P3),
                   [kind |-> "disable", stage |-> "Staging"]),
     RouteScenario(Both(P1, NoRow), Upsert("Staging", S1),
                   [kind |-> "disable", stage |-> "Production"]),
     RouteScenario(Nothing, Upsert("Production", P1), Upsert("Production", P2))}

Price(from, price) == [kind |-> "price", from |-> from, price |-> price]
PriceScenario(rows, d1, d2) ==
    [Plain EXCEPT !.authRequired = FALSE, !.asks = Asking({"chat"}, {"none"}),
                  !.day = 0, !.tariff = rows, !.duties = Duties(d1, d2)]

PriceScenarios ==
    {PriceScenario({[from |-> 0, price |-> cheap]}, Price(0, dear), Price(1, dear)),
     PriceScenario({[from |-> 0, price |-> cheap]}, Price(1, dear), Rest),
     PriceScenario({}, Price(1, cheap), Price(1, dear))}

MCScenarios == KeyScenarios \union RouteScenarios \union PriceScenarios
=============================================================================
