----------------------------- MODULE MCTaskFilters -----------------------------
EXTENDS TaskFilters, TLC

CONSTANTS c1, c2, c3, todo, shut, red, ana, bob, none

OptionsMC == "status" :> {todo, shut} @@ "flag" :> {red} @@ "assignee" :> {ana, bob, none}
CarriesMC == c1 :> ("status" :> {todo} @@ "flag" :> {red} @@ "assignee" :> {ana})
             @@ c2 :> ("status" :> {shut} @@ "flag" :> {} @@ "assignee" :> {none})
             @@ c3 :> ("status" :> {todo} @@ "flag" :> {} @@ "assignee" :> {none})
DayMC == c1 :> 1 @@ c2 :> 2 @@ c3 :> Unset
===============================================================================
