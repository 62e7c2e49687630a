-------------------------------- MODULE MCTaskMovePlan --------------------------
EXTENDS TaskMovePlan, TLC

CONSTANTS pa, pb, j1, j2, k1, r1, a1, a2, b1, b2, f1, f2, g1, n1, n2, nn, u1, u2

Labels == pa :> ("todo" :> "Todo" @@ "done" :> "Done")
          @@ pb :> ("todo" :> "Done" @@ "open" :> "New")
First == pa :> "todo" @@ pb :> "open"

MoveDb(people, second, worn, said) ==
    [job |-> j1 :> [site |-> pa, stage |-> "todo", assignee |-> a2, requester |-> a1,
                    badges |-> {f1, f2}]
             @@ j2 :> [site |-> pa, stage |-> "done", assignee |-> Blank, requester |-> Blank,
                       badges |-> {}],
     piece |-> k1 :> [job |-> j1, site |-> pa, assignee |-> a2, badges |-> worn],
     remark |-> r1 :> said,
     bonds |-> {{j1, j2}},
     staff |-> people,
     badge |-> f1 :> [site |-> pa, name |-> n1] @@ f2 :> [site |-> pa, name |-> second]
               @@ g1 :> [site |-> pb, name |-> n1],
     readonly |-> {}, stages |-> pa :> {"todo", "done"} @@ pb :> {"todo", "open"},
     archived |-> {}]

Row(site, user, name) == [site |-> site, user |-> user, name |-> name]

(* Users, found by the account whatever the name, one of whom has made a      *)
(* comment; a member who is no user, found by the name, though a user of that *)
(* name is there as well; and a member and a flag without a name, which find  *)
(* nobody and nothing, though there is another without one.                   *)
MoveSeedsMC ==
    {MoveDb(a1 :> Row(pa, u1, n1) @@ a2 :> Row(pa, u2, n2)
            @@ b1 :> Row(pb, u1, n2) @@ b2 :> Row(pb, u2, n1), n2, {f1, f2},
            [job |-> j1, site |-> pa, author |-> a2]),
     MoveDb(a1 :> Row(pa, u1, n1) @@ a2 :> Row(pa, Blank, n2)
            @@ b1 :> Row(pb, u1, n2) @@ b2 :> Row(pb, Blank, n2), n2, {f1}, Blank),
     [MoveDb(a1 :> Row(pa, u1, n1) @@ a2 :> Row(pa, Blank, nn)
             @@ b1 :> Row(pb, u1, n2) @@ b2 :> Row(pb, Blank, nn), nn, {f2}, Blank)
      EXCEPT !.job[j1].requester = a2]}
===============================================================================
