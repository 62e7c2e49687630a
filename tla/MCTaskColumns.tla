----------------------------- MODULE MCTaskColumns -----------------------------
EXTENDS TaskColumns

CONSTANTS num, content, description, s1

(* Two published views, one with a width that the page would not accept. *)
OrderMC == <<num, content, description>>
PublishedMC ==
    [v \in Views |->
       CASE v = 1 -> [order |-> OrderMC, shown |-> {num}, sift |-> s1,
                      width |-> [Unsized EXCEPT ![num] = 20]]
         [] v = 2 -> [order |-> OrderMC, shown |-> {num, content}, sift |-> s1,
                      width |-> Unsized]
         [] OTHER -> Nil]
===============================================================================
