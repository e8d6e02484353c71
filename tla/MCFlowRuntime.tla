--------------------------- MODULE MCFlowRuntime ---------------------------
(* Two flows.  A collects data: its judge goes on to the first of two routers
   that may send the call round, through a simulated transfer or a statement to B,
   to a warm or a cold transfer, where both are cold ones, or to an agent without a
   flow; its model may leave through "wrong number".  The simulated transfer leads
   back to the routers, so that it may meet another transfer, which is dropped.  B
   may tag the contact, which opens its way to the handoff; D is the other flow: it
   ends the call itself, hands back, which is one handoff too many, or starts a warm
   transfer as a tool does, whose failure says goodbye.  One scenario parks the
   contact, another transfers it. *)
EXTENDS FlowRuntime

CONSTANTS A, B, D, router, second, tagger, bye, said, simulated, warm, cold, hand, back,
          plain, stop, none, single, seen

MCNode == {A, B, D, router, second, tagger, bye, said, simulated, warm, cold, hand, back,
           plain, stop}
Exit(to) == [to |-> to, must |-> {}, cant |-> {}]
MCKind ==
  [n \in MCNode |->
    CASE n \in {A, B, D} -> "agent"
      [] n \in {router, second} -> "router"
      [] n \in {bye, said} -> "statement"
      [] n = tagger -> "write"
      [] n \in {simulated, warm, cold} -> "transfer"
      [] n \in {hand, back, plain} -> "handoff"
      [] n = stop -> "stop"]
MCExits ==
  [n \in MCNode |->
    CASE n = A -> <<Exit(router), Exit(bye)>>
      [] n = B -> <<[to |-> hand, must |-> {seen}, cant |-> {}],
                    [to |-> tagger, must |-> {}, cant |-> {seen}]>>
      [] n = D -> <<Exit(back), Exit(warm)>>
      [] n = router -> <<Exit(second), Exit(simulated)>>
      [] n = second -> <<Exit(router), Exit(warm), Exit(cold), Exit(said), Exit(plain)>>
      [] n = simulated -> <<Exit(second)>>
      [] n \in {said, tagger} -> <<Exit(B)>>
      [] OTHER -> <<>>]
MCAdds     == [n \in MCNode |-> IF n = tagger THEN {seen} ELSE {}]
MCRemoves  == [n \in MCNode |-> {}]
MCMode     == [n \in MCNode |-> IF n = warm THEN "warm" ELSE IF n = cold THEN "cold" ELSE "simulated"]
MCFailed   == [n \in MCNode |-> IF n = warm THEN bye ELSE none]
MCTarget   == [n \in MCNode |-> IF n = hand THEN D ELSE IF n = plain THEN single ELSE A]
=============================================================================
