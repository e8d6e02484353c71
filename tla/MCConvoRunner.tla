----------------------------- MODULE MCConvoRunner -----------------------------
(* Two agents.  The first one's flow asks two questions, tags, routes to another *)
(* node, to a transfer that text cuts out, or hands over to the second agent,    *)
(* whose flow, once it has one, ends, continues or hands back.                   *)
EXTENDS ConvoRunner, TLC

CONSTANTS a1, a2, asks, plain, ends, f1, f2, vip, t1, t2

X(must, cant, to) == [name |-> to, to |-> to, must |-> must, cant |-> cant]
Goal(k, field, required, attempts, parts) ==
  [key |-> k, field |-> field, required |-> required, ifKnown |-> TRUE,
   attempts |-> attempts, parts |-> parts]

Base == [id |-> "", kind |-> "agent", block |-> TRUE, channels |-> {}, exits |-> <<>>,
         objectives |-> <<>>, closing |-> "no", writes |-> {}, adds |-> {}, removes |-> {}, to |-> a2]

N(id, kind, exits) == [Base EXCEPT !.id = id, !.kind = kind, !.exits = exits]

Asks == [entry |-> "start", scenarios |-> <<>>, nodes |-> <<
  [N("start", "agent", <<X({}, {vip}, "tag"), X({vip}, {}, "bye")>>) EXCEPT
     !.objectives = <<Goal("name", f1, TRUE, 1, <<>>), Goal("mail", f2, TRUE, 1, <<>>),
                      Goal("both", None, TRUE, 0, <<"name", "mail">>)>>],
  [N("tag", "modify_tags", <<X({}, {}, "which")>>) EXCEPT !.adds = {vip}],
  N("which", "router", <<X({}, {}, "give"), X({vip}, {}, "more"), X({}, {vip}, "bye"),
                         X({}, {}, "note")>>),
  [N("more", "agent", <<X({}, {}, "call")>>) EXCEPT
     !.objectives = <<Goal("again", f1, TRUE, 0, <<>>)>>],
  [N("call", "transfer", <<X({}, {}, "bye")>>) EXCEPT !.channels = {"voice"}],
  N("bye", "statement", <<X({}, {}, None)>>),
  [N("note", "set_field", <<X({}, {}, "call2")>>) EXCEPT !.writes = {f2}],
  N("call2", "transfer", <<>>),
  N("give", "handoff", <<>>)>>]

Ends == [entry |-> "chat", scenarios |-> <<>>, nodes |-> <<
  [N("chat", "agent", <<X({}, {}, "over")>>) EXCEPT !.objectives = <<Goal("any", f1, FALSE, 0, <<>>)>>],
  N("over", "router", <<X({}, {}, None), X({}, {}, "back")>>),
  [N("back", "handoff", <<>>) EXCEPT !.to = a1]>>]

MCFlowOf == [c \in Config |-> IF c = asks THEN Asks ELSE IF c = ends THEN Ends ELSE None]
MCInitially == [a \in Agent |-> IF a = a1 THEN <<asks>> ELSE <<plain>>]
Symmetric == Permutations(Request)
MCSlug(x) == x
=============================================================================
