---------------------------- MODULE MCFlowCursor ----------------------------
(* Model checking of FlowCursor over documents of four nodes: an Entry, two  *)
(* nodes of any type with the edges their type can use, and a hangup Tool.   *)
EXTENDS FlowCursor, TLC

CONSTANTS n1, n2, n3, n4, sales, ghost

One(E) == {{}} \cup {{e} : e \in E}
NoPolicy == [has |-> FALSE, set |-> FALSE, max |-> 0, unclear |-> "none"]
Policy(set, m, u) == [has |-> TRUE, set |-> set, max |-> m, unclear |-> u]

\* What one node brings: its type, out-edges and attributes.
Shapes(n) ==
  LET edge(t, k, i) == [from |-> n, to |-> t, kind |-> k, intent |-> i]
      mk(ty, E, p, b, i, r) == [type |-> ty, edges |-> E, prompt |-> p, bound |-> b,
                                intent |-> i, repair |-> r]
      plain(ty, E) == mk(ty, E, "none", FALSE, NoIntent, NoPolicy)
      options == {edge(t, "option", i) : t \in {n2, n3}, i \in {sales, ghost}}
                   \cup {edge(n4, "option", NoIntent)}
      repairs == {edge(n2, "repair", NoIntent), edge(n4, "repair", NoIntent)}
  IN {plain("Speak", E) : E \in One({edge(t, "next", NoIntent) : t \in Nodes})}
     \cup {mk("Speak", {}, "missing", FALSE, NoIntent, NoPolicy)}
     \cup {mk(ty, E \cup R, "none", FALSE, NoIntent, p) :
             ty \in Listening, E \in One(options), R \in One(repairs),
             p \in {NoPolicy, Policy(TRUE, -1, "none"), Policy(TRUE, 1, "ok"),
                    Policy(TRUE, 1, "missing")}}
     \cup {mk("Inform", E \cup R, "none", b, NoIntent, NoPolicy) :
             E \in One({edge(t, "next", NoIntent) : t \in {n2, n3}}), R \in One(repairs),
             b \in BOOLEAN}
     \cup {mk("transfer", E, "ok", FALSE, i, NoPolicy) :
             E \in One({edge(n, "next", sales)}), i \in {NoIntent, sales, ghost}}
     \cup {plain(ty, {}) : ty \in {"End", "Decide", "ListenSlot"}}

Document(s2, s3, first, closing) ==
  [entry |-> n1,
   type |-> n1 :> "Entry" @@ n2 :> s2.type @@ n3 :> s3.type @@ n4 :> "hangup",
   edges |-> s2.edges \cup s3.edges \cup
             {[from |-> n1, to |-> t, kind |-> "next", intent |-> NoIntent] : t \in first},
   prompt |-> n1 :> "none" @@ n2 :> s2.prompt @@ n3 :> s3.prompt @@ n4 :> closing,
   bound |-> n2 :> s2.bound @@ n3 :> s3.bound @@ [n \in {n1, n4} |-> FALSE],
   intent |-> n2 :> s2.intent @@ n3 :> s3.intent @@ [n \in {n1, n4} |-> NoIntent],
   repair |-> n2 :> s2.repair @@ n3 :> s3.repair @@ [n \in {n1, n4} |-> NoPolicy],
   matrix |-> {sales}]

Ending(n) == {s \in Shapes(n) : s.type = "End"}

\* The default number of retries, an ambiguous Entry, an unresolved closing.
Corners ==
  {Document([s EXCEPT !.repair = Policy(FALSE, 0, "none")], e, {n2}, "ok") :
      s \in {x \in Shapes(n2) : x.type \in Listening}, e \in Ending(n3)}
  \cup {Document(s, e, first, "ok") :
      s \in Ending(n2), e \in Ending(n3), first \in {{}, {n2, n3}}}
  \cup {Document(s, e, {n4}, "missing") : s \in Ending(n2), e \in Ending(n3)}

MCDocs == {Document(s2, s3, {n2}, "ok") : s2 \in Shapes(n2), s3 \in Shapes(n3)} \cup Corners
=============================================================================
